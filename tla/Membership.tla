------------------------------ MODULE Membership ------------------------------
(***************************************************************************)
(* Users, roles and invites of organizations: OrgService, TeamService and   *)
(* InviteService (agentcost/org) under the routes of org/routes.py, and the *)
(* provisioning of users at login (auth/routes.py).  Every database call is *)
(* a step; a request reads, decides, writes in a later call, and its route  *)
(* then appends to the audit trail (the chain itself is module AuditLog).   *)
(* A person is an email: users.email is UNIQUE over all organizations.      *)
(* Authority comes from the claims of the token, not from the users table.  *)
(* A worker is a process that serves requests; the handlers have no await.  *)
(***************************************************************************)
EXTENDS Naturals, FiniteSets

CONSTANTS Workers, People, Orgs, Invites,
          Claims,      \* Claims[p]: organization and role in p's token
          Seeded,      \* people whose row has their token's sub as its id
          GivenRoles,  \* roles that requests ask for
          Expiry,      \* INVITE_EXPIRY_DAYS, in ticks
          MaxTime,     \* bound on the clock
          MayCrash,    \* whether a worker may die between two steps
          None

AdminRoles == {"org_admin", "platform_admin"}
Roles == AdminRoles \cup {"org_member"}

ASSUME MembershipAssumption ==
    /\ Claims \in [People -> [org : Orgs, role : Roles]]
    /\ Seeded \subseteq People
    /\ GivenRoles \subseteq Roles
    /\ Expiry \in Nat
    /\ MaxTime \in Nat
    /\ MayCrash \in BOOLEAN
    /\ None \notin Orgs \cup People \cup Invites

VARIABLES users,      \* users[p]: the row with email p
          invites,    \* invites[i]: the row with id i
          call,       \* call[w]: the request w serves
          founded,    \* organizations that have or had rows
          trail,      \* audited: <<what, organization, person>>
          now,
          disturbed,  \* history: organizations, <<organization, email>> and
                      \* invites whose calls overlapped, or died half-way
          emptied,    \* history: organizations create_org or delete_org reached
          joined,     \* history: invites through which a user row was inserted
          resent      \* history: invites that were resent

tables == <<users, invites, founded, trail>>
history == <<disturbed, emptied, joined, resent>>
mvars == <<tables, history, call, now>>

NoRow == [org |-> None, role |-> "org_member", own |-> FALSE]
Row(o, r) == [org |-> o, role |-> r, own |-> FALSE]
NoInvite == [st |-> "none", org |-> None, email |-> None, role |-> "org_member", exp |-> 0]
Idle == [op |-> "none", at |-> "idle", org |-> None, actor |-> None, p |-> None,
         todo |-> {}, role |-> "org_member", gone |-> FALSE]

Changes == {"role", "remove", "leave"}
Ops == Changes \cup {"invite", "accept", "revoke", "list", "create_org", "delete_org"}
Steps == {"idle", "count", "write", "pending", "insert", "mark", "mark_only",
          "expire", "revoke", "users", "audit"}
Statuses == {"none", "pending", "accepted", "expired", "revoked", "deleted"}
Someone == People \cup {None}
Somewhere == Orgs \cup {None}

MembershipTypeOK ==
    /\ users \in [People -> [org : Somewhere, role : Roles, own : BOOLEAN]]
    /\ invites \in [Invites -> [st : Statuses, org : Somewhere, email : Someone,
                                role : Roles, exp : Nat]]
    /\ call \in [Workers -> [op : Ops \cup {"none"}, at : Steps, org : Somewhere,
                             actor : Someone, p : Someone, todo : SUBSET Invites,
                             role : Roles, gone : BOOLEAN]]
    /\ founded \subseteq Orgs
    /\ trail \subseteq Ops \X Orgs \X People
    /\ now \in 0 .. MaxTime
    /\ disturbed \subseteq Orgs \cup (Orgs \X People) \cup Invites
    /\ emptied \subseteq Orgs
    /\ joined \subseteq Invites
    /\ resent \subseteq Invites

IsAdmin(role) == role \in AdminRoles
AdminsOf(u, o) == {p \in People : u[p].org = o /\ IsAdmin(u[p].role)}
Admins(o) == AdminsOf(users, o)
Member(p, o) == users[p].org = o

Level(role) == CASE role = "org_member" -> 20
                 [] role = "org_admin" -> 40
                 [] role = "platform_admin" -> 100
Authority(p) == Level(Claims[p].role)
MayManage(p) == Authority(p) >= Level("org_admin")

MembershipInit ==
    /\ users = [p \in People |->
                  IF p \in Seeded
                  THEN [org |-> Claims[p].org, role |-> Claims[p].role, own |-> TRUE]
                  ELSE NoRow]
    /\ invites = [i \in Invites |-> NoInvite]
    /\ call = [w \in Workers |-> Idle]
    /\ founded = {Claims[p].org : p \in Seeded}
    /\ trail = {}
    /\ now = 0
    /\ disturbed = {} /\ emptied = {} /\ joined = {} /\ resent = {}

IsIdle(w) == call[w] = Idle
Becomes(w, c) == call' = [call EXCEPT ![w] = c]
Goes(w, step) == Becomes(w, [call[w] EXCEPT !.at = step])
Request(op, step, o, actor, p) ==
    [Idle EXCEPT !.op = op, !.at = step, !.org = o, !.actor = actor, !.p = p]

\* A row of the users table that is deleted takes its id with it: a request
\* that already looked the id up will write to no row.
Deleted(calls, gone) ==
    [w \in Workers |->
       IF calls[w].op \in Changes /\ calls[w].p \in gone /\ calls[w].at \in {"count", "write"}
       THEN [calls[w] EXCEPT !.gone = TRUE] ELSE calls[w]]

-----------------------------------------------------------------------------
(* Users: provisioning, roles, removal.                                     *)

\* _auto_provision and _resolve_user_id: a person without a row gets one with
\* the claims of the token; an INSERT that meets a row with the same email
\* fails, and the error is only logged.
Provisioned(p) ==
    IF users[p] = NoRow
    THEN [users EXCEPT ![p] = Row(Claims[p].org, Claims[p].role)]
    ELSE users

Login(p) ==
    /\ users' = Provisioned(p)
    /\ founded' = founded \cup {Claims[p].org}
    /\ UNCHANGED <<invites, trail, history, call, now>>

\* create_org, platform admins only: the creator's row moves to the new
\* organization (ON CONFLICT (email) DO UPDATE), wherever it was.
CreateOrg(w, actor, o) ==
    /\ IsIdle(w)
    /\ Claims[actor].role = "platform_admin"
    /\ o \notin founded
    /\ users' = [users EXCEPT ![actor] = [@ EXCEPT !.org = o, !.role = "org_admin"]]
    /\ founded' = founded \cup {o}
    /\ emptied' = emptied \cup ({users[actor].org} \ {None})
    /\ Becomes(w, Request("create_org", "audit", o, actor, actor))
    /\ UNCHANGED <<invites, trail, disturbed, joined, resent, now>>

ChangingIn(o) == \E w \in Workers : call[w].op \in Changes /\ call[w].org = o
                                    /\ call[w].at \in {"count", "write"}

\* "Cannot change your own role": compares the id of the row with the sub of
\* the token, which differ for every row the server inserted itself.
IsSelf(actor, p) == p = actor /\ users[p].own

AllowedChange(op, actor, p, role) ==
    CASE op = "role" -> /\ MayManage(actor)
                        /\ ~IsSelf(actor, p)
                        /\ Claims[actor].role = "platform_admin"
                             \/ Level(role) <= Authority(actor)
      [] op = "remove" -> MayManage(actor) /\ ~IsSelf(actor, p)
      [] op = "leave" -> IsSelf(actor, p)

CostsAnAdmin(op, old, role) == IsAdmin(old) /\ (op = "role" => ~IsAdmin(role))

\* update_role, remove_member, leave_org up to the read of the member's row.
StartChange(w, op, actor, p, role) ==
    LET o == Claims[actor].org
        c == [Request(op, "write", o, actor, p) EXCEPT !.role = role] IN
    /\ IsIdle(w)
    /\ AllowedChange(op, actor, p, role)
    /\ Member(p, o)
    /\ Becomes(w, IF CostsAnAdmin(op, users[p].role, role)
                  THEN [c EXCEPT !.at = "count"] ELSE c)
    /\ disturbed' = IF ChangingIn(o) THEN disturbed \cup {o} ELSE disturbed
    /\ UNCHANGED <<tables, emptied, joined, resent, now>>

MutAtLeastOne(n) == n >= 1
EnoughAdmins(n) == n > 1

CountAdmins(w) ==
    LET c == call[w] IN
    /\ c.at = "count"
    /\ IF EnoughAdmins(Cardinality(Admins(c.org))) THEN Goes(w, "write")
                                                   ELSE Becomes(w, Idle)
    /\ UNCHANGED <<tables, history, now>>

\* UPDATE / DELETE ... WHERE id = ? AND org_id = ?
WriteChange(w) ==
    LET c == call[w]
        hit == ~c.gone /\ Member(c.p, c.org) IN
    /\ c.at = "write"
    /\ users' = IF ~hit THEN users
                ELSE IF c.op = "role" THEN [users EXCEPT ![c.p].role = c.role]
                ELSE [users EXCEPT ![c.p] = NoRow]
    /\ call' = Deleted([call EXCEPT ![w] = [c EXCEPT !.at = "audit"]],
                       IF hit /\ c.op # "role" THEN {c.p} ELSE {})
    /\ UNCHANGED <<invites, founded, trail, history, now>>

\* The route appends what it did to the audit trail; for an invite it first
\* resolves the caller's id once more.
Audit(w) ==
    LET c == call[w] IN
    /\ c.at = "audit"
    /\ trail' = trail \cup {<<c.op, c.org, c.p>>}
    /\ users' = IF c.op = "invite" THEN Provisioned(c.actor) ELSE users
    /\ Becomes(w, Idle)
    /\ UNCHANGED <<invites, founded, history, now>>

-----------------------------------------------------------------------------
(* Invites.                                                                 *)

IsPending(i) == invites[i].st = "pending"
Exists(i) == invites[i].st \notin {"none", "deleted"}
PendingFor(p, o) == {i \in Invites : IsPending(i) /\ invites[i].email = p /\ invites[i].org = o}
PastExpiry(i) == invites[i].exp < now

InvitingTo(p, o) == \E w \in Workers : call[w].op = "invite" /\ call[w].p = p
                                       /\ call[w].org = o /\ call[w].at # "audit"
InUse(i) == \E w \in Workers : i \in call[w].todo
Touched(S) == disturbed' = disturbed \cup {i \in S : InUse(i)}

\* create_invite: provision the caller, then look for a member of that email.
StartInvite(w, actor, p, role) ==
    LET o == Claims[actor].org
        isMember == Provisioned(actor)[p].org = o IN
    /\ IsIdle(w)
    /\ MayManage(actor)
    /\ users' = Provisioned(actor)
    /\ founded' = founded \cup {o}
    /\ IF isMember
       THEN UNCHANGED <<call, disturbed>>
       ELSE /\ Becomes(w, [Request("invite", "pending", o, actor, p) EXCEPT !.role = role])
            /\ disturbed' = IF InvitingTo(p, o) THEN disturbed \cup {<<o, p>>} ELSE disturbed
    /\ UNCHANGED <<invites, trail, emptied, joined, resent, now>>

MutAnyOrg(p, o) == FALSE
AlreadyInvited(p, o) == PendingFor(p, o) # {}

CheckPending(w) ==
    LET c == call[w] IN
    /\ c.at = "pending"
    /\ IF AlreadyInvited(c.p, c.org) THEN Becomes(w, Idle) ELSE Goes(w, "insert")
    /\ UNCHANGED <<tables, history, now>>

InsertInvite(w, i) ==
    LET c == call[w] IN
    /\ c.op = "invite" /\ c.at = "insert"
    /\ invites[i] = NoInvite
    /\ invites' = [invites EXCEPT ![i] = [st |-> "pending", org |-> c.org, email |-> c.p,
                                          role |-> c.role, exp |-> now + Expiry]]
    /\ Goes(w, "audit")
    /\ UNCHANGED <<users, founded, trail, history, now>>

\* accept_invite up to the reads: the status, the expiry, the email of the
\* token, and whether the person is a member already.
StartAccept(w, i, p) ==
    LET o == invites[i].org
        step == IF PastExpiry(i) THEN "expire"
                ELSE IF Member(p, o) THEN "mark_only" ELSE "insert" IN
    /\ IsIdle(w)
    /\ IsPending(i)
    /\ PastExpiry(i) \/ invites[i].email = p
    /\ Becomes(w, [Request("accept", step, o, p, p) EXCEPT !.todo = {i}, !.role = invites[i].role])
    /\ Touched({i})
    /\ UNCHANGED <<tables, emptied, joined, resent, now>>

\* INSERT INTO users; an existing row with this email is an error (HTTP 500).
InsertUser(w) ==
    LET c == call[w] IN
    /\ c.op = "accept" /\ c.at = "insert"
    /\ IF users[c.p] = NoRow
       THEN /\ users' = [users EXCEPT ![c.p] = Row(c.org, c.role)]
            /\ joined' = joined \cup c.todo
            /\ Goes(w, "mark")
       ELSE Becomes(w, Idle) /\ UNCHANGED <<users, joined>>
    /\ UNCHANGED <<invites, founded, trail, disturbed, emptied, resent, now>>

Marked(S, st) == [i \in Invites |-> IF i \in S /\ Exists(i)
                                    THEN [invites[i] EXCEPT !.st = st] ELSE invites[i]]

Accepted == "accepted"

\* UPDATE invites SET status = 'accepted': whatever the status is by now.
MarkAccepted(w) ==
    LET c == call[w] IN
    /\ c.at \in {"mark", "mark_only"}
    /\ invites' = Marked(c.todo, Accepted)
    /\ Becomes(w, IF c.at = "mark" THEN [c EXCEPT !.at = "audit"] ELSE Idle)
    /\ UNCHANGED <<users, founded, trail, history, now>>

\* list_invites reads the rows and expires those past their date one by one.
StartList(w, actor) ==
    LET late == {i \in Invites : /\ IsPending(i) /\ PastExpiry(i)
                                 /\ invites[i].org = Claims[actor].org} IN
    /\ IsIdle(w)
    /\ MayManage(actor)
    /\ late # {}
    /\ Becomes(w, [Request("list", "expire", Claims[actor].org, None, None)
                     EXCEPT !.todo = late])
    /\ Touched(late)
    /\ UNCHANGED <<tables, emptied, joined, resent, now>>

ExpireInvite(w, i) ==
    LET c == call[w] IN
    /\ c.at = "expire" /\ i \in c.todo
    /\ invites' = Marked({i}, "expired")
    /\ Becomes(w, IF c.todo = {i} THEN Idle ELSE [c EXCEPT !.todo = @ \ {i}])
    /\ UNCHANGED <<users, founded, trail, history, now>>

StartRevoke(w, i, actor) ==
    /\ IsIdle(w)
    /\ MayManage(actor)
    /\ IsPending(i) /\ invites[i].org = Claims[actor].org
    /\ Becomes(w, [Request("revoke", "revoke", invites[i].org, None, None)
                     EXCEPT !.todo = {i}])
    /\ Touched({i})
    /\ UNCHANGED <<tables, emptied, joined, resent, now>>

RevokeInvite(w) ==
    LET c == call[w] IN
    /\ c.at = "revoke"
    /\ invites' = Marked(c.todo, "revoked")
    /\ Becomes(w, Idle)
    /\ UNCHANGED <<users, founded, trail, history, now>>

\* resend_invite: the status is not looked at.
Resend(w, i, actor) ==
    /\ IsIdle(w)
    /\ MayManage(actor)
    /\ Exists(i) /\ invites[i].org = Claims[actor].org
    /\ invites' = [invites EXCEPT ![i].st = "pending", ![i].exp = now + Expiry]
    /\ resent' = resent \cup {i}
    /\ UNCHANGED <<users, founded, trail, disturbed, emptied, joined, call, now>>

-----------------------------------------------------------------------------
(* delete_org: the invites of the organization, then its users.             *)

DeleteInvites(w, o) ==
    /\ IsIdle(w)
    /\ o \in founded
    /\ invites' = [i \in Invites |-> IF invites[i].org = o
                                      THEN [invites[i] EXCEPT !.st = "deleted"]
                                      ELSE invites[i]]
    /\ emptied' = emptied \cup {o}
    /\ Becomes(w, Request("delete_org", "users", o, None, None))
    /\ UNCHANGED <<users, founded, trail, disturbed, joined, resent, now>>

DeleteUsers(w) ==
    LET c == call[w]
        rows == {p \in People : Member(p, c.org)} IN
    /\ c.at = "users"
    /\ users' = [p \in People |-> IF p \in rows THEN NoRow ELSE users[p]]
    /\ call' = Deleted([call EXCEPT ![w] = Idle], rows)
    /\ UNCHANGED <<invites, founded, trail, history, now>>

\* A worker dies: what its request wrote stays, the rest never happens.
Crash(w) ==
    LET c == call[w] IN
    /\ MayCrash
    /\ c.at # "idle"
    /\ Becomes(w, Idle)
    /\ disturbed' = disturbed \cup c.todo
    /\ UNCHANGED <<tables, emptied, joined, resent, now>>

Tick ==
    /\ now < MaxTime
    /\ now' = now + 1
    /\ UNCHANGED <<tables, history, call>>

TeamStep(w) ==
    \/ \E op \in Changes, actor, p \in People, role \in GivenRoles :
         StartChange(w, op, actor, p, role)
    \/ CountAdmins(w) \/ WriteChange(w) \/ Audit(w)
    \/ \E actor \in People, o \in Orgs : CreateOrg(w, actor, o)
    \/ \E o \in Orgs : DeleteInvites(w, o)
    \/ DeleteUsers(w)

InviteStep(w) ==
    \/ \E actor, p \in People, role \in GivenRoles : StartInvite(w, actor, p, role)
    \/ CheckPending(w) \/ InsertUser(w) \/ MarkAccepted(w) \/ RevokeInvite(w)
    \/ \E i \in Invites : InsertInvite(w, i) \/ ExpireInvite(w, i)
    \/ \E i \in Invites, p \in People :
         StartAccept(w, i, p) \/ StartRevoke(w, i, p) \/ Resend(w, i, p)
    \/ \E p \in People : StartList(w, p)

MembershipNext ==
    \/ \E p \in People : Login(p)
    \/ \E w \in Workers : TeamStep(w) \/ InviteStep(w) \/ Crash(w)
    \/ Tick

MembershipSpec == MembershipInit /\ [][MembershipNext]_mvars

-----------------------------------------------------------------------------
\* "org must have at least one admin": an organization with an admin keeps one
\* for ever, as long as no two changes of its members overlap and neither
\* create_org nor delete_org takes its people away.  Logins, invites, requests
\* that die and changes in other organizations may interleave as they like.
AdminRemains ==
    [][\A o \in Orgs :
         Admins(o) # {} /\ o \notin disturbed' \cup emptied' => AdminsOf(users', o) # {}]_mvars

\* "Duplicate invites to same email are rejected": two invites of one email to
\* one organization are pending only if one was resent, or the two requests
\* that created them overlapped.
OnePending ==
    \A i, j \in Invites :
        i # j /\ IsPending(i) /\ j \in PendingFor(invites[i].email, invites[i].org) =>
            \/ i \in resent \/ j \in resent
            \/ <<invites[i].org, invites[i].email>> \in disturbed

\* "Accepting an invite creates a user record": an invite through which a user
\* came in ends up accepted, and in the audit trail, unless requests on it
\* overlapped, its request died half-way, or it was resent.
JoinedIsAccepted ==
    \A i \in joined :
        i \notin disturbed \cup resent /\ ~InUse(i) /\ Exists(i) =>
            /\ invites[i].st = "accepted"
            /\ <<"accept", invites[i].org, invites[i].email>> \in trail

InvitesConsistent == OnePending /\ JoinedIsAccepted
===============================================================================
