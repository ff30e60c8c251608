------------------------------ MODULE Approvals ------------------------------
(***************************************************************************)
(* ApprovalService (agentcost/policy/approval_service.py) and the routes    *)
(* that call it.  Every database call is one step; approve and deny read    *)
(* the request, and write its new status in a later call; the route then    *)
(* appends the decision to the audit trail.                                 *)
(*                                                                         *)
(* Workers are the processes and threads that serve requests.  The route    *)
(* handlers are `async def' without an await, so one uvicorn process runs   *)
(* them one at a time and is a single worker.  Context, reasons and unlock  *)
(* amounts are payload.                                                     *)
(***************************************************************************)
EXTENDS Naturals

CONSTANTS Workers,     \* processes serving the API
          Requests,    \* approval request ids (uuid4)
          Ttls,        \* values of expires_hours, in ticks
          MaxTime,     \* bound on the clock
          MayCrash,    \* whether a worker may die between two steps
          None

ASSUME ApprovalsAssumption ==
    /\ Ttls \subseteq Nat
    /\ MaxTime \in Nat
    /\ MayCrash \in BOOLEAN
    /\ None \notin Requests

VARIABLES status,    \* approval_requests.status, "none" before the INSERT
          expires,   \* approval_requests.expires_at
          trail,     \* decisions of a request in the audit log
          call,      \* call[w]: the decision w is in the middle of
          now        \* datetime.utcnow()

vars == <<status, expires, trail, call, now>>

Decisions == {"approved", "denied"}
Idle == [at |-> "idle", r |-> None, d |-> "approved"]
Calls == [at : {"write", "audit"}, r : Requests, d : Decisions] \cup {Idle}

TypeOK ==
    /\ status \in [Requests -> {"none", "pending", "expired"} \cup Decisions]
    /\ expires \in [Requests -> Nat]
    /\ trail \in [Requests -> SUBSET Decisions]
    /\ call \in [Workers -> Calls]
    /\ now \in 0 .. MaxTime

Init ==
    /\ status = [r \in Requests |-> "none"]
    /\ expires = [r \in Requests |-> 0]
    /\ trail = [r \in Requests |-> {}]
    /\ call = [w \in Workers |-> Idle]
    /\ now = 0

IsIdle(w) == call[w] = Idle

Create(w, r, ttl) ==
    /\ IsIdle(w)
    /\ status[r] = "none"
    /\ status' = [status EXCEPT ![r] = "pending"]
    /\ expires' = [expires EXCEPT ![r] = now + ttl]
    /\ UNCHANGED <<trail, call, now>>

MutAnyStatus(r) == status[r] # "none"
MayDecide(r) == status[r] = "pending"

AfterRead == "write"

\* approve / deny read the request; any other status is answered at once with
\* an error.  expires_at is not looked at.
ReadPending(w, r, d) ==
    /\ IsIdle(w)
    /\ MayDecide(r)
    /\ call' = [call EXCEPT ![w] = [at |-> AfterRead, r |-> r, d |-> d]]
    /\ UNCHANGED <<status, expires, trail, now>>

\* UPDATE approval_requests SET status ... WHERE id = ? AND org_id = ?
WriteDecision(w) ==
    LET c == call[w] IN
    /\ c.at = "write"
    /\ status' = [status EXCEPT ![c.r] = c.d]
    /\ call' = [call EXCEPT ![w] = [c EXCEPT !.at = "audit"]]
    /\ UNCHANGED <<expires, trail, now>>

MutNoAudit(t, d) == t
Logged(t, d) == t \cup {d}

\* The route appends to the audit log what it was asked to decide.
Audit(w) ==
    LET c == call[w] IN
    /\ c.at = "audit"
    /\ trail' = [trail EXCEPT ![c.r] = Logged(@, c.d)]
    /\ call' = [call EXCEPT ![w] = Idle]
    /\ UNCHANGED <<status, expires, now>>

MutUnfiltered(r) == status[r] # "none" /\ expires[r] < now
MutNotYetStale(r) == status[r] = "pending"
Stale(r) == status[r] = "pending" /\ expires[r] < now

\* _expire_stale, one UPDATE: runs only as the first call of list().
List(w) ==
    /\ IsIdle(w)
    /\ status' = [r \in Requests |-> IF Stale(r) THEN "expired" ELSE status[r]]
    /\ UNCHANGED <<expires, trail, call, now>>

Crash(w) ==
    /\ MayCrash
    /\ ~IsIdle(w)
    /\ call' = [call EXCEPT ![w] = Idle]
    /\ UNCHANGED <<status, expires, trail, now>>

Tick ==
    /\ now < MaxTime
    /\ now' = now + 1
    /\ UNCHANGED <<status, expires, trail, call>>

WorkerStep(w) ==
    \/ \E r \in Requests, ttl \in Ttls : Create(w, r, ttl)
    \/ \E r \in Requests, d \in Decisions : ReadPending(w, r, d)
    \/ WriteDecision(w)
    \/ Audit(w)
    \/ List(w)

Next == Tick \/ \E w \in Workers : WorkerStep(w) \/ Crash(w)

Spec == Init /\ [][Next]_vars

-----------------------------------------------------------------------------
(* Properties *)

InFlight(r) == \E w \in Workers : call[w].r = r
Final == {"expired"} \cup Decisions

\* The promise, as a refinement: pending, then decided or expired, then final.
\* approve and deny do not repeat their check in the UPDATE, so it takes a
\* single worker to keep it.
Lifecycle == INSTANCE ApprovalLifecycle WITH Requests <- Requests, status <- status
Promise == Lifecycle!Spec

\* With any number of workers a settled request stays as it is once every call
\* that saw it pending has ended; what a race can overturn is bounded by it.
SettledIsFinal ==
    [][\A r \in Requests :
          status[r] \in Final /\ ~InFlight(r) => status'[r] = status[r]]_vars

\* A request is "expired" only after its expires_at has passed.
ExpiredOnlyLate == \A r \in Requests : status[r] = "expired" => expires[r] < now

\* A decision that stands is in the audit trail once the calls on its request
\* have ended, provided no worker died after the UPDATE and before the log.
StandingDecisionAudited ==
    \A r \in Requests :
        status[r] \in Decisions /\ ~InFlight(r) => status[r] \in trail[r]

\* Nothing is decided that was never asked: a decision in the audit trail is
\* that of a request that has left "pending" for good.
AuditedIsSettled == \A r \in Requests : trail[r] # {} => status[r] \in Final
=============================================================================
