------------------------------- MODULE Policies --------------------------------
(***************************************************************************)
(* Policies of an organization (agentcost/policy/policy_service.py and       *)
(* routes.py) and the engine that decides requests by them (engine.py).      *)
(* A route writes the table in one call and the audit entry in another; the  *)
(* engine reads the enabled policies in one query.  Scalars are atoms; which *)
(* of them are numbers, which lie inside which and which match which pattern *)
(* is given by constants.                                                    *)
(***************************************************************************)
EXTENDS Integers, Sequences, FiniteSets

CONSTANTS Admins,       \* API workers that serve an org_admin
          Drafts,       \* what is created: [conds, action, priority, enabled], a
                        \* condition being [field, op, list, items]
          Contexts,     \* request contexts: functions from fields to atoms
          NumberOf,     \* the number an atom is, NaN if float() raises
          Inside,       \* <<a, b>>: the text of a is a substring of b's
          Fits,         \* <<pattern, a>>: re.search finds it
          MaxPolicies, MaxWrites,   \* bounds
          NaN

Actions == {"allow", "deny", "require_approval", "log_only"}

PolicySet == [conds : {d.conds : d \in Drafts}, action : Actions, there : BOOLEAN,
              priority : Int, enabled : BOOLEAN]

ASSUME PoliciesAssumption ==
    /\ IsFiniteSet(Admins) /\ MaxPolicies \in Nat /\ MaxWrites \in Nat
    /\ \A d \in Drafts : d.priority \in Int /\ d.enabled \in BOOLEAN

VARIABLES policies,   \* the table, by created_at
          admin,      \* admin[w]: the change w has still to log, 0 if none
          logged,     \* logged[i]: audit entries about policy i
          changed,    \* changed[i]: changes of policy i by routes that log them
          lost,       \* history: did a process die before it logged
          writes

pvars == <<policies, admin, logged, changed, lost, writes>>

PoliciesTypeOK ==
    /\ policies \in Seq(PolicySet) /\ Len(policies) <= MaxPolicies
    /\ admin \in [Admins -> 0 .. Len(policies)]
    /\ logged \in [1 .. MaxPolicies -> Nat] /\ changed \in [1 .. MaxPolicies -> Nat]
    /\ lost \in BOOLEAN /\ writes \in 0 .. MaxWrites

PoliciesInit ==
    /\ policies = <<>>
    /\ admin = [w \in Admins |-> 0]
    /\ logged = [i \in 1 .. MaxPolicies |-> 0]
    /\ changed = [i \in 1 .. MaxPolicies |-> 0]
    /\ lost = FALSE /\ writes = 0

-----------------------------------------------------------------------------
(* PolicyEngine                                                             *)

\* _compare; float() of something that is no number makes the condition false.
Ordered(a, b, Cmp(_, _)) == NumberOf[a] # NaN /\ NumberOf[b] # NaN /\ Cmp(NumberOf[a], NumberOf[b])

Compare(actual, c) ==
    LET e == CHOOSE x \in c.items : TRUE IN
    CASE c.op = "eq" -> ~c.list /\ actual = e
      [] c.op = "neq" -> c.list \/ actual # e
      [] c.op = "gt" -> ~c.list /\ Ordered(actual, e, LAMBDA x, y : x > y)
      [] c.op = "gte" -> ~c.list /\ Ordered(actual, e, LAMBDA x, y : x >= y)
      [] c.op = "lt" -> ~c.list /\ Ordered(actual, e, LAMBDA x, y : x < y)
      [] c.op = "lte" -> ~c.list /\ Ordered(actual, e, LAMBDA x, y : x <= y)
      [] c.op = "in" -> IF c.list THEN actual \in c.items ELSE <<actual, e>> \in Inside
      [] c.op = "not_in" -> IF c.list THEN actual \notin c.items ELSE <<actual, e>> \notin Inside
      [] c.op = "contains" -> ~c.list /\ <<e, actual>> \in Inside
      [] c.op = "matches" -> <<e, actual>> \in Fits
      [] OTHER -> FALSE

\* A field the request does not have satisfies the negative operators only.
MatchOne(c, ctx) ==
    IF c.field \in DOMAIN ctx THEN Compare(ctx[c.field], c) ELSE c.op \in {"not_in", "neq"}

MatchAll(conds, ctx) == conds # <<>> /\ \A k \in DOMAIN conds : MatchOne(conds[k], ctx)
\* dry_run asks all() of the detailed results, which holds of none.
MatchDetailed(conds, ctx) == \A k \in DOMAIN conds : MatchOne(conds[k], ctx)

\* ORDER BY priority, created_at.
MutByAge(i, j) == i < j
Before(i, j) ==
    \/ policies[i].priority < policies[j].priority
    \/ (policies[i].priority = policies[j].priority /\ i < j)
Enabled == {i \in DOMAIN policies : policies[i].there /\ policies[i].enabled}
Hits(ctx) == {i \in Enabled : MatchAll(policies[i].conds, ctx)}
DryHits(ctx) == {i \in Enabled : MatchDetailed(policies[i].conds, ctx)}
\* The first of the list that matches; 0 if none does.
FirstOf(hits) == IF hits = {} THEN 0 ELSE CHOOSE i \in hits : \A j \in hits \ {i} : Before(i, j)
Winner(ctx) == FirstOf(Hits(ctx))
DryWinner(ctx) == FirstOf(DryHits(ctx))
Evaluate(ctx) == IF Winner(ctx) = 0 THEN "allow" ELSE policies[Winner(ctx)].action
DryRun(ctx) == IF DryWinner(ctx) = 0 THEN "allow" ELSE policies[DryWinner(ctx)].action

-----------------------------------------------------------------------------
(* The policy routes                                                        *)

Write(w, i) ==
    /\ admin[w] = 0 /\ writes < MaxWrites
    /\ writes' = writes + 1
    /\ admin' = [admin EXCEPT ![w] = i]
    /\ changed' = [changed EXCEPT ![i] = @ + 1]
    /\ UNCHANGED <<logged, lost>>

\* From a request's body or from a template; an invalid action is refused.
CreatePolicy(w, d) ==
    /\ Len(policies) < MaxPolicies
    /\ d.action \in Actions
    /\ policies' = Append(policies, [conds |-> d.conds, action |-> d.action, there |-> TRUE,
                                     priority |-> d.priority, enabled |-> d.enabled])
    /\ Write(w, Len(policies) + 1)

\* update() writes the fields that are not None: p is the policy with them.
UpdatePolicy(w, i, p) ==
    /\ policies[i].there
    /\ p.action \in Actions
    /\ policies' = [policies EXCEPT ![i] = p]
    /\ Write(w, i)

DeletePolicy(w, i) ==
    /\ policies[i].there
    /\ policies' = [policies EXCEPT ![i].there = FALSE]
    /\ Write(w, i)

\* The toggle route writes `enabled' and logs nothing.
TogglePolicy(i) ==
    /\ policies[i].there /\ writes < MaxWrites
    /\ writes' = writes + 1
    /\ policies' = [policies EXCEPT ![i].enabled = ~@]
    /\ UNCHANGED <<admin, logged, changed, lost>>

LogChange(w) ==
    /\ admin[w] # 0
    /\ logged' = [logged EXCEPT ![admin[w]] = @ + 1]
    /\ admin' = [admin EXCEPT ![w] = 0]
    /\ UNCHANGED <<policies, changed, lost, writes>>

AdminDies(w) ==
    /\ admin[w] # 0
    /\ admin' = [admin EXCEPT ![w] = 0]
    /\ lost' = TRUE
    /\ UNCHANGED <<policies, logged, changed, writes>>

PoliciesNext ==
    \/ \E w \in Admins :
         \/ \E d \in Drafts : CreatePolicy(w, d)
         \/ \E i \in DOMAIN policies :
              \/ \E d \in Drafts :
                   \/ UpdatePolicy(w, i, [policies[i] EXCEPT !.priority = d.priority])
                   \/ UpdatePolicy(w, i, [policies[i] EXCEPT !.enabled = d.enabled])
                   \/ UpdatePolicy(w, i, [policies[i] EXCEPT !.conds = d.conds,
                                                            !.action = d.action])
              \/ DeletePolicy(w, i)
         \/ LogChange(w) \/ AdminDies(w)
    \/ \E i \in DOMAIN policies : TogglePolicy(i)

PoliciesSpec == PoliciesInit /\ [][PoliciesNext]_pvars

-----------------------------------------------------------------------------
\* However policies were created, changed, toggled and deleted: a request is
\* decided by the matching policy of the least priority, the oldest of those.
FirstMatchDecides ==
    \A ctx \in Contexts :
        LET hits == Hits(ctx)
            least == {i \in hits : \A j \in hits : policies[i].priority <= policies[j].priority}
        IN  IF hits = {} THEN Evaluate(ctx) = "allow"
            ELSE \E i \in least : /\ Evaluate(ctx) = policies[i].action
                                  /\ \A j \in least : i <= j

\* dry_run predicts the engine's decision, unless it is won by a policy without
\* conditions, which the engine never matches.
DryRunAgrees ==
    \A ctx \in Contexts : DryRun(ctx) # Evaluate(ctx) =>
        DryWinner(ctx) # 0 /\ policies[DryWinner(ctx)].conds = <<>>

\* Once no route is at work on a policy, each of its changes but toggles is in the
\* audit log, once, unless a process died between the change and its entry.
ChangesAudited ==
    ~lost => \A i \in DOMAIN policies :
        logged[i] + Cardinality({w \in Admins : admin[w] = i}) = changed[i]

PoliciesSound == FirstMatchDecides /\ DryRunAgrees /\ ChangesAudited
===============================================================================
