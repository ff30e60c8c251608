------------------------------- MODULE Chargeback -------------------------------
(***************************************************************************)
(* Cost centers (agentcost/cost/cost_center_service.py), the allocation      *)
(* rules that split projects and agents over them (allocation_service.py),   *)
(* the chargeback report, and the routes (routes.py), which write the audit  *)
(* entry of a center after its change; allocations are not audited.          *)
(* Each database call is atomic: a worker in the middle of a request is in   *)
(* `worker'.  A trace is [project, agent, cost] and its organization, which  *)
(* log_trace leaves NULL.                                                    *)
(***************************************************************************)
EXTENDS Integers, Sequences, FiniteSets, Functions

CONSTANTS Staff,       \* API workers that serve org_admins
          Tenants,     \* organizations
          Center,      \* identifiers of cost centers
          Work,        \* projects
          Bots,        \* agents
          Shares,      \* allocation_pct
          TraceCosts,
          MaxRules, MaxTraces, MaxEdit,
          Null

RuleSet == [org : Tenants, project : Work \cup {Null}, agent : Bots \cup {Null},
            center : Center, share : Shares]
TraceSet == [project : Work, agent : Bots, cost : TraceCosts]

ASSUME ChargebackAssumption ==
    /\ IsFiniteSet(Staff) /\ IsFiniteSet(Center)
    /\ Shares \subseteq Nat /\ TraceCosts \subseteq Nat
    /\ Null \notin RuleSet \cup Tenants \cup Center \cup Work \cup Bots
    /\ MaxRules \in Nat /\ MaxTraces \in Nat /\ MaxEdit \in Nat

VARIABLES center,    \* center[c]: the organization it belongs to, Null if it is gone
          rules,     \* cost_allocations: [org, project, agent, center, share], Null if deleted
          traces,    \* trace_events
          worker,    \* worker[w]: [op, center, rule] between two database calls
          entries,   \* entries[c]: audit entries about the center
          altered,   \* altered[c]: changes of it whose request came to its end
          edit

cvars == <<center, rules, traces, worker, entries, altered, edit>>

NoTask == [op |-> "idle", center |-> Null, rule |-> Null]

Tasks == [op : {"idle", "log", "delete", "insert"}, center : Center \cup {Null},
          rule : RuleSet \cup {Null}]

ChargebackTypeOK ==
    /\ center \in [Center -> Tenants \cup {Null}]
    /\ rules \in Seq(RuleSet \cup {Null}) /\ traces \in Seq(TraceSet)
    /\ worker \in [Staff -> Tasks]
    /\ \A w \in Staff : worker[w].op # "idle" => worker[w].center \in Center
    /\ \A w \in Staff : worker[w].op = "insert" => worker[w].rule \in RuleSet
    /\ entries \in [Center -> Nat] /\ altered \in [Center -> Nat]
    /\ edit \in 0 .. MaxEdit

ChargebackInit ==
    /\ center = [c \in Center |-> Null]
    /\ rules = <<>> /\ traces = <<>>
    /\ worker = [w \in Staff |-> NoTask]
    /\ entries = [c \in Center |-> 0] /\ altered = [c \in Center |-> 0]
    /\ edit = 0

OneMore == edit < MaxEdit /\ edit' = edit + 1
Passes(w, op, c, r) == worker' = [worker EXCEPT ![w] = [op |-> op, center |-> c, rule |-> r]]

\* create_cost_center and update_cost_center: one statement, then the entry.
CreateCenter(w, c, org) ==
    /\ worker[w] = NoTask /\ center[c] = Null /\ altered[c] = 0 /\ OneMore
    /\ center' = [center EXCEPT ![c] = org]
    /\ Passes(w, "log", c, Null)
    /\ altered' = [altered EXCEPT ![c] = @ + 1]
    /\ UNCHANGED <<rules, traces, entries>>

UpdateCenter(w, c, org) ==
    /\ worker[w] = NoTask /\ OneMore
    /\ center[c] = org                       \* otherwise 404, without an entry
    /\ Passes(w, "log", c, Null)
    /\ altered' = [altered EXCEPT ![c] = @ + 1]
    /\ UNCHANGED <<center, rules, traces, entries>>

\* delete_cost_center: the rules first, the center then; a center that is not
\* there is deleted and logged as well.
DeleteRules(w, c, org) ==
    /\ worker[w] = NoTask /\ OneMore
    /\ center[c] = org
    /\ rules' = [i \in DOMAIN rules |->
                   IF rules[i] # Null /\ rules[i].center = c /\ rules[i].org = org THEN Null
                   ELSE rules[i]]
    /\ Passes(w, "delete", c, Null)
    /\ UNCHANGED <<center, traces, entries, altered>>

DeleteCenter(w) ==
    /\ worker[w].op = "delete"
    /\ center' = [center EXCEPT ![worker[w].center] = Null]
    /\ altered' = [altered EXCEPT ![worker[w].center] = @ + 1]
    /\ Passes(w, "log", worker[w].center, Null)
    /\ UNCHANGED <<rules, traces, entries, edit>>

LogEntry(w) ==
    /\ worker[w].op = "log"
    /\ entries' = [entries EXCEPT ![worker[w].center] = @ + 1]
    /\ worker' = [worker EXCEPT ![w] = NoTask]
    /\ UNCHANGED <<center, rules, traces, altered, edit>>

\* AllocationService.create: the checks, then the center, then the insert.
CheckCenter(w, r) ==
    /\ worker[w] = NoTask /\ OneMore
    /\ r.project # Null \/ r.agent # Null
    /\ r.share > 0 /\ r.share <= 100
    /\ center[r.center] = r.org
    /\ Passes(w, "insert", r.center, r)
    /\ UNCHANGED <<center, rules, traces, entries, altered>>

InsertRule(w) ==
    /\ worker[w].op = "insert" /\ Len(rules) < MaxRules
    /\ rules' = Append(rules, worker[w].rule)
    /\ worker' = [worker EXCEPT ![w] = NoTask]
    /\ UNCHANGED <<center, traces, entries, altered, edit>>

\* update() checks the share only: the new center may be anybody's, or nobody's.
\* What the caller leaves out stays, and a name cannot be taken away.
UpdateRule(w, i, r) ==
    /\ worker[w] = NoTask /\ rules[i] # Null /\ OneMore
    /\ r.org = rules[i].org
    /\ r.project \in {rules[i].project} \cup Work /\ r.agent \in {rules[i].agent} \cup Bots
    /\ r.share > 0 /\ r.share <= 100
    /\ rules' = [rules EXCEPT ![i] = r]
    /\ UNCHANGED <<center, traces, worker, entries, altered>>

DeleteRule(w, i) ==
    /\ worker[w] = NoTask /\ rules[i] # Null /\ OneMore
    /\ rules' = [rules EXCEPT ![i] = Null]
    /\ UNCHANGED <<center, traces, worker, entries, altered>>

LogCost(t) ==
    /\ Len(traces) < MaxTraces
    /\ traces' = Append(traces, t)
    /\ UNCHANGED <<center, rules, worker, entries, altered, edit>>

ChargebackNext ==
    \/ \E w \in Staff :
         \/ \E c \in Center, o \in Tenants :
              CreateCenter(w, c, o) \/ UpdateCenter(w, c, o) \/ DeleteRules(w, c, o)
         \/ DeleteCenter(w) \/ LogEntry(w) \/ InsertRule(w)
         \/ \E r \in RuleSet : CheckCenter(w, r)
         \/ \E i \in DOMAIN rules :
              DeleteRule(w, i) \/ \E r \in RuleSet : UpdateRule(w, i, r)
    \/ \E t \in TraceSet : LogCost(t)

ChargebackSpec == ChargebackInit /\ [][ChargebackNext]_cvars

-----------------------------------------------------------------------------
(* chargeback_report and get_allocation_summary; amounts are in cents times   *)
(* percent                                                                    *)

Live(org) == {i \in DOMAIN rules : rules[i] # Null /\ rules[i].org = org}
\* The join: a trace meets a rule by its project or by its agent, and is charged
\* by every rule it meets, of whatever organization it is.
MutBoth(t, r) == r.project = t.project /\ r.agent = t.agent
Covers(t, r) == (r.project # Null /\ r.project = t.project)
               \/ (r.agent # Null /\ r.agent = t.agent)
Charge(i, j) == IF Covers(traces[j], rules[i]) THEN traces[j].cost * rules[i].share ELSE 0
RuleCharge(i) == SumFunctionOnSet([j \in DOMAIN traces |-> Charge(i, j)], DOMAIN traces)
Charged(org, c) ==
    SumFunctionOnSet([i \in Live(org) |-> RuleCharge(i)], {i \in Live(org) : rules[i].center = c})
\* Unallocated: traces of the organization, and no trace has one.
Unallocated(org) == 0
Report(org) ==
    LET rows == {rules[i].center : i \in Live(org)}
    IN  [c \in rows \cup {d \in Center : center[d] = org} |-> Charged(org, c)]

SharesOf(org) == [i \in Live(org) |-> rules[i].share]
TotalShare(org, p) == SumFunctionOnSet(SharesOf(org), {i \in Live(org) : rules[i].project = p})
FullyAllocated(org, p) == TotalShare(org, p) = 100

-----------------------------------------------------------------------------
Spent == SumFunctionOnSet([j \in DOMAIN traces |-> traces[j].cost], DOMAIN traces)

\* Where every project is fully allocated by rules that name projects only, a
\* report hands on every cent, once: no center is charged too much, whatever the
\* order in which centers, rules and traces came and went.
FullReportsBalance ==
    \A org \in Tenants :
        (/\ \A i \in Live(org) : rules[i].agent = Null
         /\ \A p \in Work : FullyAllocated(org, p))
        => SumFunction(Report(org)) = 100 * Spent

\* No trace is charged to a center beyond the sum of the center's shares, even when
\* several of its rules meet it by project and by agent.
ChargesBounded ==
    \A org \in Tenants, c \in Center :
        Charged(org, c)
            <= Spent * SumFunctionOnSet(SharesOf(org), {i \in Live(org) : rules[i].center = c})

\* Every completed change of a center has its audit entry, once its worker is done.
CentersAudited ==
    \A c \in Center :
        entries[c] + Cardinality({w \in Staff : worker[w].op = "log" /\ worker[w].center = c})
            = altered[c]

ChargebackSound == FullReportsBalance /\ ChargesBounded /\ CentersAudited
===============================================================================
