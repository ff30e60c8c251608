-------------------------------- MODULE Budgets --------------------------------
(***************************************************************************)
(* Enterprise budgets (agentcost/cost/budget_service.py) and the org-less    *)
(* ones of EventStore (agentcost/data/events.py), which share one table with *)
(* one row per project.  Every database call commits by itself.  A caller    *)
(* asks check_can_proceed, makes its LLM call and logs the trace.            *)
(***************************************************************************)
EXTENDS Naturals, FiniteSets, FiniteSetsExt

CONSTANTS Desks,        \* API workers and SDK threads
          Org, Project,
          BudgetLimits, \* limit settings: [daily, monthly, total], 0 for none
          Estimates,    \* the estimated and the actual cost of a call
          FirstOfMonth, \* the first day of the month of each day
          LastDay, MaxCalls,   \* bounds
          NoOrg         \* org_id NULL

ASSUME BudgetsAssumption ==
    /\ NoOrg \notin Org /\ Estimates \subseteq Nat /\ {LastDay, MaxCalls} \subseteq Nat
    /\ FirstOfMonth \in [0 .. LastDay -> 0 .. LastDay]

VARIABLES row,      \* row[p]: the row of `budgets', Absent if none
          cost,     \* cost[o][p][d]: trace_events of day d
          desk,     \* desk[w]: the call in progress
          day, bcalls

bvars == <<row, cost, desk, day, bcalls>>

Zero == [daily |-> 0, monthly |-> 0, total |-> 0]
Absent == [org |-> NoOrg, limit |-> Zero, by |-> NoOrg, there |-> FALSE]
DeskFree == [at |-> "rest", o |-> NoOrg, p |-> NoOrg, limit |-> Zero, found |-> FALSE,
           est |-> 0, over |-> FALSE]

Rows == [org : Org \cup {NoOrg}, limit : BudgetLimits \cup {Zero},
         by : Org \cup {NoOrg}, there : BOOLEAN]
DeskCalls == [at : {"rest", "write", "check", "call"}, o : Org \cup {NoOrg},
              p : Project \cup {NoOrg}, limit : BudgetLimits \cup {Zero},
              found : BOOLEAN, est : Nat, over : BOOLEAN]

BudgetsTypeOK ==
    /\ row \in [Project -> Rows]
    /\ cost \in [Org \cup {NoOrg} -> [Project -> [0 .. LastDay -> Nat]]]
    /\ desk \in [Desks -> DeskCalls]
    /\ \A w \in Desks : desk[w].at # "rest" => desk[w].o \in Org /\ desk[w].p \in Project
    /\ day \in 0 .. LastDay /\ bcalls \in 0 .. MaxCalls

BudgetsInit ==
    /\ row = [p \in Project |-> Absent]
    /\ cost = [o \in Org \cup {NoOrg} |-> [p \in Project |-> [d \in 0 .. LastDay |-> 0]]]
    /\ desk = [w \in Desks |-> DeskFree]
    /\ day = 0 /\ bcalls = 0

Leaves(w) == desk' = [desk EXCEPT ![w] = DeskFree]
Takes(w, call) ==
    /\ desk[w] = DeskFree /\ bcalls < MaxCalls
    /\ bcalls' = bcalls + 1
    /\ desk' = [desk EXCEPT ![w] = call]

-----------------------------------------------------------------------------
(* set_budget, delete_budget and EventStore.set_budget                      *)

MutAnyOrg(p, o) == row[p].there
Mine(p, o) == row[p].there /\ row[p].org = o

FindBudget(w, o, p, limit) ==
    /\ Takes(w, [DeskFree EXCEPT !.at = "write", !.o = o, !.p = p, !.limit = limit,
                               !.found = Mine(p, o)])
    /\ UNCHANGED <<row, cost, day>>

\* UPDATE ... WHERE project and org, or an INSERT that the unique project refuses
\* if anyone's row is there.
WriteBudget(w) ==
    LET k == desk[w] IN
    /\ k.at = "write"
    /\ row' = CASE k.found /\ Mine(k.p, k.o) ->
                     [row EXCEPT ![k.p].limit = k.limit, ![k.p].by = k.o]
                [] ~k.found /\ ~row[k.p].there ->
                     [row EXCEPT ![k.p] = [org |-> k.o, limit |-> k.limit, by |-> k.o,
                                           there |-> TRUE]]
                [] OTHER -> row
    /\ Leaves(w)
    /\ UNCHANGED <<cost, day, bcalls>>

\* The upsert knows no organization; it overwrites the limits of any row.
StoreBudget(p, limit) ==
    /\ bcalls < MaxCalls /\ bcalls' = bcalls + 1
    /\ row' = [row EXCEPT ![p] =
                 [org |-> IF row[p].there THEN row[p].org ELSE NoOrg,
                  limit |-> limit, by |-> NoOrg, there |-> TRUE]]
    /\ UNCHANGED <<cost, desk, day>>

DeleteBudget(o, p) ==
    /\ Mine(p, o) /\ bcalls < MaxCalls /\ bcalls' = bcalls + 1
    /\ row' = [row EXCEPT ![p] = Absent]
    /\ UNCHANGED <<cost, desk, day>>

-----------------------------------------------------------------------------
(* check_can_proceed, the call, log_trace                                   *)

Since(o, p, first) == MapThenSumSet(LAMBDA d : cost[o][p][d], first .. LastDay)

\* SELECT SUM(cost) ... WHERE project and org, for the three windows.
Spend(o, p) == [total |-> Since(o, p, 0), daily |-> Since(o, p, day),
                monthly |-> Since(o, p, FirstOfMonth[day])]

\* What the calls of a project cost, whichever org_id their traces carry.
TrueSpend(p) ==
    [f \in {"total", "daily", "monthly"} |->
        MapThenSumSet(LAMBDA o : Spend(o, p)[f], Org \cup {NoOrg})]

Exceeds(spend, limit, est) ==
    \E f \in {"total", "daily", "monthly"} : limit[f] # 0 /\ spend[f] + est > limit[f]

ReadBudget(w, o, p, est) ==
    /\ Takes(w, [DeskFree EXCEPT !.at = "check", !.o = o, !.p = p, !.est = est,
                               !.found = Mine(p, o), !.limit = row[p].limit])
    /\ UNCHANGED <<row, cost, day>>

MayProceed(w) ==
    desk[w].found => ~Exceeds(Spend(desk[w].o, desk[w].p), desk[w].limit, desk[w].est)

CheckProceed(w) ==
    LET k == desk[w] IN
    /\ k.at = "check"
    /\ IF MayProceed(w)
       THEN desk' = [desk EXCEPT ![w].at = "call",
                       ![w].over = k.found /\ Exceeds(TrueSpend(k.p), k.limit, k.est)]
       ELSE Leaves(w)
    /\ UNCHANGED <<row, cost, day, bcalls>>

\* log_trace leaves org_id out of its INSERT: the column stays NULL.
TraceOrg == NoOrg

LogTrace(w) ==
    LET k == desk[w] IN
    /\ k.at = "call"
    /\ cost' = [cost EXCEPT ![TraceOrg][k.p][day] = @ + k.est]
    /\ Leaves(w)
    /\ UNCHANGED <<row, day, bcalls>>

NextDay ==
    /\ day < LastDay
    /\ day' = day + 1
    /\ UNCHANGED <<row, cost, desk, bcalls>>

BudgetsNext ==
    \/ \E w \in Desks, o \in Org, p \in Project :
         \/ \E limit \in BudgetLimits : FindBudget(w, o, p, limit)
         \/ \E est \in Estimates : ReadBudget(w, o, p, est)
    \/ \E w \in Desks : WriteBudget(w) \/ CheckProceed(w) \/ LogTrace(w)
    \/ \E p \in Project : \/ \E limit \in BudgetLimits : StoreBudget(p, limit)
                          \/ \E o \in Org : DeleteBudget(o, p)
    \/ NextDay

BudgetsSpec == BudgetsInit /\ [][BudgetsNext]_bvars

-----------------------------------------------------------------------------
\* however the calls interleave, the limits of an organization's row were
\* written by that organization or by the org-less store: never by another
\* organization that budgets a project of the same name.
TenantsApart == \A p \in Project : row[p].there => row[p].by \in {row[p].org, NoOrg}

\* A call that would take a project over the limit its organization has set is
\* not allowed (docs/enterprise/overview.md:28, "Block calls that would exceed
\* budgets").
OverspentIsDenied == \A w \in Desks : desk[w].at = "call" => ~desk[w].over
===============================================================================
