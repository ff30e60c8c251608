------------------------------- MODULE Heartbeat -------------------------------
(***************************************************************************)
(* HeartbeatTracker (agentcost/heartbeat/__init__.py): the active cycle and *)
(* the paused set live in memory, the cycles and budgets in the database.   *)
(* A caller is a thread that reports for an agent; nothing is locked, so    *)
(* the memory steps and the database calls of two callers interleave.  The  *)
(* process may restart at any step.                                         *)
(***************************************************************************)
EXTENDS Integers, Sequences, FiniteSets, Functions, FiniteSetsExt

CONSTANTS Callers, Agents,
          Spends,        \* what record_spend is called with
          AgentBudgets,  \* what set_budget is called with
          AvgWindow,     \* cycles the rolling average looks at
          MaxCycles, MaxSpends, MaxTouches,   \* bounds
          Nobody

ASSUME HeartbeatAssumption ==
    /\ Spends \subseteq Nat /\ AgentBudgets \subseteq Nat \ {0}
    /\ {AvgWindow, MaxCycles, MaxSpends, MaxTouches} \subseteq Nat
    /\ Nobody \notin Agents
    /\ IsFiniteSet(Callers)

VARIABLES active,    \* _active_cycles[a]: [id, cost], id 0 if there is none
          paused,    \* _paused_agents
          cycles,    \* cycles[a]: heartbeat_cycles of a, by start: [cost, st]
          budget,    \* heartbeat_budgets, 0 if none
          caller,    \* caller[c]: the call c is in
          spent,     \* history: cost that record_spend added for a
          exceeded,  \* history: budget.exceeded events of a
          excused,   \* history: resumes and restarts since a was known
          tangled,   \* history: agents that had two calls at once
          records, touches

hvars == <<active, paused, cycles, budget, caller, spent, exceeded, excused, tangled,
           records, touches>>

NoCycle == [id |-> 0, cost |-> 0]
Free == [at |-> "free", a |-> Nobody, cycle |-> NoCycle, amount |-> 0, again |-> FALSE]

CycleRefs == [id : Nat, cost : Nat]
CycleRows == [cost : Nat, st : {"active", "completed", "anomaly"}]
AgentCalls == [at : {"free", "add", "write", "persist", "budget"}, a : Agents \cup {Nobody},
               cycle : CycleRefs, amount : Nat, again : BOOLEAN]

HeartbeatTypeOK ==
    /\ active \in [Agents -> CycleRefs]
    /\ paused \subseteq Agents
    /\ cycles \in [Agents -> Seq(CycleRows)]
    /\ budget \in [Agents -> Nat]
    /\ caller \in [Callers -> AgentCalls]
    /\ \A c \in Callers : caller[c].a = Nobody <=> caller[c].at = "free"
    /\ spent \in [Agents -> Int] /\ exceeded \in [Agents -> Nat] /\ excused \in [Agents -> Nat]
    /\ tangled \subseteq Agents
    /\ records \in 0 .. MaxSpends /\ touches \in 0 .. MaxTouches

HeartbeatInit ==
    /\ active = [a \in Agents |-> NoCycle]
    /\ paused = {}
    /\ cycles = [a \in Agents |-> <<>>]
    /\ budget = [a \in Agents |-> 0]
    /\ caller = [c \in Callers |-> Free]
    /\ spent = [a \in Agents |-> 0]
    /\ exceeded = [a \in Agents |-> 0]
    /\ excused = [a \in Agents |-> 0]
    /\ tangled = {} /\ records = 0 /\ touches = 0

InCall(a) == \E c \in Callers : caller[c].a = a
Counts == <<records, touches>>
Past == <<spent, exceeded, excused>>

Enters(c, call) ==
    /\ caller[c] = Free
    /\ caller' = [caller EXCEPT ![c] = call]
    /\ tangled' = IF InCall(call.a) THEN tangled \cup {call.a} ELSE tangled
Moves(c, call) == caller' = [caller EXCEPT ![c] = call]

-----------------------------------------------------------------------------
(* record_spend: find the cycle, add to it in memory, write its sum.        *)

FindCycle(c, a, amount) ==
    /\ records < MaxSpends
    /\ active[a].id # 0
    /\ Enters(c, [Free EXCEPT !.at = "add", !.a = a, !.cycle = active[a], !.amount = amount])
    /\ records' = records + 1
    /\ UNCHANGED <<active, paused, cycles, budget, Past, touches>>

\* The cycle object is shared: the addition is seen by every caller that holds
\* it, and lost with it when the cycle has ended meanwhile.
AddSpend(c) ==
    LET k == caller[c]
        live == active[k.a].id = k.cycle.id
        sum == (IF live THEN active[k.a].cost ELSE k.cycle.cost) + k.amount IN
    /\ k.at = "add"
    /\ active' = IF live THEN [active EXCEPT ![k.a].cost = sum] ELSE active
    /\ spent' = [spent EXCEPT ![k.a] = @ + k.amount]
    /\ Moves(c, [k EXCEPT !.at = "write", !.cycle.cost = sum])
    /\ UNCHANGED <<paused, cycles, budget, exceeded, excused, tangled, Counts>>

MutWriteAmount(k) == k.amount
WrittenCost(k) == k.cycle.cost

WriteSpend(c) ==
    LET k == caller[c] IN
    /\ k.at = "write"
    /\ cycles' = [cycles EXCEPT ![k.a][k.cycle.id].cost = WrittenCost(k)]
    /\ Moves(c, Free)
    /\ UNCHANGED <<active, paused, budget, Past, tangled, Counts>>

-----------------------------------------------------------------------------
(* start_cycle and end_cycle.                                               *)

Opened(a) ==
    /\ Len(cycles[a]) < MaxCycles
    /\ active' = [active EXCEPT ![a] = [id |-> Len(cycles[a]) + 1, cost |-> 0]]
    /\ cycles' = [cycles EXCEPT ![a] = Append(@, [cost |-> 0, st |-> "active"])]

\* A paused agent is only warned about: its cycle starts all the same.
StartCycle(c, a) ==
    /\ caller[c] = Free
    /\ active[a].id = 0
    /\ Opened(a)
    /\ tangled' = IF InCall(a) THEN tangled \cup {a} ELSE tangled
    /\ UNCHANGED <<paused, budget, caller, Past, Counts>>

\* end_cycle, or start_cycle with a cycle still active, which ends it first.
PopCycle(c, a, again) ==
    /\ active[a].id # 0
    /\ again => Len(cycles[a]) < MaxCycles
    /\ Enters(c, [Free EXCEPT !.at = "persist", !.a = a, !.cycle = active[a], !.again = again])
    /\ active' = [active EXCEPT ![a] = NoCycle]
    /\ UNCHANGED <<paused, cycles, budget, Past, Counts>>

SumCost(s) == SumFunction([i \in DOMAIN s |-> s[i].cost])

\* The last AvgWindow completed cycles; anomalies do not count.
Recent(a) ==
    LET done == SelectSeq(cycles[a], LAMBDA x : x.st = "completed")
    IN  SubSeq(done, Len(done) - Min({AvgWindow, Len(done)}) + 1, Len(done))
EndStatus(a, cost) ==
    IF SumCost(Recent(a)) > 0 /\ cost * Len(Recent(a)) > 2 * SumCost(Recent(a))
    THEN "anomaly" ELSE "completed"

PersistCycle(c) ==
    LET k == caller[c] IN
    /\ k.at = "persist"
    /\ cycles' = [cycles EXCEPT ![k.a][k.cycle.id] =
                    [cost |-> k.cycle.cost, st |-> EndStatus(k.a, k.cycle.cost)]]
    /\ Moves(c, [k EXCEPT !.at = "budget"])
    /\ UNCHANGED <<active, paused, budget, Past, tangled, Counts>>

MustPause(a) == budget[a] # 0 /\ SumCost(cycles[a]) >= budget[a] /\ a \notin paused

\* _check_budget; start_cycle goes on to open its cycle.
CheckAgentBudget(c) ==
    LET k == caller[c] IN
    /\ k.at = "budget"
    /\ paused' = IF MustPause(k.a) THEN paused \cup {k.a} ELSE paused
    /\ exceeded' = IF MustPause(k.a) THEN [exceeded EXCEPT ![k.a] = @ + 1] ELSE exceeded
    /\ Moves(c, Free)
    /\ IF k.again /\ Len(cycles[k.a]) < MaxCycles THEN Opened(k.a) ELSE UNCHANGED <<active, cycles>>
    /\ UNCHANGED <<budget, spent, excused, tangled, Counts>>

-----------------------------------------------------------------------------
(* Budgets, pauses, restarts.                                               *)

\* Calls of an operator, and restarts; their number is bounded.
Touch == touches < MaxTouches /\ touches' = touches + 1

SetAgentBudget(a, b) ==
    /\ budget[a] # b /\ Touch
    /\ budget' = [budget EXCEPT ![a] = b]
    /\ UNCHANGED <<active, paused, cycles, caller, Past, tangled, records>>

PauseAgent(a) ==
    /\ a \notin paused /\ Touch
    /\ paused' = paused \cup {a}
    /\ UNCHANGED <<active, cycles, budget, caller, Past, tangled, records>>

ResumeAgent(a) ==
    /\ a \in paused /\ Touch
    /\ paused' = paused \ {a}
    /\ excused' = [excused EXCEPT ![a] = @ + 1]
    /\ UNCHANGED <<active, cycles, budget, caller, spent, exceeded, tangled, records>>

\* reset(agent): memory and rows go, calls in progress find nothing to write.
ResetAgent(a) ==
    /\ ~InCall(a) /\ cycles[a] # <<>> /\ Touch
    /\ active' = [active EXCEPT ![a] = NoCycle]
    /\ paused' = paused \ {a}
    /\ cycles' = [cycles EXCEPT ![a] = <<>>]
    /\ budget' = [budget EXCEPT ![a] = 0]
    /\ spent' = [spent EXCEPT ![a] = 0]
    /\ excused' = [excused EXCEPT ![a] = @ + 1]
    /\ UNCHANGED <<caller, exceeded, tangled, records>>

Unwritten(a) == SumFunctionOnSet([c \in Callers |-> caller[c].amount],
                                 {c \in Callers : caller[c].a = a /\ caller[c].at = "write"})

Restart ==
    /\ Touch
    /\ active' = [a \in Agents |-> NoCycle]
    /\ paused' = {}
    /\ caller' = [c \in Callers |-> Free]
    /\ spent' = [a \in Agents |-> spent[a] - Unwritten(a)]
    /\ excused' = [a \in Agents |-> excused[a] + 1]
    /\ UNCHANGED <<cycles, budget, exceeded, tangled, records>>

HeartbeatNext ==
    \/ \E c \in Callers, a \in Agents :
         \/ \E amount \in Spends : FindCycle(c, a, amount)
         \/ StartCycle(c, a)
         \/ \E again \in BOOLEAN : PopCycle(c, a, again)
    \/ \E c \in Callers : AddSpend(c) \/ WriteSpend(c) \/ PersistCycle(c) \/ CheckAgentBudget(c)
    \/ \E a \in Agents : \/ \E b \in AgentBudgets : SetAgentBudget(a, b)
                         \/ PauseAgent(a) \/ ResumeAgent(a) \/ ResetAgent(a)
    \/ Restart

HeartbeatSpec == HeartbeatInit /\ [][HeartbeatNext]_hvars

-----------------------------------------------------------------------------
\* What record_spend added is in the database once the call is over: through
\* cycles that follow each other, restarts in the middle of a cycle, and calls
\* for other agents; only two calls at once for one agent can lose some.
SpendKept ==
    \A a \in Agents \ tangled : ~InCall(a) => SumCost(cycles[a]) = spent[a]

\* "budget.exceeded" is sent at most once per pause: a second one needs a
\* resume, a reset or a restart (which forgets who is paused) before it.
ExceededOncePerPause == \A a \in Agents \ tangled : exceeded[a] <= excused[a] + 1

HeartbeatSound == SpendKept /\ ExceededOncePerPause
===============================================================================
