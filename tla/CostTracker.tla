------------------------------ MODULE CostTracker ------------------------------
(***************************************************************************)
(* CostTracker and the traced clients (agentcost/sdk/trace.py): one tracker *)
(* of a project, shared by the threads of an application.  There is no      *)
(* lock, so every statement of record, reset and set_budget is a step; an   *)
(* augmented assignment with a plain operand is one step in CPython.  The   *)
(* list of traces is its length and the sum of their costs; tokens are      *)
(* added up like calls and left out.  Callbacks are module RemoteTracker's, *)
(* the events on the bus AlertPipeline's.                                   *)
(***************************************************************************)
EXTENDS Naturals, Sequences, FiniteSets

CONSTANTS Threads,
          Prices,        \* what a call may cost
          Limits,        \* what set_budget is called with
          WarnNum, WarnDen,  \* warning_threshold
          MaxUses        \* bound on calls of create, reset and set_budget

ASSUME TrackerAssumption ==
    /\ Prices \subseteq Nat
    /\ Limits \subseteq Nat \ {0}
    /\ WarnNum \in Nat /\ WarnDen \in Nat \ {0}
    /\ MaxUses \in Nat
    /\ IsFiniteSet(Threads)

VARIABLES total,     \* total_cost
          calls,     \* total_calls
          listed,    \* traces: how many, and what they cost together
          limit,     \* budget_limit, 0 if none
          flags,     \* _warning_emitted, _exceeded_emitted as a set of kinds
          alerts,    \* budget events since the flags were last cleared
          thread,    \* thread[x]: what x does, and the event it records
          made,      \* history: create() calls that ended since the reset
          due,       \* history: cost of those the provider answered in full
          mixed,     \* history: a reset overlapped another use since the last
                     \* one that did not
          twoChecked, \* history: two threads were checking the budget at once
          seen,      \* history: a call was recorded since limit and flags
          uses

tvars == <<total, calls, listed, limit, flags, alerts, thread, made, due, mixed,
           twoChecked, seen, uses>>

NoTraces == [n |-> 0, cost |-> 0]
AtRest == [at |-> "rest", cost |-> 0]
Kinds == {"warning", "exceeded"}
TrackerSteps == {"rest", "trace", "cost", "calls", "check", "exceeded", "warning",
                 "zero_calls", "clear", "unflag", "unflag_new"}

ThreadCalls == [at : TrackerSteps, cost : Nat]

TrackerTypeOK ==
    /\ total \in Nat /\ calls \in Nat /\ made \in Nat /\ due \in Nat
    /\ limit \in Nat /\ uses \in Nat
    /\ listed \in [n : Nat, cost : Nat]
    /\ flags \subseteq Kinds
    /\ alerts \in Seq(Kinds)
    /\ thread \in [Threads -> ThreadCalls]
    /\ mixed \in BOOLEAN /\ twoChecked \in BOOLEAN /\ seen \in BOOLEAN

TrackerInit ==
    /\ total = 0 /\ calls = 0 /\ listed = NoTraces
    /\ limit = 0 /\ flags = {} /\ alerts = <<>>
    /\ thread = [x \in Threads |-> AtRest]
    /\ made = 0 /\ due = 0 /\ uses = 0
    /\ mixed = FALSE /\ twoChecked = FALSE /\ seen = FALSE

Numbers == <<total, calls, listed>>
Ghosts == <<made, due, mixed, twoChecked, seen, uses>>

Turns(x, step) == thread' = [thread EXCEPT ![x].at = step]
Rests(x) == thread' = [thread EXCEPT ![x] = AtRest]
Resting(S) == \A x \in S : thread[x] = AtRest
Resetting == \E x \in Threads : thread[x].at \in {"zero_calls", "clear", "unflag", "unflag_new"}
Use == uses < MaxUses /\ uses' = uses + 1

-----------------------------------------------------------------------------
(* create and record.                                                       *)

\* The provider answered, answered without usage that can be priced, or failed:
\* the last two are recorded as errors that cost nothing.
MutBillFailed(outcome, price) == price
Billed(outcome, price) == IF outcome = "answered" THEN price ELSE 0

CallEnds(x, outcome, price) ==
    /\ thread[x] = AtRest
    /\ Use
    /\ thread' = [thread EXCEPT ![x] = [at |-> "trace", cost |-> Billed(outcome, price)]]
    /\ made' = made + 1
    /\ due' = IF outcome = "answered" THEN due + price ELSE due
    /\ mixed' = (mixed \/ Resetting)
    /\ UNCHANGED <<Numbers, limit, flags, alerts, twoChecked, seen>>

AppendTrace(x) ==
    /\ thread[x].at = "trace"
    /\ listed' = [n |-> listed.n + 1, cost |-> listed.cost + thread[x].cost]
    /\ Turns(x, "cost")
    /\ UNCHANGED <<total, calls, limit, flags, alerts, Ghosts>>

AddCost(x) ==
    /\ thread[x].at = "cost"
    /\ total' = total + thread[x].cost
    /\ Turns(x, "calls")
    /\ UNCHANGED <<calls, listed, limit, flags, alerts, Ghosts>>

AddCall(x) ==
    /\ thread[x].at = "calls"
    /\ calls' = calls + 1
    /\ Turns(x, "check")
    /\ UNCHANGED <<total, listed, limit, flags, alerts, Ghosts>>

OverLimit == total >= limit
NearLimit == total * WarnDen >= limit * WarnNum

NextAlert ==
    IF limit = 0 THEN "rest"
    ELSE IF OverLimit /\ "exceeded" \notin flags THEN "exceeded"
    ELSE IF NearLimit /\ "warning" \notin flags THEN "warning"
    ELSE "rest"

CheckLimit(x) ==
    /\ thread[x].at = "check"
    /\ IF NextAlert = "rest" THEN Rests(x) ELSE Turns(x, NextAlert)
    /\ twoChecked' = (twoChecked \/ \E y \in Threads \ {x} :
                                      thread[y].at \in {"exceeded", "warning"})
    /\ seen' = TRUE
    /\ UNCHANGED <<Numbers, limit, flags, alerts, made, due, mixed, uses>>

\* The flag is set and the event emitted.
SendAlert(x) ==
    /\ thread[x].at \in {"exceeded", "warning"}
    /\ flags' = flags \cup {thread[x].at}
    /\ alerts' = Append(alerts, thread[x].at)
    /\ Rests(x)
    /\ UNCHANGED <<Numbers, limit, Ghosts>>

-----------------------------------------------------------------------------
(* reset and set_budget.                                                    *)

ResetTotal(x) ==
    /\ thread[x] = AtRest
    /\ Use
    /\ total' = 0
    /\ Turns(x, "zero_calls")
    /\ mixed' = ~Resting(Threads)
    /\ made' = 0 /\ due' = 0
    /\ UNCHANGED <<calls, listed, limit, flags, alerts, twoChecked, seen>>

ZeroCalls(x) ==
    /\ thread[x].at = "zero_calls"
    /\ calls' = 0
    /\ Turns(x, "clear")
    /\ UNCHANGED <<total, listed, limit, flags, alerts, Ghosts>>

AfterClear == NoTraces

ClearTraces(x) ==
    /\ thread[x].at = "clear"
    /\ listed' = AfterClear
    /\ Turns(x, "unflag")
    /\ UNCHANGED <<total, calls, limit, flags, alerts, Ghosts>>

SetLimit(x, l) ==
    /\ thread[x] = AtRest
    /\ Use
    /\ limit' = l
    /\ Turns(x, "unflag_new")
    /\ mixed' = (mixed \/ ~Resting(Threads))
    /\ UNCHANGED <<Numbers, flags, alerts, made, due, twoChecked, seen>>

ClearFlags(x) ==
    /\ thread[x].at \in {"unflag", "unflag_new"}
    /\ flags' = {} /\ alerts' = <<>>
    /\ seen' = FALSE /\ twoChecked' = FALSE
    /\ Rests(x)
    /\ UNCHANGED <<Numbers, limit, made, due, mixed, uses>>

TrackerNext ==
    \E x \in Threads :
        \/ \E outcome \in {"answered", "unpriced", "failed"}, price \in Prices :
             CallEnds(x, outcome, price)
        \/ AppendTrace(x) \/ AddCost(x) \/ AddCall(x) \/ CheckLimit(x) \/ SendAlert(x)
        \/ ResetTotal(x) \/ ZeroCalls(x) \/ ClearTraces(x) \/ ClearFlags(x)
        \/ \E l \in Limits : SetLimit(x, l)

TrackerSpec == TrackerInit /\ [][TrackerNext]_tvars

-----------------------------------------------------------------------------
\* When no thread is inside the tracker and no reset overlapped another use,
\* the totals are those of the traces, there is one trace per call, and their
\* cost is that of the calls the provider answered in full: no interleaving of
\* the unlocked record() calls loses or doubles one.
TrackerAddsUp ==
    Resting(Threads) /\ ~mixed =>
        /\ listed = [n |-> calls, cost |-> total]
        /\ calls = made
        /\ total = due

CountOf(kind) == Cardinality({n \in 1 .. Len(alerts) : alerts[n] = kind})

\* "emit budget.warning at 80%": once the threads are out of the tracker, a
\* spend at the limit has been reported, and one past the threshold as warning
\* or as exceeded; neither is reported before it is true, and neither twice,
\* unless two threads checked at once.  (A jump past the limit is reported as
\* exceeded, and as warning after that.)
AlertsRight ==
    /\ Resting(Threads) /\ ~mixed /\ seen /\ limit # 0 =>
         /\ OverLimit => CountOf("exceeded") > 0
         /\ NearLimit => alerts # <<>>
         /\ alerts # <<>> => NearLimit
         /\ CountOf("exceeded") > 0 => OverLimit
    /\ ~Resetting /\ ~mixed /\ ~twoChecked => CountOf("exceeded") <= 1 /\ CountOf("warning") <= 1

TrackerSound == TrackerAddsUp /\ AlertsRight
===============================================================================
