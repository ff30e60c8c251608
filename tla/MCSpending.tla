------------------------------- MODULE MCSpending ------------------------------
(***************************************************************************)
(* Instances of the parts of the system that count spend.  They share no    *)
(* state, so a behaviour exercises one of them: `part' is chosen once and    *)
(* the others stay in their first state.                                    *)
(***************************************************************************)
EXTENDS CostTracker, Heartbeat, Goals, Budgets, BudgetGate, TLC

CONSTANTS big, mid, tiny

VARIABLE part

MCChains == << <<big, mid, tiny>>, <<mid>> >>
MCCost == (big :> 3) @@ (mid :> 2) @@ (tiny :> 1)
MCLimits == {[daily |-> 0, monthly |-> 0, total |-> 1], [daily |-> 1, monthly |-> 2, total |-> 0]}
MCFirst == [d \in 0 .. LastDay |-> 0]

MCInit ==
    /\ part \in {"tracker", "heartbeat", "goals", "budgets", "gate"}
    /\ TrackerInit
    /\ HeartbeatInit
    /\ IF part = "goals" THEN GoalsInit
       ELSE GoalsInit /\ parent = [g \in Goal |-> Gone]
    /\ BudgetsInit
    /\ IF part = "gate" THEN GateInit
       ELSE GateInit /\ allowance = CHOOSE a \in Allowances : TRUE

MCNext ==
    /\ part' = part
    /\ \/ part = "tracker" /\ TrackerNext /\ UNCHANGED <<hvars, fvars, bvars, gatevars>>
       \/ part = "heartbeat" /\ HeartbeatNext /\ UNCHANGED <<tvars, fvars, bvars, gatevars>>
       \/ part = "goals" /\ GoalsNext /\ UNCHANGED <<tvars, hvars, bvars, gatevars>>
       \/ part = "budgets" /\ BudgetsNext /\ UNCHANGED <<tvars, hvars, fvars, gatevars>>
       \/ part = "gate" /\ GateNext /\ UNCHANGED <<tvars, hvars, fvars, bvars>>

MCSpec == MCInit /\ [][MCNext]_<<part, tvars, hvars, fvars, bvars, gatevars>>

Symmetry == Permutations(Goal) \cup Permutations(Clerks)

===============================================================================
