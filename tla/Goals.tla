---------------------------------- MODULE Goals --------------------------------
(***************************************************************************)
(* GoalService (agentcost/goals/__init__.py): goals form a forest through   *)
(* parent_goal_id, spend is booked per goal, and a budget check adds up a   *)
(* goal and all its descendants.  Every database call commits by itself, so *)
(* the calls of workers and of a budget check interleave.                   *)
(***************************************************************************)
EXTENDS Naturals, FiniteSets, Functions

CONSTANTS Clerks,       \* threads that create, move and delete goals or book spend
          Goal,         \* goal ids
          GoalCap,      \* the budget of every goal
          MaxChanges,   \* bound on the calls
          MaxFound,     \* bound on what a walk around a cycle collects
          Top, Gone     \* no parent; no such goal

ASSUME GoalsAssumption ==
    /\ Top \notin Goal /\ Gone \notin Goal /\ Top # Gone
    /\ IsFiniteSet(Goal) /\ Goal # {}
    /\ {GoalCap, MaxChanges, MaxFound} \subseteq Nat

VARIABLES parent,    \* parent_goal_id of each goal
          booked,    \* the rows of goal_spend of each goal, 1 each
          clerk,     \* clerk[w]: the call w is in
          check,     \* the budget check in progress, or the last one
          changes,
          stray      \* history: goals deleted while a record_spend was under way

fvars == <<parent, booked, clerk, check, changes, stray>>

NoCall == [at |-> "none", g |-> Top, p |-> Top]
Never == [g \in Goal |-> 0]
NoCheck == [at |-> "none", root |-> Top, todo |-> Never, found |-> Never,
            sum |-> 0, low |-> 0, still |-> TRUE, allowed |-> TRUE]

Call == [at : {"none", "parent", "insert", "move", "spends", "row", "book"},
         g : Goal \cup {Top}, p : Goal \cup {Top}]
Check == [at : {"none", "direct", "walk", "children", "done"}, root : Goal \cup {Top},
          todo : [Goal -> Nat], found : [Goal -> Nat],
          sum : Nat, low : Nat, still : BOOLEAN, allowed : BOOLEAN]

GoalsTypeOK ==
    /\ parent \in [Goal -> Goal \cup {Top, Gone}]
    /\ booked \in [Goal -> Nat]
    /\ clerk \in [Clerks -> Call]
    /\ \A w \in Clerks : clerk[w].at # "none" => clerk[w].g \in Goal
    /\ check \in Check
    /\ check.at # "none" => check.root \in Goal
    /\ changes \in 0 .. MaxChanges /\ stray \subseteq Goal

Exists(g) == parent[g] # Gone
Children(g) == {h \in Goal : parent[h] = g}

-----------------------------------------------------------------------------
(* The reference: what a goal and its subtree have booked.                  *)

\* The least set that holds g and the children of each of its members.
Closed(S) == \A x \in S : Children(x) \subseteq S
Subtree(g) == {h \in Goal : \A S \in SUBSET Goal : g \in S /\ Closed(S) => h \in S}
Total(g) == SumFunctionOnSet(booked, Subtree(g))
Cyclic == \E g \in Goal : parent[g] \in Subtree(g)

\* Any forest that was created before, some of its goals deleted since.
GoalsInit ==
    /\ parent \in [Goal -> Goal \cup {Top, Gone}]
    /\ ~Cyclic
    /\ booked \in [Goal -> 0 .. 1]
    /\ \A g \in Goal : ~Exists(g) => booked[g] = 0
    /\ clerk = [w \in Clerks |-> NoCall]
    /\ check = NoCheck
    /\ changes = 0 /\ stray = {}

-----------------------------------------------------------------------------
(* Calls of the clerks                                                      *)

Begin(w, call) ==
    /\ clerk[w] = NoCall /\ changes < MaxChanges
    /\ clerk' = [clerk EXCEPT ![w] = call]
    /\ changes' = changes + 1
Goes(w, at) == clerk' = [clerk EXCEPT ![w].at = at]
Ends(w) == clerk' = [clerk EXCEPT ![w] = NoCall]
Disturbed == check' = [check EXCEPT !.still = FALSE]

\* create_goal: the id must be free, then the parent must exist, then INSERT.
StartCreate(w, g, p) ==
    /\ ~Exists(g) /\ p # g
    /\ Begin(w, [at |-> IF p = Top THEN "insert" ELSE "parent", g |-> g, p |-> p])
    /\ UNCHANGED <<parent, booked, check, stray>>

FindParent(w) ==
    /\ clerk[w].at = "parent"
    /\ IF Exists(clerk[w].p) THEN Goes(w, "insert") ELSE Ends(w)
    /\ UNCHANGED <<parent, booked, check, changes, stray>>

\* The primary key refuses the second INSERT of an id.
InsertGoal(w) ==
    LET c == clerk[w] IN
    /\ c.at = "insert"
    /\ IF Exists(c.g) THEN UNCHANGED <<parent, check>>
       ELSE parent' = [parent EXCEPT ![c.g] = c.p] /\ Disturbed
    /\ Ends(w)
    /\ UNCHANGED <<booked, changes, stray>>

\* update_goal with parent_goal_id: the new parent is not looked at, so a goal
\* may become its own ancestor.
StartMove(w, g, p) ==
    /\ Exists(g) /\ parent[g] # p
    /\ Begin(w, [at |-> "move", g |-> g, p |-> p])
    /\ UNCHANGED <<parent, booked, check, stray>>

Move(w) ==
    LET c == clerk[w] IN
    /\ c.at = "move"
    /\ IF Exists(c.g) THEN parent' = [parent EXCEPT ![c.g] = c.p] /\ Disturbed
       ELSE UNCHANGED <<parent, check>>
    /\ Ends(w)
    /\ UNCHANGED <<booked, changes, stray>>

\* delete_goal: children keep pointing at the goal that is gone.
StartDelete(w, g) ==
    /\ Exists(g)
    /\ Begin(w, [at |-> "spends", g |-> g, p |-> Top])
    /\ UNCHANGED <<parent, booked, check, stray>>

SpendsDeleted(g) == [booked EXCEPT ![g] = 0]

DeleteSpends(w) ==
    /\ clerk[w].at = "spends"
    /\ booked' = SpendsDeleted(clerk[w].g)
    /\ Goes(w, "row") /\ Disturbed
    /\ UNCHANGED <<parent, changes, stray>>

Booking(g) == \E w \in Clerks : clerk[w].at = "book" /\ clerk[w].g = g

DeleteGoal(w) ==
    LET g == clerk[w].g IN
    /\ clerk[w].at = "row"
    /\ parent' = [parent EXCEPT ![g] = Gone]
    /\ stray' = IF Booking(g) \/ booked[g] # 0 THEN stray \cup {g} ELSE stray
    /\ Ends(w) /\ Disturbed
    /\ UNCHANGED <<booked, changes>>

\* record_spend: the goal is looked up in one call and booked on in another.
StartBook(w, g) ==
    /\ Exists(g)
    /\ Begin(w, [at |-> "book", g |-> g, p |-> Top])
    /\ UNCHANGED <<parent, booked, check, stray>>

Book(w) ==
    /\ clerk[w].at = "book"
    /\ booked' = [booked EXCEPT ![clerk[w].g] = @ + 1]
    /\ Ends(w)
    /\ UNCHANGED <<parent, check, changes, stray>>

-----------------------------------------------------------------------------
(* check_goal_budget and get_goal_cost                                      *)

StartCheck(g) ==
    /\ check.at = "none"
    /\ check' = [NoCheck EXCEPT !.at = "direct", !.root = g, !.low = Total(g)]
    /\ UNCHANGED <<parent, booked, clerk, changes, stray>>

ReadDirect ==
    /\ check.at = "direct"
    /\ check' = [check EXCEPT !.at = "walk", !.sum = booked[check.root],
                              !.todo[check.root] = 1]
    /\ UNCHANGED <<parent, booked, clerk, changes, stray>>

Found == SumFunctionOnSet(check.found, Goal)
Plus(count, kids) == [g \in Goal |-> count[g] + (IF g \in kids THEN 1 ELSE 0)]
MutShallow(count, kids) == count
Pushed(count, kids) == Plus(count, kids)

\* _get_all_descendants: nothing remembers the goals already seen; the order of
\* its stack is left open, and `found' is emptied again as the sums are read.
Pop(g) ==
    /\ check.at = "walk" /\ check.todo[g] > 0
    /\ Found < MaxFound
    /\ LET left == [check.todo EXCEPT ![g] = @ - 1] IN
       check' = [check EXCEPT !.todo = Pushed(left, Children(g)),
                              !.found = Plus(@, Children(g))]
    /\ UNCHANGED <<parent, booked, clerk, changes, stray>>

\* The last pop leaves the stack empty; the sums of what was found follow.
ReadChild(g) ==
    /\ check.at \in {"walk", "children"} /\ check.todo = Never
    /\ check.found[g] > 0
    /\ check' = [check EXCEPT !.at = "children", !.sum = @ + booked[g],
                              !.found[g] = @ - 1]
    /\ UNCHANGED <<parent, booked, clerk, changes, stray>>

Decide ==
    /\ check.at \in {"walk", "children"} /\ check.todo = Never /\ check.found = Never
    /\ check' = [check EXCEPT !.at = "done",
                   !.allowed = ~Exists(check.root) \/ GoalCap = 0 \/ check.sum < GoalCap]
    /\ UNCHANGED <<parent, booked, clerk, changes, stray>>

CheckStep == ReadDirect \/ (\E g \in Goal : Pop(g) \/ ReadChild(g)) \/ Decide

GoalsNext ==
    \/ \E w \in Clerks, g \in Goal :
         \/ \E p \in Goal \cup {Top} : StartCreate(w, g, p) \/ StartMove(w, g, p)
         \/ StartDelete(w, g) \/ StartBook(w, g)
    \/ \E w \in Clerks :
         FindParent(w) \/ InsertGoal(w) \/ Move(w) \/ DeleteSpends(w) \/ DeleteGoal(w) \/ Book(w)
    \/ \E g \in Goal : StartCheck(g)
    \/ CheckStep

GoalsSpec == GoalsInit /\ [][GoalsNext]_fvars

-----------------------------------------------------------------------------
\* A budget check over a forest that keeps its shape meanwhile counts the goal
\* and every descendant exactly once: what it adds up lies between what they had
\* booked when it began and what they have now, and an overspent goal is refused.
CheckIsExact ==
    check.at = "done" /\ check.still =>
        /\ check.low <= check.sum /\ check.sum <= Total(check.root)
        /\ Exists(check.root) /\ GoalCap > 0 /\ check.low >= GoalCap => ~check.allowed

\* A goal that is gone has left no spend behind, which a goal created later
\* under the same id would inherit, unless a record_spend overlapped its
\* deletion.
NoInheritedSpend == \A g \in Goal \ stray : ~Exists(g) => booked[g] = 0

\* The walk of a budget check never meets a goal twice, so it ends, unless
\* update_goal has closed a cycle of parents.
WalkIsBounded ==
    check.still /\ ~Cyclic =>
        Found < Cardinality(Goal)

GoalsSound == CheckIsExact /\ WalkIsBounded /\ NoInheritedSpend
===============================================================================
