------------------------------- MODULE Scenarios -------------------------------
(***************************************************************************)
(* Saved simulator scenarios (agentcost/simulator/store.py and routes.py).    *)
(* Saving inserts a row and then reads the newest row of the organization;     *)
(* updating writes the row and then reads it.  Requests of other workers come  *)
(* in between.  Templates are rows somebody marked in the database: everybody  *)
(* reads them, and they are not deleted.  Contents are taken as numbers that   *)
(* tell the writes apart.  This module comes last of those about what is        *)
(* derived from traces, and puts their properties together (InsightsSound).     *)
(***************************************************************************)
EXTENDS Integers, FiniteSets, Ingestion, Feedback, Forecast, Anomaly

CONSTANTS Planners,      \* requests that may be under way
          Companies,     \* org_id
          MaxScenarios,  \* bound on the rows
          MaxWrites      \* bound on the saves and updates

ASSUME ScenariosAssumption == MaxScenarios \in Nat /\ MaxWrites \in Nat

VARIABLES scenarios,  \* simulator_scenarios: [id, org, content, template]
          planner,    \* what each request is doing
          serial,     \* rows inserted so far, AUTOINCREMENT
          writes,     \* history: saves and updates so far, the content of the next one
          answered,   \* history: the last answer
          writer      \* history: writer[id]: the organization that wrote a row last

scenvars == <<scenarios, planner, serial, writes, answered, writer>>

NotPlanning == [at |-> "idle", org |-> CHOOSE o \in Companies : TRUE, id |-> 0, content |-> 0, alone |-> TRUE]
NoAnswer == [kind |-> "none", org |-> CHOOSE o \in Companies : TRUE, asked |-> 0, content |-> 0,
             row |-> {}, alone |-> TRUE]

ScenariosInit ==
    /\ scenarios = {} /\ serial = 0 /\ writes = 0
    /\ planner = [p \in Planners |-> NotPlanning]
    /\ answered = NoAnswer
    /\ writer = [i \in 1 .. MaxScenarios |-> NotPlanning.org]

Row(id) == {s \in scenarios : s.id = id}
\* get_scenario
Visible(org) == {s \in scenarios : s.org = org \/ s.template}
\* SELECT ... ORDER BY id DESC LIMIT 1
Newest(org) ==
    LET mine == {s \in scenarios : s.org = org}
    IN  {s \in mine : \A t \in mine : t.id <= s.id}

\* Every write ends the solitude of the requests under way.
Disturb(p, step) ==
    [q \in Planners |-> IF q = p THEN step ELSE [planner[q] EXCEPT !.alone = FALSE]]

\* save_scenario
Insert(p, org) ==
    /\ planner[p].at = "idle" /\ serial < MaxScenarios /\ writes < MaxWrites
    /\ scenarios' = scenarios \cup {[id |-> serial + 1, org |-> org, content |-> writes + 1, template |-> FALSE]}
    /\ serial' = serial + 1 /\ writes' = writes + 1
    /\ writer' = [writer EXCEPT ![serial + 1] = org]
    /\ planner' = Disturb(p, [at |-> "saved", org |-> org, id |-> serial + 1, content |-> writes + 1,
                              alone |-> TRUE])
    /\ UNCHANGED answered

\* update_scenario: a row of another organization is not written, and nothing says so.
Own(org) == {s \in scenarios : s.org = org}
Change(p, org, id) ==
    /\ planner[p].at = "idle" /\ writes < MaxWrites
    /\ writes' = writes + 1
    /\ LET hit == Own(org) \cap Row(id) IN
       /\ scenarios' = (scenarios \ hit) \cup {[s EXCEPT !.content = writes + 1] : s \in hit}
       /\ writer' = IF hit = {} THEN writer ELSE [writer EXCEPT ![id] = org]
    /\ planner' = Disturb(p, [at |-> "changed", org |-> org, id |-> id, content |-> writes + 1, alone |-> TRUE])
    /\ UNCHANGED <<serial, answered>>

\* The second statement of both, and the answer; no row is a 404, or for a save its name.
ReadBack(p) ==
    LET w == planner[p] IN
    /\ w.at # "idle"
    /\ answered' = [kind |-> w.at, org |-> w.org, asked |-> w.id, content |-> w.content, alone |-> w.alone,
                    row |-> IF w.at = "saved" THEN Newest(w.org) ELSE Visible(w.org) \cap Row(w.id)]
    /\ planner' = [planner EXCEPT ![p] = NotPlanning]
    /\ UNCHANGED <<scenarios, serial, writes, writer>>

\* delete_scenario answers True whatever was there; a deletion that finds nothing to
\* delete is no step here.
Delete(p, org, id) ==
    /\ planner[p].at = "idle"
    /\ scenarios' = {s \in scenarios : s.id # id \/ s.org # org \/ s.template}
    /\ scenarios' # scenarios
    /\ planner' = Disturb(p, NotPlanning)
    /\ UNCHANGED <<serial, writes, answered, writer>>

\* External: a row becomes a template.
MakeTemplate(id) ==
    /\ \E s \in Row(id) : ~s.template
    /\ scenarios' = (scenarios \ Row(id)) \cup {[s EXCEPT !.template = TRUE] : s \in Row(id)}
    /\ UNCHANGED <<planner, serial, writes, answered, writer>>

ScenariosNext ==
    \/ \E p \in Planners :
         \/ ReadBack(p)
         \/ \E org \in Companies : \/ Insert(p, org)
                                   \/ \E id \in 1 .. serial : Change(p, org, id) \/ Delete(p, org, id)
    \/ \E id \in 1 .. serial : MakeTemplate(id)

ScenariosSpec == ScenariosInit /\ [][ScenariosNext]_scenvars

-----------------------------------------------------------------------------
(* Properties *)

\* A scenario holds what its own organization wrote, and ids are not used again.
OwnContent ==
    /\ \A s \in scenarios : writer[s.id] = s.org /\ s.id <= serial
    /\ \A s, t \in scenarios : s.id = t.id => s = t

\* An answer shows the organization its own scenario or a template.  When no other
\* write came between the two statements, a save shows what was saved, and an update
\* what was written, unless it was of another organization's template.
AnswersOwn ==
    \A s \in answered.row :
        /\ s.org = answered.org \/ (answered.kind = "changed" /\ s.template)
        /\ answered.alone =>
             \/ s.content = answered.content /\ s.id = answered.asked
             \/ answered.kind = "changed" /\ s.template /\ s.org # answered.org

\* A save that was alone does not come back empty.
SavesShow == answered.kind = "saved" /\ answered.alone => answered.row # {}

ScenariosSound == OwnContent /\ AnswersOwn /\ SavesShow

\* What is stored is what was sent, and what is derived from it - reports, quality,
\* forecasts, anomalies, saved scenarios - agrees with it.
InsightsSound ==
    IngestionSound /\ FeedbackSound /\ ForecastSound /\ AnomalySound /\ ScenariosSound
===============================================================================
