-------------------------------- MODULE MCPlatform ------------------------------
(***************************************************************************)
(* Instances of the plugins, the notifications, the traces and what is derived *)
(* from them, and of access.  They share no state, so a behaviour exercises    *)
(* one of them: `part' is chosen once and the others stay in their first state. *)
(***************************************************************************)
EXTENDS Plugins, Notify, Ingestion, Feedback, Forecast,
        Anomaly, Scenarios, Access, TLC

CONSTANTS rt1, rt2, prov1, prov2, react1, react2, kid1, key1

VARIABLE part

\* Plugins: two runtimes of one name, a provider that raises, two reactors that
\* share an action.
MCPlugin == {rt1, rt2, prov1, prov2, react1, react2}
MCNameOf == (rt1 :> "limits") @@ (rt2 :> "limits") @@ (prov1 :> "openai") @@ (prov2 :> "local")
            @@ (react1 :> "pager") @@ (react2 :> "jira")
MCSlotOf == (rt1 :> "runtime") @@ (rt2 :> "runtime") @@ (prov1 :> "provider") @@ (prov2 :> "provider")
            @@ (react1 :> "reactor") @@ (react2 :> "reactor")
MCOverrides == (rt1 :> ("a" :> "b")) @@ (rt2 :> ("b" :> "a"))
MCKnows == [p \in MCPlugin |-> IF p = prov1 THEN {"a"} ELSE IF p = prov2 THEN {"a", "b"} ELSE {}]
MCOps == [p \in MCPlugin |-> IF p = react1 THEN {"page"} ELSE IF p = react2 THEN {"page", "open"} ELSE {}]

MCRow(o, k, e, en, r) == [org |-> o, kind |-> k, events |-> e, enabled |-> en, ready |-> r]
MCRows == {MCRow("o1", "slack", Star, TRUE, TRUE), MCRow("o1", "email", {"e1"}, TRUE, TRUE),
           MCRow("o1", "slack", {"e1"}, FALSE, TRUE), MCRow("o1", "webhook", Star, TRUE, FALSE),
           MCRow("o2", "webhook", {"e2"}, TRUE, TRUE), MCRow("o2", "fax", Star, TRUE, TRUE)}

\* Spans: both conventions, a zero cost, no model, a service name, two spans alike.
MCSpan(attrs, typed, start) == [attrs |-> attrs, typed |-> typed, start |-> start, failed |-> FALSE]
MCPayloads ==
    LET call == MCSpan(("gen_ai.model" :> -7) @@ ("gen_ai.input" :> 3) @@ ("llm.cost" :> 0), TRUE, 1)
        old == MCSpan(("model" :> -8) @@ ("output" :> 2) @@ ("project" :> -2), FALSE, 2)
        idle == MCSpan(("llm.model" :> 0), TRUE, 2)
    IN  [batch |-> [resource |-> -3, spans |-> <<call, idle, call>>],
         mixed |-> [resource |-> NoValue, spans |-> <<old, call>>]]
MCDefault == -1
MCTariff == (-7 :> 4) @@ (-8 :> 0)

\* Feedback: two traces of one model, one of them without a prompt version.
MCTraceInfo == ("t1" :> [model |-> "a", project |-> "p", version |-> 1, price |-> 1])
               @@ ("t2" :> [model |-> "b", project |-> "p", version |-> Unversioned, price |-> 2])
               @@ ("t3" :> [model |-> "a", project |-> "q", version |-> 2, price |-> 1])
MCScores == {-1, 1, 2}

\* Forecasts: falling, level and rising costs, days that are left out.
MCDays == 1 .. 4
MCDayCosts == {0, 1, 3}
MCLimits == {0, 1, 4, 5, 9}

\* Anomalies: an ordinary reading, and a dear one that failed.
MCReadings == {[cost |-> 1, latency |-> 1, tokens |-> 1, ok |-> TRUE],
               [cost |-> 9, latency |-> 0, tokens |-> 9, ok |-> FALSE]}

\* Access: a key of the provider before and after a rotation; a token that expires
\* early and one for somebody else; an API key that expires.
MCToken(mat, until, right) == [kid |-> kid1, mat |-> mat, until |-> until, right |-> right]
MCBearers == {MCToken(1, 9, TRUE), MCToken(2, 1, TRUE), MCToken(2, 9, TRUE), MCToken(1, 9, FALSE)}
MCKeyUntil == (key1 :> 1)

derived == <<fbvars, fcvars, anovars, scenvars, accessvars>>
platformvars == <<plugvars, lifevars, memvars, nvars, gradevars, invars, derived>>
services == <<plugvars, lifevars, memvars, nvars, gradevars, invars>>

MCInit ==
    /\ part \in {"plugins", "lifecycle", "memory", "notify", "cards", "ingest",
               "feedback", "forecast", "anomaly", "scenarios", "trust", "limit"}
    /\ PluginsInit /\ LifeInit /\ MemInit /\ NotifyInit /\ CardsInit /\ IngestInit
    /\ FeedbackInit /\ ForecastInit /\ AnomalyInit /\ ScenariosInit
    /\ IF part \in {"trust", "limit"} THEN AccessInit
       ELSE AccessInit /\ published = [k \in KeyIds |-> 0]

MCNext ==
    /\ part' = part
    /\ \/ part = "plugins" /\ PluginsNext
          /\ UNCHANGED <<lifevars, memvars, nvars, gradevars, invars, derived>>
       \/ part = "lifecycle" /\ LifeNext
          /\ UNCHANGED <<plugvars, memvars, nvars, gradevars, invars, derived>>
       \/ part = "memory" /\ MemNext
          /\ UNCHANGED <<plugvars, lifevars, nvars, gradevars, invars, derived>>
       \/ part = "notify" /\ NotifyNext
          /\ UNCHANGED <<plugvars, lifevars, memvars, gradevars, invars, derived>>
       \/ part = "cards" /\ CardsNext
          /\ UNCHANGED <<plugvars, lifevars, memvars, nvars, invars, derived>>
       \/ part = "ingest" /\ IngestNext
          /\ UNCHANGED <<plugvars, lifevars, memvars, nvars, gradevars, derived>>
       \/ part = "feedback" /\ FeedbackNext
          /\ UNCHANGED <<services, fcvars, anovars, scenvars, accessvars>>
       \/ part = "forecast" /\ ForecastNext
          /\ UNCHANGED <<services, fbvars, anovars, scenvars, accessvars>>
       \/ part = "anomaly" /\ AnomalyNext
          /\ UNCHANGED <<services, fbvars, fcvars, scenvars, accessvars>>
       \/ part = "scenarios" /\ ScenariosNext
          /\ UNCHANGED <<services, fbvars, fcvars, anovars, accessvars>>
       \/ part \in {"trust", "limit"} /\ AccessNext
          /\ UNCHANGED <<services, fbvars, fcvars, anovars, scenvars>>
          \* tokens and keys are looked at without the counting of failures, and the
          \* failures are counted while the provider stands still
          /\ IF part = "trust" THEN UNCHANGED counting ELSE UNCHANGED provider

MCSpec == MCInit /\ [][MCNext]_<<part, platformvars>>

Symmetry == Permutations(Hosts) \cup Permutations(Movers) \cup Permutations(Watchers)
            \cup Permutations(Visitors)
===============================================================================
