------------------------------- MODULE MCGateway -------------------------------
(***************************************************************************)
(* Instances of Gateway and SemanticCache for TLC.  The gateway as it is    *)
(* wired uses ResponseCache; SemanticCache is the alternative cache, checked *)
(* on its own: `part' is chosen once and the other component rests.         *)
(***************************************************************************)
EXTENDS Gateway, SemanticCache, TLC

CONSTANTS p1, p2, k1, k2, k3, gpt, odd, openai, python, language, what

VARIABLE part

MCBodies ==
    {[project |-> p, key |-> k, model |-> gpt, cold |-> TRUE, stream |-> FALSE] :
        p \in {p1}, k \in {k1, k2, k3}}
    \cup {[project |-> p2, key |-> k1, model |-> odd, cold |-> TRUE, stream |-> FALSE],
          [project |-> p2, key |-> k1, model |-> gpt, cold |-> TRUE, stream |-> TRUE]}
MCRoutes == <<[name |-> openai, models |-> {gpt}]>>
MCFamily == (gpt :> openai) @@ (odd :> p1)

MCPrompts == {<<what, python>>, <<python, language>>, <<language>>, <<what>>}

MCInit ==
    /\ part \in {"gateway", "semantic"}
    /\ GatewayInit
    /\ SemanticInit

MCNext ==
    /\ part' = part
    /\ \/ part = "gateway" /\ GatewayNext /\ UNCHANGED svars
       \/ part = "semantic" /\ SemanticNext /\ UNCHANGED gvars

MCSpec == MCInit /\ [][MCNext]_<<gvars, svars, part>>

Symmetry == Permutations(Requests) \cup Permutations({k2, k3})

TypeOK == GatewayTypeOK /\ SemanticTypeOK
===============================================================================
