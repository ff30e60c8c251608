-------------------------------- MODULE MCServices ------------------------------
(***************************************************************************)
(* Instances of the services around the core.  They share no state, so a     *)
(* behaviour exercises one of them: `part' is chosen once and the others     *)
(* stay in their first state.                                                *)
(***************************************************************************)
EXTENDS Policies, Intelligence, Pricing, Chargeback, TLC

CONSTANTS low, high, four, fouro, dated

VARIABLE part

\* Policies: two fields, a list condition and numbers.
MCDrafts ==
    LET cond(f, op, list, items) == [field |-> f, op |-> op, list |-> list, items |-> items]
    IN  {[conds |-> <<>>, action |-> "deny", priority |-> 1, enabled |-> TRUE],
         [conds |-> <<cond("cost", "gt", FALSE, {"5"})>>, action |-> "deny",
          priority |-> 2, enabled |-> TRUE],
         [conds |-> <<cond("model", "not_in", TRUE, {"a"}), cond("cost", "lte", FALSE, {"5"})>>,
          action |-> "require_approval", priority |-> 1, enabled |-> TRUE],
         [conds |-> <<cond("model", "contains", FALSE, {"a"})>>, action |-> "allow",
          priority |-> 2, enabled |-> FALSE]}
MCContexts == {[model |-> "a", cost |-> "9"], [model |-> "ab", cost |-> "5"], [cost |-> "9"]}
MCNumberOf == ("5" :> 5) @@ ("9" :> 9) @@ ("a" :> NaN) @@ ("ab" :> NaN)
MCInside == {<<"a", "a">>, <<"a", "ab">>, <<"ab", "ab">>, <<"5", "5">>, <<"9", "9">>}
MCFits == {}

\* The model router.
MCProfile(c, q, l, t, up) == [cost |-> c, quality |-> q, latency |-> l, tags |-> t, up |-> up, errors |-> 0]
MCProfiles == {MCProfile(0, 65, 3, {}, TRUE), MCProfile(2, 70, 1, {"json"}, TRUE),
               MCProfile(5, 72, 2, {"json"}, TRUE), MCProfile(5, 95, 2, {}, FALSE)}
MCAsks == {[quality |-> q, latency |-> l, cost |-> c, tags |-> t, fallback |-> low] :
             q \in {0, 71}, l \in {NoLimit, 0, 2}, c \in {NoLimit, 0, 2}, t \in {{}, {"json"}}}

\* The tier registry.
MCPriceOf == (low :> 0) @@ (high :> 3) @@ (four :> 1)
MCMakerOf == (low :> "x") @@ (high :> "x") @@ (four :> "y")
MCContextOf == (low :> 1) @@ (high :> 2) @@ (four :> 1)
MCThresholds == {[economy |-> 1, standard |-> 3], [economy |-> 2, standard |-> 2]}
MCGranted == {{"economy"}, {"standard", "free"}, {}}

\* The complexity router and the token analyzer.
MCModelOf == [l \in {"simple", "medium", "complex", "reasoning"} |->
                IF l = "simple" THEN ("default" :> low) @@ ("openai" :> four) ELSE ("default" :> high)]
MCCalls == {[scope |-> s, input |-> i, output |-> o, system |-> y, context |-> 10] :
              s \in {"x", "y"}, i \in {0, 5, 12}, o \in {0, 5}, y \in {0, 5}}

\* Prices: a dated name begins with both `four' and `fouro', in that order.
MCNames == {four, fouro, dated, high}
MCRank == (four :> 1) @@ (fouro :> 2) @@ (dated :> 3) @@ (high :> 4)
MCStrip == (four :> four) @@ (fouro :> fouro) @@ (dated :> dated) @@ (high :> fouro)
MCBase == [m \in MCNames |-> m]
MCBegins == {<<m, m>> : m \in MCNames} \cup {<<fouro, four>>, <<dated, four>>, <<dated, fouro>>}
MCPrice == {[input |-> 2, output |-> 1, read |-> 1], [input |-> 3, output |-> 0, read |-> Unpriced]}
MCTables == {(four :> [input |-> 10, output |-> 2, read |-> Unpriced]) @@
             (fouro :> [input |-> 2, output |-> 1, read |-> 1]),
             (four :> [input |-> 9, output |-> 2, read |-> 12])}
MCOverrides == (high :> [input |-> 0, output |-> 0, read |-> 0])

svars == <<pvars, rvars, tiervars, scorevars, pricevars, cvars>>

MCInit ==
    /\ part \in {"policies", "router", "tiers", "scores", "analyzer", "prices", "chargeback"}
    /\ PoliciesInit /\ RouterInit
    /\ IF part = "tiers" THEN TiersInit
       ELSE TiersInit /\ bounds = CHOOSE b \in Thresholds : TRUE
    /\ IF part = "scores" THEN ScoresInit ELSE ScoresInit /\ prompt.talk = 1
    /\ IF part = "prices" THEN PricingInit
       ELSE PricingInit /\ file = CHOOSE t \in Tables : TRUE
    /\ ChargebackInit

MCNext ==
    /\ part' = part
    /\ \/ part = "policies" /\ PoliciesNext
          /\ UNCHANGED <<rvars, tiervars, scorevars, pricevars, cvars>>
       \/ part = "router" /\ RouterNext
          /\ UNCHANGED <<pvars, tiervars, scorevars, pricevars, cvars>>
       \/ part = "tiers" /\ TiersNext
          /\ UNCHANGED <<pvars, rvars, scorevars, pricevars, cvars>>
       \/ part = "scores" /\ PromptNext
          /\ UNCHANGED <<pvars, rvars, tiervars, pricevars, cvars>>
       \/ part = "analyzer" /\ AnalyzerNext
          /\ UNCHANGED <<pvars, rvars, tiervars, pricevars, cvars>>
       \/ part = "prices" /\ PricingNext
          /\ UNCHANGED <<pvars, rvars, tiervars, scorevars, cvars>>
       \/ part = "chargeback" /\ ChargebackNext
          /\ UNCHANGED <<pvars, rvars, tiervars, scorevars, pricevars>>

MCSpec == MCInit /\ [][MCNext]_<<part, svars>>

Symmetry == Permutations(Staff)
===============================================================================
