------------------------------ MODULE Intelligence -----------------------------
(***************************************************************************)
(* What agentcost/intelligence knows of models and prompts.                 *)
(*                                                                         *)
(* TierRegistry (tier_registry.py): a lazily loaded cache of every model's  *)
(* price tier.  The registry is a singleton without a lock; loading goes     *)
(* over all models one by one, while other threads look up, override or move *)
(* the thresholds.  Prices are per million tokens.                           *)
(*                                                                         *)
(* ComplexityRouter (complexity_router.py) and TokenAnalyzer                 *)
(* (token_analyzer.py).  A prompt is what the router counts in it: how many  *)
(* patterns of each kind match, its length class, code fences, whether it    *)
(* looks structured, and the number of messages.  Scores are doubled, to be  *)
(* whole.  A recorded call is the analyzer's tokens; ratios are in percent,  *)
(* rounded down.                                                             *)
(***************************************************************************)
EXTENDS ModelRouter

CONSTANTS Readers,     \* threads
          TModels, PriceOf, ContextOf, MakerOf, NotChat,  \* the vendored data
          Thresholds,  \* [economy, standard] settings
          Granted,     \* allowed_tiers lists a policy is checked against
          MaxSets,
          Uncached

TierNames == {"economy", "standard", "premium", "free", "unknown"}

ASSUME TierAssumption ==
    /\ PriceOf \in [TModels -> Nat] /\ ContextOf \in [TModels -> Nat] /\ NotChat \subseteq TModels
    /\ Thresholds \subseteq [economy : Nat, standard : Nat]
    /\ \A m \in TModels : MakerOf[m] # Uncached
    /\ Uncached \notin TModels /\ Uncached \notin TierNames \cup {"invalid"}
    /\ MaxSets \in Nat

VARIABLES tierOf,     \* _cache: the tier of each model, Uncached if none
          loaded,
          bounds,     \* _thresholds
          override,   \* _overrides: a tier's name or an invalid one, Uncached if none
          reader,     \* reader[r]: what r has still to load, and what it is storing
          sets,
          raced       \* history: set_thresholds came in the middle of a load

tiervars == <<tierOf, loaded, bounds, override, reader, sets, raced>>

NotLoading == [busy |-> FALSE, todo |-> {}, model |-> Uncached, tier |-> Uncached]

TiersInit ==
    /\ tierOf = [m \in TModels |-> Uncached]
    /\ loaded = FALSE
    /\ bounds \in Thresholds
    /\ override = [m \in TModels |-> Uncached]
    /\ reader = [r \in Readers |-> NotLoading]
    /\ sets = 0 /\ raced = FALSE

\* _classify_by_price: a valid override, then the price; the economy tier ends
\* before its bound and the standard tier at it.
ByPrice(m, price) ==
    IF override[m] \in TierNames THEN override[m]
    ELSE IF price = 0 THEN "free"
    ELSE IF price < bounds.economy THEN "economy"
    ELSE IF price <= bounds.standard THEN "standard" ELSE "premium"

\* Free models that are no chat models (embeddings, images) are left out.
Loadable == {m \in TModels : ~(PriceOf[m] = 0 /\ m \in NotChat)}

StartLoad(r) ==
    /\ ~loaded /\ reader[r] = NotLoading
    /\ reader' = [reader EXCEPT ![r] = [NotLoading EXCEPT !.busy = TRUE, !.todo = Loadable]]
    /\ UNCHANGED <<tierOf, loaded, bounds, override, sets, raced>>

\* The tier is worked out first and stored then.
ClassifyNext(r, m) ==
    /\ reader[r].busy /\ reader[r].model = Uncached /\ m \in reader[r].todo
    /\ reader' = [reader EXCEPT ![r].todo = @ \ {m}, ![r].model = m,
                                ![r].tier = ByPrice(m, PriceOf[m])]
    /\ UNCHANGED <<tierOf, loaded, bounds, override, sets, raced>>

StoreTier(r) ==
    /\ reader[r].model # Uncached
    /\ tierOf' = [tierOf EXCEPT ![reader[r].model] = reader[r].tier]
    /\ reader' = [reader EXCEPT ![r].model = Uncached, ![r].tier = Uncached]
    /\ UNCHANGED <<loaded, bounds, override, sets, raced>>

EndLoad(r) ==
    /\ reader[r].busy /\ reader[r].todo = {} /\ reader[r].model = Uncached
    /\ loaded' = TRUE
    /\ reader' = [reader EXCEPT ![r] = NotLoading]
    /\ UNCHANGED <<tierOf, bounds, override, sets, raced>>

Loading == \E r \in Readers : reader[r].busy

\* set_thresholds: the cache is emptied and loaded again by the next lookup.
SetThresholds(b) ==
    /\ bounds # b /\ sets < MaxSets /\ sets' = sets + 1
    /\ bounds' = b
    /\ loaded' = FALSE
    /\ tierOf' = [m \in TModels |-> Uncached]
    /\ raced' = (raced \/ Loading)
    /\ UNCHANGED <<override, reader>>

\* set_override: an invalid name raises, after it was stored; the cached tier of a
\* model changes at once.
Overridden(m, tier) ==
    IF tierOf[m] # Uncached /\ tier \in TierNames THEN [tierOf EXCEPT ![m] = tier] ELSE tierOf

SetOverride(m, tier) ==
    /\ override[m] # tier /\ sets < MaxSets /\ sets' = sets + 1
    /\ override' = [override EXCEPT ![m] = tier]
    /\ tierOf' = Overridden(m, tier)
    /\ raced' = (raced \/ Loading)
    /\ UNCHANGED <<loaded, bounds, reader>>

TiersNext ==
    \/ \E r \in Readers :
         StartLoad(r) \/ StoreTier(r) \/ EndLoad(r) \/ \E m \in TModels : ClassifyNext(r, m)
    \/ \E b \in Thresholds : SetThresholds(b)
    \/ \E m \in TModels, tier \in TierNames \cup {"invalid"} : SetOverride(m, tier)

TiersSpec == TiersInit /\ [][TiersNext]_tiervars

-----------------------------------------------------------------------------
(* Lookups, once the registry is loaded                                     *)

\* The fallback through get_pricing_per_1m reads "input_per_1m", which that
\* function does not return: a model outside the cache is unknown.
Classify(m) == IF tierOf[m] = Uncached THEN "unknown" ELSE tierOf[m]
InTier(tier) == {m \in TModels : tierOf[m] = tier}
CheapestInTier(tier, maker, context) ==
    LET fit == {m \in InTier(tier) : /\ maker = Uncached \/ MakerOf[m] = maker
                                     /\ context = 0 \/ ContextOf[m] >= context}
    IN  IF fit = {} THEN Uncached
        ELSE CHOOSE m \in fit : \A n \in fit : PriceOf[m] <= PriceOf[n]

Fallbacks == <<"economy", "standard", "premium">>
\* Of the provider of the refused model, if the registry knows it.
Alternative(m, granted) ==
    LET usable == {i \in DOMAIN Fallbacks : Fallbacks[i] \in granted}
        first == CHOOSE i \in usable : \A j \in usable : i <= j
    IN  IF usable = {} THEN Uncached
        ELSE CheapestInTier(Fallbacks[first], IF tierOf[m] = Uncached THEN Uncached ELSE MakerOf[m], 0)

\* check_tier_policy; an empty list allows everything.
TierCheck(m, granted, maxCost, tokens) ==
    IF granted # {} /\ Classify(m) \notin granted
    THEN [allowed |-> FALSE, alternative |-> Alternative(m, granted)]
    ELSE [allowed |-> ~(maxCost > 0 /\ tokens > 0 /\ tierOf[m] # Uncached
                        /\ PriceOf[m] * tokens > maxCost),
          alternative |-> Uncached]

-----------------------------------------------------------------------------
\* A loaded registry knows every model at the thresholds and overrides of now,
\* however lookups, overrides and changes of the thresholds interleave, unless a
\* change fell into a load in progress.
TiersCurrent ==
    loaded /\ ~raced =>
        \A m \in Loadable : \/ tierOf[m] = ByPrice(m, PriceOf[m])
                            \/ override[m] = "invalid"

\* The tiers are ranges of the price, unless overridden: a dearer model is in no
\* lower tier; and what a refused request is offered instead is itself allowed, and
\* of the same provider when that is known.
TiersOrdered ==
    loaded /\ ~raced =>
        /\ \A m, n \in TModels :
             (override[m] = Uncached /\ override[n] = Uncached /\ PriceOf[m] < PriceOf[n])
                => ~(tierOf[m] = "premium" /\ tierOf[n] \in {"economy", "standard", "free"})
        /\ \A m \in TModels, granted \in Granted :
             LET c == TierCheck(m, granted, 0, 0) IN
             c.alternative # Uncached =>
               /\ TierCheck(c.alternative, granted, 0, 0).allowed
               /\ tierOf[m] # Uncached => MakerOf[c.alternative] = MakerOf[m]

TiersSound == TiersCurrent /\ TiersOrdered

-----------------------------------------------------------------------------
(* Prompts and recorded calls                                               *)

CONSTANTS MaxHits,     \* bound on matching patterns of a kind
          Talks,       \* message counts
          ModelOf,     \* ModelOf[level][provider], `default' among the providers
          Providers,
          Recordable,       \* [scope, input, output, system, context]
          MaxRecorded  \* max_calls

Levels == <<"simple", "medium", "complex", "reasoning">>
Lengths == <<"short", "medium", "long", "very_long">>
ACall == [scope : {c.scope : c \in Recordable}, input : Nat, output : Nat, system : Nat, context : Nat]

ASSUME ScoresAssumption ==
    /\ Talks \subseteq Nat /\ Recordable \subseteq ACall /\ {MaxHits, MaxRecorded} \subseteq Nat
    /\ \A i \in DOMAIN Levels : "default" \in DOMAIN ModelOf[Levels[i]]

VARIABLES prompt,     \* the prompt that is classified
          recorded    \* TokenAnalyzer._calls

scorevars == <<prompt, recorded>>

Blank == [reasoning |-> 0, complex |-> 0, simple |-> 0, length |-> 1, fences |-> 0,
          structured |-> FALSE, talk |-> 1]

ScoresInit == prompt \in {[Blank EXCEPT !.talk = t] : t \in Talks} /\ recorded = <<>>

-----------------------------------------------------------------------------
(* ComplexityRouter.classify                                                *)

\* The branch for more than 10 messages comes after the one for more than 5 and is
\* never taken.
Raw(p) ==
    [simple |-> 3 * p.simple + (IF p.length = 1 THEN 2 ELSE 0),
     medium |-> (IF p.length = 2 THEN 2 ELSE 0) + (IF p.structured THEN 1 ELSE 0),
     complex |-> 3 * p.complex + (IF p.length = 3 THEN 1 ELSE IF p.length = 4 THEN 2 ELSE 0)
                 + (IF p.fences >= 2 THEN 2 ELSE 0) + (IF p.talk > 5 THEN 1 ELSE 0),
     reasoning |-> 4 * p.reasoning + (IF p.length = 4 THEN 1 ELSE 0)]
Sum4(s) == s.simple + s.medium + s.complex + s.reasoning
Score(p) == IF Sum4(Raw(p)) < 2 THEN [Raw(p) EXCEPT !.medium = @ + 2] ELSE Raw(p)

\* max(scores, key=...): the first of the largest, in the order of the dict.
Level(p) ==
    LET s == Score(p) IN
    Levels[CHOOSE i \in 1 .. 4 : \A j \in 1 .. 4 :
        /\ s[Levels[i]] >= s[Levels[j]]
        /\ j < i => s[Levels[i]] > s[Levels[j]]]
Confidence(p) == (100 * Score(p)[Level(p)]) \div Sum4(Score(p))
Tier(p) == CASE Level(p) = "simple" -> "economy"
             [] Level(p) \in {"medium", "complex"} -> "standard"
             [] Level(p) = "reasoning" -> "premium"

\* route(): a provider without a model of the level gets the default's.
RouteTo(p, provider) ==
    IF provider \in DOMAIN ModelOf[Level(p)] THEN ModelOf[Level(p)][provider]
    ELSE ModelOf[Level(p)]["default"]

\* The prompt grows: another pattern, more text, a code fence, structure.
Grow(kind) ==
    /\ prompt[kind] < MaxHits
    /\ prompt' = [prompt EXCEPT ![kind] = @ + 1]
    /\ UNCHANGED recorded
Lengthen ==
    /\ prompt.length < 4
    /\ prompt' = [prompt EXCEPT !.length = @ + 1]
    /\ UNCHANGED recorded
Structure ==
    /\ ~prompt.structured
    /\ prompt' = [prompt EXCEPT !.structured = TRUE]
    /\ UNCHANGED recorded

-----------------------------------------------------------------------------
(* TokenAnalyzer                                                            *)

Pct(a, b) == IF b <= 0 THEN 0 ELSE IF a > b THEN 100 ELSE (100 * a) \div b
Utilization(c) == Pct(c.input, c.context)
SystemRatio(c) == Pct(c.system, c.input)
OutputRatio(c) == Pct(c.output, c.input + c.output)

Kept(s) == IF Len(s) > MaxRecorded THEN SubSeq(s, Len(s) - MaxRecorded + 1, Len(s)) ELSE s

RecordCall(c) ==
    /\ recorded' = Kept(Append(recorded, c))
    /\ UNCHANGED prompt

\* The places of the calls of a scope; S is such a set below.
Of(scope) == {i \in DOMAIN recorded : recorded[i].scope = scope}
Utilizations == [i \in DOMAIN recorded |-> Utilization(recorded[i])]
SystemRatios == [i \in DOMAIN recorded |-> SystemRatio(recorded[i])]
OutputRatios == [i \in DOMAIN recorded |-> OutputRatio(recorded[i])]
Mean(ratios, S) == SumFunctionOnSet(ratios, S) \div Cardinality(S)
Crowded(S) == Cardinality({i \in S : Utilizations[i] > 90})

Counted(S, tokens) == \E i \in S : recorded[i][tokens] > 0
Least0(x) == IF x < 0 THEN 0 ELSE x

ScoreContext(avg) == CASE avg \in 10 .. 70 -> 40
                       [] avg < 10 -> 4 * avg
                       [] avg > 70 -> Least0(40 - (40 * (avg - 70)) \div 30)
ScoreSystem(avg) == IF avg <= 30 THEN 20 ELSE Least0(20 - (20 * (avg - 30)) \div 70)
ScoreOutput(avg) == CASE avg \in 2 .. 50 -> 20
                      [] avg < 2 -> 10 * avg
                      [] avg > 50 -> Least0(20 - (20 * (avg - 50)) \div 50)
ScoreRoom(crowded, calls) == Least0(20 - (40 * crowded) \div calls)

\* analyze(): an empty scope scores 0.
Analysis(S) ==
    IF S = {} THEN [calls |-> 0, score |-> 0, warnings |-> {"empty"}]
    ELSE [calls |-> Cardinality(S),
          score |-> ScoreContext(Mean(Utilizations, S)) + ScoreSystem(Mean(SystemRatios, S))
                    + ScoreOutput(Mean(OutputRatios, S)) + ScoreRoom(Crowded(S), Cardinality(S)),
          warnings |->
             (IF Mean(SystemRatios, S) > 30 THEN {"system"} ELSE {})
             \cup (IF Mean(Utilizations, S) < 5 /\ Counted(S, "input") THEN {"idle"} ELSE {})
             \cup (IF 5 * Crowded(S) > Cardinality(S) THEN {"crowded"} ELSE {})
             \cup (IF Mean(OutputRatios, S) < 2 /\ Counted(S, "output") THEN {"silent"} ELSE {})]

PromptNext ==
    \/ \E kind \in {"reasoning", "complex", "simple", "fences"} : Grow(kind)
    \/ Lengthen \/ Structure
AnalyzerNext == \E c \in Recordable : RecordCall(c)

ScoresSpec == ScoresInit /\ [][PromptNext \/ AnalyzerNext]_scorevars

-----------------------------------------------------------------------------
\* More signs of a kind never take a prompt away from that kind nor make it less
\* sure; a conversation that goes on never makes a prompt simpler; and whatever
\* the level, each provider is sent to some model.
SignsCount ==
    /\ \A kind \in {"reasoning", "complex", "simple"} :
         LET more == [prompt EXCEPT ![kind] = @ + 1] IN
         Level(prompt) = kind => Level(more) = kind /\ Confidence(more) >= Confidence(prompt)
    /\ prompt.reasoning > prompt.complex + prompt.simple + 1 => Tier(prompt) = "premium"
    /\ \A t \in Talks : t > prompt.talk /\ Level(prompt) \in {"complex", "reasoning"} =>
         Level([prompt EXCEPT !.talk = t]) \in {"complex", "reasoning"}
    /\ \A v \in Providers : RouteTo(prompt, v) \in UNION {{ModelOf[l][x] : x \in DOMAIN ModelOf[l]} :
                                                            l \in {"simple", "medium", "complex", "reasoning"}}

\* A report scores between 0 and 100, whatever the calls; a call at the context
\* limit never leaves more room than before; what was recorded stays within
\* max_calls, the latest calls kept.
ReportsSound ==
    /\ Len(recorded) <= MaxRecorded
    /\ \A scope \in {c.scope : c \in Recordable} :
         LET S == Of(scope)
             n == Cardinality(S) IN
         /\ Analysis(S).score \in 0 .. 100
         /\ S # {} => ScoreRoom(Crowded(S) + 1, n + 1) <= ScoreRoom(Crowded(S), n)
         /\ "crowded" \in Analysis(S).warnings => Analysis(S).score < 100

ScoresSound == SignsCount /\ ReportsSound

-----------------------------------------------------------------------------
\* A model is chosen as its profile, its tier and the prompt's score say: the
\* router, the tier registry and the complexity router keep their promises.
ModelChoiceSound == RouterSound /\ TiersSound /\ ScoresSound
===============================================================================
