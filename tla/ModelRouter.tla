------------------------------ MODULE ModelRouter ------------------------------
(***************************************************************************)
(* ModelRouter (agentcost/router/__init__.py): models are registered,        *)
(* updated, marked unavailable and removed while requests are routed.        *)
(* Quality is in percent; tags stand for the JSON, vision and tool support   *)
(* too, and a missing limit is NoLimit.                                      *)
(***************************************************************************)
EXTENDS Integers, Sequences, FiniteSets, Functions

CONSTANTS RModels,      \* names
          Profiles,     \* [cost, quality, latency, tags, up, errors]
          Asks,         \* [quality, latency, cost, tags, fallback], as passed to route()
          MaxEdits,
          NoLimit

AllTags == UNION {p.tags : p \in Profiles}
AProfile == [cost : Nat, quality : Nat, latency : Nat, tags : SUBSET AllTags, up : BOOLEAN, errors : Nat]
AnAsk == [quality : Nat, latency : Nat \cup {NoLimit}, cost : Nat \cup {NoLimit},
          tags : SUBSET UNION {q.tags : q \in Asks}, fallback : RModels \cup {NoLimit}]

ASSUME RouterAssumption ==
    /\ Profiles \subseteq AProfile /\ MaxEdits \in Nat
    /\ NoLimit \notin Nat /\ NoLimit \notin RModels
    /\ Asks \subseteq AnAsk

VARIABLES fleet,    \* _models, in the order of the dict: <<name, profile>>
          edits

rvars == <<fleet, edits>>

RouterInit == fleet = <<>> /\ edits = 0

Registered == {fleet[i][1] : i \in DOMAIN fleet}
Index(m) == CHOOSE i \in DOMAIN fleet : fleet[i][1] = m
Profile(m) == fleet[Index(m)][2]
Edit == edits < MaxEdits /\ edits' = edits + 1

\* Adding a name again replaces its profile in place.
AddModel(m, p) ==
    /\ Edit
    /\ fleet' = IF m \in Registered THEN [fleet EXCEPT ![Index(m)] = <<m, p>>]
                ELSE Append(fleet, <<m, p>>)

\* update_model and set_available.
UpdateModel(m, p) ==
    /\ Edit /\ m \in Registered
    /\ fleet' = [fleet EXCEPT ![Index(m)] = <<m, p>>]

SetAvailable(m, up) == UpdateModel(m, [Profile(m) EXCEPT !.up = up])

RemoveModel(m) ==
    /\ Edit /\ m \in Registered
    /\ fleet' = [i \in 1 .. Len(fleet) - 1 |-> fleet[IF i < Index(m) THEN i ELSE i + 1]]

-----------------------------------------------------------------------------
(* route                                                                    *)

\* A latency limit of 0 is no limit, a cost limit of 0 is one.
MutDownToo(p, q) ==
    /\ p.quality >= q.quality
    /\ q.latency \in {NoLimit, 0} \/ p.latency <= q.latency
    /\ q.cost = NoLimit \/ p.cost <= q.cost
    /\ q.tags \subseteq p.tags
Meets(p, q) ==
    /\ p.up
    /\ p.quality >= q.quality
    /\ q.latency \in {NoLimit, 0} \/ p.latency <= q.latency
    /\ q.cost = NoLimit \/ p.cost <= q.cost
    /\ q.tags \subseteq p.tags

\* The places of the candidates in the fleet.
Candidates(q) == {i \in DOMAIN fleet : Meets(fleet[i][2], q)}

\* quality / cost, infinite for a free model of some quality.
MoreEfficient(p, r) ==
    IF p.cost = 0 THEN p.quality > 0 /\ ~(r.cost = 0 /\ r.quality > 0)
    ELSE IF r.cost = 0 THEN r.quality = 0 /\ p.quality > 0
    ELSE p.quality * r.cost > r.quality * p.cost

Better(strategy, p, r) ==
    CASE strategy = "cheapest" -> p.cost < r.cost
      [] strategy = "quality" -> p.quality > r.quality
      [] strategy = "balanced" -> MoreEfficient(p, r)
      [] strategy = "latency" -> p.latency < r.latency

\* sort() is stable: among equals the first of the dict.
Selected(strategy, S) ==
    fleet[CHOOSE i \in S : \A j \in S :
            /\ ~Better(strategy, fleet[j][2], fleet[i][2])
            /\ Better(strategy, fleet[i][2], fleet[j][2]) \/ i <= j]

\* An unavailable model is a fallback like any other; no model is the empty name.
Route(strategy, q) ==
    IF Candidates(q) # {} THEN Selected(strategy, Candidates(q))[1]
    ELSE IF q.fallback \in Registered THEN q.fallback ELSE NoLimit

BestQuality == Selected("quality", DOMAIN fleet)[2]
Savings(p) ==
    IF BestQuality.cost = 0 \/ p.cost >= BestQuality.cost THEN 0
    ELSE 100 - (p.cost * 100) \div BestQuality.cost

\* sorted_by_quality, ties in the order of the dict.
Precedes(a, b) ==
    \/ Profile(a).quality > Profile(b).quality
    \/ (Profile(a).quality = Profile(b).quality /\ Index(a) < Index(b))

\* recommend(): from a to b, quality differing by less than 5 points and the
\* cost by more than half; and a free model for any that is not much better.
MutualSwitch(p, r) == p.cost > 0 /\ p.quality - r.quality < 5 /\ 2 * r.cost < p.cost
FreeSwitch(p, r) == r.cost = 0 /\ r.quality > 60 /\ p.cost > 0 /\ 10 * r.quality >= 9 * p.quality
Advised(a, b) ==
    \/ Precedes(a, b) /\ MutualSwitch(Profile(a), Profile(b))
    \/ FreeSwitch(Profile(a), Profile(b))
Suspect == {m \in Registered : Profile(m).errors > 10}

RouterNext ==
    \/ \E m \in RModels, p \in Profiles : AddModel(m, p) \/ UpdateModel(m, p)
    \/ \E m \in Registered : RemoveModel(m) \/ \E up \in BOOLEAN : SetAvailable(m, up)

RouterSpec == RouterInit /\ [][RouterNext]_rvars

-----------------------------------------------------------------------------
Strategies == {"cheapest", "quality", "balanced", "latency"}

\* What a looser request asks for: less quality, no limits, no tags.
Looser(q) == [q EXCEPT !.quality = 0, !.latency = NoLimit, !.cost = NoLimit, !.tags = {}]

\* A routed model is registered and available and meets every limit, unless it is
\* the fallback of a request nothing meets; asking for less never gets a dearer,
\* slower, poorer or less efficient one by the strategy that looks at it; and the
\* savings reported stay between 0 and 100.
RoutedWell ==
    \A strategy \in Strategies, q \in Asks :
        LET m == Route(strategy, q)
            n == Route(strategy, Looser(q)) IN
        IF Candidates(q) # {}
        THEN /\ m \in Registered /\ Profile(m).up
             /\ Profile(m).quality >= q.quality
             /\ q.cost # NoLimit => Profile(m).cost <= q.cost
             /\ ~Better(strategy, Profile(m), Profile(n))
             /\ Savings(Profile(m)) \in 0 .. 100
        ELSE m \in {q.fallback, NoLimit}

\* The advice to switch models is never circular: following it never comes back.
AdviceEnds == \A a, b, c \in Registered :
    /\ ~(Advised(a, b) /\ Advised(b, a))
    /\ ~(Advised(a, b) /\ Advised(b, c) /\ Advised(c, a))

RouterSound == RoutedWell /\ AdviceEnds
===============================================================================
