-------------------------------- MODULE Anomaly --------------------------------
(***************************************************************************)
(* AnomalyDetector (agentcost/anomaly).  ingest is a callback of the tracker,  *)
(* so every thread that records a call runs it, without a lock: it looks up    *)
(* the rolling statistics of the series, checks, adds the reading to them and   *)
(* then filters its alerts by the cooldown.  Between these steps other threads *)
(* ingest, or reset() drops the statistics it still holds.                     *)
(* A series is a pair of project and model; readings are whole numbers, and a  *)
(* reading of 0 is not looked at.                                              *)
(***************************************************************************)
EXTENDS Integers, FiniteSets, Sequences, SequencesExt, FiniteSetsExt

CONSTANTS Watchers,       \* threads that record calls
          Series,
          Readings,       \* what a call says: [cost, latency, tokens, ok]
          MinSamples,     \* min_samples
          BaselineSize,   \* window_size
          StatusSize,     \* error_rate_window
          SenseNum, SenseDen,   \* sensitivity
          RateNum, RateDen,     \* error_rate_threshold
          AlertCooldown,
          MaxReadings,    \* bound on the readings
          MaxTicks,       \* bound on the clock
          MaxResets

ASSUME AnomalyAssumption ==
    /\ MinSamples \in Nat \ {0} /\ BaselineSize \in Nat /\ StatusSize \in Nat
    /\ SenseNum \in Nat /\ SenseDen \in Nat \ {0} /\ RateNum \in Nat /\ RateDen \in Nat \ {0}
    /\ AlertCooldown \in Nat /\ MaxReadings \in Nat /\ MaxTicks \in Nat /\ MaxResets \in Nat

Metrics == {"cost", "latency", "tokens"}
AlertKinds == <<"cost", "latency", "tokens", "errors">>

VARIABLES baseline,   \* RollingStats._window of each series and metric
          statuses,   \* _recent_statuses
          lastAlert,  \* _recent_alerts, 0 if there is none
          watch,      \* what each thread is doing in ingest
          ticks,      \* time.time()
          resets,     \* resets[s]: how often the statistics of s were dropped
          taken,      \* readings so far
          chronicle     \* history: per series, the readings added since the last reset;
                      \* announcements; series in which two ingests overlapped

anovars == <<baseline, statuses, lastAlert, watch, ticks, resets, taken, chronicle>>

Watching == [at |-> "idle", s |-> CHOOSE s \in Series : TRUE, reading |-> CHOOSE r \in Readings : TRUE,
             alerts |-> {}, gen |-> 0, now |-> 0]
NoStats == [m \in Metrics |-> <<>>]

AnomalyInit ==
    /\ baseline = [s \in Series |-> NoStats]
    /\ statuses = [s \in Series |-> <<>>]
    /\ lastAlert = [s \in Series |-> [k \in ToSet(AlertKinds) |-> 0]]
    /\ watch = [w \in Watchers |-> Watching]
    /\ ticks = AlertCooldown + 1
    /\ resets = [s \in Series |-> 0]
    /\ taken = 0
    /\ chronicle = [added |-> [s \in Series |-> NoStats], told |-> {}, mixed |-> {}]

-----------------------------------------------------------------------------
(* RollingStats                                                             *)

Rolled(seq, n) == IF Len(seq) > n THEN Tail(seq) ELSE seq
SumOf(seq) == FoldSeq(+, 0, seq)
Squares(seq) == FoldSeq(LAMBDA x, acc : x * x + acc, 0, seq)

\* z_score(v) > sensitivity, multiplied out.  A constant baseline makes any other
\* reading infinitely unlikely, a smaller one as well.
Unlikely(seq, v) ==
    LET n == Len(seq)
        above == n * v - SumOf(seq)
        spread == n * Squares(seq) - SumOf(seq) * SumOf(seq)
    IN  IF spread = 0 THEN above # 0
        ELSE above > 0 /\ SenseDen * SenseDen * above * above > SenseNum * SenseNum * spread

\* At least five times the mean, which counts as 1 at least.
Exploded(seq, v) == v >= 5 /\ v * Len(seq) >= 5 * SumOf(seq)

-----------------------------------------------------------------------------
(* ingest                                                                   *)

Warm(seq) == Len(seq) >= MinSamples

Suspicious(s, r) ==
    {m \in Metrics :
        /\ r[m] > 0
        /\ Warm(baseline[s][m])
        /\ Unlikely(baseline[s][m], r[m])
        /\ m = "tokens" => Exploded(baseline[s][m], r[m])}

Failures(seq) == Len(SelectSeq(seq, LAMBDA ok : ~ok))
Bursting(seq) == Warm(seq) /\ RateDen * Failures(seq) >= RateNum * Len(seq)

\* The alerts are made, and filtered, in the order of the checks.
First(kinds) ==
    AlertKinds[CHOOSE i \in DOMAIN AlertKinds :
                   AlertKinds[i] \in kinds /\ \A j \in 1 .. i - 1 : AlertKinds[j] \notin kinds]

Overlaps(w, s) == \E x \in Watchers \ {w} : watch[x].at # "idle" /\ watch[x].s = s

\* The status joins the recent ones and the checks are made, against the
\* statistics without the reading.
Check(w, s, r) ==
    LET recent == Rolled(Append(statuses[s], r.ok), StatusSize)
        alerts == Suspicious(s, r) \cup IF Bursting(recent) THEN {"errors"} ELSE {}
    IN  /\ watch[w].at = "idle"
        /\ taken < MaxReadings
        /\ taken' = taken + 1
        /\ statuses' = [statuses EXCEPT ![s] = recent]
        /\ watch' = [watch EXCEPT ![w] = [at |-> "add", s |-> s, reading |-> r, alerts |-> alerts,
                                          gen |-> resets[s], now |-> 0]]
        /\ chronicle' = IF Overlaps(w, s) THEN [chronicle EXCEPT !.mixed = @ \cup {s}] ELSE chronicle
        /\ UNCHANGED <<baseline, lastAlert, ticks, resets>>

Seen(r) == {m \in Metrics : r[m] > 0}

Grown(stats, r) == [m \in Metrics |-> IF m \in Seen(r) THEN Append(stats[m], r[m]) ELSE stats[m]]

\* The reading joins the statistics the thread looked up: those of before a reset
\* are nobody's any more.  A window that got nothing is not over its size.
Add(w) ==
    LET s == watch[w].s  r == watch[w].reading IN
    /\ watch[w].at = "add"
    /\ IF watch[w].gen = resets[s]
       THEN /\ baseline' = [baseline EXCEPT
                  ![s] = [m \in Metrics |-> Rolled(Grown(@, r)[m], BaselineSize)]]
            /\ chronicle' = [chronicle EXCEPT !.added[s] = Grown(@, r)]
       ELSE UNCHANGED <<baseline, chronicle>>
    /\ watch' = [watch EXCEPT ![w].at = "look", ![w].now = ticks]
    /\ UNCHANGED <<statuses, lastAlert, ticks, resets, taken>>

\* now - last > cooldown
Due(w) == watch[w].now - lastAlert[watch[w].s][First(watch[w].alerts)] > AlertCooldown

\* _dedup_alerts reads the time of the last alert of the kind ...
LookUp(w) ==
    /\ watch[w].at = "look" /\ watch[w].alerts # {}
    /\ watch' = IF Due(w) THEN [watch EXCEPT ![w].at = "mark"]
                ELSE [watch EXCEPT ![w].alerts = @ \ {First(@)}]
    /\ UNCHANGED <<baseline, statuses, lastAlert, ticks, resets, taken, chronicle>>

\* ... and writes it; the alert will be handed to on_anomaly.
Mark(w) ==
    LET s == watch[w].s  k == First(watch[w].alerts) IN
    /\ watch[w].at = "mark"
    /\ lastAlert' = [lastAlert EXCEPT ![s][k] = watch[w].now]
    /\ chronicle' = [chronicle EXCEPT !.told = @ \cup {[s |-> s, kind |-> k, now |-> watch[w].now, n |-> taken]}]
    /\ watch' = [watch EXCEPT ![w].at = "look", ![w].alerts = @ \ {First(@)}]
    /\ UNCHANGED <<baseline, statuses, ticks, resets, taken>>

Return(w) ==
    /\ watch[w].at = "look" /\ watch[w].alerts = {}
    /\ watch' = [watch EXCEPT ![w] = Watching]
    /\ UNCHANGED <<baseline, statuses, lastAlert, ticks, resets, taken, chronicle>>

-----------------------------------------------------------------------------
(* reset                                                                    *)

MayReset == FoldSet(LAMBDA s, acc : acc + resets[s], 0, Series) < MaxResets

\* reset(project, model) leaves the cooldowns alone.
ResetSeries(s) ==
    /\ MayReset
    /\ baseline' = [baseline EXCEPT ![s] = NoStats]
    /\ statuses' = [statuses EXCEPT ![s] = <<>>]
    /\ resets' = [resets EXCEPT ![s] = @ + 1]
    /\ chronicle' = [chronicle EXCEPT !.added[s] = NoStats]
    /\ UNCHANGED <<lastAlert, watch, ticks, taken>>

\* reset() forgets when the last alerts were.
ResetAll ==
    /\ MayReset
    /\ baseline' = [s \in Series |-> NoStats]
    /\ statuses' = [s \in Series |-> <<>>]
    /\ lastAlert' = [s \in Series |-> [k \in ToSet(AlertKinds) |-> 0]]
    /\ resets' = [s \in Series |-> resets[s] + 1]
    /\ chronicle' = [added |-> [s \in Series |-> NoStats], told |-> {}, mixed |-> chronicle.mixed \cup
                     {s \in Series : \E w \in Watchers : watch[w].at # "idle" /\ watch[w].s = s}]
    /\ UNCHANGED <<watch, ticks, taken>>

TicksPass ==
    /\ ticks < MaxTicks
    /\ ticks' = ticks + 1
    /\ UNCHANGED <<baseline, statuses, lastAlert, watch, resets, taken, chronicle>>

AnomalyNext ==
    \/ \E w \in Watchers : \/ \E s \in Series, r \in Readings : Check(w, s, r)
                           \/ Add(w) \/ LookUp(w) \/ Mark(w) \/ Return(w)
    \/ \E s \in Series : ResetSeries(s)
    \/ ResetAll
    \/ TicksPass

AnomalySpec == AnomalyInit /\ [][AnomalyNext]_anovars

-----------------------------------------------------------------------------
(* Properties *)

\* What a series is measured against is the last readings added since it was
\* reset, in the order they came, and nothing else: no thread brings back the
\* statistics of before a reset.
BaselineIsRecent ==
    \A s \in Series, m \in Metrics :
        LET all == chronicle.added[s][m]
            n == IF Len(all) < BaselineSize THEN Len(all) ELSE BaselineSize
        IN  baseline[s][m] = SubSeq(all, Len(all) - n + 1, Len(all))

\* One kind of anomaly of one series is announced once per cooldown, unless two
\* threads ingested readings of the series at the same time.
AnnouncedOnce ==
    \A a, b \in chronicle.told :
        a # b /\ a.s = b.s /\ a.kind = b.kind =>
            \/ a.s \in chronicle.mixed
            \/ a.now - b.now > AlertCooldown \/ b.now - a.now > AlertCooldown

AnomalySound == BaselineIsRecent /\ AnnouncedOnce
===============================================================================
