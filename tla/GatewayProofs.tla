------------------------------ MODULE GatewayProofs ------------------------------
(***************************************************************************)
(* Proofs about Gateway, for any number of requests, projects, models and    *)
(* threads, any cache size and any rate limit: its state is well formed, no  *)
(* project gets more than its rate in a window, every request that is over   *)
(* is accounted for in the statistics and the traces, and a lookup loses no  *)
(* answer that is still good.  And about SemanticCache: its index and hits.  *)
(***************************************************************************)
EXTENDS Gateway, SemanticCache, SumLemmas

\* One more hit, miss, call or loss leaves the statistics of the right kind.
LEMMA BumpType ==
  ASSUME NEW s \in StatsSet, NEW b \in Bodies, NEW what \in Counters
  PROVE  Bump(s, what, b) \in StatsSet
<1>1. b.project \in Projects /\ b.model \in Models
  BY GatewayAssumption
<1>2. \A c \in Counts : Counted(c, what) \in Counts
  BY DEF Counts, Counted
<1>3. QED BY <1>1, <1>2 DEF Bump, StatsSet

\* Fresh statistics are of the right kind.
LEMMA ZeroStatsType == ZeroStats \in StatsSet
  BY DEF ZeroStats, StatsSet, NoCounts, Counts

\* Counting once more in one place adds one to the sum over the places.
LEMMA SumCounted ==
  ASSUME NEW S, IsFiniteSet(S), NEW f \in [S -> Counts], NEW x \in S,
         NEW what \in Counters, NEW w \in Counters
  PROVE  SumOver([f EXCEPT ![x] = Counted(@, what)], w)
           = SumOver(f, w) + (IF w = what THEN 1 ELSE 0)
<1> DEFINE g == [f EXCEPT ![x] = Counted(@, what)]
           before == [y \in S |-> f[y][w]]
           after == [y \in S |-> g[y][w]]
<1>1. \A y \in S : f[y] \in Counts
  OBVIOUS
<1>2. g \in [S -> Counts] /\ g[x] = Counted(f[x], what) /\ \A y \in S \ {x} : g[y] = f[y]
  BY <1>1 DEF Counts, Counted
<1>3. /\ \A y \in S : before[y] \in Int /\ after[y] \in Int
      /\ \A y \in S \ {x} : before[y] = after[y]
      /\ after[x] - before[x] = IF w = what THEN 1 ELSE 0
  BY <1>1, <1>2 DEF Counts, Counted
<1>4. SumOver(f, w) = SumFunctionOnSet(before, S) /\ SumOver(g, w) = SumFunctionOnSet(after, S)
  BY <1>2 DEF SumOver, SumFunction
<1> HIDE DEF g, before, after
<1>5. SumFunctionOnSet(after, S) = SumFunctionOnSet(before, S) + (after[x] - before[x])
  BY <1>3, SumChange
<1>6. QED
  BY <1>3, <1>4, <1>5 DEF g

\* What ends a handler changes that handler alone, and not its body.
LEMMA EndChanges ==
  ASSUME GatewayTypeOK, NEW r \in Requests, NEW o \in Outcomes, End(r, o)
  PROVE  /\ req' \in [Requests -> Handlers]
         /\ req'[r].at = "done" /\ req'[r].outcome = o /\ req'[r].body = req[r].body
         /\ \A q \in Requests \ {r} : req'[q] = req[q]
  BY DEF End, GatewayTypeOK, Handlers

\* A handler that is past its start has a body.
LEMMA BodyThere ==
  ASSUME GatewayTypeOK, NEW r \in Requests, req[r].at # "new"
  PROVE  req[r].body \in Bodies
  BY DEF GatewayTypeOK, Handlers

\* Posting a trace of a request's call adds one trace, which costs nothing.
LEMMA TracedAdds ==
  ASSUME GatewayTypeOK, NEW r \in Requests, NEW kind \in Kinds, Traced(r, kind)
  PROVE  /\ traces' = traces \cup {Trace(r, kind, 0)}
         /\ Trace(r, kind, 0) \in TraceSet
         /\ traces' \subseteq TraceSet
<1>1. traces' = traces \cup {Trace(r, kind, 0)}
  BY DEF Traced, TraceKinds, EstimateCost
<1>2. Trace(r, kind, 0) \in TraceSet
  BY DEF Trace, TraceSet
<1>3. QED BY <1>1, <1>2 DEF GatewayTypeOK

\* The cache after a lookup and after a store is a cache.
LEMMA CacheTypes ==
  ASSUME GatewayTypeOK, NEW b \in Bodies, NEW t \in Nat, NEW v \in {"full", "empty"}
  PROVE  /\ AfterGet(b) \in [Keys -> Entries \cup {None}]
         /\ \A c \in [Keys -> Entries \cup {None}] :
              Puts(c, b.key, t, v) \subseteq [Keys -> Entries \cup {None}]
<1>1. AfterGet(b) \in [Keys -> Entries \cup {None}]
  BY DEF AfterGet, GatewayTypeOK
<1>2. ASSUME NEW c \in [Keys -> Entries \cup {None}], NEW d \in Puts(c, b.key, t, v)
      PROVE  d \in [Keys -> Entries \cup {None}]
  <2>1. [t |-> t, v |-> v] \in Entries
    BY DEF Entries
  <2>2. PICK e : d = [e EXCEPT ![b.key] = [t |-> t, v |-> v]]
                 /\ (e = c \/ \E o \in Oldest(c) : e = [c EXCEPT ![o] = None])
    BY <1>2 DEF Puts
  <2>3. e \in [Keys -> Entries \cup {None}]
    BY <2>2
  <2>4. QED BY <2>1, <2>2, <2>3
<1>3. QED BY <1>1, <1>2

-----------------------------------------------------------------------------
\* The state of the gateway stays well formed.
LEMMA InitTypeOK == GatewayInit => GatewayTypeOK
  BY GatewayAssumption, ZeroStatsType
     DEF GatewayInit, GatewayTypeOK, NoBody, Handlers, Outcomes

\* A request that arrives.
LEMMA ArriveType ==
  ASSUME GatewayTypeOK, NEW r \in Requests, NEW b \in Bodies, Arrive(r, b)
  PROVE  GatewayTypeOK'
<1> DEFINE p == b.project
<1> USE DEF GatewayTypeOK
<1>1. p \in Projects /\ b # None
  BY GatewayAssumption
<1>2. Active(p) \in SUBSET [r : Requests, t : Nat]
  BY <1>1 DEF Active
<1>3. [r |-> r, t |-> now] \in [r : Requests, t : Nat]
  OBVIOUS
<1>4. [r |-> r, project |-> p, t |-> now] \in [r : Requests, project : Projects, t : Nat]
  BY <1>1
<1>5. window' \in [Projects -> SUBSET [r : Requests, t : Nat]]
  BY <1>1, <1>2, <1>3 DEF Arrive
<1>6. passed' \subseteq [r : Requests, project : Projects, t : Nat]
  BY <1>4 DEF Arrive
<1>7. req' \in [Requests -> Handlers] /\ req'[r].body = b /\ \A q \in Requests \ {r} : req'[q] = req[q]
  <2>1. req[r] \in Handlers
    OBVIOUS
  <2>2. [req[r] EXCEPT !.at = "done", !.body = b, !.outcome = "refused"] \in Handlers
    BY <2>1 DEF Handlers, Outcomes
  <2>3. [req[r] EXCEPT !.at = "body", !.body = b] \in Handlers
    BY <2>1 DEF Handlers
  <2>4. \A h \in Handlers : h.body = b /\ req' = [req EXCEPT ![r] = h] =>
          /\ req' \in [Requests -> Handlers] /\ req'[r].body = b
          /\ \A q \in Requests \ {r} : req'[q] = req[q]
    OBVIOUS
  <2>5. /\ [req[r] EXCEPT !.at = "done", !.body = b, !.outcome = "refused"].body = b
        /\ [req[r] EXCEPT !.at = "body", !.body = b].body = b
    BY <2>1 DEF Handlers
  <2>6. QED BY <2>2, <2>3, <2>4, <2>5 DEF Arrive
<1>8. QED BY <1>1, <1>5, <1>6, <1>7 DEF Arrive

\* What the ways a handler can end, or go on to stream, have in common.
LEMMA HandlerType ==
  ASSUME GatewayTypeOK, NEW r \in Requests, req[r].at # "new",
         req' \in [Requests -> Handlers], req'[r].body = req[r].body,
         \A q \in Requests \ {r} : req'[q] = req[q],
         cache' \in [Keys -> Entries \cup {None}], stats' \in StatsSet,
         traces' \subseteq TraceSet, now' \in Nat, UNCHANGED <<window, passed, clears>>
  PROVE  GatewayTypeOK'
  BY DEF GatewayTypeOK

\* A miss is counted in statistics.
LEMMA MissedType ==
  ASSUME GatewayTypeOK, NEW b \in Bodies
  PROVE  Missed(b) \in StatsSet
  BY BumpType DEF Missed, GatewayTypeOK, Counters

\* The ways a handler ends or goes on to stream, once it has its body.
LEMMA HandleType ==
  ASSUME GatewayTypeOK, NEW r \in Requests,
         \/ Malformed(r) \/ ServeHit(r) \/ NoProvider(r)
         \/ \E d \in 0 .. MaxDelay : \/ ProviderFails(r, d)
                                     \/ \E v \in {"full", "empty"} : ProviderAnswers(r, d, v)
                                     \/ ProviderStreams(r, d)
         \/ StreamEnds(r) \/ StreamBreaks(r)
  PROVE  GatewayTypeOK'
<1> DEFINE b == req[r].body
<1>1. req[r].at # "new"
  BY DEF Malformed, ServeHit, NoProvider, ProviderFails, ProviderAnswers, ProviderStreams,
         Forwards, StreamEnds, StreamBreaks
<1>2. b \in Bodies
  BY <1>1, BodyThere
<1>3. /\ cache \in [Keys -> Entries \cup {None}] /\ AfterGet(b) \in [Keys -> Entries \cup {None}]
      /\ stats \in StatsSet /\ Missed(b) \in StatsSet /\ Bump(stats, "hits", b) \in StatsSet
      /\ traces \subseteq TraceSet /\ now \in Nat /\ req \in [Requests -> Handlers]
  BY <1>2, CacheTypes, MissedType, BumpType DEF GatewayTypeOK, Counters
<1> USE DEF Outcomes, Kinds
<1>4. CASE Malformed(r)
  <2>1. End(r, "malformed") /\ UNCHANGED <<window, passed, cache, stats, traces, clears, now>>
    BY <1>4 DEF Malformed, End
  <2>2. QED BY <1>1, <1>3, <2>1, EndChanges, HandlerType
<1>5. CASE ServeHit(r)
  <2>1. /\ End(r, "hit") /\ Traced(r, "hit") /\ stats' = Bump(stats, "hits", b)
        /\ UNCHANGED <<window, passed, cache, clears, now>>
    BY <1>5 DEF ServeHit
  <2>2. QED BY <1>1, <1>3, <2>1, EndChanges, TracedAdds, HandlerType
<1>6. CASE NoProvider(r)
  <2>1. /\ End(r, "unroutable") /\ cache' = AfterGet(b) /\ stats' = Missed(b)
        /\ UNCHANGED <<window, passed, traces, clears, now>>
    BY <1>6 DEF NoProvider
  <2>2. QED BY <1>1, <1>3, <2>1, EndChanges, HandlerType
<1>7. ASSUME NEW d \in 0 .. MaxDelay, Forwards(r, d)
      PROVE  now' \in Nat /\ stats' \in StatsSet /\ UNCHANGED <<window, passed, clears>>
  BY <1>3, <1>7, GatewayAssumption DEF Forwards
<1>8. ASSUME NEW d \in 0 .. MaxDelay, ProviderFails(r, d) PROVE GatewayTypeOK'
  <2>1. Forwards(r, d) /\ End(r, "failed") /\ Traced(r, "error") /\ cache' = AfterGet(b)
    BY <1>8 DEF ProviderFails
  <2>2. QED BY <1>1, <1>3, <1>7, <2>1, EndChanges, TracedAdds, HandlerType
<1>9. ASSUME NEW d \in 0 .. MaxDelay, NEW v \in {"full", "empty"}, ProviderAnswers(r, d, v)
      PROVE  GatewayTypeOK'
  <2>1. Forwards(r, d) /\ End(r, "answered") /\ Traced(r, "success")
        /\ (cache' = AfterGet(b) \/ cache' \in Puts(AfterGet(b), b.key, now', v))
    BY <1>9 DEF ProviderAnswers
  <2>2. cache' \in [Keys -> Entries \cup {None}]
    BY <1>2, <1>3, <1>7, <2>1, CacheTypes
  <2>3. QED BY <1>1, <1>3, <1>7, <2>1, <2>2, EndChanges, TracedAdds, HandlerType
<1>10. ASSUME NEW d \in 0 .. MaxDelay, ProviderStreams(r, d) PROVE GatewayTypeOK'
  <2>1. Forwards(r, d) /\ req' = [req EXCEPT ![r].at = "stream"] /\ UNCHANGED <<cache, traces>>
    BY <1>10 DEF ProviderStreams
  <2>2. /\ req' \in [Requests -> Handlers] /\ req'[r].body = b
        /\ \A q \in Requests \ {r} : req'[q] = req[q]
    BY <1>3, <2>1 DEF Handlers
  <2>3. QED BY <1>1, <1>3, <1>7, <2>1, <2>2, HandlerType
<1>11. CASE StreamEnds(r)
  <2>1. /\ End(r, "streamed") /\ Traced(r, "stream")
        /\ UNCHANGED <<window, passed, cache, stats, clears, now>>
    BY <1>11 DEF StreamEnds
  <2>2. QED BY <1>1, <1>3, <2>1, EndChanges, TracedAdds, HandlerType
<1>12. CASE StreamBreaks(r)
  <2>1. /\ End(r, "broken")
        /\ UNCHANGED <<window, passed, cache, stats, traces, clears, now>>
    BY <1>12 DEF StreamBreaks
  <2>2. QED BY <1>1, <1>3, <2>1, EndChanges, HandlerType
<1>13. QED BY <1>4, <1>5, <1>6, <1>8, <1>9, <1>10, <1>11, <1>12

\* The threads that post traces, maintenance and time.
LEMMA OtherTypes ==
  ASSUME GatewayTypeOK, PostSucceeds \/ PostFails \/ ClearCache \/ ResetStats \/ Tick
  PROVE  GatewayTypeOK'
<1>1. ASSUME NEW x \in traces, NEW state \in {"stored", "lost"}, Posted(x, state)
      PROVE  GatewayTypeOK'
  <2>1. x \in TraceSet
    BY DEF GatewayTypeOK
  <2>2. [x EXCEPT !.state = state] \in TraceSet
    BY <2>1 DEF TraceSet
  <2>3. QED BY <1>1, <2>2 DEF Posted, GatewayTypeOK
<1>2. CASE ClearCache
  BY <1>2, GatewayAssumption DEF ClearCache, GatewayTypeOK
<1>3. CASE ResetStats
  BY <1>3, ZeroStatsType, GatewayAssumption DEF ResetStats, AfterReset, GatewayTypeOK
<1>4. CASE Tick
  BY <1>4, GatewayAssumption DEF Tick, GatewayTypeOK
<1>5. QED BY <1>1, <1>2, <1>3, <1>4 DEF PostSucceeds, PostFails

\* The state of the gateway stays well formed.
THEOREM GatewayTypeCorrect == GatewaySpec => []GatewayTypeOK
<1>1. GatewayTypeOK /\ [GatewayNext]_gvars => GatewayTypeOK'
  <2> SUFFICES ASSUME GatewayTypeOK, [GatewayNext]_gvars PROVE GatewayTypeOK'
    OBVIOUS
  <2>1. CASE UNCHANGED gvars
    BY <2>1 DEF gvars, GatewayTypeOK
  <2>2. CASE GatewayNext
    BY <2>2, ArriveType, HandleType, OtherTypes DEF GatewayNext
  <2>3. QED BY <2>1, <2>2
<1>2. QED BY <1>1, InitTypeOK, PTL DEF GatewaySpec

-----------------------------------------------------------------------------
(* The rate limiter.                                                        *)

\* The requests of a project that were let through in the Window from t on.
LetThrough(p, t) == {x \in passed : x.project = p /\ x.t >= t /\ x.t < t + Window}

\* The limiter still counts every request it let through less than a Window
\* ago, so what it counts bounds what it may yet let through.
Remembers ==
    \A x \in passed :
        /\ x.t <= now
        /\ now - x.t < Window => [r |-> x.r, t |-> x.t] \in window[x.project]

RateInv ==
    /\ IsFiniteSet(passed)
    /\ \A p \in Projects : IsFiniteSet(window[p])
    /\ Remembers
    /\ \A p \in Projects, t \in Nat : Cardinality(LetThrough(p, t)) <= Rpm

\* The requests that a window which is not over yet let through are among
\* those the limiter counts.
LEMMA WindowIsCounted ==
  ASSUME GatewayTypeOK, RateInv, NEW p \in Projects, NEW t \in Nat, now < t + Window
  PROVE  /\ IsFiniteSet(LetThrough(p, t))
         /\ Cardinality(LetThrough(p, t)) <= Cardinality(Active(p))
<1> DEFINE counts == [x \in LetThrough(p, t) |-> [r |-> x.r, t |-> x.t]]
<1>1. IsFiniteSet(Active(p))
  BY FS_Subset DEF RateInv, Active
<1>2. \A x \in LetThrough(p, t) : /\ x \in [r : Requests, project : Projects, t : Nat]
                                 /\ x \in passed /\ x.project = p /\ x.t >= t
  BY DEF LetThrough, GatewayTypeOK
<1>3. \A x \in LetThrough(p, t) : counts[x] \in Active(p)
  <2> SUFFICES ASSUME NEW x \in LetThrough(p, t) PROVE [r |-> x.r, t |-> x.t] \in Active(p)
    OBVIOUS
  <2>1. x.t \in Nat /\ now \in Nat /\ now - x.t < Window
    BY <1>2, GatewayAssumption DEF GatewayTypeOK
  <2>2. QED BY <1>2, <2>1 DEF RateInv, Remembers, Active
<1>4. ASSUME NEW x \in LetThrough(p, t), NEW y \in LetThrough(p, t), counts[x] = counts[y]
      PROVE  x = y
  <2>1. [r |-> x.r, t |-> x.t] = [r |-> y.r, t |-> y.t]
    BY <1>4
  <2>2. x.r = y.r /\ x.t = y.t /\ x.project = y.project
    BY <1>2, <2>1
  <2>3. QED BY <1>2, <2>2
<1>5. counts \in Injection(LetThrough(p, t), Active(p))
  BY <1>3, <1>4 DEF Injection, IsInjective
<1>6. QED BY <1>1, <1>5, FS_Injection

\* A request that arrives.
LEMMA ArriveRate ==
  ASSUME GatewayTypeOK, RateInv, NEW r \in Requests, NEW b \in Bodies, Arrive(r, b)
  PROVE  RateInv'
<1> DEFINE p == b.project
           new == [r |-> r, project |-> p, t |-> now]
           mark == [r |-> r, t |-> now]
<1>1. p \in Projects /\ now \in Nat /\ Rpm \in Nat /\ Window \in Nat /\ now' = now
  BY GatewayAssumption DEF GatewayTypeOK, Arrive
<1>2. IsFiniteSet(Active(p)) /\ Cardinality(Active(p)) \in Nat
  BY <1>1, FS_Subset, FS_CardinalityType DEF RateInv, Active
<1>3. \A q \in Projects : window'[q] = IF q # p THEN window[q]
                                       ELSE IF passed' = passed /\ Cardinality(Active(p)) >= Rpm
                                            THEN Active(p) ELSE Active(p) \cup {mark}
  <2>1. \/ window' = [window EXCEPT ![p] = Active(p)] /\ passed' = passed
                                                  /\ Cardinality(Active(p)) >= Rpm
        \/ /\ window' = [window EXCEPT ![p] = Active(p) \cup {mark}]
           /\ ~ (Cardinality(Active(p)) >= Rpm)
    BY DEF Arrive
  <2>2. QED BY <1>1, <2>1 DEF GatewayTypeOK
<1>4. \A q \in Projects : IsFiniteSet(window'[q])
  <2>1. IsFiniteSet(Active(p) \cup {mark})
    BY <1>2, FS_AddElement
  <2>2. QED BY <1>2, <1>3, <2>1 DEF RateInv
<1>5. \/ passed' = passed
      \/ passed' = passed \cup {new} /\ Cardinality(Active(p)) < Rpm /\ mark \in window'[p]
  BY <1>1, <1>2, <1>3 DEF Arrive
<1>6. IsFiniteSet(passed')
  BY <1>5, FS_AddElement DEF RateInv
<1>7. \A x \in passed : x \in [r : Requests, project : Projects, t : Nat]
  BY DEF GatewayTypeOK
<1>8. Remembers'
  <2>1. ASSUME NEW x \in passed
        PROVE  x.t <= now' /\ (now' - x.t < Window => [r |-> x.r, t |-> x.t] \in window'[x.project])
    <3>1. x.project \in Projects /\ x.t <= now
          /\ (now - x.t < Window => [r |-> x.r, t |-> x.t] \in window[x.project])
      BY <1>7 DEF RateInv, Remembers
    <3>2. [r |-> x.r, t |-> x.t] \in window[p] /\ now - x.t < Window
            => [r |-> x.r, t |-> x.t] \in Active(p)
      BY DEF Active
    <3>3. CASE now - x.t < Window
      <4>1. [r |-> x.r, t |-> x.t] \in window'[x.project]
        BY <1>3, <3>1, <3>2, <3>3
      <4>2. QED BY <1>1, <3>1, <4>1
    <3>4. QED BY <1>1, <3>1, <3>3
  <2>2. passed' = passed \cup {new} /\ mark \in window'[p]
          => new.t <= now' /\ [r |-> new.r, t |-> new.t] \in window'[new.project]
    BY <1>1
  <2>3. QED BY <1>5, <2>1, <2>2 DEF Remembers
<1>9. ASSUME NEW q \in Projects, NEW t \in Nat PROVE Cardinality(LetThrough(q, t)') <= Rpm
  <2>1. CASE LetThrough(q, t)' = LetThrough(q, t)
    BY <2>1 DEF RateInv
  <2>2. CASE LetThrough(q, t)' # LetThrough(q, t)
    <3>1. passed' = passed \cup {new} /\ Cardinality(Active(p)) < Rpm
      BY <1>5, <2>2 DEF LetThrough
    <3>2. new.project = q /\ new.t >= t /\ new.t < t + Window
      BY <2>2, <3>1 DEF LetThrough
    <3>3. LetThrough(q, t)' = LetThrough(q, t) \cup {new} /\ q = p /\ now < t + Window
      BY <3>1, <3>2 DEF LetThrough
    <3>4. /\ IsFiniteSet(LetThrough(p, t))
          /\ Cardinality(LetThrough(p, t)) <= Cardinality(Active(p))
      BY <1>1, <3>3, WindowIsCounted
    <3>5. Cardinality(LetThrough(p, t)) \in Nat
      BY <3>4, FS_CardinalityType
    <3>6. LetThrough(q, t)' = LetThrough(p, t) \cup {new}
      BY <3>3
    <3> HIDE DEF new
    <3>7. Cardinality(LetThrough(p, t) \cup {new}) \in Nat
      BY <3>4, FS_AddElement, FS_CardinalityType
    <3>8. Cardinality(LetThrough(p, t) \cup {new}) <= Cardinality(LetThrough(p, t)) + 1
      <4>1. \/ Cardinality(LetThrough(p, t) \cup {new}) = Cardinality(LetThrough(p, t))
            \/ Cardinality(LetThrough(p, t) \cup {new}) = Cardinality(LetThrough(p, t)) + 1
        BY <3>4, FS_AddElement
      <4>2. QED BY <3>5, <4>1
    <3>9. QED BY <1>1, <1>2, <3>1, <3>4, <3>5, <3>6, <3>7, <3>8
  <2>3. QED BY <2>1, <2>2
<1>10. QED BY <1>4, <1>6, <1>8, <1>9 DEF RateInv

\* Nothing else lets a request through, and time only makes the limiter
\* forget what it need not count.
LEMMA OtherRate ==
  ASSUME GatewayTypeOK, GatewayTypeOK', RateInv, UNCHANGED <<window, passed>>, now' >= now
  PROVE  RateInv'
<1>1. \A x \in passed : x \in [r : Requests, project : Projects, t : Nat]
  BY DEF GatewayTypeOK
<1>2. now \in Nat /\ now' \in Nat /\ Window \in Nat
  BY GatewayAssumption DEF GatewayTypeOK
<1>3. Remembers'
  <2> SUFFICES ASSUME NEW x \in passed
               PROVE  /\ x.t <= now'
                      /\ now' - x.t < Window => [r |-> x.r, t |-> x.t] \in window[x.project]
    BY DEF Remembers
  <2>1. x.t \in Nat /\ x.t <= now /\ (now - x.t < Window => [r |-> x.r, t |-> x.t] \in window[x.project])
    BY <1>1 DEF RateInv, Remembers
  <2>2. QED BY <1>2, <2>1
<1>4. \A p \in Projects, t \in Nat : LetThrough(p, t)' = LetThrough(p, t)
  BY DEF LetThrough
<1>5. QED BY <1>3, <1>4 DEF RateInv

\* The handlers, the threads, maintenance and time: the limiter rests.
LEMMA LimiterRests ==
  ASSUME GatewayTypeOK, GatewayNext, ~ \E r \in Requests, b \in Bodies : Arrive(r, b)
  PROVE  UNCHANGED <<window, passed>> /\ now' >= now
<1>1. now \in Nat /\ MaxDelay \in Nat
  BY GatewayAssumption DEF GatewayTypeOK
<1>2. ASSUME NEW r \in Requests, NEW d \in 0 .. MaxDelay, Forwards(r, d)
      PROVE  UNCHANGED <<window, passed>> /\ now' >= now
  BY <1>1, <1>2 DEF Forwards
<1>3. ASSUME NEW r \in Requests, Malformed(r) \/ ServeHit(r) \/ NoProvider(r)
                                 \/ StreamEnds(r) \/ StreamBreaks(r)
      PROVE  UNCHANGED <<window, passed>> /\ now' >= now
  BY <1>1, <1>3 DEF Malformed, ServeHit, NoProvider, StreamEnds, StreamBreaks
<1>4. ASSUME PostSucceeds \/ PostFails \/ ClearCache \/ ResetStats \/ Tick
      PROVE  UNCHANGED <<window, passed>> /\ now' >= now
  BY <1>1, <1>4 DEF PostSucceeds, PostFails, Posted, ClearCache, ResetStats, Tick
<1>5. QED
  BY <1>2, <1>3, <1>4 DEF GatewayNext, ProviderFails, ProviderAnswers, ProviderStreams

\* In no interval of Window ticks are more than Rpm requests of a project let
\* through, for any rate, any window and any number of requests.
THEOREM RateIsHeld == GatewaySpec => []RateHeld
<1>1. GatewayInit => RateInv
  <2> SUFFICES ASSUME GatewayInit PROVE RateInv
    OBVIOUS
  <2>1. \A p \in Projects, t \in Nat : LetThrough(p, t) = {}
    BY DEF GatewayInit, LetThrough
  <2>2. Remembers
    BY DEF GatewayInit, Remembers
  <2>3. Cardinality({}) <= Rpm
    BY FS_EmptySet, GatewayAssumption
  <2>4. QED BY <2>1, <2>2, <2>3, FS_EmptySet DEF GatewayInit, RateInv
<1>2. GatewayTypeOK /\ GatewayTypeOK' /\ RateInv /\ [GatewayNext]_gvars => RateInv'
  <2> SUFFICES ASSUME GatewayTypeOK, GatewayTypeOK', RateInv, [GatewayNext]_gvars PROVE RateInv'
    OBVIOUS
  <2>1. CASE UNCHANGED gvars
    BY <2>1, OtherRate DEF gvars, GatewayTypeOK
  <2>2. CASE GatewayNext
    BY <2>2, ArriveRate, OtherRate, LimiterRests
  <2>3. QED BY <2>1, <2>2
<1>3. RateInv /\ GatewayTypeOK => RateHeld
  BY DEF RateInv, RateHeld, LetThrough, GatewayTypeOK
<1>4. QED BY <1>1, <1>2, <1>3, GatewayTypeCorrect, PTL DEF GatewaySpec

-----------------------------------------------------------------------------
(* The statistics and the traces.                                           *)

\* Counting a hit or a miss keeps the sums.
LEMMA BumpAddsUp ==
  ASSUME GatewayTypeOK, StatsAddUp, NEW b \in Bodies, NEW what \in Counters,
         stats' = Bump(stats, what, b)
  PROVE  StatsAddUp'
<1>1. b.project \in Projects /\ b.model \in Models /\ IsFiniteSet(Projects) /\ IsFiniteSet(Models)
  BY GatewayAssumption
<1>2. stats.byProject \in [Projects -> Counts] /\ stats.byModel \in [Models -> Counts]
      /\ stats.total \in Counts
  BY DEF GatewayTypeOK, StatsSet
<1>3. /\ stats'.total = Counted(stats.total, what)
      /\ stats'.byProject = [stats.byProject EXCEPT ![b.project] = Counted(@, what)]
      /\ stats'.byModel = [stats.byModel EXCEPT ![b.model] = Counted(@, what)]
  BY DEF Bump
<1>4. ASSUME NEW w \in Counters
      PROVE  /\ SumOver(stats'.byProject, w) = stats'.total[w]
             /\ SumOver(stats'.byModel, w) = stats'.total[w]
  <2>1. SumOver(stats.byProject, w) = stats.total[w] /\ SumOver(stats.byModel, w) = stats.total[w]
    BY DEF StatsAddUp
  <2>2. stats'.total[w] = stats.total[w] + (IF w = what THEN 1 ELSE 0)
    BY <1>2, <1>3 DEF Counted, Counts
  <2>3. SumOver(stats'.byProject, w) = SumOver(stats.byProject, w) + (IF w = what THEN 1 ELSE 0)
    BY <1>1, <1>2, <1>3, SumCounted
  <2>4. SumOver(stats'.byModel, w) = SumOver(stats.byModel, w) + (IF w = what THEN 1 ELSE 0)
    BY <1>1, <1>2, <1>3, SumCounted
  <2>5. QED BY <2>1, <2>2, <2>3, <2>4
<1>5. QED BY <1>4 DEF StatsAddUp

\* No counts add up.
LEMMA ZeroAddsUp ==
  /\ stats = ZeroStats => StatsAddUp
  /\ stats' = ZeroStats => StatsAddUp'
<1>1. ASSUME NEW S, IsFiniteSet(S), NEW w \in Counters
      PROVE  SumOver([x \in S |-> NoCounts], w) = 0
  <2> DEFINE zero == [x \in S |-> [y \in S |-> NoCounts][x][w]]
  <2>1. SumOver([x \in S |-> NoCounts], w) = SumFunctionOnSet(zero, S)
    BY DEF SumOver, SumFunction
  <2>2. \A x \in S : zero[x] = 0
    BY DEF NoCounts
  <2> HIDE DEF zero
  <2>3. QED BY <1>1, <2>1, <2>2, SumZero
<1>2. \A w \in Counters : /\ SumOver(ZeroStats.byProject, w) = 0
                         /\ SumOver(ZeroStats.byModel, w) = 0
                         /\ ZeroStats.total[w] = 0
  BY <1>1, GatewayAssumption DEF ZeroStats, NoCounts
<1>3. QED BY <1>2 DEF StatsAddUp

\* The traces of a request, and the kind its outcome has.
TracesOf(r) == {x \in traces : x.r = r}
TracedOutcomes == {"hit", "answered", "failed", "streamed"}
KindOf(outcome) == CASE outcome = "hit" -> "hit"
                     [] outcome = "answered" -> "success"
                     [] outcome = "failed" -> "error"
                     [] OTHER -> "stream"

\* A request has one trace, of the right kind, when it has ended in a way that
\* is traced, and none before.
TracedRight(r) ==
    IF req[r].at = "done" /\ req[r].outcome \in TracedOutcomes
    THEN \E x : TracesOf(r) = {x} /\ x.kind = KindOf(req[r].outcome)
    ELSE TracesOf(r) = {}

TracesInv == \A r \in Requests : TracedRight(r)

\* A step that leaves the traces alone and gives no request a traced end.
LEMMA UntracedStep ==
  ASSUME TracesInv, UNCHANGED traces, NEW r \in Requests, req[r].at # "done",
         ~ (req'[r].at = "done" /\ req'[r].outcome \in TracedOutcomes),
         \A q \in Requests \ {r} : req'[q] = req[q]
  PROVE  TracesInv'
<1>1. \A q \in Requests : TracesOf(q)' = TracesOf(q)
  BY DEF TracesOf
<1>2. \A q \in Requests \ {r} : TracedRight(q)'
  BY <1>1 DEF TracesInv, TracedRight
<1>3. TracedRight(r)'
  BY <1>1 DEF TracesInv, TracedRight
<1>4. QED BY <1>2, <1>3 DEF TracesInv

\* A step that ends a request and posts its one trace.
LEMMA TracedStep ==
  ASSUME GatewayTypeOK, TracesInv, NEW r \in Requests, req[r].at # "done",
         NEW o \in TracedOutcomes, End(r, o), Traced(r, KindOf(o))
  PROVE  TracesInv'
<1> DEFINE x == Trace(r, KindOf(o), 0)
<1>1. o \in Outcomes /\ KindOf(o) \in Kinds
  BY DEF TracedOutcomes, Outcomes, KindOf, Kinds
<1>2. /\ req'[r].at = "done" /\ req'[r].outcome = o
      /\ \A q \in Requests \ {r} : req'[q] = req[q]
  BY <1>1, EndChanges
<1>3. traces' = traces \cup {x}
  BY <1>1, TracedAdds
<1>4. x.r = r /\ x.kind = KindOf(o)
  BY DEF Trace
<1>5. TracesOf(r) = {}
  BY DEF TracesInv, TracedRight
<1> HIDE DEF x
<1>6. TracesOf(r)' = {x} /\ \A q \in Requests \ {r} : TracesOf(q)' = TracesOf(q)
  BY <1>3, <1>4, <1>5 DEF TracesOf
<1>7. TracedRight(r)'
  BY <1>2, <1>4, <1>6 DEF TracedRight
<1>8. \A q \in Requests \ {r} : TracedRight(q)'
  BY <1>2, <1>6 DEF TracesInv, TracedRight
<1>9. QED BY <1>7, <1>8 DEF TracesInv

\* A thread that posted, or lost, a trace.
LEMMA PostedStep ==
  ASSUME GatewayTypeOK, TracesInv, NEW x \in traces, NEW state \in {"stored", "lost"},
         Posted(x, state)
  PROVE  TracesInv'
<1> DEFINE y == [x EXCEPT !.state = state]
<1>1. x \in TraceSet
  BY DEF GatewayTypeOK
<1>2. y.r = x.r /\ y.kind = x.kind /\ x.r \in Requests
  BY <1>1 DEF TraceSet
<1>3. traces' = (traces \ {x}) \cup {y} /\ req' = req
  BY DEF Posted
<1> HIDE DEF y
<1>4. TracesOf(x.r) = {x} /\ req[x.r].at = "done" /\ req[x.r].outcome \in TracedOutcomes
      /\ x.kind = KindOf(req[x.r].outcome)
  <2>1. x \in TracesOf(x.r)
    BY DEF TracesOf
  <2>2. QED BY <1>2, <2>1 DEF TracesInv, TracedRight
<1>5. TracesOf(x.r)' = {y} /\ \A q \in Requests \ {x.r} : TracesOf(q)' = TracesOf(q)
  BY <1>2, <1>3, <1>4 DEF TracesOf
<1>6. TracedRight(x.r)'
  BY <1>2, <1>3, <1>4, <1>5 DEF TracedRight
<1>7. \A q \in Requests \ {x.r} : TracedRight(q)'
  BY <1>3, <1>5 DEF TracesInv, TracedRight
<1>8. QED BY <1>6, <1>7 DEF TracesInv

\* A lookup that misses is counted, or the request is not looked up at all.
LEMMA MissAddsUp ==
  ASSUME GatewayTypeOK, StatsAddUp, NEW b \in Bodies, stats' = Missed(b)
  PROVE  StatsAddUp'
<1>1. CASE stats' = stats
  BY <1>1 DEF StatsAddUp, SumOver
<1>2. CASE stats' = Bump(stats, "misses", b)
  BY <1>2, BumpAddsUp DEF Counters
<1>3. QED BY <1>1, <1>2 DEF Missed

\* A request that arrives: nothing is counted and nothing traced.
LEMMA ArriveAccounted ==
  ASSUME GatewayTypeOK, StatsAddUp, TracesInv, NEW r \in Requests, NEW b \in Bodies, Arrive(r, b)
  PROVE  StatsAddUp' /\ TracesInv'
<1>1. /\ req[r].at # "done" /\ \A q \in Requests \ {r} : req'[q] = req[q]
      /\ UNCHANGED <<stats, traces>>
  BY DEF Arrive, GatewayTypeOK
<1>2. req'[r].at = "body" \/ req'[r].outcome = "refused"
  BY DEF Arrive, GatewayTypeOK, Handlers
<1>3. TracesInv'
  BY <1>1, <1>2, UntracedStep DEF TracedOutcomes
<1>4. StatsAddUp'
  BY <1>1 DEF StatsAddUp, SumOver
<1>5. QED BY <1>3, <1>4

\* The ways a handler ends or goes on to stream.
LEMMA HandleAccounted ==
  ASSUME GatewayTypeOK, StatsAddUp, TracesInv, NEW r \in Requests,
         \/ Malformed(r) \/ ServeHit(r) \/ NoProvider(r)
         \/ \E d \in 0 .. MaxDelay : \/ ProviderFails(r, d)
                                     \/ \E v \in {"full", "empty"} : ProviderAnswers(r, d, v)
                                     \/ ProviderStreams(r, d)
         \/ StreamEnds(r) \/ StreamBreaks(r)
  PROVE  StatsAddUp' /\ TracesInv'
<1> DEFINE b == req[r].body
<1>1. req[r].at # "new" /\ req[r].at # "done"
  BY DEF Malformed, ServeHit, NoProvider, ProviderFails, ProviderAnswers, ProviderStreams,
         Forwards, StreamEnds, StreamBreaks
<1>2. b \in Bodies
  BY <1>1, BodyThere
<1>3. UNCHANGED stats => StatsAddUp'
  BY DEF StatsAddUp, SumOver
<1>4. stats' = Missed(b) => StatsAddUp'
  BY <1>2, MissAddsUp
<1>5. ASSUME NEW o \in Outcomes \ TracedOutcomes, End(r, o), UNCHANGED traces
      PROVE  TracesInv'
  BY <1>1, <1>5, EndChanges, UntracedStep
<1>6. KindOf("hit") = "hit" /\ KindOf("answered") = "success"
      /\ KindOf("failed") = "error" /\ KindOf("streamed") = "stream"
  BY DEF KindOf
<1>7. ASSUME NEW o \in TracedOutcomes, End(r, o), Traced(r, KindOf(o))
      PROVE  TracesInv'
  BY <1>1, <1>7, TracedStep
<1> USE DEF Outcomes, TracedOutcomes
<1>8. CASE Malformed(r) \/ StreamBreaks(r)
  <2>1. (End(r, "malformed") \/ End(r, "broken")) /\ UNCHANGED <<stats, traces>>
    BY <1>8 DEF Malformed, StreamBreaks, End
  <2>2. QED BY <1>3, <1>5, <2>1
<1>9. CASE ServeHit(r)
  <2>1. End(r, "hit") /\ Traced(r, "hit") /\ stats' = Bump(stats, "hits", b)
    BY <1>9 DEF ServeHit
  <2>2. StatsAddUp'
    BY <1>2, <2>1, BumpAddsUp DEF Counters
  <2>3. QED BY <1>6, <1>7, <2>1, <2>2
<1>10. CASE NoProvider(r)
  <2>1. End(r, "unroutable") /\ stats' = Missed(b) /\ UNCHANGED traces
    BY <1>10 DEF NoProvider
  <2>2. QED BY <1>4, <1>5, <2>1
<1>11. ASSUME NEW d \in 0 .. MaxDelay, Forwards(r, d) PROVE StatsAddUp'
  BY <1>4, <1>11 DEF Forwards
<1>12. ASSUME NEW d \in 0 .. MaxDelay, ProviderFails(r, d) PROVE StatsAddUp' /\ TracesInv'
  <2>1. Forwards(r, d) /\ End(r, "failed") /\ Traced(r, "error")
    BY <1>12 DEF ProviderFails
  <2>2. QED BY <1>6, <1>7, <1>11, <2>1
<1>13. ASSUME NEW d \in 0 .. MaxDelay, NEW v \in {"full", "empty"}, ProviderAnswers(r, d, v)
       PROVE  StatsAddUp' /\ TracesInv'
  <2>1. Forwards(r, d) /\ End(r, "answered") /\ Traced(r, "success")
    BY <1>13 DEF ProviderAnswers
  <2>2. QED BY <1>6, <1>7, <1>11, <2>1
<1>14. ASSUME NEW d \in 0 .. MaxDelay, ProviderStreams(r, d) PROVE StatsAddUp' /\ TracesInv'
  <2>1. Forwards(r, d) /\ req' = [req EXCEPT ![r].at = "stream"] /\ UNCHANGED traces
    BY <1>14 DEF ProviderStreams
  <2>2. req'[r].at = "stream" /\ \A q \in Requests \ {r} : req'[q] = req[q]
    BY <2>1 DEF GatewayTypeOK, Handlers
  <2>3. TracesInv'
    BY <1>1, <2>1, <2>2, UntracedStep
  <2>4. QED BY <1>11, <2>1, <2>3
<1>15. CASE StreamEnds(r)
  <2>1. End(r, "streamed") /\ Traced(r, "stream") /\ UNCHANGED stats
    BY <1>15 DEF StreamEnds
  <2>2. QED BY <1>3, <1>6, <1>7, <2>1
<1>16. QED BY <1>8, <1>9, <1>10, <1>12, <1>13, <1>14, <1>15

\* The threads that post traces, maintenance and time.
LEMMA OtherAccounted ==
  ASSUME GatewayTypeOK, StatsAddUp, TracesInv,
         PostSucceeds \/ PostFails \/ ClearCache \/ ResetStats \/ Tick
  PROVE  StatsAddUp' /\ TracesInv'
<1>1. UNCHANGED stats => StatsAddUp'
  BY DEF StatsAddUp, SumOver
<1>2. UNCHANGED <<req, traces>> => TracesInv'
  BY DEF TracesInv, TracedRight, TracesOf
<1>3. CASE PostSucceeds \/ PostFails
  <2>1. PICK x \in traces, state \in {"stored", "lost"} : Posted(x, state)
    BY <1>3 DEF PostSucceeds, PostFails
  <2>2. UNCHANGED stats
    BY <2>1 DEF Posted
  <2>3. QED BY <1>1, <2>1, <2>2, PostedStep
<1>4. CASE ResetStats
  BY <1>2, <1>4, ZeroAddsUp DEF ResetStats, AfterReset
<1>5. CASE ClearCache \/ Tick
  BY <1>1, <1>2, <1>5 DEF ClearCache, Tick
<1>6. QED BY <1>3, <1>4, <1>5

\* One trace of the right kind is what TracedOnce asks for.
LEMMA TracesAreOnce == GatewayTypeOK /\ TracesInv => TracedOnce
<1> SUFFICES ASSUME GatewayTypeOK, TracesInv PROVE TracedOnce
  OBVIOUS
<1>1. ASSUME NEW r \in Requests
      PROVE  Cardinality({x \in traces : x.r = r}) =
               IF r \in Finished({"hit", "answered", "failed", "streamed"}) THEN 1 ELSE 0
  <2>1. TracedRight(r)
    BY DEF TracesInv
  <2>2. CASE req[r].at = "done" /\ req[r].outcome \in TracedOutcomes
    BY <2>1, <2>2, FS_Singleton DEF TracedRight, TracesOf, Finished, TracedOutcomes
  <2>3. CASE ~ (req[r].at = "done" /\ req[r].outcome \in TracedOutcomes)
    BY <2>1, <2>3, FS_EmptySet DEF TracedRight, TracesOf, Finished, TracedOutcomes
  <2>4. QED BY <2>2, <2>3
<1>2. ASSUME NEW x \in traces PROVE x.kind = KindOf(req[x.r].outcome)
  <2>1. x.r \in Requests /\ x \in TracesOf(x.r)
    BY DEF GatewayTypeOK, TraceSet, TracesOf
  <2>2. QED BY <2>1 DEF TracesInv, TracedRight
<1>3. QED BY <1>1, <1>2 DEF TracedOnce, KindOf

\* Every call is counted and traced as what happened to it: the statistics add
\* up, through resets as well, and a request that was served has one trace.
THEOREM AllAccounted == GatewaySpec => []Accounted
<1>1. GatewayInit => StatsAddUp /\ TracesInv
  BY ZeroAddsUp DEF GatewayInit, NoBody, TracesInv, TracedRight, TracesOf
<1>2. GatewayTypeOK /\ StatsAddUp /\ TracesInv /\ [GatewayNext]_gvars => StatsAddUp' /\ TracesInv'
  <2> SUFFICES ASSUME GatewayTypeOK, StatsAddUp, TracesInv, [GatewayNext]_gvars
               PROVE  StatsAddUp' /\ TracesInv'
    OBVIOUS
  <2>1. CASE UNCHANGED gvars
    BY <2>1 DEF gvars, StatsAddUp, SumOver, TracesInv, TracedRight, TracesOf
  <2>2. CASE GatewayNext
    BY <2>2, ArriveAccounted, HandleAccounted, OtherAccounted DEF GatewayNext
  <2>3. QED BY <2>1, <2>2
<1>3. GatewayTypeOK /\ StatsAddUp /\ TracesInv => Accounted
  BY TracesAreOnce DEF Accounted
<1>4. QED BY <1>1, <1>2, <1>3, GatewayTypeCorrect, PTL DEF GatewaySpec

-----------------------------------------------------------------------------
(* The response cache.                                                      *)

\* A lookup takes nothing away that has not expired, and adds nothing.
LEMMA LookupKeepsLive ==
  ASSUME GatewayTypeOK, NEW b \in Bodies
  PROVE  /\ \A k \in Keys : Fresh(k) => AfterGet(b)[k] = cache[k]
         /\ Stored(AfterGet(b)) \subseteq Stored(cache)
  BY DEF AfterGet, Fresh, Stored, GatewayTypeOK

\* A store takes one answer away at most: the oldest of a full cache, and that
\* is not the one just stored.
LEMMA StoreEvicts ==
  ASSUME NEW c \in [Keys -> Entries \cup {None}], NEW key \in Keys, NEW t \in Nat,
         NEW v \in {"full", "empty"}, NEW d \in Puts(c, key, t, v), NEW k \in Keys,
         c[k] # None, d[k] = None
  PROVE  IsFull(c) /\ key # k
<1>1. [t |-> t, v |-> v] # None
  BY GatewayAssumption
<1>2. PICK e \in (IF IsFull(c) THEN {[c EXCEPT ![o] = None] : o \in Oldest(c)} ELSE {c}) :
        d = [e EXCEPT ![key] = [t |-> t, v |-> v]]
  BY DEF Puts
<1>3. e \in [Keys -> Entries \cup {None}]
  BY <1>2
<1>4. key # k
  BY <1>1, <1>2, <1>3
<1>5. e[k] = None
  BY <1>2, <1>3, <1>4
<1>6. QED BY <1>2, <1>4, <1>5

\* A full cache was full before the lookup.
LEMMA WasFull ==
  ASSUME GatewayTypeOK, NEW b \in Bodies, IsFull(AfterGet(b))
  PROVE  IsFull(cache)
<1>1. IsFiniteSet(Stored(cache)) /\ Stored(AfterGet(b)) \subseteq Stored(cache)
  BY LookupKeepsLive, FS_Subset, GatewayAssumption DEF Stored
<1>2. Cardinality(Stored(AfterGet(b))) <= Cardinality(Stored(cache))
  BY <1>1, FS_Subset
<1>3. Cardinality(Stored(AfterGet(b))) \in Nat /\ Cardinality(Stored(cache)) \in Nat
  BY <1>1, FS_Subset, FS_CardinalityType
<1>4. QED BY <1>2, <1>3, GatewayAssumption DEF IsFull

\* An answer that has not expired leaves the cache only through cache_clear or
\* to make room in a full cache for an answer to a request for another key.
THEOREM LiveAnswersAreKept == GatewaySpec => LiveAnswersStay
<1> DEFINE Leaves(k) == \/ clears' # clears
                        \/ /\ IsFull(cache)
                           /\ \E r \in Requests :
                                /\ req[r].at = "body" /\ req'[r].outcome = "answered"
                                /\ req[r].body.key # k /\ ~IsHit(req[r].body)
<1>1. ASSUME GatewayTypeOK, [GatewayNext]_gvars, NEW k \in Keys, Fresh(k), cache'[k] = None
      PROVE  Leaves(k)
  <2>1. cache'[k] # cache[k]
    BY <1>1 DEF Fresh
  <2>2. ASSUME NEW b \in Bodies, cache' = AfterGet(b) PROVE FALSE
    BY <1>1, <2>1, <2>2, LookupKeepsLive
  <2>3. ASSUME NEW r \in Requests, NEW d \in 0 .. MaxDelay, NEW v \in {"full", "empty"},
               ProviderAnswers(r, d, v)
        PROVE  Leaves(k)
    <3> DEFINE b == req[r].body
    <3>1. /\ req[r].at = "body" /\ ~IsHit(b) /\ now' \in Nat /\ End(r, "answered")
          /\ cache' = AfterGet(b) \/ cache' \in Puts(AfterGet(b), b.key, now', v)
      BY <1>1, <2>3, GatewayAssumption DEF ProviderAnswers, Forwards, GatewayTypeOK
    <3>2. b \in Bodies /\ b.key \in Keys
      BY <1>1, <3>1, BodyThere, GatewayAssumption
    <3>3. cache' \in Puts(AfterGet(b), b.key, now', v)
      BY <2>2, <3>1, <3>2
    <3>4. AfterGet(b) \in [Keys -> Entries \cup {None}] /\ AfterGet(b)[k] # None
      BY <1>1, <3>2, CacheTypes, LookupKeepsLive DEF Fresh
    <3>5. IsFull(AfterGet(b)) /\ b.key # k
      BY <1>1, <3>1, <3>2, <3>3, <3>4, StoreEvicts
    <3>6. req'[r].outcome = "answered"
      BY <1>1, <3>1, EndChanges DEF Outcomes
    <3>7. QED BY <1>1, <3>1, <3>2, <3>5, <3>6, WasFull
  <2>4. ASSUME NEW r \in Requests, NEW d \in 0 .. MaxDelay,
               NoProvider(r) \/ ProviderFails(r, d)
        PROVE  FALSE
    <3>1. req[r].at = "body" /\ cache' = AfterGet(req[r].body)
      BY <2>4 DEF NoProvider, ProviderFails, Forwards
    <3>2. QED BY <1>1, <2>2, <3>1, BodyThere
  <2>5. ASSUME UNCHANGED cache PROVE FALSE
    BY <2>1, <2>5
  <2>6. CASE ClearCache
    BY <1>1, <2>6, GatewayAssumption DEF ClearCache, GatewayTypeOK
  <2>7. CASE GatewayNext
    <3>1. ASSUME NEW r \in Requests, NEW b \in Bodies, Arrive(r, b) PROVE FALSE
      BY <2>5, <3>1 DEF Arrive
    <3>2. ASSUME NEW r \in Requests, Malformed(r) \/ ServeHit(r) \/ StreamEnds(r) \/ StreamBreaks(r)
          PROVE FALSE
      BY <2>5, <3>2 DEF Malformed, ServeHit, StreamEnds, StreamBreaks
    <3>3. ASSUME NEW r \in Requests, NEW d \in 0 .. MaxDelay, ProviderStreams(r, d) PROVE FALSE
      BY <2>5, <3>3 DEF ProviderStreams
    <3>4. ASSUME PostSucceeds \/ PostFails \/ ResetStats \/ Tick PROVE FALSE
      BY <2>5, <3>4 DEF PostSucceeds, PostFails, Posted, ResetStats, Tick
    <3>5. ASSUME NEW r \in Requests, NoProvider(r) PROVE FALSE
      <4>1. 0 \in 0 .. MaxDelay
        BY GatewayAssumption
      <4>2. QED BY <2>4, <3>5, <4>1
    <3>6. QED BY <2>3, <2>4, <2>6, <2>7, <3>1, <3>2, <3>3, <3>4, <3>5 DEF GatewayNext
  <2>8. QED BY <1>1, <2>5, <2>7 DEF gvars
<1>2. GatewayTypeOK /\ [GatewayNext]_gvars
        => [\A k \in Keys : Fresh(k) /\ cache'[k] = None => Leaves(k)]_gvars
  BY <1>1
<1>3. QED BY <1>2, GatewayTypeCorrect, PTL DEF GatewaySpec, LiveAnswersStay

-----------------------------------------------------------------------------
(* The semantic cache                                                       *)

SemEntries == [EntryKeys -> [n : 1 .. MaxPuts, t : 0 .. MaxClock] \cup {Absent}]

\* What a cache's entries and index are like at any time.
CacheOK(s) ==
    /\ s.entries \in SemEntries /\ s.copies \in [EntryKeys -> Nat]
    /\ \A k \in Held(s) : s.copies[k] > 0
    /\ IsFiniteSet(Held(s)) /\ Cardinality(Held(s)) <= MaxEntries

\* Removing entries removes those and no others, and leaves the rest in the index.
LEMMA RemovedOK ==
  ASSUME NEW s, CacheOK(s), NEW gone \in SUBSET EntryKeys
  PROVE  /\ CacheOK(Removed(s, gone))
         /\ Held(Removed(s, gone)) = Held(s) \ gone
         /\ \A k \in EntryKeys \ gone : /\ Removed(s, gone).entries[k] = s.entries[k]
                                        /\ Removed(s, gone).copies[k] = s.copies[k]
<1> DEFINE e == [k \in EntryKeys |-> IF k \in gone THEN Absent ELSE s.entries[k]]
           c == [k \in EntryKeys |-> IF k \in gone \cap Held(s) /\ s.copies[k] > 0
                                     THEN s.copies[k] - 1 ELSE s.copies[k]]
           r == Removed(s, gone)
<1>1. r.entries = e /\ r.copies = c
  BY DEF Removed
<1>2. s.entries \in SemEntries /\ s.copies \in [EntryKeys -> Nat]
  BY DEF CacheOK
<1>3. e \in SemEntries /\ c \in [EntryKeys -> Nat]
  BY <1>2 DEF SemEntries
<1>4. \A k \in EntryKeys \ gone : e[k] = s.entries[k] /\ c[k] = s.copies[k]
  OBVIOUS
<1>5. \A k \in EntryKeys : e[k] # Absent <=> s.entries[k] # Absent /\ k \notin gone
  OBVIOUS
<1> HIDE DEF e, c, r
<1>6. Held(r) = Held(s) \ gone
  BY <1>1, <1>5 DEF Held
<1>7. \A k \in Held(r) : r.copies[k] > 0
  BY <1>1, <1>4, <1>6 DEF CacheOK, Held
<1>8. IsFiniteSet(Held(r)) /\ Cardinality(Held(r)) <= MaxEntries
  <2>1. IsFiniteSet(Held(s)) /\ Cardinality(Held(s)) <= MaxEntries /\ Held(r) \subseteq Held(s)
    BY <1>6 DEF CacheOK
  <2>2. IsFiniteSet(Held(r)) /\ Cardinality(Held(r)) <= Cardinality(Held(s))
    BY <2>1, FS_Subset
  <2>3. Cardinality(Held(r)) \in Nat /\ Cardinality(Held(s)) \in Nat /\ MaxEntries \in Nat
    BY <2>1, <2>2, FS_CardinalityType, SemanticAssumption
  <2>4. QED
    BY <2>1, <2>2, <2>3
<1>9. CacheOK(r)
  BY <1>1, <1>3, <1>7, <1>8 DEF CacheOK
<1>10. QED
  BY <1>1, <1>4, <1>6, <1>9 DEF r

LEMMA ContentsIs ==
  /\ Contents.entries = entries /\ Contents.copies = copies
  /\ Held(Contents) = {k \in EntryKeys : entries[k] # Absent}
BY DEF Contents, Held

\* The cache after a lookup has lost nothing that was fresh, and what the search
\* chose from is exactly what is fresh.
LEMMA SearchIsOfFresh ==
  ASSUME CacheOK(Contents), NEW m \in SModels, NEW key \in EntryKeys, ~Alive(key),
         NEW exact, exact = IF entries[key] # Absent THEN Removed(Contents, {key}) ELSE Contents
  PROVE  /\ CacheOK(exact) /\ CacheOK(Removed(exact, Late(exact, m)))
         /\ Candidates(exact, m) = {k \in EntryKeys : k[1] = m /\ Alive(k)}
         /\ \A k \in Candidates(exact, m) : Removed(exact, Late(exact, m)).entries[k] = entries[k]
         /\ \A k \in EntryKeys : Removed(exact, Late(exact, m)).entries[k] \in {Absent, entries[k]}
<1>1. CacheOK(exact) /\ Held(exact) = Held(Contents) \ (IF entries[key] # Absent THEN {key} ELSE {})
      /\ \A k \in EntryKeys : k # key => exact.entries[k] = entries[k]
  <2>1. CASE entries[key] = Absent
    BY <2>1, ContentsIs
  <2>2. CASE entries[key] # Absent
    BY <2>2, RemovedOK, ContentsIs
  <2>3. QED
    BY <2>1, <2>2
<1>2. Held(exact) = {k \in EntryKeys : entries[k] # Absent /\ k # key}
  <2>1. CASE entries[key] = Absent
    BY <1>1, <2>1, ContentsIs
  <2>2. CASE entries[key] # Absent
    BY <1>1, <2>2, ContentsIs
  <2>3. QED
    BY <2>1, <2>2
<1>3. Met(exact, m) = {k \in Held(exact) : k[1] = m}
  BY <1>1 DEF Met, CacheOK
<1>4. Candidates(exact, m) = {k \in Held(exact) : k[1] = m /\ ~Expired(k)}
  BY <1>3 DEF Candidates, Late
<1>5. Candidates(exact, m) = {k \in EntryKeys : k[1] = m /\ Alive(k)}
  BY <1>2, <1>4 DEF Alive
<1>6. Late(exact, m) \in SUBSET EntryKeys
  BY DEF Late, Met, Held
<1> PICK late \in SUBSET EntryKeys : late = Late(exact, m)
  BY <1>6
<1> PICK after : after = Removed(exact, late)
  OBVIOUS
<1>7. CacheOK(after) /\ Held(after) = Held(exact) \ late
      /\ \A k \in EntryKeys \ late : after.entries[k] = exact.entries[k]
  <2>1. CacheOK(exact)
    BY <1>1
  <2>2. CacheOK(Removed(exact, late))
    BY <2>1, RemovedOK
  <2>3. Held(Removed(exact, late)) = Held(exact) \ late
    BY <2>1, RemovedOK
  <2>4. ASSUME NEW k \in EntryKeys \ late PROVE Removed(exact, late).entries[k] = exact.entries[k]
    BY DEF Removed
  <2>5. QED
    BY <2>2, <2>3, <2>4
<1>8. ASSUME NEW k \in Candidates(exact, m) PROVE after.entries[k] = entries[k]
  <2>1. k \in EntryKeys /\ k # key /\ k \notin Late(exact, m)
    BY <1>5 DEF Candidates
  <2>2. QED
    BY <1>1, <1>7, <2>1
<1>9. ASSUME NEW k \in EntryKeys PROVE after.entries[k] \in {Absent, entries[k]}
  <2>1. CASE k \in Held(after)
    <3>1. k # key /\ k \notin Late(exact, m)
      BY <1>2, <1>7, <2>1
    <3>2. QED
      BY <1>1, <1>7, <3>1
  <2>2. CASE k \notin Held(after)
    BY <2>2 DEF Held
  <2>3. QED
    BY <2>1, <2>2
<1>10. QED
  BY <1>1, <1>5, <1>7, <1>8, <1>9

SemanticInv == SemanticTypeOK /\ CacheOK(Contents) /\ HitsAreBest

LEMMA CacheType ==
  ASSUME SemanticTypeOK
  PROVE  entries \in SemEntries /\ copies \in [EntryKeys -> Nat]
BY DEF SemanticTypeOK, SemEntries

\* A new state of the cache is well formed when its parts are.
LEMMA CacheNext ==
  ASSUME NEW s, CacheOK(s), entries' = s.entries, copies' = s.copies
  PROVE  CacheOK(Contents)' /\ entries' \in SemEntries /\ copies' \in [EntryKeys -> Nat]
BY DEF CacheOK, Contents, Held

LEMMA GetStep ==
  ASSUME SemanticInv, NEW m \in SModels, NEW words \in Prompts, NEW setting \in Settings,
         Get(m, words, setting)
  PROVE  SemanticInv'
<1> PICK key \in EntryKeys : key = <<m, words, setting>>
  BY DEF EntryKeys
<1> PICK query : query = Shingles(words)
  OBVIOUS
<1> PICK exact : exact = IF entries[key] # Absent THEN Removed(Contents, {key}) ELSE Contents
  OBVIOUS
<1> PICK after : after = Removed(exact, Late(exact, m))
  OBVIOUS
<1>1. UNCHANGED <<puts, clock>> /\ CacheOK(Contents) /\ SemanticTypeOK
  BY DEF Get, SemanticInv
<1>2. \A k \in EntryKeys : Expired(k)' = (clock - entries'[k].t >= Life)
  BY <1>1 DEF Expired
<1>3. CASE /\ Alive(key)
           /\ found' = [kind |-> "exact", asked |-> key, got |-> key]
           /\ entries' = Contents.entries /\ copies' = Contents.copies
  <2>1. UNCHANGED <<entries, copies>>
    BY <1>3, ContentsIs
  <2>2. HitsAreBest'
    BY <1>1, <1>3, <2>1 DEF HitsAreBest, Alive, Expired
  <2>3. CacheOK(Contents)'
    BY <1>1, <1>3, CacheNext
  <2>4. SemanticTypeOK'
    BY <1>1, <1>3, <2>1 DEF SemanticTypeOK, Found
  <2>5. QED
    BY <2>2, <2>3, <2>4 DEF SemanticInv
<1>4. CASE /\ ~Alive(key)
           /\ found' = [kind |-> "miss", asked |-> key, got |-> Absent]
           /\ \/ entries' = exact.entries /\ copies' = exact.copies
              \/ entries' = after.entries /\ copies' = after.copies
  <2>1. CacheOK(exact) /\ CacheOK(after)
    BY <1>1, <1>4, SearchIsOfFresh
  <2>2. CacheOK(Contents)' /\ entries' \in SemEntries /\ copies' \in [EntryKeys -> Nat]
    BY <1>4, <2>1, CacheNext
  <2>3. SemanticTypeOK'
    BY <1>1, <1>4, <2>2 DEF SemanticTypeOK, SemEntries, Found
  <2>4. QED
    BY <1>4, <2>2, <2>3 DEF SemanticInv, HitsAreBest
<1>5. CASE /\ ~Alive(key)
           /\ entries' = after.entries /\ copies' = after.copies
           /\ \E k \in Best(Candidates(exact, m), query) :
                found' = [kind |-> "semantic", asked |-> key, got |-> k]
  <2>1. /\ CacheOK(after)
        /\ Candidates(exact, m) = {k \in EntryKeys : k[1] = m /\ Alive(k)}
        /\ \A k \in Candidates(exact, m) : after.entries[k] = entries[k]
        /\ \A k \in EntryKeys : after.entries[k] \in {Absent, entries[k]}
    BY <1>1, <1>5, SearchIsOfFresh
  <2>2. CacheOK(Contents)' /\ entries' \in SemEntries /\ copies' \in [EntryKeys -> Nat]
    BY <1>5, <2>1, CacheNext
  <2>3. PICK k \in Best(Candidates(exact, m), query) :
               found' = [kind |-> "semantic", asked |-> key, got |-> k]
    BY <1>5
  <2>4. k \in EntryKeys /\ k[1] = m /\ Alive(k) /\ k \in Candidates(exact, m)
    BY <2>1, <2>3 DEF Best
  <2>5. SemanticTypeOK'
    BY <1>1, <2>2, <2>3, <2>4 DEF SemanticTypeOK, SemEntries, Found
  <2>6. entries'[k] = entries[k]
    BY <1>5, <2>1, <2>4
  <2>7. Alive(k)'
    BY <1>1, <2>4, <2>6 DEF Alive, Expired
  <2>8. \A j \in EntryKeys : Alive(j)' => Alive(j)
    <3> SUFFICES ASSUME NEW j \in EntryKeys, Alive(j)' PROVE Alive(j)
      OBVIOUS
    <3>1. entries'[j] = entries[j]
      BY <1>5, <2>1 DEF Alive
    <3>2. QED
      BY <1>1, <3>1 DEF Alive, Expired
  <2>9. \A j \in EntryKeys : j[1] = m /\ Alive(j)' =>
            ~Above(Similarity(query, Text(j)), Similarity(query, Text(k)))
    BY <2>1, <2>3, <2>8 DEF Best
  <2>10. key[1] = m /\ key[2] = words
    OBVIOUS
  <2>11. found'.asked = key /\ found'.got = k /\ found'.kind = "semantic"
    BY <2>3
  <2>12. HitsAreBest'
    BY <2>4, <2>7, <2>9, <2>10, <2>11 DEF HitsAreBest
  <2>13. QED
    BY <2>2, <2>5, <2>12 DEF SemanticInv
<1>6. QED
  BY <1>3, <1>4, <1>5 DEF Get

LEMMA PutStep ==
  ASSUME SemanticInv, NEW m \in SModels, NEW words \in Prompts, NEW setting \in Settings,
         Put(m, words, setting)
  PROVE  SemanticInv'
<1> PICK key \in EntryKeys : key = <<m, words, setting>>
  BY DEF EntryKeys
<1>1. PICK s \in MadeRoom(Contents) :
             /\ entries' = [s.entries EXCEPT ![key] = [n |-> puts + 1, t |-> clock]]
             /\ copies' = [s.copies EXCEPT ![key] = @ + 1]
  BY DEF Put, Appended
<1>2. found' = NotFound /\ puts' = puts + 1 /\ puts < MaxPuts /\ UNCHANGED clock
      /\ puts \in 0 .. MaxPuts /\ clock \in 0 .. MaxClock /\ CacheOK(Contents)
      /\ {MaxPuts, MaxEntries} \subseteq Nat /\ MaxEntries > 0
  BY SemanticAssumption DEF Put, SemanticInv, SemanticTypeOK
<1>3. CacheOK(s) /\ Cardinality(Held(s)) + 1 <= MaxEntries
  <2> DEFINE h == Held(Contents)
  <2>1. IsFiniteSet(h) /\ Cardinality(h) \in Nat /\ Cardinality(h) <= MaxEntries
    BY <1>2, FS_CardinalityType DEF CacheOK
  <2>2. CASE Cardinality(h) >= MaxEntries
    <3>1. PICK k \in h : s = Removed(Contents, {k})
      BY <1>1, <2>2 DEF MadeRoom, OldestKeys
    <3>2. k \in EntryKeys
      BY DEF Held
    <3>3. CacheOK(s) /\ Held(s) = h \ {k}
      BY <1>2, <3>1, <3>2, RemovedOK
    <3>4. Cardinality(h \ {k}) = Cardinality(h) - 1
      BY <2>1, FS_RemoveElement
    <3>5. QED
      BY <1>2, <2>1, <3>3, <3>4
  <2>3. CASE ~(Cardinality(h) >= MaxEntries)
    <3>1. s = Contents
      BY <1>1, <2>3 DEF MadeRoom
    <3>2. QED
      BY <1>2, <2>1, <2>3, <3>1
  <2>4. QED
    BY <2>2, <2>3
<1> DEFINE new == [n |-> puts + 1, t |-> clock]
<1>4. new \in [n : 1 .. MaxPuts, t : 0 .. MaxClock] /\ new # Absent
  <2>1. new \in [n : 1 .. MaxPuts, t : 0 .. MaxClock]
    BY <1>2
  <2>2. new \in [n : Nat, t : Nat]
    BY <1>2
  <2>3. QED
    BY <2>1, <2>2, SemanticAssumption
<1> HIDE DEF new
<1>5. entries' = [s.entries EXCEPT ![key] = new]
  BY <1>1 DEF new
<1>6. entries' \in SemEntries /\ copies' \in [EntryKeys -> Nat]
  BY <1>1, <1>3, <1>4, <1>5 DEF CacheOK, SemEntries
<1>7. Held(Contents)' = Held(s) \cup {key}
  BY <1>3, <1>4, <1>5 DEF Held, Contents, CacheOK, SemEntries
<1>8. \A k \in Held(s) \cup {key} : copies'[k] > 0
  BY <1>1, <1>3 DEF CacheOK, Held
<1>9. IsFiniteSet(Held(s) \cup {key}) /\ Cardinality(Held(s) \cup {key}) <= MaxEntries
  <2>1. IsFiniteSet(Held(s)) /\ Cardinality(Held(s)) \in Nat
    BY <1>3, FS_CardinalityType DEF CacheOK
  <2>2. IsFiniteSet(Held(s) \cup {key})
        /\ Cardinality(Held(s) \cup {key}) \in {Cardinality(Held(s)), Cardinality(Held(s)) + 1}
    BY <2>1, FS_AddElement
  <2>3. QED
    BY <1>2, <1>3, <2>1, <2>2
<1>10. CacheOK(Contents)'
  BY <1>6, <1>7, <1>8, <1>9 DEF CacheOK, Contents
<1>11. SemanticTypeOK'
  BY <1>2, <1>6 DEF SemanticTypeOK, SemEntries, NotFound, Found
<1>12. HitsAreBest'
  BY <1>2 DEF HitsAreBest, NotFound
<1>13. QED
  BY <1>10, <1>11, <1>12 DEF SemanticInv

LEMMA EmptyCache ==
  ASSUME NEW s, s = [entries |-> [k \in EntryKeys |-> Absent], copies |-> [k \in EntryKeys |-> 0]]
  PROVE  CacheOK(s)
<1>1. Held(s) = {}
  BY DEF Held
<1>2. s.entries \in SemEntries /\ s.copies \in [EntryKeys -> Nat]
  BY DEF SemEntries
<1>3. QED
  BY <1>1, <1>2, FS_EmptySet, SemanticAssumption DEF CacheOK

\* SemanticCache, for any prompts, settings, bounds and threshold: every entry
\* is in the index although copies of keys come and go, the cache is never over
\* its size, and a hit is fresh and no other fresh entry is more similar.
THEOREM SemanticIsSound == SemanticSpec => []SemanticSound
<1>1. SemanticInit => SemanticInv
  <2> SUFFICES ASSUME SemanticInit PROVE SemanticInv
    OBVIOUS
  <2>1. CacheOK(Contents)
    BY EmptyCache DEF SemanticInit, Contents
  <2>2. SemanticTypeOK
    BY SemanticAssumption DEF SemanticInit, SemanticTypeOK, NotFound, Found
  <2>3. HitsAreBest
    BY DEF SemanticInit, HitsAreBest, NotFound
  <2>4. QED
    BY <2>1, <2>2, <2>3 DEF SemanticInv
<1>2. SemanticInv /\ [SemanticNext]_svars => SemanticInv'
  <2> SUFFICES ASSUME SemanticInv, [SemanticNext]_svars PROVE SemanticInv'
    OBVIOUS
  <2>1. CASE UNCHANGED svars
    BY <2>1 DEF svars, SemanticInv, SemanticTypeOK, CacheOK, Contents, Held, HitsAreBest, Alive, Expired
  <2>2. CASE Clear
    <3>1. CacheOK(Contents)'
      BY <2>2, EmptyCache DEF Clear, Contents
    <3>2. SemanticTypeOK'
      BY <2>2 DEF Clear, SemanticInv, SemanticTypeOK, NotFound, Found
    <3>3. HitsAreBest'
      BY <2>2 DEF Clear, HitsAreBest, NotFound
    <3>4. QED
      BY <3>1, <3>2, <3>3 DEF SemanticInv
  <2>3. CASE Later
    <3>1. CacheOK(Contents)'
      BY <2>3 DEF Later, SemanticInv, CacheOK, Contents, Held
    <3>2. SemanticTypeOK'
      BY <2>3, SemanticAssumption DEF Later, SemanticInv, SemanticTypeOK, NotFound, Found
    <3>3. HitsAreBest'
      BY <2>3 DEF Later, HitsAreBest, NotFound
    <3>4. QED
      BY <3>1, <3>2, <3>3 DEF SemanticInv
  <2>4. QED
    BY <2>1, <2>2, <2>3, GetStep, PutStep DEF SemanticNext
<1>3. SemanticInv => SemanticSound
  BY DEF SemanticInv, SemanticSound, IndexComplete, EntriesBounded, CacheOK, Contents
<1>4. QED
  BY <1>1, <1>2, <1>3, PTL DEF SemanticSpec
===============================================================================
