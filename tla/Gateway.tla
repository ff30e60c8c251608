-------------------------------- MODULE Gateway --------------------------------
(***************************************************************************)
(* The AI gateway (agentcost/gateway/__init__.py): one event loop serving   *)
(* chat completions with a rate limiter, a response cache with statistics,  *)
(* and providers.  A handler is suspended only while the request's body     *)
(* arrives and between the chunks of a stream: the provider is called with  *)
(* blocking I/O, so from the cache lookup to the cache store nothing else   *)
(* runs.  Traces are posted by daemon threads, each of which may fail.      *)
(* A body is a record; its key stands for model, messages, temperature and  *)
(* tools, which is what the cache hashes.                                   *)
(***************************************************************************)
EXTENDS Naturals, Sequences, FiniteSets, Functions

CONSTANTS Requests, Projects, Keys, Models,
          Bodies,      \* [project, key, model, cold, stream] requests may carry
          Routes,      \* config.providers in order: [name, models]
          Family,      \* Family[m]: provider of the model's prefix, or None
          Rpm, Window, \* rate_limit_rpm, 60 seconds
          Ttl, MaxCache,
          MaxDelay,    \* bound on how long a provider takes
          MaxTime,     \* bound on the clock
          MaxClears,   \* bound on calls of the two maintenance endpoints
          None

ASSUME GatewayAssumption ==
    /\ Bodies \subseteq [project : Projects, key : Keys, model : Models,
                         cold : BOOLEAN, stream : BOOLEAN]
    /\ \A n \in 1 .. Len(Routes) : Routes[n].models \subseteq Models
    /\ {Rpm, Window, Ttl, MaxCache, MaxDelay, MaxTime, MaxClears} \subseteq Nat
    /\ MaxCache > 0
    /\ IsFiniteSet(Keys) /\ IsFiniteSet(Projects) /\ IsFiniteSet(Models)
    /\ None \notin Bodies /\ None \notin [t : Nat, v : {"full", "empty"}]
    /\ \A n \in 1 .. Len(Routes) : Routes[n].name # None

VARIABLES window,    \* window[p]: RateLimiter._buckets, the requests it counts: [r, t]
          passed,    \* history: [r, project, t] of every admitted request
          cache,     \* cache[k]: [t, v, known] or None
          stats,     \* CacheStats: hits and misses, in total, by project, by model
          req,       \* req[r]: where the handler of r is
          traces,    \* [r, kind, cost] posted to the API
          clears,    \* calls of cache_clear and cache_reset_stats so far
          now

gvars == <<window, passed, cache, stats, req, traces, clears, now>>

NoBody == [at |-> "new", body |-> None, outcome |-> "none"]
Outcomes == {"none", "hit", "answered", "failed", "streamed", "broken", "refused",
             "malformed", "unroutable"}
Kinds == {"hit", "success", "error", "stream"}
Counters == {"hits", "misses"}
NoCounts == [what \in Counters |-> 0]
ZeroStats == [total |-> NoCounts, byProject |-> [p \in Projects |-> NoCounts],
              byModel |-> [m \in Models |-> NoCounts]]
Counts == [Counters -> Nat]

Entries == [t : Nat, v : {"full", "empty"}]
StatsSet == [total : Counts, byProject : [Projects -> Counts], byModel : [Models -> Counts]]
Handlers == [at : {"new", "body", "stream", "done"}, body : Bodies \cup {None},
             outcome : Outcomes]
TraceSet == [r : Requests, kind : Kinds, cost : Nat, state : {"posting", "stored", "lost"}]

GatewayTypeOK ==
    /\ window \in [Projects -> SUBSET [r : Requests, t : Nat]]
    /\ passed \subseteq [r : Requests, project : Projects, t : Nat]
    /\ cache \in [Keys -> Entries \cup {None}]
    /\ stats \in StatsSet
    /\ req \in [Requests -> Handlers]
    /\ \A r \in Requests : req[r].at # "new" => req[r].body # None
    /\ traces \subseteq TraceSet
    /\ now \in Nat /\ clears \in 0 .. MaxClears

GatewayInit ==
    /\ window = [p \in Projects |-> {}]
    /\ passed = {}
    /\ cache = [k \in Keys |-> None]
    /\ stats = ZeroStats
    /\ req = [r \in Requests |-> NoBody]
    /\ traces = {}
    /\ clears = 0
    /\ now = 0

-----------------------------------------------------------------------------
(* Rate limiter.                                                            *)

MutHalf(p) == {x \in window[p] : 2 * (now - x.t) < Window}
Active(p) == {x \in window[p] : now - x.t < Window}

\* A request arrives and is counted, or refused with 429.
Arrive(r, b) ==
    LET p == b.project IN
    /\ req[r].at = "new"
    /\ IF Cardinality(Active(p)) >= Rpm
       THEN /\ window' = [window EXCEPT ![p] = Active(p)]
            /\ req' = [req EXCEPT ![r] = [@ EXCEPT !.at = "done", !.body = b, !.outcome = "refused"]]
            /\ UNCHANGED passed
       ELSE /\ window' = [window EXCEPT ![p] = Active(p) \cup {[r |-> r, t |-> now]}]
            /\ req' = [req EXCEPT ![r] = [@ EXCEPT !.at = "body", !.body = b]]
            /\ passed' = passed \cup {[r |-> r, project |-> p, t |-> now]}
    /\ UNCHANGED <<cache, stats, traces, clears, now>>

\* The body is not JSON: the handler ends with an error.
Malformed(r) ==
    /\ req[r].at = "body"
    /\ req' = [req EXCEPT ![r].at = "done", ![r].outcome = "malformed"]
    /\ UNCHANGED <<window, passed, cache, stats, traces, clears, now>>

-----------------------------------------------------------------------------
(* Routing and prices.                                                      *)

FirstName(routes) == IF routes = <<>> THEN None ELSE routes[1].name

\* The first route that lists the model; else the provider of its prefix, if
\* that is configured; else, for an unknown prefix, the first route.
Resolve(m) ==
    LET listing == SelectSeq(Routes, LAMBDA n : m \in n.models)
        family == SelectSeq(Routes, LAMBDA n : n.name = Family[m])
    IN  IF listing # <<>> THEN FirstName(listing)
        ELSE IF Family[m] # None THEN FirstName(family)
        ELSE FirstName(Routes)

\* estimate_cost asks a bare CostTracker for _estimate_cost, a method that
\* CostTracker does not have; the error is caught and the cost is 0.
EstimateCost(m) == 0

-----------------------------------------------------------------------------
(* Response cache.                                                          *)

IsCacheable(b) == b.cold /\ ~b.stream
Fresh(k) == cache[k] # None /\ now - cache[k].t < Ttl
IsHit(b) == IsCacheable(b) /\ Fresh(b.key) /\ cache[b.key].v = "full"

MutDropMiss(b) ==
    IF IsCacheable(b) /\ ~IsHit(b) THEN [cache EXCEPT ![b.key] = None] ELSE cache
\* get deletes the entry of the key when it has expired.
AfterGet(b) ==
    IF IsCacheable(b) /\ ~Fresh(b.key) THEN [cache EXCEPT ![b.key] = None] ELSE cache

Stored(c) == {k \in Keys : c[k] # None}
Oldest(c) == {k \in Stored(c) : \A j \in Stored(c) : c[k].t <= c[j].t}
IsFull(c) == Cardinality(Stored(c)) >= MaxCache

\* put: a full cache first loses its oldest entry, even if the key is in it.
Puts(c, k, t, v) ==
    LET kept == IF IsFull(c) THEN {[c EXCEPT ![o] = None] : o \in Oldest(c)} ELSE {c}
    IN  {[d EXCEPT ![k] = [t |-> t, v |-> v]] : d \in kept}

\* record_hit and record_miss count for the project and for the model, too.
Counted(counts, what) == [counts EXCEPT ![what] = @ + 1]
Bump(s, what, b) ==
    [total |-> Counted(s.total, what),
     byProject |-> [s.byProject EXCEPT ![b.project] = Counted(@, what)],
     byModel |-> [s.byModel EXCEPT ![b.model] = Counted(@, what)]]

Missed(b) == IF IsCacheable(b) THEN Bump(stats, "misses", b) ELSE stats

Trace(r, kind, cost) == [r |-> r, kind |-> kind, cost |-> cost, state |-> "posting"]
TraceKinds(r, kind) == {kind}
Traced(r, kind) ==
    traces' = traces \cup {Trace(r, k, EstimateCost(req[r].body.model)) : k \in TraceKinds(r, kind)}

End(r, outcome) == req' = [req EXCEPT ![r].at = "done", ![r].outcome = outcome]

-----------------------------------------------------------------------------
(* chat_completions once the body is there, one action per way it ends.     *)

ServeHit(r) ==
    LET b == req[r].body IN
    /\ req[r].at = "body"
    /\ IsHit(b)
    /\ stats' = Bump(stats, "hits", b)
    /\ Traced(r, "hit")
    /\ End(r, "hit")
    /\ UNCHANGED <<window, passed, cache, clears, now>>

NoProvider(r) ==
    LET b == req[r].body IN
    /\ req[r].at = "body"
    /\ ~IsHit(b)
    /\ Resolve(b.model) = None
    /\ cache' = AfterGet(b)
    /\ stats' = Missed(b)
    /\ End(r, "unroutable")
    /\ UNCHANGED <<window, passed, traces, clears, now>>

\* The provider is asked: the loop is blocked for d ticks.
Forwards(r, d) ==
    /\ req[r].at = "body"
    /\ ~IsHit(req[r].body)
    /\ Resolve(req[r].body.model) # None
    /\ now' = now + d
    /\ now' <= MaxTime
    /\ stats' = Missed(req[r].body)
    /\ UNCHANGED <<window, passed, clears>>

ProviderFails(r, d) ==
    /\ Forwards(r, d)
    /\ cache' = AfterGet(req[r].body)
    /\ Traced(r, "error")
    /\ End(r, "failed")

ProviderAnswers(r, d, v) ==
    LET b == req[r].body IN
    /\ Forwards(r, d)
    /\ ~b.stream
    /\ IF IsCacheable(b) THEN cache' \in Puts(AfterGet(b), b.key, now', v)
                         ELSE cache' = AfterGet(b)
    /\ Traced(r, "success")
    /\ End(r, "answered")

ProviderStreams(r, d) ==
    /\ Forwards(r, d)
    /\ req[r].body.stream
    /\ req' = [req EXCEPT ![r].at = "stream"]
    /\ UNCHANGED <<cache, traces>>

\* The generator ran to its end and traces the call, without tokens.
StreamEnds(r) ==
    /\ req[r].at = "stream"
    /\ Traced(r, "stream")
    /\ End(r, "streamed")
    /\ UNCHANGED <<window, passed, cache, stats, clears, now>>

\* The client goes away or the provider's stream breaks: the generator ends
\* at a yield and traces nothing.
StreamBreaks(r) ==
    /\ req[r].at = "stream"
    /\ End(r, "broken")
    /\ UNCHANGED <<window, passed, cache, stats, traces, clears, now>>

-----------------------------------------------------------------------------
(* Daemon threads of _log_trace, maintenance endpoints, time.               *)

Posted(x, state) ==
    /\ x.state = "posting"
    /\ traces' = (traces \ {x}) \cup {[x EXCEPT !.state = state]}
    /\ UNCHANGED <<window, passed, cache, stats, req, clears, now>>

PostSucceeds == \E x \in traces : Posted(x, "stored")
PostFails == \E x \in traces : Posted(x, "lost")

ClearCache ==
    /\ clears < MaxClears
    /\ clears' = clears + 1
    /\ cache' = [k \in Keys |-> None]
    /\ UNCHANGED <<window, passed, stats, req, traces, now>>

MutPartialReset == [stats EXCEPT !.total = NoCounts]
AfterReset == ZeroStats

ResetStats ==
    /\ clears < MaxClears
    /\ clears' = clears + 1
    /\ stats' = AfterReset
    /\ UNCHANGED <<window, passed, cache, req, traces, now>>

Tick ==
    /\ now < MaxTime
    /\ now' = now + 1
    /\ UNCHANGED <<window, passed, cache, stats, req, traces, clears>>

GatewayNext ==
    \/ \E r \in Requests :
         \/ \E b \in Bodies : Arrive(r, b)
         \/ Malformed(r) \/ ServeHit(r) \/ NoProvider(r)
         \/ \E d \in 0 .. MaxDelay : \/ ProviderFails(r, d)
                                     \/ \E v \in {"full", "empty"} : ProviderAnswers(r, d, v)
                                     \/ ProviderStreams(r, d)
         \/ StreamEnds(r) \/ StreamBreaks(r)
    \/ PostSucceeds \/ PostFails \/ ClearCache \/ ResetStats \/ Tick

GatewaySpec == GatewayInit /\ [][GatewayNext]_gvars

-----------------------------------------------------------------------------
\* In no interval of Window ticks are more than Rpm requests of a project let
\* through, wherever the interval starts.
RateHeld ==
    \A p \in Projects, t \in 0 .. now :
        Cardinality({x \in passed : x.project = p /\ x.t >= t /\ x.t < t + Window}) <= Rpm

SumOver(counts, what) == SumFunction([x \in DOMAIN counts |-> counts[x][what]])

\* The hits and misses of the cache statistics are those of the projects, and
\* those of the models, added up, through resets as well.
StatsAddUp ==
    \A what \in Counters :
        /\ SumOver(stats.byProject, what) = stats.total[what]
        /\ SumOver(stats.byModel, what) = stats.total[what]

Finished(outcomes) == {r \in Requests : req[r].at = "done" /\ req[r].outcome \in outcomes}

\* "Tracks costs": a request that reached a provider or was served from the
\* cache is traced exactly once, as what happened to it; the exceptions are
\* streams that end early, which leave no trace at all.
TracedOnce ==
    /\ \A r \in Requests : Cardinality({x \in traces : x.r = r}) =
           IF r \in Finished({"hit", "answered", "failed", "streamed"}) THEN 1 ELSE 0
    /\ \A x \in traces : x.kind = CASE req[x.r].outcome = "hit" -> "hit"
                                    [] req[x.r].outcome = "answered" -> "success"
                                    [] req[x.r].outcome = "failed" -> "error"
                                    [] OTHER -> "stream"

Accounted == StatsAddUp /\ TracedOnce

\* An answer that has not expired leaves the cache only through cache_clear, or
\* to make room in a full cache for the answer to a request for another key.  (A
\* full cache evicts before it looks whether the key is there; that it is can
\* happen only for a stored answer that is empty, which never counts as a hit.)
LiveAnswersStay ==
    [][\A k \in Keys :
         Fresh(k) /\ cache'[k] = None =>
           \/ clears' # clears
           \/ /\ IsFull(cache)
              /\ \E r \in Requests :
                   /\ req[r].at = "body" /\ req'[r].outcome = "answered"
                   /\ req[r].body.key # k /\ ~IsHit(req[r].body)]_gvars

===============================================================================
