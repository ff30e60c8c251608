--------------------------------- MODULE Pricing --------------------------------
(***************************************************************************)
(* The price tables (agentcost/cost/calculator.py), the sync that downloads  *)
(* them (sync_upstream.py) and the registry the dashboard lists              *)
(* (model_routes.py).  Threads of one process load the files lazily and      *)
(* register prices; the sync is another process that rewrites the file.      *)
(* Names are atoms; which begins with which is given by constants.           *)
(***************************************************************************)
EXTENDS Integers, FiniteSets, Functions

CONSTANTS Loaders,       \* threads
          Models,        \* names that are looked up or listed
          Rank,          \* the order of the names: sync writes the keys sorted
          StripOf,       \* the name without its provider prefix, itself if it has none
          BaseOf,        \* what precedes the first colon, itself if there is none
          BeginsWith,    \* <<m, key>>: m starts with key
          Tables,        \* contents of the vendored file: names to prices
          FileOverrides, \* overrides.json, never written by the system
          Price,         \* [input, output, read]: per token, read = Unpriced if not given
          Unpriced, MaxSyncs

\* Prices are never negative, every listed name has its place in the sorted file.
Costs == [input : Nat, output : Nat, read : Nat \cup {Unpriced}]
Table(t) == DOMAIN t \subseteq Models /\ t \in [DOMAIN t -> Costs]
ASSUME PricingAssumption ==
    /\ Price \subseteq Costs
    /\ IsFiniteSet(Models) /\ Rank \in Injection(Models, Nat)
    /\ \A t \in Tables \cup {FileOverrides} : Table(t)

VARIABLES file,       \* model_prices.json; an empty table stands for one cut short
          half,       \* the table the sync process is writing, Unpriced if it is idle
          costMap, overrides, runtime, mapLoaded,   \* the module's globals
          loader,     \* loader[t]: what t has read and not yet assigned, Unpriced if nothing
          syncs,
          stale       \* history: the file changed, or a load overlapped another, since

pricevars == <<file, half, costMap, overrides, runtime, mapLoaded, loader, syncs, stale>>

Empty == [m \in {} |-> 0]
Put(f, m, p) == [x \in DOMAIN f \cup {m} |-> IF x = m THEN p ELSE f[x]]

PricingInit ==
    /\ file \in Tables /\ half = Unpriced
    /\ costMap = Empty /\ overrides = Empty /\ runtime = Empty /\ mapLoaded = FALSE
    /\ loader = [t \in Loaders |-> Unpriced]
    /\ syncs = 0 /\ stale = FALSE

-----------------------------------------------------------------------------
(* _ensure_loaded, reload, register_model                                   *)

\* A file that does not parse is an empty table, with a warning.
ReadFile(t) ==
    /\ ~mapLoaded /\ loader[t] = Unpriced
    /\ loader' = [loader EXCEPT ![t] = file]
    /\ stale' = (\E u \in Loaders : loader[u] # Unpriced)
    /\ UNCHANGED <<file, half, costMap, overrides, runtime, mapLoaded, syncs>>

\* The map and the overrides are assigned, and loading ends.
EndLoading(t) ==
    /\ loader[t] # Unpriced
    /\ costMap' = loader[t] /\ overrides' = FileOverrides /\ mapLoaded' = TRUE
    /\ loader' = [loader EXCEPT ![t] = Unpriced]
    /\ UNCHANGED <<file, half, runtime, syncs, stale>>

\* reload(): the caller loads like any other; until then lookups use the old map.
Reload(t) ==
    /\ mapLoaded /\ loader[t] = Unpriced
    /\ mapLoaded' = FALSE /\ runtime' = Empty
    /\ UNCHANGED <<file, half, costMap, overrides, loader, syncs, stale>>

\* register_model and register_model_per_1m.
Register(m, p) ==
    /\ mapLoaded
    /\ runtime' = Put(runtime, m, p)
    /\ UNCHANGED <<file, half, costMap, overrides, mapLoaded, loader, syncs, stale>>

-----------------------------------------------------------------------------
(* sync: warnings of _validate stop nothing, and the file is cut before it is *)
(* written.  dry_run ends before.                                             *)

StartSync(table) ==
    /\ half = Unpriced /\ syncs < MaxSyncs /\ syncs' = syncs + 1
    /\ file' = Empty /\ half' = table
    /\ stale' = TRUE
    /\ UNCHANGED <<costMap, overrides, runtime, mapLoaded, loader>>

EndSync ==
    /\ half # Unpriced
    /\ file' = half /\ half' = Unpriced
    /\ stale' = TRUE
    /\ UNCHANGED <<costMap, overrides, runtime, mapLoaded, loader, syncs>>

SyncDies ==
    /\ half # Unpriced
    /\ half' = Unpriced
    /\ UNCHANGED <<file, costMap, overrides, runtime, mapLoaded, loader, syncs, stale>>

PricingNext ==
    \/ \E t \in Loaders : ReadFile(t) \/ EndLoading(t) \/ Reload(t)
    \/ \E m \in Models, p \in Price : Register(m, p)
    \/ \E table \in Tables : StartSync(table)
    \/ EndSync \/ SyncDies

PricingSpec == PricingInit /\ [][PricingNext]_pricevars

-----------------------------------------------------------------------------
(* _resolve_model: the name and the stripped name, each in the runtime prices, *)
(* the overrides and the map; the untagged name in the map; then the first key *)
(* of the map, in its order, that either name begins with.                     *)

Free == [input |-> 0, output |-> 0, read |-> Unpriced]
Exact(m) == CASE m \in DOMAIN runtime -> runtime[m]
              [] m \notin DOMAIN runtime /\ m \in DOMAIN overrides -> overrides[m]
              [] OTHER -> IF m \in DOMAIN costMap THEN costMap[m] ELSE Unpriced
Starts(m) == {k \in DOMAIN costMap : <<m, k>> \in BeginsWith \/ <<StripOf[m], k>> \in BeginsWith}
FirstKey(m) == CHOOSE k \in Starts(m) : \A j \in Starts(m) : Rank[k] <= Rank[j]

Resolve(m) ==
    IF Exact(m) # Unpriced THEN Exact(m)
    ELSE IF Exact(StripOf[m]) # Unpriced THEN Exact(StripOf[m])
    ELSE IF BaseOf[StripOf[m]] \in DOMAIN costMap THEN costMap[BaseOf[StripOf[m]]]
    ELSE IF Starts(m) # {} THEN costMap[FirstKey(m)]
    ELSE Unpriced

\* cost_per_token: an unknown model is free; a read price of 0 is no read price.
Most(a, b) == IF a > b THEN a ELSE b
MutReadAll(p, prompt, cached) == p.input * prompt
InputCost(p, prompt, cached) ==
    p.input * Most(0, prompt - cached)
    + cached * (IF p.read \in {Unpriced, 0} THEN p.input ELSE p.read)
CachedSaving(p, cached) ==
    Most(0, cached * (p.input - (IF p.read \in {Unpriced, 0} THEN p.input ELSE p.read)))
CostPerToken(m, prompt, completion, cached) ==
    LET p == IF Resolve(m) = Unpriced THEN Free ELSE Resolve(m)
    IN  [input |-> InputCost(p, prompt, cached), output |-> p.output * completion,
         saved |-> CachedSaving(p, cached)]

\* get_model_registry_for_dashboard: the tiers of the vendored map; bounds as in
\* _classify_tier, with 10, 2 and 1 for 5.0, 1.0 and 0.1.
DashTier(p) == CASE p.input = 0 -> "free" [] p.input >= 10 -> "flagship"
                 [] p.input \in 2 .. 9 -> "balanced" [] p.input = 1 -> "fast"
Registry(tiers) == {m \in DOMAIN costMap : tiers = {} \/ DashTier(costMap[m]) \in tiers}

\* list_models and search_models: filters, the sort by input price, the window.
Search(hits, least, most) ==
    {m \in Registry({}) : /\ m \in hits
                          /\ least = Unpriced \/ costMap[m].input >= least
                          /\ most = Unpriced \/ costMap[m].input <= most}
Ahead(S, m) ==
    {n \in S : \/ costMap[n].input < costMap[m].input
               \/ costMap[n].input = costMap[m].input /\ Rank[n] < Rank[m]}
Page(S, limit, offset) ==
    {m \in S : Cardinality(Ahead(S, m)) \in offset .. offset + limit - 1}

-----------------------------------------------------------------------------
\* A loaded map is the file's, however threads load, reload and register, as long
\* as no sync and no overlapping load came between.
MapsAreRead ==
    mapLoaded /\ ~stale /\ half = Unpriced /\ (\A t \in Loaders : loader[t] = Unpriced)
        => costMap = file

\* What caching saves and what is charged make the full price, as long as no more
\* tokens are cached than were sent.
BillsAddUp ==
    \A m \in Models, prompt \in 0 .. 2, cached \in 0 .. 2 : cached <= prompt =>
        LET p == IF Resolve(m) = Unpriced THEN Free ELSE Resolve(m)
            c == CostPerToken(m, prompt, 1, cached)
        IN  IF p.read # Unpriced /\ p.read > p.input THEN c.saved = 0
            ELSE c.input + c.saved = prompt * p.input

\* Paging through the registry shows every model once, alone on a page of one,
\* and a second page begins where the first one ended.
PagesShowAll ==
    \A S \in {Registry({}), Registry({"balanced"}), Search(Models, 2, Unpriced)} :
        /\ \A m \in S : \E i \in 0 .. Cardinality(S) - 1 : Page(S, 1, i) = {m}
        /\ Page(S, 1, 0) \cup Page(S, Cardinality(S), 1) = S
        /\ Page(S, 1, 0) \cap Page(S, Cardinality(S), 1) = {}

\* Prices are those of the file, bills add up, and the model pages miss no model.
PricesSound == MapsAreRead /\ BillsAddUp /\ PagesShowAll

\* The fallback finds the model a dated name is a version of: the longest known
\* name it begins with ("gpt-4o-2024-08-06" matches "gpt-4o").
DatedNamesFindTheirModel ==
    \A m \in Models :
        Resolve(m) # Unpriced /\ Exact(m) = Unpriced /\ Exact(StripOf[m]) = Unpriced /\ Starts(m) # {}
            => \A k \in Starts(m) : Rank[FirstKey(m)] >= Rank[k]
===============================================================================
