------------------------------- MODULE Plugins -------------------------------
(***************************************************************************)
(* agentcost/plugins: the registry, and the two built-in plugins that keep *)
(* state, the agent lifecycle and the in-memory tracker.                   *)
(***************************************************************************)
EXTENDS Integers, Sequences, FiniteSets, Functions

\* The entries of q that are in K, in their order.
Among(q, K) ==
    LET f[i \in 0 .. Len(q)] ==
          IF i = 0 THEN <<>>
          ELSE IF q[i] \in K THEN Append(f[i - 1], q[i]) ELSE f[i - 1]
    IN  f[Len(q)]

-----------------------------------------------------------------------------
(***************************************************************************)
(* PluginRegistry (agentcost/plugins/__init__.py): plugins are loaded into   *)
(* the slot of their type and unloaded by name, by any thread; unloading     *)
(* rebuilds each slot's list and assigns it.  Plugins of two slots whose     *)
(* behaviour the registry combines are modelled: runtimes, whose overrides   *)
(* are chained and whose limits must all pass, and providers, the first of   *)
(* which that knows a model prices it.  Reactors hand actions to the engine. *)
(***************************************************************************)

CONSTANTS Hosts,      \* threads that load and unload
          Plugin,     \* instances
          NameOf,     \* meta.name
          SlotOf,     \* the slot of the plugin's type
          Overrides,  \* Overrides[p]: requested model |-> model, for the ones p overrides
          Throttles,  \* runtimes whose check_rate_limit says no
          Knows,      \* Knows[p]: models the provider has a cost for
          Breaks,     \* plugins whose methods raise
          Ops,        \* Ops[p]: names of the reactor's actions
          Requested,  \* models
          MaxLoads, Void

\* In the order in which unload() rebuilds them.
AllSlots == <<"notifier", "policy", "exporter", "provider", "tracker", "reactor", "runtime", "agent">>
Slots == {SlotOf[p] : p \in Plugin} \cup {"provider", "reactor", "runtime"}
SlotOrder == Among(AllSlots, Slots)

ASSUME RegistryAssumption ==
    /\ NameOf \in [Plugin -> Range(NameOf)] /\ SlotOf \in [Plugin -> Range(AllSlots)]
    /\ Void \notin Plugin /\ Void \notin Range(NameOf) /\ Void \notin Range(AllSlots)

VARIABLES byName,     \* _plugins
          slot,       \* slot[s]: the list of slot s
          host,       \* host[h]: an unload in progress: its name, slots left, list computed
          actions,    \* the reaction engine's handlers: action |-> plugin
          loads,
          raced       \* history: a load came while an unload was in progress

plugvars == <<byName, slot, host, actions, loads, raced>>

AtRest == [name |-> Void, left |-> <<>>, at |-> Void, list |-> <<>>]
NamesOf == {NameOf[p] : p \in Plugin}
Busy == \E g \in Hosts : host[g] # AtRest

PluginsInit ==
    /\ byName = [n \in NamesOf |-> Void]
    /\ slot = [s \in Slots |-> <<>>]
    /\ host = [h \in Hosts |-> AtRest]
    /\ actions = [a \in UNION {Ops[p] : p \in Plugin} |-> Void]
    /\ loads = 0 /\ raced = FALSE

\* load(): on_install, configure, the name, then the end of the slot's list.  A
\* plugin of a name that is loaded takes its name and leaves it in the list.
Load(h, p) ==
    /\ host[h] = AtRest /\ loads < MaxLoads
    /\ loads' = loads + 1
    /\ byName' = [byName EXCEPT ![NameOf[p]] = p]
    /\ slot' = [slot EXCEPT ![SlotOf[p]] = Append(@, p)]
    /\ raced' = (raced \/ Busy)
    /\ UNCHANGED <<host, actions>>

\* unload(): pops the name, then rebuilds the lists one after the other.
StartUnload(h, n) ==
    /\ host[h] = AtRest /\ byName[n] # Void
    /\ byName' = [byName EXCEPT ![n] = Void]
    /\ host' = [host EXCEPT ![h] = [AtRest EXCEPT !.name = n, !.left = SlotOrder]]
    /\ raced' = (raced \/ Busy)
    /\ UNCHANGED <<slot, actions, loads>>

Without(s, n) == Among(slot[s], {p \in Plugin : NameOf[p] # n})

Filter(h) ==
    /\ host[h].left # <<>> /\ host[h].at = Void
    /\ LET s == Head(host[h].left) IN
       host' = [host EXCEPT ![h].left = Tail(@), ![h].at = s, ![h].list = Without(s, host[h].name)]
    /\ UNCHANGED <<byName, slot, actions, loads, raced>>

Assign(h) ==
    /\ host[h].at # Void
    /\ slot' = [slot EXCEPT ![host[h].at] = host[h].list]
    /\ host' = [host EXCEPT ![h] = IF @.left = <<>> THEN AtRest
                                   ELSE [@ EXCEPT !.at = Void, !.list = <<>>]]
    /\ UNCHANGED <<byName, actions, loads, raced>>

\* activate_reactors: one that raises registers nothing and stops no other; unload
\* takes no action back.
Activate(h) ==
    /\ host[h] = AtRest
    /\ actions' = [a \in DOMAIN actions |->
           LET ps == Among(slot["reactor"], {p \in Plugin \ Breaks : a \in Ops[p]})
           IN  IF ps = <<>> THEN actions[a] ELSE ps[Len(ps)]]
    /\ actions' # actions
    /\ UNCHANGED <<byName, slot, host, loads, raced>>

PluginsNext ==
    \E h \in Hosts :
        \/ \E p \in Plugin : Load(h, p)
        \/ \E n \in NamesOf : StartUnload(h, n)
        \/ Filter(h) \/ Assign(h) \/ Activate(h)

PluginsSpec == PluginsInit /\ [][PluginsNext]_plugvars

-----------------------------------------------------------------------------
(* What the registry answers                                                *)

Runtimes == slot["runtime"]
Answers(p, m) == p \notin Breaks /\ m \in DOMAIN Overrides[p]
ModelOverride(m) ==
    LET f[i \in 0 .. Len(Runtimes)] ==
          IF i = 0 THEN m
          ELSE IF Answers(Runtimes[i], f[i - 1]) THEN Overrides[Runtimes[i]][f[i - 1]]
          ELSE f[i - 1]
    IN  f[Len(Runtimes)]
\* A limit that raises counts as passed.
WithinLimits == \A p \in Range(Runtimes) : p \in Breaks \/ p \notin Throttles
\* A provider that raises ends the search: nothing catches it.
Pricer(m) ==
    LET s == Among(slot["provider"], {p \in Plugin : p \in Breaks \/ m \in Knows[p]})
    IN  IF s = <<>> \/ s[1] \in Breaks THEN Void ELSE s[1]

-----------------------------------------------------------------------------
\* Between calls, and unless calls overlapped: every loaded name is in its slot, no
\* plugin of a name that was unloaded is left in any slot, not even one that was
\* loaded twice or shadowed by another of its name.
SlotsMatchNames ==
    ~Busy /\ ~raced =>
        /\ \A n \in NamesOf : byName[n] # Void => byName[n] \in Range(slot[SlotOf[byName[n]]])
        /\ \A s \in Slots : \A p \in Range(slot[s]) : byName[NameOf[p]] # Void /\ SlotOf[p] = s

\* Whatever is loaded and however unloads overlap, a limit of a working runtime
\* holds back every request, a price comes from a provider that is in its slot and
\* knows the model, loaded by name unless calls overlapped, another model than the
\* one asked for is the choice of a working runtime, and who handles an action is a
\* working reactor that offers it.
AnswersComeFromLoaded ==
    /\ WithinLimits => \A p \in Range(Runtimes) \cap Throttles : p \in Breaks
    /\ \A m \in Requested : Pricer(m) # Void =>
         /\ Pricer(m) \in Range(slot["provider"]) /\ m \in Knows[Pricer(m)]
         /\ ~Busy /\ ~raced => byName[NameOf[Pricer(m)]] # Void
    /\ \A m \in Requested : ModelOverride(m) # m =>
         \E p \in Range(Runtimes) \ Breaks : ModelOverride(m) \in Range(Overrides[p])
    /\ \A a \in DOMAIN actions : actions[a] # Void => actions[a] \notin Breaks /\ a \in Ops[actions[a]]

RegistrySound == SlotsMatchNames /\ AnswersComeFromLoaded

-----------------------------------------------------------------------------
(***************************************************************************)
(* The built-in agent lifecycle (AgentLifecyclePlugin, agentcost/plugins/    *)
(* builtins.py) and in-memory tracker (InMemoryTrackerPlugin).  Threads move *)
(* agents through their states; a transition reads the state, writes the new *)
(* one, appends to the history and tells the event bus, in separate steps.   *)
(***************************************************************************)

CONSTANTS Movers,       \* threads
          Worker,       \* agents
          MaxMoves,     \* bound
          HistoryCap,   \* 1000 in the code
          Projects,     \* scopes of the tracker
          TraceCap,     \* _max_traces
          Fees, MaxFees

ASSUME LifeAssumption ==
    /\ "none" \notin Worker /\ "none" \notin Projects
    /\ HistoryCap \in Nat /\ TraceCap \in Nat
    /\ IsFiniteSet(Movers) /\ IsFiniteSet(Worker) /\ IsFiniteSet(Projects)
    /\ Projects \cap Worker = {} /\ Fees \subseteq Nat /\ MaxFees \in Nat

ValidTransitions ==
    [registered |-> {"active"},
     active |-> {"budget_warning", "suspended", "terminated"},
     budget_warning |-> {"active", "suspended", "terminated"},
     suspended |-> {"resumed", "terminated"},
     resumed |-> {"active", "suspended", "terminated"},
     terminated |-> {}]
AllStates == DOMAIN ValidTransitions

VARIABLES state,     \* _states; "none" for an agent nobody registered or moved
          history,   \* _history: [agent, from, to]
          told,      \* events of the bus: [agent, from, to]
          mover,     \* mover[m]: a transition in progress, with the step it is at
          moves,
          crossed,   \* history: agents two transitions of which overlapped
          kept,      \* the tracker's _traces
          spend,     \* _spend_by_scope
          booking,   \* booking[m]: a trace being recorded
          fees       \* what was recorded in all, since the last reset

lifevars == <<state, history, told, mover, moves, crossed>>
memvars == <<kept, spend, booking, fees>>

Free == [agent |-> "none", from |-> "none", to |-> "none", step |-> "idle"]

LifeInit ==
    /\ state = [a \in Worker |-> "none"]
    /\ history = <<>> /\ told = <<>>
    /\ mover = [m \in Movers |-> Free]
    /\ moves = 0 /\ crossed = {}

Current(a) == IF state[a] = "none" THEN "registered" ELSE state[a]
Entry(m) == [agent |-> mover[m].agent, from |-> mover[m].from, to |-> mover[m].to]
InTransit(a) == \E m \in Movers : mover[m].agent = a

RegisterAgent(a) ==
    /\ state[a] = "none"
    /\ state' = [state EXCEPT ![a] = "registered"]
    /\ crossed' = IF InTransit(a) THEN crossed \cup {a} ELSE crossed
    /\ UNCHANGED <<history, told, mover, moves>>

\* transition(): refused when the table does not allow it.
MutAnyMove(from, to) == from # "terminated"
Allowed(from, to) == to \in ValidTransitions[from]
ReadState(m, a, to) ==
    /\ mover[m] = Free /\ moves < MaxMoves
    /\ Allowed(Current(a), to)
    /\ moves' = moves + 1
    /\ crossed' = IF InTransit(a) THEN crossed \cup {a} ELSE crossed
    /\ mover' = [mover EXCEPT ![m] = [agent |-> a, from |-> Current(a), to |-> to, step |-> "write"]]
    /\ UNCHANGED <<state, history, told>>

WriteState(m) ==
    /\ mover[m].step = "write"
    /\ state' = [state EXCEPT ![mover[m].agent] = mover[m].to]
    /\ mover' = [mover EXCEPT ![m].step = "record"]
    /\ UNCHANGED <<history, told, moves, crossed>>

Latest(s, n) == IF Len(s) > n THEN SubSeq(s, Len(s) - n + 1, Len(s)) ELSE s
RecordMove(m) ==
    /\ mover[m].step = "record"
    /\ history' = Latest(Append(history, Entry(m)), HistoryCap)
    /\ mover' = [mover EXCEPT ![m].step = "emit"]
    /\ UNCHANGED <<state, told, moves, crossed>>

EmitMove(m) ==
    /\ mover[m].step = "emit"
    /\ told' = Append(told, Entry(m))
    /\ mover' = [mover EXCEPT ![m] = Free]
    /\ UNCHANGED <<state, history, moves, crossed>>

LifeNext ==
    \/ \E a \in Worker : RegisterAgent(a)
    \/ \E m \in Movers :
         \/ \E a \in Worker, to \in AllStates : ReadState(m, a, to)
         \/ WriteState(m) \/ RecordMove(m) \/ EmitMove(m)

LifeSpec == LifeInit /\ [][LifeNext]_lifevars

-----------------------------------------------------------------------------
(* InMemoryTrackerPlugin: a trace counts for its project and for its agent,  *)
(* one after the other; old traces are dropped, their cost is not            *)

NoTrace == [project |-> "none", agent |-> "none", fee |-> 0, left |-> {}]

MemInit ==
    /\ kept = <<>>
    /\ spend = [x \in Projects \cup Worker |-> 0]
    /\ booking = [m \in Movers |-> NoTrace]
    /\ fees = 0

KeepTrace(m, p, a, fee) ==
    /\ booking[m] = NoTrace /\ fees + fee <= MaxFees
    /\ kept' = Latest(Append(kept, fee), TraceCap)
    /\ booking' = [booking EXCEPT ![m] = [project |-> p, agent |-> a, fee |-> fee, left |-> {p, a}]]
    /\ fees' = fees + fee
    /\ UNCHANGED spend

\* In the order project, agent_id.
Fee(m) == booking[m].fee
AddSpend(m) ==
    /\ booking[m].left # {}
    /\ LET x == IF booking[m].project \in booking[m].left THEN booking[m].project ELSE booking[m].agent
           rest == booking[m].left \ {x}
       IN  /\ spend' = [spend EXCEPT ![x] = @ + Fee(m)]
           /\ booking' = [booking EXCEPT ![m] = IF rest = {} THEN NoTrace ELSE [@ EXCEPT !.left = rest]]
    /\ UNCHANGED <<kept, fees>>

MemNext == \E m \in Movers :
    \/ \E p \in Projects, a \in Worker, fee \in Fees : KeepTrace(m, p, a, fee)
    \/ AddSpend(m)

MemSpec == MemInit /\ [][MemNext]_memvars

-----------------------------------------------------------------------------
\* The places of agent a in a list of transitions: i is the last, j is next after i.
LastOf(q, a, i) == q[i].agent = a /\ \A k \in DOMAIN q : k > i => q[k].agent # a
NextOf(q, a, i, j) ==
    /\ i < j /\ q[i].agent = a /\ q[j].agent = a
    /\ \A k \in DOMAIN q : i < k /\ k < j => q[k].agent # a

\* The history of an agent none of whose transitions overlapped tells one legal
\* life: each entry starts where the one before ended, the last one ends in the
\* state of now unless it is just being recorded, and nothing follows its end.
HistoryIsALife ==
    \A a \in Worker \ crossed : \A i \in DOMAIN history : history[i].agent = a =>
        /\ history[i].to \in ValidTransitions[history[i].from]
        /\ \A j \in DOMAIN history : NextOf(history, a, i, j) =>
             history[i].to = history[j].from /\ history[i].to # "terminated"
        /\ ~InTransit(a) /\ LastOf(history, a, i) => history[i].to = state[a]

\* Listeners hear of every such transition, in the order in which they happened.
ToldInOrder ==
    \A a \in Worker \ crossed :
        /\ \A i, j \in DOMAIN told : NextOf(told, a, i, j) => told[i].to = told[j].from
        /\ ~InTransit(a) =>
             IF \A i \in DOMAIN told : told[i].agent # a THEN state[a] \in {"none", "registered"}
             ELSE \A i \in DOMAIN told : LastOf(told, a, i) => told[i].to = state[a]

\* What the projects spent is what the agents spent, and both are what was
\* recorded, once no trace is half recorded, however many traces were dropped.
SpentBy(S) == SumFunctionOnSet(spend, S)
ScopesAgree ==
    (\A m \in Movers : booking[m] = NoTrace) => SpentBy(Projects) = fees /\ SpentBy(Worker) = fees

LifecycleSound == HistoryIsALife /\ ToldInOrder /\ ScopesAgree

-----------------------------------------------------------------------------
\* What the plugin registry answers follows from what is loaded, and agents move
\* along the transition table only, with their spend counted.
PluginsSound == RegistrySound /\ LifecycleSound
===============================================================================
