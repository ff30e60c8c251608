------------------------------ MODULE Reactions ------------------------------
(***************************************************************************)
(* ReactionEngine (agentcost/reactions/engine.py): an event that has a      *)
(* matching reaction runs its actions, at most once per cooldown.           *)
(*                                                                         *)
(* The engine is called back in the thread that emits the event, so every   *)
(* event is an activity of its own and at[e] is where its handling stands.  *)
(* The cooldown is read and written under _lock, in three database calls;   *)
(* reset_cooldown does not take the lock.  Actions only notify and log,     *)
(* except `escalate', which emits another event (module AlertPipeline).     *)
(***************************************************************************)
EXTENDS EventBus

CONSTANTS Names,       \* reaction names
          ReactionOf,  \* EVENT_TO_REACTION, or the event type with dashes
          Cooldown,    \* cooldown_seconds of each reaction
          Configurable,\* reactions that API calls change
          Start,       \* the clock at start: Unix time, above any cooldown
          MaxTime      \* bound on the clock

ASSUME ReactionsAssumption ==
    /\ ReactionOf \in [Events -> Names]
    /\ Cooldown \in [Names -> Nat]
    /\ Configurable \subseteq Names
    /\ Start \in Nat \ {0}
    /\ MaxTime \in Nat
    /\ Start <= MaxTime
    /\ \A r \in Names : Cooldown[r] <= Start
    /\ None \notin Events

VARIABLES now,      \* time.time()
          loaded,   \* reactions that exist, are enabled and automatic
          last,     \* reaction_cooldowns.last_fired_at, 0 = no row
          lock,     \* the event whose thread holds _lock
          at,       \* at[e]: where the handling of e stands
          clock,    \* clock[e]: the time read when e came in
          fired     \* history: clocks of the firings since the last reset

engineVars == <<now, loaded, last, lock, at, clock, fired>>

Locked == {"exists", "update", "insert"}
Stages == {"none", "cooldown", "act", "record", "done"} \cup Locked

EngineTypeOK ==
    /\ now \in Start .. MaxTime
    /\ loaded \subseteq Names
    /\ last \in [Names -> {0} \cup Start .. MaxTime]
    /\ lock \in Events \cup {None}
    /\ at \in [Events -> Stages]
    /\ clock \in [Events -> {0} \cup Start .. MaxTime]
    /\ fired \in [Names -> Seq(Start .. MaxTime)]

EngineInit ==
    /\ now = Start
    /\ loaded = Names
    /\ last = [r \in Names |-> 0]
    /\ lock = None
    /\ at = [e \in Events |-> "none"]
    /\ clock = [e \in Events |-> 0]
    /\ fired = [r \in Names |-> <<>>]

Move(e, stage) == at' = [at EXCEPT ![e] = stage]

\* The head of execute: the condition depends on the data of the event; the
\* clock is read before the lock is taken.
Execute(e) ==
    /\ at[e] = "none"
    /\ \/ /\ Move(e, "cooldown")
          /\ clock' = [clock EXCEPT ![e] = now]
       \/ /\ Move(e, "record")               \* condition_not_met
          /\ UNCHANGED clock
    /\ UNCHANGED <<now, loaded, last, lock, fired>>

OnEvent(e) == ReactionOf[e] \in loaded /\ Execute(e)

MutNoCooldown(r, t) == FALSE
Cooling(r, t) == Cooldown[r] > 0 /\ t < last[r] + Cooldown[r]

\* Take the lock and read the cooldown; if it runs, leave at once.
CheckCooldown(e) ==
    LET r == ReactionOf[e] IN
    /\ at[e] = "cooldown"
    /\ lock = None
    /\ IF Cooling(r, clock[e])
       THEN Move(e, "record") /\ UNCHANGED <<lock, fired>>
       ELSE /\ Move(e, "exists")
            /\ lock' = e
            /\ fired' = [fired EXCEPT ![r] = Append(@, clock[e])]
    /\ UNCHANGED <<now, loaded, last, clock>>

RowExists(r) == last[r] # 0

\* _set_cooldown: is there a row?
FindRow(e) ==
    /\ at[e] = "exists"
    /\ Move(e, IF RowExists(ReactionOf[e]) THEN "update" ELSE "insert")
    /\ UNCHANGED <<now, loaded, last, lock, clock, fired>>

MutKeepLock(e) == e
Unlock(e) == None

\* _set_cooldown: UPDATE changes nothing if the row has gone meanwhile; INSERT
\* adds it.  The lock is released.
SetCooldown(e) ==
    LET r == ReactionOf[e] IN
    /\ \/ at[e] = "update" /\ last[r] # 0 /\ last' = [last EXCEPT ![r] = clock[e]]
       \/ at[e] = "update" /\ last[r] = 0 /\ UNCHANGED last
       \/ at[e] = "insert" /\ last' = [last EXCEPT ![r] = clock[e]]
    /\ Move(e, "act")
    /\ lock' = Unlock(e)
    /\ UNCHANGED <<now, loaded, clock, fired>>

Act(e) ==
    /\ at[e] = "act"
    /\ Move(e, "record")
    /\ UNCHANGED <<now, loaded, last, lock, clock, fired>>

\* _persist_result, or the answer to a request that triggered the reaction.
Persist(e) ==
    /\ at[e] = "record"
    /\ Move(e, "done")
    /\ UNCHANGED <<now, loaded, last, lock, clock, fired>>

\* reset_cooldown, an API call: its SELECT only decides the answer.
ResetCooldown(r) ==
    /\ last[r] # 0
    /\ last' = [last EXCEPT ![r] = 0]
    /\ fired' = [fired EXCEPT ![r] = <<>>]
    /\ UNCHANGED <<now, loaded, lock, at, clock>>

\* add or enable, and remove or disable, a reaction; reload does several at once.
Configure(r) ==
    /\ loaded' \in {loaded \cup {r}, loaded \ {r}}
    /\ UNCHANGED <<now, last, lock, at, clock, fired>>

Tick ==
    /\ now < MaxTime
    /\ now' = now + 1
    /\ UNCHANGED <<loaded, last, lock, at, clock, fired>>

EngineStep(e) == CheckCooldown(e) \/ FindRow(e) \/ SetCooldown(e) \/ Act(e) \/ Persist(e)
Environment ==
    \/ Tick
    \/ \E r \in Names : ResetCooldown(r)
    \/ \E r \in Configurable : Configure(r)

EngineNext == Environment \/ \E e \in Events : Execute(e) \/ EngineStep(e)
EngineSpec == EngineInit /\ [][EngineNext]_engineVars

-----------------------------------------------------------------------------
(* Properties *)

\* "cooldown: minimum interval between triggers" (defaults.yaml): by the clocks
\* of their events, two firings of a reaction are a cooldown apart, however
\* many threads emit; reset_cooldown starts over.
FiringsSpaced ==
    \A r \in Names : Cooldown[r] > 0 =>
        \A i, j \in 1 .. Len(fired[r]) :
            i < j => fired[r][i] + Cooldown[r] <= fired[r][j]

\* The INSERT of _set_cooldown never meets an existing row, whatever resets
\* and other threads do between its SELECT and the INSERT.
InsertNeverClashes == \A e \in Events : at[e] = "insert" => last[ReactionOf[e]] = 0
=============================================================================
