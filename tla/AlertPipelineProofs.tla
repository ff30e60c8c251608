------------------------- MODULE AlertPipelineProofs -------------------------
(***************************************************************************)
(* Proofs about the reaction engine, alone and on the event bus.  The       *)
(* engine's lock makes the three database calls of a cooldown one critical  *)
(* section; reset_cooldown is the only writer outside it.  Then about the     *)
(* parts that tell people: the dispatcher of notifications and the scorecards *)
(* (Notify), about saved scenarios (Scenarios), about the baselines and the    *)
(* announcements of anomalies (Anomaly), about feedback on traces (Feedback),   *)
(* about how traces are stored and reported on (Ingestion), and about what is  *)
(* predicted from their costs (Forecast).                                     *)
(***************************************************************************)
EXTENDS AlertPipeline, Notify, Scenarios, Anomaly, Feedback, Ingestion, Forecast, FiniteSetTheorems, SequenceTheorems, SumLemmas, TLAPS

\* Whose thread holds the lock is in the middle of a cooldown, and nobody else.
LockOwner == \A e \in Events : at[e] \in Locked <=> lock = e

LastOf(seq) == seq[Len(seq)]

\* The last firing of r is in its row, or its thread still holds the lock.
RowIsLast ==
    \A r \in Names : fired[r] # <<>> =>
        \/ last[r] = LastOf(fired[r])
        \/ lock # None /\ ReactionOf[lock] = r

\* While the lock is held for r, its holder's firing is the last one, unless a
\* reset came in between.
HolderIsLast ==
    \A e \in Events : lock = e /\ fired[ReactionOf[e]] # <<>> =>
        /\ clock[e] = LastOf(fired[ReactionOf[e]])
        /\ at[e] = "update" => last[ReactionOf[e]] # 0

EngineInv ==
    /\ EngineTypeOK
    /\ LockOwner
    /\ InsertNeverClashes
    /\ RowIsLast
    /\ HolderIsLast
    /\ FiringsSpaced
    /\ \A e \in Events : at[e] \in {"cooldown"} \cup Locked => clock[e] # 0

-----------------------------------------------------------------------------
(* The engine alone *)

\* Init establishes the invariant.
LEMMA EngineStarts == EngineInit => EngineInv
  <1> SUFFICES ASSUME EngineInit PROVE EngineInv
    OBVIOUS
  <1> USE ReactionsAssumption DEF ReactionsAssumption, EngineInit
  <1>1. EngineTypeOK
    BY DEF EngineTypeOK, Stages
  <1> QED
    BY <1>1 DEF EngineInv, LockOwner, InsertNeverClashes, RowIsLast, HolderIsLast,
                FiringsSpaced, Locked

\* A step outside the critical section that touches neither rows nor firings.
LEMMA OutsideLock ==
  ASSUME EngineInv, NEW e \in Events, NEW stage \in Stages \ Locked,
         at[e] \notin Locked, Move(e, stage),
         UNCHANGED <<loaded, last, lock, fired, now>>,
         \/ UNCHANGED clock /\ stage # "cooldown"
         \/ clock' = [clock EXCEPT ![e] = now]
  PROVE  EngineInv'
  <1> USE DEF EngineInv, EngineTypeOK, Move
  <1>0. stage \notin Locked /\ now # 0
    BY ReactionsAssumption DEF ReactionsAssumption
  <1>1. EngineTypeOK'
    OBVIOUS
  <1>2. LockOwner' /\ lock # e
    BY <1>0 DEF LockOwner
  <1>3. InsertNeverClashes'
    BY <1>0 DEF InsertNeverClashes, Locked
  <1>4. RowIsLast' /\ FiringsSpaced'
    BY DEF RowIsLast, FiringsSpaced, LastOf
  <1>5. HolderIsLast'
    BY <1>2 DEF HolderIsLast, LastOf
  <1>6. (\A f \in Events : at[f] \in {"cooldown"} \cup Locked => clock[f] # 0)'
    BY <1>0
  <1> QED
    BY <1>1, <1>2, <1>3, <1>4, <1>5, <1>6

\* Entering the critical section: the new firing is a cooldown after the last.
LEMMA Entering ==
  ASSUME EngineInv, NEW e \in Events, CheckCooldown(e)
  PROVE  EngineInv'
  <1> DEFINE r == ReactionOf[e]
  <1>0. r \in Names
    BY ReactionsAssumption DEF ReactionsAssumption
  <1>1. CASE Cooling(r, clock[e])
    BY <1>1, OutsideLock DEF CheckCooldown, Stages, Locked
  <1>2. CASE ~Cooling(r, clock[e])
    <2> DEFINE t == clock[e]
               s == fired[r]
    <2>1. /\ at[e] = "cooldown" /\ lock = None
          /\ at' = [at EXCEPT ![e] = "exists"]
          /\ lock' = e
          /\ fired' = [fired EXCEPT ![r] = Append(s, t)]
          /\ UNCHANGED <<now, loaded, last, clock>>
      BY <1>2 DEF CheckCooldown, Move
    <2>2. /\ s \in Seq(Start .. MaxTime)
          /\ t \in Start .. MaxTime
          /\ Start \in Nat /\ MaxTime \in Nat
      BY <1>0, <2>1, ReactionsAssumption
         DEF EngineInv, EngineTypeOK, ReactionsAssumption
    <2>3. /\ Append(s, t) \in Seq(Start .. MaxTime)
          /\ Len(Append(s, t)) = Len(s) + 1
          /\ Append(s, t)[Len(s) + 1] = t
          /\ \A i \in 1 .. Len(s) : Append(s, t)[i] = s[i]
          /\ Len(s) \in Nat
      BY <2>2
    <2>4. EngineTypeOK'
      BY <2>1, <2>3 DEF EngineInv, EngineTypeOK, Stages, Locked
    <2>5. \A f \in Events : at[f] \notin Locked
      BY <2>1, ReactionsAssumption DEF EngineInv, LockOwner, ReactionsAssumption
    <2>6. LockOwner'
      BY <2>1, <2>5 DEF LockOwner, Locked, EngineInv, EngineTypeOK
    <2>7. InsertNeverClashes'
      BY <2>1 DEF InsertNeverClashes, EngineInv, EngineTypeOK
    <2>8. RowIsLast'
      BY <2>1, ReactionsAssumption, <1>0
         DEF RowIsLast, EngineInv, EngineTypeOK, LastOf, ReactionsAssumption
    <2>9. HolderIsLast'
      BY <2>1, <2>3, <1>0 DEF HolderIsLast, EngineInv, EngineTypeOK, LastOf
    <2>10. s # <<>> => last[r] = s[Len(s)]
      BY <2>1, <1>0 DEF EngineInv, RowIsLast, LastOf
    <2>11. Cooldown[r] > 0 => \A i \in 1 .. Len(s) : s[i] + Cooldown[r] <= t
      <3> SUFFICES ASSUME Cooldown[r] > 0, NEW i \in 1 .. Len(s)
                   PROVE  s[i] + Cooldown[r] <= t
        OBVIOUS
      <3>1. s # <<>> /\ Len(s) \in 1 .. Len(s)
        BY <2>2
      <3>2. last[r] + Cooldown[r] <= t
        BY <1>2, <2>2, <2>10, <3>1, <1>0, ReactionsAssumption
           DEF Cooling, EngineInv, EngineTypeOK, ReactionsAssumption
      <3>3. s[i] <= s[Len(s)]
        <4>1. CASE i = Len(s)
          BY <4>1, <2>2
        <4>2. CASE i # Len(s)
          <5>1. s[i] + Cooldown[r] <= s[Len(s)]
            BY <4>2, <3>1, <1>0 DEF EngineInv, FiringsSpaced
          <5> QED
            BY <5>1, <2>2, <3>1, <1>0, ReactionsAssumption DEF ReactionsAssumption
        <4> QED
          BY <4>1, <4>2
      <3> QED
        BY <3>1, <3>2, <3>3, <2>2, <2>10, <1>0, ReactionsAssumption DEF ReactionsAssumption
    <2>12. FiringsSpaced'
      <3> SUFFICES ASSUME NEW q \in Names, Cooldown[q] > 0,
                          NEW i \in 1 .. Len(fired'[q]), NEW j \in 1 .. Len(fired'[q]),
                          i < j
                   PROVE  fired'[q][i] + Cooldown[q] <= fired'[q][j]
        BY DEF FiringsSpaced
      <3>1. CASE q # r
        BY <3>1, <2>1 DEF EngineInv, EngineTypeOK, FiringsSpaced
      <3>2. CASE q = r
        <4>1. fired'[q] = Append(s, t)
          BY <3>2, <2>1, <1>0 DEF EngineInv, EngineTypeOK
        <4>2. CASE j = Len(s) + 1
          <5>1. i \in 1 .. Len(s)
            BY <4>1, <4>2, <2>3
          <5> QED
            BY <5>1, <4>1, <4>2, <3>2, <2>3, <2>11
        <4>3. CASE j # Len(s) + 1
          <5>1. i \in 1 .. Len(s) /\ j \in 1 .. Len(s)
            BY <4>1, <4>3, <2>3
          <5> QED
            BY <5>1, <4>1, <3>2, <2>3, <1>0 DEF EngineInv, FiringsSpaced
        <4> QED
          BY <4>2, <4>3
      <3> QED
        BY <3>1, <3>2
    <2>13. (\A f \in Events : at[f] \in {"cooldown"} \cup Locked => clock[f] # 0)'
      BY <2>1 DEF EngineInv, EngineTypeOK
    <2> QED
      BY <2>4, <2>6, <2>7, <2>8, <2>9, <2>12, <2>13 DEF EngineInv
  <1> QED
    BY <1>1, <1>2

\* Between the SELECT of _set_cooldown and its write only a reset interferes.
LEMMA Finding ==
  ASSUME EngineInv, NEW e \in Events, FindRow(e)
  PROVE  EngineInv'
  <1> USE DEF EngineInv, EngineTypeOK, FindRow, Move
  <1> DEFINE stage == IF RowExists(ReactionOf[e]) THEN "update" ELSE "insert"
  <1>1. /\ stage \in Locked /\ stage \in Stages
        /\ at[e] = "exists" /\ at' = [at EXCEPT ![e] = stage]
        /\ UNCHANGED <<now, loaded, last, lock, clock, fired>>
    BY DEF Locked, Stages
  <1>2. EngineTypeOK' /\ LockOwner'
    BY <1>1 DEF LockOwner, Locked
  <1>3. InsertNeverClashes'
    BY <1>1 DEF InsertNeverClashes, RowExists
  <1>4. RowIsLast' /\ FiringsSpaced'
    BY <1>1 DEF RowIsLast, FiringsSpaced, LastOf
  <1>5. HolderIsLast'
    BY <1>1 DEF HolderIsLast, LastOf, RowExists
  <1>6. (\A f \in Events : at[f] \in {"cooldown"} \cup Locked => clock[f] # 0)'
    BY <1>1 DEF Locked
  <1> QED
    BY <1>2, <1>3, <1>4, <1>5, <1>6

\* Leaving the critical section: the row holds the last firing.
LEMMA Leaving ==
  ASSUME EngineInv, NEW e \in Events, SetCooldown(e)
  PROVE  EngineInv'
  <1> DEFINE r == ReactionOf[e]
  <1>0. r \in Names
    BY ReactionsAssumption DEF ReactionsAssumption
  <1>1. /\ at[e] \in {"update", "insert"}
        /\ at' = [at EXCEPT ![e] = "act"]
        /\ lock' = None
        /\ \/ last' = [last EXCEPT ![r] = clock[e]]
           \/ at[e] = "update" /\ last[r] = 0 /\ last' = last
        /\ UNCHANGED <<now, loaded, clock, fired>>
    BY DEF SetCooldown, Move, Unlock
  <1>2. lock = e
    BY <1>1 DEF EngineInv, LockOwner, Locked
  <1>3. EngineTypeOK'
    BY <1>0, <1>1 DEF EngineInv, EngineTypeOK, Stages
  <1>4. LockOwner'
    BY <1>1, <1>2, ReactionsAssumption
       DEF EngineInv, EngineTypeOK, LockOwner, Locked, ReactionsAssumption
  <1>5. \A f \in Events : at'[f] \notin Locked
    BY <1>4, <1>1, ReactionsAssumption DEF LockOwner, ReactionsAssumption
  <1>6. InsertNeverClashes' /\ HolderIsLast'
    BY <1>1, <1>5, ReactionsAssumption
       DEF InsertNeverClashes, HolderIsLast, Locked, ReactionsAssumption
  <1>7. RowIsLast'
    <2> SUFFICES ASSUME NEW q \in Names, fired[q] # <<>>
                 PROVE  last'[q] = LastOf(fired[q])
      BY <1>1 DEF RowIsLast, LastOf
    <2>1. CASE q # r
      BY <2>1, <1>1, <1>2, ReactionsAssumption
         DEF EngineInv, EngineTypeOK, RowIsLast, LastOf, ReactionsAssumption
    <2>2. CASE q = r
      BY <2>2, <1>0, <1>1, <1>2 DEF EngineInv, EngineTypeOK, HolderIsLast, LastOf
    <2> QED
      BY <2>1, <2>2
  <1>8. FiringsSpaced'
    BY <1>1 DEF EngineInv, FiringsSpaced
  <1>9. (\A f \in Events : at[f] \in {"cooldown"} \cup Locked => clock[f] # 0)'
    BY <1>1 DEF EngineInv, EngineTypeOK, Locked
  <1> QED
    BY <1>3, <1>4, <1>6, <1>7, <1>8, <1>9 DEF EngineInv

\* A reset removes the row and starts a new series of firings.
LEMMA Resetting ==
  ASSUME EngineInv, NEW r \in Names, ResetCooldown(r)
  PROVE  EngineInv'
  <1> USE DEF EngineInv, EngineTypeOK, ResetCooldown
  <1>1. EngineTypeOK'
    OBVIOUS
  <1>2. LockOwner' /\ InsertNeverClashes'
    BY DEF LockOwner, InsertNeverClashes
  <1>3. RowIsLast' /\ HolderIsLast'
    BY ReactionsAssumption DEF RowIsLast, HolderIsLast, LastOf, ReactionsAssumption
  <1>4. FiringsSpaced'
    <2> SUFFICES ASSUME NEW q \in Names, Cooldown[q] > 0,
                        NEW i \in 1 .. Len(fired'[q]), NEW j \in 1 .. Len(fired'[q]),
                        i < j
                 PROVE  fired'[q][i] + Cooldown[q] <= fired'[q][j]
      BY DEF FiringsSpaced
    <2> QED
      BY DEF FiringsSpaced
  <1>5. (\A f \in Events : at[f] \in {"cooldown"} \cup Locked => clock[f] # 0)'
    OBVIOUS
  <1> QED
    BY <1>1, <1>2, <1>3, <1>4, <1>5

\* Every step of the engine keeps the invariant.
LEMMA EngineSteps == EngineInv /\ [EngineNext]_engineVars => EngineInv'
  <1> SUFFICES ASSUME EngineInv, [EngineNext]_engineVars PROVE EngineInv'
    OBVIOUS
  <1>1. ASSUME NEW e \in Events, Execute(e) PROVE EngineInv'
    <2>1. at[e] = "none" /\ UNCHANGED <<now, loaded, last, lock, fired>>
      BY <1>1 DEF Execute
    <2>2. CASE Move(e, "cooldown") /\ clock' = [clock EXCEPT ![e] = now]
      BY <2>1, <2>2, OutsideLock DEF Stages, Locked
    <2>3. CASE Move(e, "record") /\ UNCHANGED clock
      BY <2>1, <2>3, OutsideLock DEF Stages, Locked
    <2> QED
      BY <1>1, <2>2, <2>3 DEF Execute
  <1>2. ASSUME NEW e \in Events, EngineStep(e) PROVE EngineInv'
    <2>1. CASE CheckCooldown(e)
      BY <2>1, Entering
    <2>2. CASE FindRow(e)
      BY <2>2, Finding
    <2>3. CASE SetCooldown(e)
      BY <2>3, Leaving
    <2>4. CASE Act(e)
      BY <2>4, OutsideLock DEF Act, Stages, Locked
    <2>5. CASE Persist(e)
      BY <2>5, OutsideLock DEF Persist, Stages, Locked
    <2> QED
      BY <1>2, <2>1, <2>2, <2>3, <2>4, <2>5 DEF EngineStep
  <1>3. ASSUME Environment PROVE EngineInv'
    <2>1. CASE Tick
      BY <2>1, ReactionsAssumption
         DEF Tick, EngineInv, EngineTypeOK, LockOwner, InsertNeverClashes, RowIsLast,
             HolderIsLast, FiringsSpaced, LastOf, ReactionsAssumption
    <2>2. CASE \E r \in Names : ResetCooldown(r)
      BY <2>2, Resetting
    <2>3. CASE \E r \in Configurable : Configure(r)
      BY <2>3, ReactionsAssumption
         DEF Configure, EngineInv, EngineTypeOK, LockOwner, InsertNeverClashes, RowIsLast,
             HolderIsLast, FiringsSpaced, LastOf, ReactionsAssumption
    <2> QED
      BY <1>3, <2>1, <2>2, <2>3 DEF Environment
  <1>4. CASE UNCHANGED engineVars
    BY <1>4 DEF engineVars, EngineInv, EngineTypeOK, LockOwner, InsertNeverClashes,
                RowIsLast, HolderIsLast, FiringsSpaced, LastOf
  <1> QED
    BY <1>1, <1>2, <1>3, <1>4 DEF EngineNext

\* The invariant of the engine, whoever calls it back.
THEOREM EngineInvariant == EngineSpec => []EngineInv
  <1> QED
    BY EngineStarts, EngineSteps, PTL DEF EngineSpec

-----------------------------------------------------------------------------
(* The engine on the bus *)

\* On the bus the engine is only moved by its own steps: the callback of an
\* emit, nested emits included, and the API calls.
THEOREM PipelineRunsEngine == Spec => EngineSpec
  <1>1. Init => EngineInit
    BY DEF Init
  <1>2. [Next]_vars => [EngineNext]_engineVars
    <2> SUFFICES ASSUME [Next]_vars PROVE EngineNext \/ UNCHANGED engineVars
      OBVIOUS
    <2>1. ASSUME NEW e \in Events, Emit(e) \/ Trigger(e) \/ ThreadStep(e)
          PROVE  EngineNext \/ UNCHANGED engineVars
      <3>1. CASE Callback(e) \/ Trigger(e)
        BY <3>1 DEF Callback, Trigger, OnEvent, EngineNext
      <3>2. CASE React(e)
        BY <3>2 DEF React, EngineStep, EngineNext
      <3> QED
        BY <2>1, <3>1, <3>2 DEF Emit, ThreadStep, CallbackReturns, Escalate, Deliver
    <2>2. CASE Environment
      BY <2>2 DEF EngineNext
    <2>3. CASE UNCHANGED vars
      BY <2>3 DEF vars
    <2> QED
      BY <2>1, <2>2, <2>3 DEF Next, HookStep
  <1> QED
    BY <1>1, <1>2, PTL DEF Spec, EngineSpec

\* However many threads emit, and whatever escalations nest, two firings of a
\* reaction are a cooldown apart.
THEOREM CooldownHolds == Spec => []FiringsSpaced
  <1>1. EngineInv => FiringsSpaced
    BY DEF EngineInv
  <1> QED
    BY <1>1, EngineInvariant, PipelineRunsEngine, PTL

\* The INSERT of a cooldown row never meets an existing row.
THEOREM InsertIsSafe == Spec => []InsertNeverClashes
  <1>1. EngineInv => InsertNeverClashes
    BY DEF EngineInv
  <1> QED
    BY <1>1, EngineInvariant, PipelineRunsEngine, PTL

-----------------------------------------------------------------------------
(* The bus *)

StreamInv ==
    /\ DOMAIN phase = Events
    /\ DOMAIN got = Streams /\ \A s \in Streams : got[s] \in Seq(Events)
    /\ DOMAIN late = Streams
    /\ listed \subseteq Streams
    /\ StreamsHaveNoGap

\* An emit that moves without passing its SSE step.
LEMMA PhaseMoves ==
  ASSUME StreamInv, NEW e \in Events, NEW p, Enter(e, p),
         p \in {"hooks", "done"} => phase[e] \in {"hooks", "done"},
         UNCHANGED <<got, late, listed>>
  PROVE  StreamInv'
  <1> USE DEF StreamInv, Enter
  <1>1. Passed' \subseteq Passed
    BY DEF Passed
  <1>2. StreamsHaveNoGap'
    BY <1>1 DEF StreamsHaveNoGap, InSeq
  <1> QED
    BY <1>2

\* Filling the queues: a stream that stays registered gets the event.
LEMMA PuttingKeeps ==
  ASSUME StreamInv, NEW e \in Events, PutStreams(e)
  PROVE  StreamInv'
  <1> DEFINE full == {s \in listed : Len(waiting[s]) >= SseCap}
             open == listed \ full
  <1>1. /\ got' = [s \in Streams |-> IF s \in open THEN Append(got[s], e) ELSE got[s]]
        /\ listed' = open
        /\ phase' = [phase EXCEPT ![e] = "hooks"]
        /\ late' = late
    BY DEF PutStreams, DeadQueues, Enter
  <1>2. Passed' \subseteq Passed \cup {e}
    BY <1>1 DEF Passed, StreamInv
  <1>3. ASSUME NEW s \in open
        PROVE  /\ got'[s] = Append(got[s], e) /\ got'[s] \in Seq(Events)
               /\ InSeq(e, got'[s])
               /\ \A x \in Events : InSeq(x, got[s]) => InSeq(x, got'[s])
    <2>1. got'[s] = Append(got[s], e) /\ got[s] \in Seq(Events)
      BY <1>1, <1>3 DEF StreamInv
    <2>2. /\ Len(got'[s]) = Len(got[s]) + 1 /\ Len(got[s]) \in Nat
          /\ got'[s][Len(got[s]) + 1] = e
          /\ \A i \in 1 .. Len(got[s]) : got'[s][i] = got[s][i]
          /\ got'[s] \in Seq(Events)
      BY <2>1
    <2> QED
      BY <2>1, <2>2 DEF InSeq
  <1>4. StreamsHaveNoGap'
    <2> SUFFICES ASSUME NEW s \in listed', NEW x \in (Passed \ late[s])'
                 PROVE  InSeq(x, got'[s])
      BY DEF StreamsHaveNoGap
    <2>1. s \in open /\ s \in listed /\ x \notin late[s] /\ x \in Events
      BY <1>1, <1>2 DEF Passed
    <2>2. CASE x = e
      BY <2>1, <2>2, <1>3
    <2>3. CASE x # e
      BY <2>1, <2>3, <1>2, <1>3 DEF StreamInv, StreamsHaveNoGap
    <2> QED
      BY <2>2, <2>3
  <1>5. DOMAIN got' = Streams /\ \A s \in Streams : got'[s] \in Seq(Events)
    BY <1>1, <1>3 DEF StreamInv
  <1> QED
    BY <1>1, <1>4, <1>5 DEF StreamInv

\* A new stream owes nothing of what has passed.
LEMMA OpeningKeeps ==
  ASSUME StreamInv, NEW s \in Streams, OpenStream(s)
  PROVE  StreamInv'
  <1> USE DEF StreamInv, OpenStream
  <1>1. Passed' = Passed
    BY DEF Passed
  <1>2. StreamsHaveNoGap'
    BY <1>1 DEF StreamsHaveNoGap, InSeq
  <1> QED
    BY <1>2

\* Whatever else changes, a registered stream has got every event.
THEOREM NoGap == Spec => []StreamsHaveNoGap
  <1>1. Init => StreamInv
    BY DEF Init, BusInit, StreamInv, StreamsHaveNoGap, Passed
  <1>2. StreamInv /\ [Next]_vars => StreamInv'
    <2> SUFFICES ASSUME StreamInv, [Next]_vars PROVE StreamInv'
      OBVIOUS
    <2>1. ASSUME NEW e \in Events, Publish(e) PROVE StreamInv'
      BY <2>1, PhaseMoves DEF Publish, streamVars
    <2>2. ASSUME NEW e \in Events, Emit(e) \/ Trigger(e) \/ ThreadStep(e) PROVE StreamInv'
      <3>1. CASE Emit(e)
        BY <3>1, <2>1 DEF Emit
      <3>2. CASE Callback(e)
        BY <3>2, PhaseMoves DEF Callback, CallEngine, streamVars
      <3>3. CASE CallbackReturns(e)
        BY <3>3, PhaseMoves DEF CallbackReturns, EngineReturns, streamVars
      <3>4. CASE Escalate(e)
        BY <3>4, <2>1, PipelineAssumption DEF Escalate, PipelineAssumption
      <3>5. CASE React(e) \/ Trigger(e)
        BY <3>5 DEF React, Trigger, busVars, streamVars, StreamInv, StreamsHaveNoGap, Passed, InSeq
      <3>6. CASE NoCallback(e)
        BY <3>6, PhaseMoves DEF NoCallback, streamVars
      <3>7. CASE PutStreams(e)
        BY <3>7, PuttingKeeps
      <3>8. CASE StartDelivery(e)
        BY <3>8, PhaseMoves DEF StartDelivery, streamVars
      <3> QED
        BY <2>2, <3>1, <3>2, <3>3, <3>4, <3>5, <3>6, <3>7, <3>8 DEF ThreadStep, Deliver
    <2>3. ASSUME UNCHANGED <<phase, got, late, listed>> PROVE StreamInv'
      BY <2>3 DEF StreamInv, StreamsHaveNoGap, Passed, InSeq
    <2>4. CASE HookStep
      BY <2>4, <2>3
         DEF HookStep, Attempt, Delivered, AttemptFails, GiveUp, MayDisable, streamVars
    <2>5. CASE Subscriptions
      BY <2>5, <2>3, OpeningKeeps
         DEF Subscriptions, ReadStream, SubscribeWebhook, Unsubscribe, SetEngine, streamVars
    <2>6. CASE UNCHANGED busVars
      BY <2>6, <2>3 DEF busVars, streamVars
    <2> QED
      BY <2>2, <2>4, <2>5, <2>6 DEF Next, vars
  <1>3. StreamInv => StreamsHaveNoGap
    BY DEF StreamInv
  <1> QED
    BY <1>1, <1>2, <1>3, PTL DEF Spec

-----------------------------------------------------------------------------
(* Webhooks *)

Failed(h) == {e \in Events : delivery[h][e].at \in {"check", "failed"}}

Deliveries == [at : {"none", "try", "check", "ok", "failed"}, n : Nat]

\* Every failed delivery is counted at most once in failures, and none is
\* restarted: a delivery begins when the emit of its event ends.
HookInv ==
    /\ DOMAIN phase = Events
    /\ active \subseteq Hooks
    /\ failures \in [Hooks -> Nat]
    /\ delivery \in [Hooks -> [Events -> Deliveries]]
    /\ \A h \in Hooks, e \in Events : delivery[h][e].at # "none" => phase[e] = "done"
    /\ \A h \in Hooks :
          /\ IsFiniteSet(Failed(h))
          /\ failures[h] <= Cardinality(Failed(h))
          /\ h \notin active => Cardinality(Failed(h)) >= FailLimit

\* A step that leaves the failed deliveries and the counters as they are.
LEMMA SameFailures ==
  ASSUME HookInv, NEW e \in Events, NEW p, Enter(e, p), phase[e] # "done",
         UNCHANGED <<active, failures, delivery>>
  PROVE  HookInv'
  <1>1. \A h \in Hooks : Failed(h)' = Failed(h)
    BY DEF Failed
  <1> QED
    BY <1>1 DEF HookInv, Enter

\* A delivery starts: it was not among the failed ones.
LEMMA Starting ==
  ASSUME HookInv, NEW e \in Events, StartDelivery(e)
  PROVE  HookInv'
  <1> USE DEF HookInv
  <1>1. /\ phase[e] = "hooks" /\ phase' = [phase EXCEPT ![e] = "done"]
        /\ UNCHANGED <<active, failures>>
    BY DEF StartDelivery, Enter
  <1>2. CASE hook \in active /\ e \in HookEvents
    <2>1. hook \in Hooks /\ delivery' = [delivery EXCEPT ![hook][e] = Delivery("try", 0)]
      BY <1>2 DEF StartDelivery
    <2>2. Delivery("try", 0) \in Deliveries /\ Delivery("try", 0).at = "try"
      BY DEF Delivery, Deliveries
    <2>3. delivery' \in [Hooks -> [Events -> Deliveries]]
      BY <2>1, <2>2
    <2>4. \A h \in Hooks, f \in Events :
            delivery'[h][f] = IF h = hook /\ f = e THEN Delivery("try", 0) ELSE delivery[h][f]
      BY <2>1
    <2>5. \A h \in Hooks : delivery[h][e].at = "none"
      BY <1>1
    <2>6. \A h \in Hooks : Failed(h)' = Failed(h)
      BY <2>2, <2>4, <2>5 DEF Failed
    <2> QED
      BY <1>1, <2>2, <2>3, <2>4, <2>6
  <1>3. CASE ~(hook \in active /\ e \in HookEvents)
    <2>1. delivery' = delivery
      BY <1>3 DEF StartDelivery
    <2>2. \A h \in Hooks : Failed(h)' = Failed(h)
      BY <2>1 DEF Failed
    <2> QED
      BY <1>1, <2>1, <2>2
  <1> QED
    BY <1>2, <1>3

\* An attempt: only GiveUp adds a failed delivery, and counts it once.
LEMMA Attempting ==
  ASSUME HookInv, NEW h \in Hooks, NEW e \in Events, Attempt(h, e)
  PROVE  HookInv'
  <1> USE DEF HookInv
  <1>0. phase' = phase /\ phase[e] = "done"
    BY DEF Attempt, Delivered, AttemptFails, GiveUp, MayDisable, Delivery
  <1>1. CASE Delivered(h, e)
    <2>1. delivery[h][e].at = "try" /\ delivery' = [delivery EXCEPT ![h][e].at = "ok"]
      BY <1>1 DEF Delivered
    <2>2. \A g \in Hooks : Failed(g)' = Failed(g)
      BY <2>1 DEF Failed
    <2>3. \A g \in Hooks : Cardinality(Failed(g)) \in Nat
      BY FS_CardinalityType
    <2>4. /\ delivery' \in [Hooks -> [Events -> Deliveries]]
          /\ \A g \in Hooks, f \in Events :
                delivery'[g][f].at # "none" => delivery[g][f].at # "none"
      BY <2>1 DEF Deliveries
    <2>5. /\ failures' = [failures EXCEPT ![h] = 0] /\ active' = active
      BY <1>1 DEF Delivered
    <2>6. \A g \in Hooks : failures'[g] \in Nat /\ failures'[g] <= Cardinality(Failed(g))
      BY <2>3, <2>5
    <2> QED
      BY <1>0, <2>2, <2>4, <2>5, <2>6
  <1>2. CASE AttemptFails(h, e)
    <2>1. delivery[h][e].at = "try" /\ delivery' = [delivery EXCEPT ![h][e].n = @ + 1]
      BY <1>2 DEF AttemptFails, NextAttempt
    <2>2. \A g \in Hooks : Failed(g)' = Failed(g)
      BY <2>1 DEF Failed
    <2>3. /\ delivery' \in [Hooks -> [Events -> Deliveries]]
          /\ \A g \in Hooks, f \in Events : delivery'[g][f].at = delivery[g][f].at
      BY <2>1 DEF Deliveries
    <2> QED
      BY <1>0, <1>2, <2>2, <2>3 DEF AttemptFails
  <1>3. CASE GiveUp(h, e)
    <2>0. delivery[h][e].at = "try" /\ delivery' = [delivery EXCEPT ![h][e].at = "check"]
      BY <1>3 DEF GiveUp, Delivery
    <2>1. failures' = [failures EXCEPT ![h] = @ + 1] /\ active' = active
      BY <1>3 DEF GiveUp
    <2>2. \A g \in Hooks \ {h} : Failed(g)' = Failed(g)
      BY <2>0 DEF Failed
    <2>3. Failed(h)' = Failed(h) \cup {e} /\ e \notin Failed(h)
      BY <2>0 DEF Failed
    <2>4. /\ IsFiniteSet(Failed(h)')
          /\ Cardinality(Failed(h)') = Cardinality(Failed(h)) + 1
          /\ Cardinality(Failed(h)) \in Nat
      BY <2>3, FS_AddElement, FS_CardinalityType
    <2>5. /\ delivery' \in [Hooks -> [Events -> Deliveries]]
          /\ \A g \in Hooks, f \in Events :
                delivery'[g][f].at # "none" => delivery[g][f].at # "none"
      BY <2>0 DEF Deliveries
    <2>6. FailLimit \in Nat
      BY BusAssumption DEF BusAssumption
    <2>7. /\ failures' \in [Hooks -> Nat]
          /\ failures'[h] <= Cardinality(Failed(h)')
          /\ h \notin active => Cardinality(Failed(h)') >= FailLimit
      BY <2>1, <2>4, <2>6
    <2>8. \A g \in Hooks \ {h} : failures'[g] = failures[g]
      BY <2>1
    <2> QED
      BY <1>0, <2>1, <2>2, <2>4, <2>5, <2>7, <2>8
  <1>4. CASE MayDisable(h, e)
    <2>1. /\ delivery[h][e].at = "check" /\ delivery' = [delivery EXCEPT ![h][e].at = "failed"]
          /\ failures' = failures
          /\ active' = IF failures[h] >= FailLimit THEN active \ {h} ELSE active
      BY <1>4 DEF MayDisable, TooManyFailures
    <2>2. \A g \in Hooks : Failed(g)' = Failed(g)
      BY <2>1 DEF Failed
    <2>3. /\ delivery' \in [Hooks -> [Events -> Deliveries]]
          /\ \A g \in Hooks, f \in Events :
                delivery'[g][f].at # "none" => delivery[g][f].at # "none"
      BY <2>1 DEF Deliveries
    <2>4. failures[h] >= FailLimit => Cardinality(Failed(h)) >= FailLimit
      BY FS_CardinalityType, BusAssumption DEF BusAssumption
    <2> QED
      BY <1>0, <2>1, <2>2, <2>3, <2>4
  <1> QED
    BY <1>1, <1>2, <1>3, <1>4 DEF Attempt

\* However the delivery threads race on the counter, a webhook is disabled
\* only after FailLimit of its deliveries have failed.
THEOREM DisabledForCause == Spec => []DisabledAfterFailures
  <1>1. Init => HookInv
    <2> SUFFICES ASSUME Init PROVE HookInv
      OBVIOUS
    <2> USE DEF Init, BusInit, Delivery
    <2>1. \A h \in Hooks : Failed(h) = {}
      BY DEF Failed
    <2>2. \A h \in Hooks : IsFiniteSet(Failed(h)) /\ Cardinality(Failed(h)) = 0
      BY <2>1, FS_EmptySet
    <2>3. delivery \in [Hooks -> [Events -> Deliveries]]
      BY DEF Deliveries
    <2> QED
      BY <2>2, <2>3 DEF HookInv
  <1>2. HookInv /\ [Next]_vars => HookInv'
    <2> SUFFICES ASSUME HookInv, [Next]_vars PROVE HookInv'
      OBVIOUS
    <2>1. ASSUME NEW e \in Events, Publish(e) PROVE HookInv'
      BY <2>1, SameFailures DEF Publish, hookVars
    <2>2. ASSUME UNCHANGED <<phase, active, failures, delivery>> PROVE HookInv'
      <3>1. \A h \in Hooks : Failed(h)' = Failed(h)
        BY <2>2 DEF Failed
      <3> QED
        BY <2>2, <3>1 DEF HookInv
    <2>3. ASSUME NEW e \in Events, Emit(e) \/ Trigger(e) \/ ThreadStep(e) PROVE HookInv'
      <3>1. CASE Emit(e)
        BY <3>1, <2>1 DEF Emit
      <3>2. CASE Callback(e)
        BY <3>2, SameFailures DEF Callback, CallEngine, hookVars
      <3>3. CASE CallbackReturns(e)
        BY <3>3, SameFailures DEF CallbackReturns, EngineReturns, hookVars
      <3>4. CASE Escalate(e)
        BY <3>4, <2>1, PipelineAssumption DEF Escalate, PipelineAssumption
      <3>5. CASE React(e) \/ Trigger(e)
        BY <3>5, <2>2 DEF React, Trigger, busVars, hookVars
      <3>6. CASE NoCallback(e)
        BY <3>6, SameFailures DEF NoCallback, hookVars
      <3>7. CASE PutStreams(e)
        BY <3>7, SameFailures DEF PutStreams, hookVars
      <3>8. CASE StartDelivery(e)
        BY <3>8, Starting
      <3> QED
        BY <2>3, <3>1, <3>2, <3>3, <3>4, <3>5, <3>6, <3>7, <3>8 DEF ThreadStep, Deliver
    <2>4. CASE HookStep
      BY <2>4, Attempting DEF HookStep
    <2>5. CASE Subscriptions
      BY <2>5, <2>2
         DEF Subscriptions, OpenStream, ReadStream, SubscribeWebhook, Unsubscribe,
             SetEngine, hookVars
    <2>6. CASE UNCHANGED busVars
      BY <2>6, <2>2 DEF busVars, hookVars
    <2> QED
      BY <2>3, <2>4, <2>5, <2>6 DEF Next, vars
  <1>3. HookInv => DisabledAfterFailures
    BY DEF HookInv, DisabledAfterFailures, Failed
  <1> QED
    BY <1>1, <1>2, <1>3, PTL DEF Spec

-----------------------------------------------------------------------------
(* The dispatcher *)

Result == [chan : Channel, success : BOOLEAN, answer : Answered]
Posting == [id : Nat, org : ChannelOrg, event : Subjects, left : Seq(Channel),
            snap : Seq(Rows), results : Seq(Result)]

\* The channels of a dispatch, tried or not, in the order of the snapshot.
Nth(p, i) == IF i <= Len(p.results) THEN p.results[i].chan ELSE p.left[i - Len(p.results)]

\* The snapshot is of one organization, and each answer says what became of the post.
Told(r) ==
    /\ \A i \in DOMAIN r.snap : r.snap[i].org = r.org /\ r.snap[i].enabled
    /\ \A i \in DOMAIN r.results :
         /\ r.results[i].success <=> Success(r.snap[i], r.results[i].answer)
         /\ <<r.id, r.results[i].chan>> \in reached <=> Arrives(r.snap[i], r.results[i].answer)

\* A dispatch under way: what is tried and what is left are its snapshot, each channel
\* once, and nothing arrived but what it tried.
Running(p) ==
    /\ p \in Posting /\ p.id \in 1 .. posts
    /\ Len(p.results) + Len(p.left) = Len(p.snap)
    /\ \A i, j \in 1 .. Len(p.snap) : Nth(p, i) = Nth(p, j) => i = j
    /\ \A c \in Channel : <<p.id, c>> \in reached => \E i \in DOMAIN p.results : p.results[i].chan = c
    /\ Told(p)

Reported(r) ==
    /\ r.id \in 1 .. posts /\ r.snap \in Seq(Rows) /\ r.results \in Seq(Result)
    /\ Len(r.results) = Len(r.snap)
    /\ \A i, j \in DOMAIN r.results : r.results[i].chan = r.results[j].chan => i = j
    /\ Told(r)

DispatchInv ==
    /\ chan \in [Channel -> Rows \cup {Missing}] /\ posts \in Nat
    /\ reached \subseteq (1 .. posts) \X Channel
    /\ DOMAIN post = Posters
    /\ \A w \in Posters : post[w] # Quiet => Running(post[w])
    /\ \A v, w \in Posters : post[v] # Quiet /\ post[v].id = post[w].id => v = w
    /\ \A r \in reports : Reported(r) /\ \A w \in Posters : post[w].id # r.id

LEMMA DispatchInvInit == NotifyInit => DispatchInv
  BY NotifyAssumption DEF NotifyInit, DispatchInv, Quiet

LEMMA EditStep ==
  ASSUME DispatchInv, chan' \in [Channel -> Rows \cup {Missing}], UNCHANGED <<post, reports, reached, posts>>
  PROVE  DispatchInv'
<1>1. ASSUME NEW p PROVE Told(p) => Told(p)'
  BY DEF Told
<1>2. ASSUME NEW p PROVE Running(p) => Running(p)'
  BY <1>1 DEF Running
<1>3. ASSUME NEW p PROVE Reported(p) => Reported(p)'
  BY <1>1 DEF Reported
<1>4. QED BY <1>2, <1>3 DEF DispatchInv

LEMMA StartIs ==
  ASSUME DispatchInv, NEW w \in Posters, NEW org \in ChannelOrg, NEW event \in Subjects,
         StartDispatch(w, org, event)
  PROVE  DispatchInv'
<1>1. PICK S \in SUBSET Channel : S = {c \in Channel : Subscribed(c, org, event)}
  OBVIOUS
<1>2. IsFiniteSet(S) /\ Cardinality(S) \in Nat
  BY FS_Subset, FS_CardinalityType, NotifyAssumption
<1>3. PICK s : s = SetToSeq(S)
  OBVIOUS
<1>4. s \in [1 .. Cardinality(S) -> S] /\ \A i, j \in 1 .. Cardinality(S) : s[i] = s[j] => i = j
  <2>1. \E f \in [1 .. Cardinality(S) -> S] : IsInjective(f)
    <3>1. PICK f : f \in Bijection(1 .. Cardinality(S), S)
      <4>1. PICK k \in Nat : ExistsBijection(1 .. k, S)
        BY <1>2, FS_NatBijection
      <4>2. k = Cardinality(S)
        BY <4>1, FS_CountingElements
      <4>3. QED BY <4>1, <4>2 DEF ExistsBijection
    <3>2. QED BY <3>1 DEF Bijection, Injection, IsInjective
  <2>2. s \in [1 .. Cardinality(S) -> S] /\ IsInjective(s)
    BY <1>3, <2>1 DEF SetToSeq
  <2>3. QED BY <2>2 DEF IsInjective
<1>5. PICK n \in Nat : n = Cardinality(S)
  BY <1>2
<1>6. /\ s \in Seq(Channel) /\ Len(s) = n /\ DOMAIN s = 1 .. n
      /\ \A i \in 1 .. n : s[i] \in S
  BY <1>4, <1>5
<1>7. PICK p : p = [id |-> posts + 1, org |-> org, event |-> event, left |-> s,
                    snap |-> [i \in DOMAIN s |-> chan[s[i]]], results |-> <<>>]
  OBVIOUS
<1>8. /\ post[w] = Quiet /\ posts' = posts + 1 /\ post' = [post EXCEPT ![w] = p]
      /\ chan' = chan /\ reports' = reports /\ reached' = reached
  BY <1>1, <1>3, <1>7 DEF StartDispatch, ForEvent
<1>9. /\ p.id = posts + 1 /\ p.org = org /\ p.event = event /\ p.left = s /\ p.results = <<>>
      /\ p.snap = [i \in 1 .. n |-> chan[s[i]]]
  BY <1>6, <1>7
<1>10. \A i \in 1 .. n : chan[s[i]] \in Rows /\ chan[s[i]].org = org /\ chan[s[i]].enabled
  <2> SUFFICES ASSUME NEW i \in 1 .. n
               PROVE  chan[s[i]] \in Rows /\ chan[s[i]].org = org /\ chan[s[i]].enabled
    OBVIOUS
  <2>1. s[i] \in Channel /\ Subscribed(s[i], org, event)
    BY <1>1, <1>6
  <2>2. QED BY <2>1 DEF Subscribed, DispatchInv
<1>11. p \in Posting
  <2>1. p.snap \in Seq(Rows) /\ posts + 1 \in Nat
    BY <1>9, <1>10 DEF DispatchInv
  <2>2. p.results \in Seq(Result)
    BY <1>9
  <2>3. p = [id |-> posts + 1, org |-> org, event |-> event, left |-> s, snap |-> p.snap, results |-> p.results]
    BY <1>7, <1>9
  <2>4. QED BY <1>6, <2>1, <2>2, <2>3 DEF Posting
<1>12. Len(p.snap) = n /\ Len(p.results) = 0 /\ Len(p.left) = n /\ DOMAIN p.snap = 1 .. n
       /\ DOMAIN p.results = {}
  BY <1>6, <1>9
<1>13. \A c : <<posts + 1, c>> \notin reached
  BY DEF DispatchInv
<1>14. Told(p)'
  BY <1>9, <1>10, <1>12 DEF Told
<1>15. Running(p)'
  <2>1. \A i \in 1 .. n : Nth(p, i) = s[i]
    BY <1>9, <1>12 DEF Nth
  <2>2. p.id \in 1 .. posts'
    BY <1>8, <1>9 DEF DispatchInv
  <2>3. QED BY <1>4, <1>5, <1>8, <1>9, <1>11, <1>12, <1>13, <1>14, <2>1, <2>2 DEF Running
<1>16. ASSUME NEW q PROVE Told(q) => Told(q)'
  BY <1>8 DEF Told
<1>17. 1 .. posts \subseteq 1 .. posts' /\ posts' \in Nat
  BY <1>8 DEF DispatchInv
<1>18. ASSUME NEW q PROVE Running(q) => Running(q)'
  BY <1>8, <1>16, <1>17 DEF Running
<1>19. ASSUME NEW q PROVE Reported(q) => Reported(q)'
  BY <1>8, <1>16, <1>17 DEF Reported
<1>20. p # Quiet /\ posts + 1 > 0 /\ Quiet.id = 0
  BY <1>9 DEF Quiet, DispatchInv
<1>21. \A v \in Posters : post[v].id \in 0 .. posts
  <2>1. ASSUME NEW v \in Posters PROVE post[v].id \in 0 .. posts
    <3>1. CASE post[v] = Quiet
      BY <1>20, <3>1 DEF DispatchInv
    <3>2. CASE post[v] # Quiet
      <4>1. Running(post[v]) /\ posts \in Nat
        BY <3>2 DEF DispatchInv
      <4>2. QED BY <4>1 DEF Running
    <3>3. QED BY <3>1, <3>2
  <2>2. QED BY <2>1
<1>22. DOMAIN post' = Posters /\ \A v \in Posters : post'[v] = IF v = w THEN p ELSE post[v]
  BY <1>8 DEF DispatchInv
<1>23. \A r \in reports : r.id \in 1 .. posts
  BY DEF DispatchInv, Reported
<1>24. /\ \A v \in Posters : post'[v] # Quiet => Running(post[v])'
       /\ \A u, v \in Posters : post'[u] # Quiet /\ post'[u].id = post'[v].id => u = v
       /\ \A r \in reports' : Reported(r)' /\ \A v \in Posters : post'[v].id # r.id
  <2>1. ASSUME NEW v \in Posters, post'[v] # Quiet PROVE Running(post[v])'
    BY <1>15, <1>18, <1>22, <2>1 DEF DispatchInv
  <2>2. ASSUME NEW u \in Posters, NEW v \in Posters, post'[u] # Quiet, post'[u].id = post'[v].id
        PROVE  u = v
    BY <1>9, <1>21, <1>22, <2>2 DEF DispatchInv
  <2>3. ASSUME NEW r \in reports' PROVE Reported(r)' /\ \A v \in Posters : post'[v].id # r.id
    BY <1>8, <1>9, <1>19, <1>22, <1>23, <2>3 DEF DispatchInv
  <2>4. QED BY <2>1, <2>2, <2>3
<1>25. reached' \subseteq (1 .. posts') \X Channel
  BY <1>8, <1>17 DEF DispatchInv
<1>26. QED BY <1>8, <1>17, <1>22, <1>24, <1>25 DEF DispatchInv

LEMMA SendIs ==
  ASSUME DispatchInv, NEW w \in Posters, NEW answer \in Answered, SendNext(w, answer)
  PROVE  DispatchInv'
<1>1. PICK p : p = post[w] /\ p.left # <<>>
  BY DEF SendNext
<1>2. p # Quiet
  BY <1>1 DEF Quiet
<1>3. Running(p)
  BY <1>1, <1>2 DEF DispatchInv
<1>4. PICK k \in Nat, n \in Nat : /\ k = Len(p.results) /\ n = Len(p.snap) /\ k + Len(p.left) = n /\ k < n
                                  /\ Len(p.left) = n - k
  <2>1. p.left \in Seq(Channel) /\ p.results \in Seq(Result) /\ p.snap \in Seq(Rows)
    BY <1>3 DEF Running, Posting
  <2>2. Len(p.left) \in Nat /\ Len(p.results) \in Nat /\ Len(p.snap) \in Nat /\ Len(p.left) # 0
    BY <1>1, <2>1, EmptySeq
  <2>3. PICK a \in Nat, b \in Nat, d \in Nat : a = Len(p.results) /\ b = Len(p.left) /\ d = Len(p.snap)
    BY <2>2
  <2>4. a + b = d /\ b # 0
    BY <1>3, <2>2, <2>3 DEF Running
  <2>5. a < d /\ b = d - a
    BY <2>4
  <2>6. QED BY <2>3, <2>4, <2>5
<1>5. PICK c \in Channel : c = Head(p.left) /\ c = p.left[1]
  BY <1>1, <1>3 DEF Running, Posting
<1>6. PICK row \in Rows : row = p.snap[k + 1]
  BY <1>3, <1>4 DEF Running, Posting
<1>7. PICK b \in BOOLEAN : b <=> Success(row, answer)
  OBVIOUS
<1>8. PICK e \in Result : e = [chan |-> c, success |-> Success(row, answer), answer |-> answer]
  <2>1. Success(row, answer) \in BOOLEAN
    BY DEF Success
  <2>2. QED BY <2>1 DEF Result
<1>9. e.chan = c /\ e.answer = answer /\ (e.success <=> Success(row, answer))
  <2> DEFINE t == Success(row, answer)
  <2>1. t \in BOOLEAN
    BY DEF Success
  <2> HIDE DEF t
  <2>2. e = [chan |-> c, success |-> t, answer |-> answer]
    BY <1>8 DEF t
  <2>3. e.chan = c /\ e.answer = answer /\ e.success = t
    BY <2>2
  <2>4. QED BY <2>1, <2>3 DEF t
<1>10. PICK q : q = [p EXCEPT !.left = Tail(p.left), !.results = Append(p.results, e)]
  OBVIOUS
<1>11. post' = [post EXCEPT ![w] = q]
  <2>1. post' = [post EXCEPT ![w].left = Tail(@),
                             ![w].results = Append(@, [chan |-> c, success |-> Success(row, answer),
                                                       answer |-> answer])]
    BY <1>1, <1>4, <1>5, <1>6 DEF SendNext
  <2>2. post' = [post EXCEPT ![w].left = Tail(@), ![w].results = Append(@, e)]
    BY <1>8, <2>1
  <2>3. QED BY <1>1, <1>10, <2>2 DEF DispatchInv
<1>12. reached' = IF Arrives(row, answer) THEN reached \cup {<<p.id, c>>} ELSE reached
  BY <1>1, <1>4, <1>5, <1>6 DEF SendNext
<1>13. chan' = chan /\ reports' = reports /\ posts' = posts
  BY DEF SendNext
<1>14. /\ q \in Posting /\ q.id = p.id /\ q.org = p.org /\ q.event = p.event /\ q.snap = p.snap
       /\ q.left = Tail(p.left) /\ q.results = Append(p.results, e)
  <2>1. Tail(p.left) \in Seq(Channel) /\ Append(p.results, e) \in Seq(Result)
    BY <1>1, <1>3, HeadTailProperties, AppendProperties DEF Running, Posting
  <2>2. p \in Posting
    BY <1>3 DEF Running
  <2>3. QED BY <1>10, <2>1, <2>2 DEF Posting
<1>15. /\ Len(q.left) = Len(p.left) - 1 /\ \A i \in 1 .. Len(q.left) : q.left[i] = p.left[i + 1]
       /\ Len(q.results) = k + 1 /\ DOMAIN q.results = 1 .. k + 1
       /\ \A i \in 1 .. k : q.results[i] = p.results[i]
       /\ q.results[k + 1] = e
  <2>1. p.left \in Seq(Channel) /\ p.left # <<>> /\ p.results \in Seq(Result)
    BY <1>1, <1>3 DEF Running, Posting
  <2>2. Len(q.left) = Len(p.left) - 1 /\ \A i \in 1 .. Len(q.left) : q.left[i] = p.left[i + 1]
    BY <1>14, <2>1, HeadTailProperties
  <2>3. /\ Len(q.results) = k + 1 /\ q.results \in Seq(Result)
        /\ \A i \in 1 .. k : q.results[i] = p.results[i]
        /\ q.results[k + 1] = e
    BY <1>4, <1>14, <2>1, AppendProperties
  <2>4. QED BY <2>2, <2>3
<1>16. \A i \in 1 .. n : Nth(q, i) = Nth(p, i)
  <2> SUFFICES ASSUME NEW i \in 1 .. n PROVE Nth(q, i) = Nth(p, i)
    OBVIOUS
  <2>1. CASE i <= k
    BY <1>4, <1>15, <2>1 DEF Nth
  <2>2. CASE i = k + 1
    BY <1>4, <1>5, <1>9, <1>15, <2>2 DEF Nth
  <2>3. CASE i > k + 1
    <3>1. i - (k + 1) \in 1 .. Len(q.left) /\ (i - (k + 1)) + 1 = i - k
      <4>1. Len(q.left) = n - k - 1
        BY <1>4, <1>15
      <4>2. QED BY <2>3, <4>1
    <3>2. q.left[i - (k + 1)] = p.left[i - k]
      BY <1>15, <3>1
    <3>3. QED BY <1>4, <1>15, <2>3, <3>2 DEF Nth
  <2>4. QED BY <1>4, <2>1, <2>2, <2>3
<1>17. /\ \A i \in 1 .. k : Nth(p, i) = p.results[i].chan /\ p.results[i].chan # c
       /\ Nth(p, k + 1) = c /\ DOMAIN p.results = 1 .. k /\ DOMAIN p.snap = 1 .. n
  <2>1. DOMAIN p.results = 1 .. k /\ DOMAIN p.snap = 1 .. n
    BY <1>3, <1>4 DEF Running, Posting
  <2>2. \A i \in 1 .. k : Nth(p, i) = p.results[i].chan
    BY <1>4 DEF Nth
  <2>3. Nth(p, k + 1) = c
    BY <1>4, <1>5 DEF Nth
  <2>4. \A i \in 1 .. k : i \in 1 .. n /\ k + 1 \in 1 .. n /\ i # k + 1
    BY <1>4
  <2>5. QED BY <1>3, <1>4, <2>1, <2>2, <2>3, <2>4 DEF Running
<1>18. <<p.id, c>> \notin reached
  BY <1>3, <1>17 DEF Running
<1>19. \A d \in Channel : d # c => (<<p.id, d>> \in reached' <=> <<p.id, d>> \in reached)
  BY <1>12
<1>20. <<p.id, c>> \in reached' <=> Arrives(row, answer)
  BY <1>12, <1>18
<1>21. Told(q)'
  <2>1. \A i \in DOMAIN q.snap : q.snap[i].org = q.org /\ q.snap[i].enabled
    BY <1>3, <1>14 DEF Running, Told
  <2>2. ASSUME NEW i \in 1 .. k
        PROVE  /\ q.results[i].success <=> Success(q.snap[i], q.results[i].answer)
               /\ <<q.id, q.results[i].chan>> \in reached' <=> Arrives(q.snap[i], q.results[i].answer)
    <3>1. q.results[i] = p.results[i] /\ i \in DOMAIN p.results /\ q.snap[i] = p.snap[i] /\ q.id = p.id
      BY <1>14, <1>15, <1>17
    <3>2. p.results[i].chan \in Channel /\ p.results[i].chan # c
      <4>1. p.results \in Seq(Result)
        BY <1>3 DEF Running, Posting
      <4>2. p.results[i] \in Result
        BY <3>1, <4>1
      <4>3. QED BY <1>17, <4>2 DEF Result
    <3>3. /\ p.results[i].success <=> Success(p.snap[i], p.results[i].answer)
          /\ <<p.id, p.results[i].chan>> \in reached <=> Arrives(p.snap[i], p.results[i].answer)
      BY <1>3, <3>1 DEF Running, Told
    <3>4. <<p.id, p.results[i].chan>> \in reached' <=> <<p.id, p.results[i].chan>> \in reached
      BY <1>19, <3>2
    <3>5. QED BY <3>1, <3>3, <3>4
  <2>3. /\ q.results[k + 1].success <=> Success(q.snap[k + 1], q.results[k + 1].answer)
        /\ <<q.id, q.results[k + 1].chan>> \in reached'
              <=> Arrives(q.snap[k + 1], q.results[k + 1].answer)
    BY <1>6, <1>9, <1>14, <1>15, <1>20
  <2>4. \A i \in DOMAIN q.results : i \in 1 .. k \/ i = k + 1
    BY <1>15
  <2>5. QED BY <2>1, <2>2, <2>3, <2>4 DEF Told
<1>22. Running(q)'
  <2>1. q.id \in 1 .. posts' /\ Len(q.results) + Len(q.left) = Len(q.snap) /\ Len(q.snap) = n
    <3>1. q.id \in 1 .. posts'
      BY <1>3, <1>13, <1>14 DEF Running
    <3>2. Len(q.left) = n - k - 1 /\ Len(q.snap) = n /\ Len(q.results) = k + 1
      BY <1>4, <1>14, <1>15
    <3>3. Len(q.results) + Len(q.left) = n
      BY <3>2
    <3>4. QED BY <3>1, <3>2, <3>3
  <2>2. \A i, j \in 1 .. n : Nth(q, i) = Nth(q, j) => i = j
    BY <1>3, <1>4, <1>16 DEF Running
  <2>3. ASSUME NEW d \in Channel, <<q.id, d>> \in reached'
        PROVE  \E i \in DOMAIN q.results : q.results[i].chan = d
    <3>1. CASE d = c
      BY <1>9, <1>15, <3>1
    <3>2. CASE d # c
      <4>1. PICK i \in DOMAIN p.results : p.results[i].chan = d
        BY <1>3, <1>14, <1>19, <2>3, <3>2 DEF Running
      <4>2. QED BY <1>15, <1>17, <4>1
    <3>3. QED BY <3>1, <3>2
  <2>4. QED BY <1>14, <1>21, <2>1, <2>2, <2>3 DEF Running
<1>23. ASSUME NEW r, r.id # p.id PROVE \A d : <<r.id, d>> \in reached' <=> <<r.id, d>> \in reached
  BY <1>12, <1>23
<1>24. ASSUME NEW r, r.id # p.id, Told(r) PROVE Told(r)'
  BY <1>23, <1>24 DEF Told
<1>25. ASSUME NEW r, r.id # p.id, Running(r) PROVE Running(r)'
  BY <1>13, <1>23, <1>24, <1>25 DEF Running
<1>26. ASSUME NEW r, r.id # p.id, Reported(r) PROVE Reported(r)'
  BY <1>13, <1>24, <1>26 DEF Reported
<1>27. DOMAIN post' = Posters /\ \A v \in Posters : post'[v] = IF v = w THEN q ELSE post[v]
  BY <1>11 DEF DispatchInv
<1>28. \A v \in Posters : post'[v].id = post[v].id /\ (v # w /\ post[v] # Quiet => post[v].id # p.id)
  BY <1>1, <1>14, <1>27 DEF DispatchInv
<1>29. ASSUME NEW v \in Posters, post'[v] # Quiet PROVE Running(post[v])'
  BY <1>22, <1>25, <1>27, <1>28, <1>29 DEF DispatchInv
<1>30. ASSUME NEW u \in Posters, NEW v \in Posters, post'[u] # Quiet, post'[u].id = post'[v].id
       PROVE  u = v
  BY <1>1, <1>2, <1>27, <1>28, <1>30 DEF DispatchInv
<1>31. ASSUME NEW r \in reports' PROVE Reported(r)' /\ \A v \in Posters : post'[v].id # r.id
  BY <1>1, <1>13, <1>26, <1>28, <1>31 DEF DispatchInv
<1>32. reached' \subseteq (1 .. posts') \X Channel
  BY <1>3, <1>12, <1>13 DEF DispatchInv, Running
<1>33. QED BY <1>13, <1>27, <1>29, <1>30, <1>31, <1>32 DEF DispatchInv

\* A dispatch that ended or died is nobody's any more.
LEMMA LeaveIs ==
  ASSUME DispatchInv, NEW w \in Posters, EndDispatch(w) \/ PosterDies(w)
  PROVE  DispatchInv'
<1>1. PICK p : p = post[w] /\ p # Quiet /\ Running(p)
  <2>1. post[w] # Quiet
    BY DEF EndDispatch, PosterDies, Quiet
  <2>2. QED BY <2>1 DEF DispatchInv
<1>2. /\ post' = [post EXCEPT ![w] = Quiet] /\ chan' = chan /\ posts' = posts /\ reached' = reached
  BY DEF EndDispatch, PosterDies
<1>3. DOMAIN post' = Posters /\ \A v \in Posters : post'[v] = IF v = w THEN Quiet ELSE post[v]
  BY <1>2 DEF DispatchInv
<1>4. ASSUME NEW r PROVE Told(r) => Told(r)'
  BY <1>2 DEF Told
<1>5. ASSUME NEW r PROVE Running(r) => Running(r)'
  BY <1>2, <1>4 DEF Running
<1>6. ASSUME NEW r PROVE Reported(r) => Reported(r)'
  BY <1>2, <1>4 DEF Reported
<1>7. \A v \in Posters : post'[v] # Quiet => v # w /\ post'[v] = post[v]
  BY <1>3
<1>8. ASSUME NEW v \in Posters, post'[v] # Quiet PROVE Running(post[v])'
  BY <1>5, <1>7, <1>8 DEF DispatchInv
<1>9. Quiet.id = 0
  BY DEF Quiet
<1>10. ASSUME NEW u \in Posters, NEW v \in Posters, post'[u] # Quiet, post'[u].id = post'[v].id
       PROVE  u = v
  <2>1. post[u] # Quiet /\ post'[u] = post[u] /\ post[u].id \in 1 .. posts
    BY <1>7, <1>10 DEF DispatchInv, Running
  <2>2. post'[v] # Quiet
    BY <1>9, <1>10, <2>1 DEF DispatchInv
  <2>3. QED BY <1>7, <1>10, <2>1, <2>2 DEF DispatchInv
<1>11. ASSUME NEW r \in reports, NEW v \in Posters PROVE post'[v].id # r.id
  <2>1. r.id \in 1 .. posts /\ post[v].id # r.id
    BY DEF DispatchInv, Reported
  <2>2. QED BY <1>3, <1>9, <2>1 DEF DispatchInv
<1>12. CASE PosterDies(w)
  <2>1. reports' = reports
    BY <1>12 DEF PosterDies
  <2>2. ASSUME NEW r \in reports' PROVE Reported(r)' /\ \A v \in Posters : post'[v].id # r.id
    BY <1>6, <1>11, <2>1, <2>2 DEF DispatchInv
  <2>3. QED BY <1>2, <1>3, <1>8, <1>10, <2>2 DEF DispatchInv
<1>13. CASE EndDispatch(w)
  <2>1. PICK t : t = [id |-> p.id, org |-> p.org, snap |-> p.snap, results |-> p.results]
    OBVIOUS
  <2>2. reports' = reports \cup {t} /\ p.left = <<>>
    BY <1>1, <1>13, <2>1 DEF EndDispatch
  <2>3. t.id = p.id /\ t.org = p.org /\ t.snap = p.snap /\ t.results = p.results
    BY <2>1
  <2>4. PICK n \in Nat : n = Len(p.results) /\ n = Len(p.snap) /\ DOMAIN p.results = 1 .. n
    BY <1>1, <2>2 DEF Running, Posting
  <2>5. \A i \in 1 .. n : Nth(p, i) = p.results[i].chan
    BY <2>4 DEF Nth
  <2>6. \A i, j \in 1 .. n : p.results[i].chan = p.results[j].chan => i = j
    BY <1>1, <2>4, <2>5 DEF Running
  <2>7. Told(t)
    BY <1>1, <2>3 DEF Running, Told
  <2>8. t.id \in 1 .. posts /\ t.snap \in Seq(Rows) /\ t.results \in Seq(Result)
    BY <1>1, <2>3 DEF Running, Posting
  <2>9. Reported(t)
    BY <2>3, <2>4, <2>6, <2>7, <2>8 DEF Reported
  <2>10. ASSUME NEW v \in Posters PROVE post'[v].id # t.id
    BY <1>1, <1>3, <1>9, <2>3, <2>8 DEF DispatchInv
  <2>11. ASSUME NEW r \in reports' PROVE Reported(r)' /\ \A v \in Posters : post'[v].id # r.id
    <3>1. CASE r = t
      BY <1>6, <2>9, <2>10, <3>1
    <3>2. CASE r \in reports
      BY <1>6, <1>11, <3>2 DEF DispatchInv
    <3>3. QED BY <2>2, <2>11, <3>1, <3>2
  <2>12. QED BY <1>2, <1>3, <1>8, <1>10, <2>11 DEF DispatchInv
<1>14. QED BY <1>12, <1>13

LEMMA DispatchInvStep == DispatchInv /\ [NotifyNext]_nvars => DispatchInv'
<1> SUFFICES ASSUME DispatchInv, [NotifyNext]_nvars PROVE DispatchInv'
  OBVIOUS
<1>1. ASSUME NEW c \in Channel, DeleteChannel(c) PROVE DispatchInv'
  <2>1. chan' \in [Channel -> Rows \cup {Missing}]
    BY <1>1 DEF DeleteChannel, DispatchInv
  <2>2. QED BY <1>1, <2>1, EditStep DEF DeleteChannel
<1>2. ASSUME NEW c \in Channel, NEW row \in Rows, CreateChannel(c, row) \/ UpdateChannel(c, row)
      PROVE  DispatchInv'
  <2>1. chan' \in [Channel -> Rows \cup {Missing}]
    BY <1>2 DEF CreateChannel, UpdateChannel, DispatchInv
  <2>2. UNCHANGED <<post, reports, reached, posts>>
    BY <1>2 DEF CreateChannel, UpdateChannel
  <2>3. QED BY <2>1, <2>2, EditStep
<1>3. CASE UNCHANGED nvars
  <2>1. chan' \in [Channel -> Rows \cup {Missing}] /\ UNCHANGED <<post, reports, reached, posts>>
    BY <1>3 DEF nvars, DispatchInv
  <2>2. QED BY <2>1, EditStep
<1>4. QED BY <1>1, <1>2, <1>3, StartIs, SendIs, LeaveIs DEF NotifyNext

LEMMA DispatchIsSound == NotifySpec => []DispatchSound
<1>1. DispatchInv => DispatchSound
  <2> SUFFICES ASSUME DispatchInv PROVE DispatchSound
    OBVIOUS
  <2>1. ASSUME NEW r \in reports, NEW i \in DOMAIN r.results
        PROVE  /\ r.snap[i].org = r.org /\ r.snap[i].enabled
               /\ <<r.id, r.results[i].chan>> \in reached => r.results[i].success
               /\ (r.results[i].success /\ r.snap[i].kind \notin Stubs
                   /\ <<r.id, r.results[i].chan>> \notin reached) => r.results[i].answer = "raised"
               /\ r.results[i].answer = "raised" /\ r.snap[i].ready => r.results[i].success
    <3>1. Reported(r) /\ i \in DOMAIN r.snap /\ r.results[i].answer \in Answered
      <4>1. Reported(r)
        BY DEF DispatchInv
      <4>2. /\ r.snap \in Seq(Rows) /\ r.results \in Seq(Result) /\ Len(r.results) = Len(r.snap)
        BY <4>1 DEF Reported
      <4>3. i \in DOMAIN r.snap /\ r.results[i] \in Result
        BY <4>2
      <4>4. QED BY <4>1, <4>3 DEF Result
    <3>2. /\ r.results[i].success <=> Success(r.snap[i], r.results[i].answer)
          /\ <<r.id, r.results[i].chan>> \in reached <=> Arrives(r.snap[i], r.results[i].answer)
          /\ r.snap[i].org = r.org /\ r.snap[i].enabled
      BY <3>1 DEF Reported, Told
    <3>3. QED BY <3>1, <3>2 DEF Success, Arrives, Answered
  <2>2. \A r \in reports : /\ Len(r.results) = Len(r.snap)
                           /\ \A i, j \in DOMAIN r.results :
                                r.results[i].chan = r.results[j].chan => i = j
    BY DEF DispatchInv, Reported
  <2>3. \A w \in Posters : post[w] # Quiet => Len(post[w].results) + Len(post[w].left) = Len(post[w].snap)
    BY DEF DispatchInv, Running
  <2>4. QED BY <2>1, <2>2, <2>3 DEF DispatchSound
<1>2. QED BY DispatchInvInit, DispatchInvStep, <1>1, PTL DEF NotifySpec

-----------------------------------------------------------------------------
(* Scorecards *)

SomeFigures == {f \in [total : Nat, ok : Nat, cost : Nat] : f.total > 0 /\ f.ok <= f.total}
SomeCards == {Card(a, f) : a \in Rated, f \in SomeFigures}

\* The card says what the tasks were at some moment.
Known(a, card) ==
    \E n \in 1 .. Len(tasks) :
        /\ Figures(Mine(n, a)) \in SomeFigures
        /\ card = Card(a, Figures(Mine(n, a)))

Inserting(a) == {w \in Graders : grader[w].step = "insert" /\ grader[w].agent = a}

CardsInv ==
    /\ tasks \in Seq(Task) /\ cards \in Seq(SomeCards) /\ DOMAIN grader = Graders
    /\ \A w \in Graders : grader[w].step # "off" =>
          grader[w].agent \in Rated /\ Known(grader[w].agent, grader[w].card)
    /\ \A i \in DOMAIN cards : Known(cards[i].agent, cards[i])
    /\ \A a \in Rated : Cardinality(RowsOf(a)) + Cardinality(Inserting(a)) <= Cardinality(Graders)

LEMMA CardIs ==
  ASSUME NEW a, NEW f
  PROVE  Card(a, f).agent = a
  BY DEF Card

LEMMA MineIs ==
  ASSUME tasks \in Seq(Task), NEW n \in 1 .. Len(tasks), NEW a
  PROVE  Mine(n, a) \subseteq 1 .. n /\ Mine(n, a) \subseteq DOMAIN tasks /\ IsFiniteSet(Mine(n, a))
<1>1. Mine(n, a) \subseteq 1 .. n /\ 1 .. n \subseteq 1 .. Len(tasks)
  BY DEF Mine
<1>2. IsFiniteSet(1 .. n)
  BY FS_Interval
<1>3. QED BY <1>1, <1>2, FS_Subset

LEMMA FiguresAre ==
  ASSUME tasks \in Seq(Task), NEW S \in SUBSET DOMAIN tasks, IsFiniteSet(S)
  PROVE  /\ Figures(S).total = Cardinality(S)
         /\ Figures(S).total > 0 => Figures(S) \in SomeFigures
<1>1. PICK T : T = {i \in S : tasks[i].ok}
  OBVIOUS
<1>2. IsFiniteSet(T) /\ Cardinality(T) <= Cardinality(S)
  BY <1>1, FS_Subset
<1>3. PICK n \in Nat, k \in Nat : n = Cardinality(S) /\ k = Cardinality(T) /\ k <= n
  BY <1>2, FS_CardinalityType
<1>4. \A i \in S : CostOf[i] \in Nat
  <2>1. \A i \in DOMAIN tasks : tasks[i] \in Task
    OBVIOUS
  <2>2. \A i \in DOMAIN tasks : tasks[i].cost \in Nat
    BY <2>1, CardsAssumption DEF Task
  <2>3. QED BY <2>2 DEF CostOf
<1>5. PICK c \in Nat : c = SumFunctionOnSet(CostOf, S)
  BY <1>4, SumType
<1>6. Figures(S) = [total |-> n, ok |-> k, cost |-> c]
  BY <1>1, <1>3, <1>5 DEF Figures
<1>7. QED BY <1>3, <1>6 DEF SomeFigures

\* What was finished later changes nothing of what was known.
LEMMA FiguresStay ==
  ASSUME tasks \in Seq(Task), NEW t \in Task, tasks' = Append(tasks, t), NEW a, NEW n \in 1 .. Len(tasks)
  PROVE  Figures(Mine(n, a))' = Figures(Mine(n, a))
<1>1. Len(tasks') = Len(tasks) + 1 /\ \A i \in 1 .. Len(tasks) : tasks'[i] = tasks[i]
  BY AppendProperties
<1>2. tasks' \in Seq(Task) /\ Len(tasks) \in Nat
  BY AppendProperties
<1>3. \A i \in 1 .. n : i \in 1 .. Len(tasks) /\ tasks'[i] = tasks[i]
  BY <1>1, <1>2
<1>4. PICK S : S = Mine(n, a)
  OBVIOUS
<1>5. S \subseteq 1 .. n /\ S \subseteq DOMAIN tasks /\ IsFiniteSet(S)
  BY <1>4, MineIs
<1>6. Mine(n, a)' = S
  BY <1>3, <1>4 DEF Mine
<1>7. {i \in S : tasks'[i].ok} = {i \in S : tasks[i].ok}
  BY <1>3, <1>5
<1>8. \A i \in S : CostOf'[i] = CostOf[i]
  BY <1>1, <1>2, <1>3, <1>5 DEF CostOf
<1>9. PICK f, g : f = CostOf /\ g = CostOf'
  OBVIOUS
<1>10. SumFunctionOnSet(f, S) = SumFunctionOnSet(g, S)
  BY <1>5, <1>8, <1>9, SumSame
<1>11. QED BY <1>4, <1>6, <1>7, <1>9, <1>10 DEF Figures

LEMMA CardsInvInit == CardsInit => CardsInv
<1> SUFFICES ASSUME CardsInit PROVE CardsInv
  OBVIOUS
<1>1. tasks = <<>> /\ cards = <<>> /\ grader = [w \in Graders |-> Off] /\ Off.step = "off"
  BY DEF CardsInit, Off
<1>2. \A a : RowsOf(a) = {} /\ Inserting(a) = {}
  BY <1>1 DEF RowsOf, Inserting
<1>3. Cardinality({}) = 0 /\ Cardinality(Graders) \in Nat
  BY FS_EmptySet, FS_CardinalityType, CardsAssumption
<1>4. \A a \in Rated : Cardinality(RowsOf(a)) + Cardinality(Inserting(a)) <= Cardinality(Graders)
  BY <1>2, <1>3
<1>5. QED BY <1>1, <1>4 DEF CardsInv

LEMMA FinishIs ==
  ASSUME CardsInv, NEW t \in Task, Finish(t)
  PROVE  CardsInv'
<1>1. tasks' = Append(tasks, t) /\ cards' = cards /\ grader' = grader
  BY DEF Finish
<1>2. tasks \in Seq(Task) /\ tasks' \in Seq(Task) /\ Len(tasks') = Len(tasks) + 1 /\ Len(tasks) \in Nat
  BY <1>1, AppendProperties DEF CardsInv
<1>3. ASSUME NEW a, NEW card, Known(a, card) PROVE Known(a, card)'
  <2>1. PICK n \in 1 .. Len(tasks) : /\ Figures(Mine(n, a)) \in SomeFigures
                                     /\ card = Card(a, Figures(Mine(n, a)))
    BY <1>3 DEF Known
  <2>2. Figures(Mine(n, a))' = Figures(Mine(n, a))
    BY <1>1, <1>2, FiguresStay
  <2>3. n \in 1 .. Len(tasks')
    BY <1>2
  <2>4. QED BY <2>1, <2>2, <2>3 DEF Known
<1>4. \A a : RowsOf(a)' = RowsOf(a) /\ Inserting(a)' = Inserting(a)
  BY <1>1 DEF RowsOf, Inserting
<1>5. ASSUME NEW a \in Rated
      PROVE  Cardinality(RowsOf(a)') + Cardinality(Inserting(a)') <= Cardinality(Graders)
  BY <1>4 DEF CardsInv
<1>6. ASSUME NEW w \in Graders, grader'[w].step # "off"
      PROVE  grader'[w].agent \in Rated /\ Known(grader[w].agent, grader[w].card)'
  <2>1. PICK a, card : a = grader[w].agent /\ card = grader[w].card
    OBVIOUS
  <2>2. a \in Rated /\ Known(a, card)
    BY <1>1, <1>6, <2>1 DEF CardsInv
  <2>3. Known(a, card)'
    BY <1>3, <2>2
  <2>4. QED BY <1>1, <2>1, <2>2, <2>3
<1>7. ASSUME NEW i \in DOMAIN cards' PROVE Known(cards[i].agent, cards[i])'
  <2>1. PICK a, card : a = cards[i].agent /\ card = cards[i]
    OBVIOUS
  <2>2. Known(a, card)
    BY <1>1, <1>7, <2>1 DEF CardsInv
  <2>3. Known(a, card)'
    BY <1>3, <2>2
  <2>4. QED BY <1>1, <2>1, <2>3
<1>8. cards' \in Seq(SomeCards) /\ DOMAIN grader' = Graders
  BY <1>1 DEF CardsInv
<1>9. QED BY <1>2, <1>5, <1>6, <1>7, <1>8 DEF CardsInv

\* A grader that does not insert leaves the count of its agent alone.
LEMMA ReadIs ==
  ASSUME CardsInv, NEW w \in Graders, NEW a \in Rated, ReadStats(w, a)
  PROVE  CardsInv'
<1>1. PICK f : f = Figures(Mine(Len(tasks), a)) /\ f.total > 0
  BY DEF ReadStats
<1>2. PICK g : g = [agent |-> a, total |-> f.total, step |-> "look", card |-> Card(a, f)]
  OBVIOUS
<1>3. /\ grader[w] = Off /\ tasks' = tasks /\ cards' = cards
      /\ \A v \in Graders : grader'[v] = IF v = w THEN g ELSE grader[v]
      /\ DOMAIN grader' = Graders
  BY <1>1, <1>2 DEF ReadStats, CardsInv
<1>4. g.agent = a /\ g.card = Card(a, f) /\ g.step = "look" /\ Off.step = "off"
  BY <1>2 DEF Off
<1>5. Known(a, Card(a, f))
  <2>1. tasks \in Seq(Task) /\ Len(tasks) \in Nat
    BY DEF CardsInv
  <2>2. Len(tasks) > 0
    <3>1. SUFFICES ASSUME Len(tasks) = 0 PROVE FALSE
      BY <2>1
    <3>2. Mine(Len(tasks), a) = {}
      BY <3>1 DEF Mine
    <3>3. f.total = 0
      BY <1>1, <3>2, FS_EmptySet DEF Figures
    <3>4. QED BY <1>1, <3>3
  <2>3. Len(tasks) \in 1 .. Len(tasks)
    BY <2>1, <2>2
  <2>4. f \in SomeFigures
    BY <1>1, <2>1, <2>3, MineIs, FiguresAre
  <2>5. QED BY <1>1, <2>3, <2>4 DEF Known
<1>6. ASSUME NEW b, NEW card PROVE Known(b, card) => Known(b, card)'
  BY <1>3 DEF Known, Figures, Mine, CostOf
<1>7. \A b : RowsOf(b)' = RowsOf(b)
  BY <1>3 DEF RowsOf
<1>8. \A b : Inserting(b)' = Inserting(b)
  BY <1>3, <1>4 DEF Inserting
<1>9. ASSUME NEW v \in Graders, grader'[v].step # "off"
      PROVE  grader'[v].agent \in Rated /\ Known(grader[v].agent, grader[v].card)'
  <2>1. PICK b, card : b = grader'[v].agent /\ card = grader'[v].card
    OBVIOUS
  <2>2. b \in Rated /\ Known(b, card)
    <3>1. CASE v = w
      BY <1>3, <1>4, <1>5, <2>1, <3>1
    <3>2. CASE v # w
      BY <1>3, <1>9, <2>1, <3>2 DEF CardsInv
    <3>3. QED BY <3>1, <3>2
  <2>3. Known(b, card)'
    BY <1>6, <2>2
  <2>4. QED BY <2>1, <2>2, <2>3
<1>10. ASSUME NEW i \in DOMAIN cards' PROVE Known(cards[i].agent, cards[i])'
  <2>1. PICK b, card : b = cards[i].agent /\ card = cards[i]
    OBVIOUS
  <2>2. Known(b, card)
    BY <1>3, <1>10, <2>1 DEF CardsInv
  <2>3. Known(b, card)'
    BY <1>6, <2>2
  <2>4. QED BY <1>3, <2>1, <2>3
<1>11. \A b \in Rated : Cardinality(RowsOf(b)') + Cardinality(Inserting(b)') <= Cardinality(Graders)
  BY <1>7, <1>8 DEF CardsInv
<1>12. QED BY <1>3, <1>9, <1>10, <1>11 DEF CardsInv

\* Who finds no row will insert one; nobody else does.
LEMMA LookIs ==
  ASSUME CardsInv, NEW w \in Graders, Look(w)
  PROVE  CardsInv'
<1>1. PICK a, card : a = grader[w].agent /\ card = grader[w].card /\ a \in Rated /\ Known(a, card)
  <2>1. grader[w].step # "off"
    BY DEF Look
  <2>2. QED BY <2>1 DEF CardsInv
<1>2. PICK g : g = [grader[w] EXCEPT !.step = IF RowsOf(a) # {} THEN "update" ELSE "insert"]
  OBVIOUS
<1>3. /\ grader[w].step = "look" /\ tasks' = tasks /\ cards' = cards
      /\ \A v \in Graders : v # w => grader'[v] = grader[v]
      /\ grader'[w].step = IF RowsOf(a) # {} THEN "update" ELSE "insert"
      /\ grader'[w].agent = a /\ grader'[w].card = card
      /\ DOMAIN grader' = Graders
  BY <1>1 DEF Look, CardsInv
<1>4. ASSUME NEW b, NEW c PROVE Known(b, c) => Known(b, c)'
  BY <1>3 DEF Known, Figures, Mine, CostOf
<1>5. \A b : RowsOf(b)' = RowsOf(b)
  BY <1>3 DEF RowsOf
<1>6. \A b : b # a => Inserting(b)' = Inserting(b)
  BY <1>1, <1>3 DEF Inserting
<1>7. Cardinality(RowsOf(a)') + Cardinality(Inserting(a)') <= Cardinality(Graders)
  <2>1. CASE RowsOf(a) = {}
    <3>1. Inserting(a)' \subseteq Graders
      BY DEF Inserting
    <3>2. /\ IsFiniteSet(Inserting(a)') /\ Cardinality(Inserting(a)') <= Cardinality(Graders)
          /\ Cardinality(Inserting(a)') \in Nat
      BY <3>1, FS_Subset, FS_CardinalityType, CardsAssumption
    <3>3. QED BY <1>5, <2>1, <3>2, FS_EmptySet
  <2>2. CASE RowsOf(a) # {}
    <3>1. Inserting(a)' = Inserting(a)
      BY <1>3, <2>2 DEF Inserting
    <3>2. QED BY <1>1, <1>5, <3>1 DEF CardsInv
  <2>3. QED BY <2>1, <2>2
<1>8. \A b \in Rated : Cardinality(RowsOf(b)') + Cardinality(Inserting(b)') <= Cardinality(Graders)
  BY <1>5, <1>6, <1>7 DEF CardsInv
<1>9. ASSUME NEW v \in Graders, grader'[v].step # "off"
      PROVE  grader'[v].agent \in Rated /\ Known(grader[v].agent, grader[v].card)'
  <2>1. PICK b, c : b = grader'[v].agent /\ c = grader'[v].card
    OBVIOUS
  <2>2. b \in Rated /\ Known(b, c)
    <3>1. CASE v = w
      BY <1>1, <1>3, <2>1, <3>1
    <3>2. CASE v # w
      BY <1>3, <1>9, <2>1, <3>2 DEF CardsInv
    <3>3. QED BY <3>1, <3>2
  <2>3. Known(b, c)'
    BY <1>4, <2>2
  <2>4. QED BY <2>1, <2>2, <2>3
<1>10. ASSUME NEW i \in DOMAIN cards' PROVE Known(cards[i].agent, cards[i])'
  <2>1. PICK b, c : b = cards[i].agent /\ c = cards[i]
    OBVIOUS
  <2>2. Known(b, c)
    BY <1>3, <1>10, <2>1 DEF CardsInv
  <2>3. Known(b, c)'
    BY <1>4, <2>2
  <2>4. QED BY <1>3, <2>1, <2>3
<1>11. tasks' \in Seq(Task) /\ cards' \in Seq(SomeCards)
  BY <1>3 DEF CardsInv
<1>12. QED BY <1>3, <1>8, <1>9, <1>10, <1>11 DEF CardsInv

\* An insert is counted as a row and no longer as an insert.
LEMMA StoreIs ==
  ASSUME CardsInv, NEW w \in Graders, Store(w)
  PROVE  CardsInv'
<1>1. PICK a, card : a = grader[w].agent /\ card = grader[w].card /\ a \in Rated /\ Known(a, card)
  <2>1. grader[w].step # "off"
    BY DEF Store
  <2>2. QED BY <2>1 DEF CardsInv
<1>2. card \in SomeCards /\ card.agent = a
  <2>1. PICK f \in SomeFigures : card = Card(a, f)
    BY <1>1 DEF Known
  <2>2. QED BY <1>1, <2>1, CardIs DEF SomeCards
<1>3. /\ tasks' = tasks /\ DOMAIN grader' = Graders
      /\ \A v \in Graders : grader'[v] = IF v = w THEN Off ELSE grader[v]
      /\ Off.step = "off"
  BY DEF Store, CardsInv, Off
<1>4. ASSUME NEW b, NEW c PROVE Known(b, c) => Known(b, c)'
  BY <1>3 DEF Known, Figures, Mine, CostOf
<1>5. ASSUME NEW v \in Graders, grader'[v].step # "off"
      PROVE  grader'[v].agent \in Rated /\ Known(grader[v].agent, grader[v].card)'
  <2>1. v # w /\ grader'[v] = grader[v]
    BY <1>3, <1>5
  <2>2. PICK b, c : b = grader[v].agent /\ c = grader[v].card
    OBVIOUS
  <2>3. b \in Rated /\ Known(b, c)
    BY <1>5, <2>1, <2>2 DEF CardsInv
  <2>4. Known(b, c)'
    BY <1>4, <2>3
  <2>5. QED BY <2>1, <2>2, <2>3, <2>4
<1>6. cards \in Seq(SomeCards) /\ Len(cards) \in Nat /\ DOMAIN cards = 1 .. Len(cards)
  BY DEF CardsInv
<1>7. \A b : IsFiniteSet(RowsOf(b)) /\ Cardinality(RowsOf(b)) \in Nat
             /\ IsFiniteSet(Inserting(b)) /\ Cardinality(Inserting(b)) \in Nat
  <2>1. IsFiniteSet(DOMAIN cards)
    BY <1>6, FS_Interval
  <2>2. \A b : RowsOf(b) \subseteq DOMAIN cards /\ Inserting(b) \subseteq Graders
    BY DEF RowsOf, Inserting
  <2>3. QED BY <2>1, <2>2, FS_Subset, FS_CardinalityType, CardsAssumption
<1>8. \A b : b # a => Inserting(b)' = Inserting(b)
  BY <1>1, <1>3 DEF Inserting
<1>9. CASE grader[w].step = "insert"
  <2>1. cards' = Append(cards, card)
    BY <1>1, <1>9 DEF Store
  <2>2. PICK n : n = Len(cards) + 1
    OBVIOUS
  <2>3. /\ cards' \in Seq(SomeCards) /\ Len(cards') = n /\ DOMAIN cards' = 1 .. n
        /\ \A i \in 1 .. Len(cards) : cards'[i] = cards[i]
        /\ cards'[n] = card
    BY <1>2, <1>6, <2>1, <2>2, AppendProperties
  <2>4. RowsOf(a)' = RowsOf(a) \cup {n} /\ n \notin RowsOf(a)
    BY <1>2, <1>6, <2>2, <2>3 DEF RowsOf
  <2>5. \A b : b # a => RowsOf(b)' = RowsOf(b)
    BY <1>2, <1>6, <2>2, <2>3 DEF RowsOf
  <2>6. Inserting(a)' = Inserting(a) \ {w} /\ w \in Inserting(a)
    BY <1>1, <1>3, <1>9 DEF Inserting
  <2>7. Cardinality(RowsOf(a)') = Cardinality(RowsOf(a)) + 1
    BY <1>7, <2>4, FS_AddElement
  <2>8. Cardinality(Inserting(a)') = Cardinality(Inserting(a)) - 1
    BY <1>7, <2>6, FS_RemoveElement
  <2>9. Cardinality(RowsOf(a)) + Cardinality(Inserting(a)) <= Cardinality(Graders)
    BY <1>1 DEF CardsInv
  <2>10. Cardinality(Graders) \in Nat
    BY FS_CardinalityType, CardsAssumption
  <2>11. \A b \in Rated : Cardinality(RowsOf(b)') + Cardinality(Inserting(b)') <= Cardinality(Graders)
    <3>1. Cardinality(RowsOf(a)') + Cardinality(Inserting(a)') <= Cardinality(Graders)
      BY <1>7, <2>7, <2>8, <2>9, <2>10
    <3>2. QED BY <1>8, <2>5, <3>1 DEF CardsInv
  <2>12. ASSUME NEW i \in DOMAIN cards' PROVE Known(cards[i].agent, cards[i])'
    <3>1. PICK c : c = cards'[i] /\ Known(c.agent, c)
      <4>1. CASE i = n
        BY <1>1, <1>2, <2>3, <4>1
      <4>2. CASE i # n
        <5>1. i \in DOMAIN cards /\ cards'[i] = cards[i]
          BY <1>6, <2>2, <2>3, <4>2
        <5>2. QED BY <5>1 DEF CardsInv
      <4>3. QED BY <4>1, <4>2
    <3>2. Known(c.agent, c)'
      BY <1>4, <3>1
    <3>3. QED BY <3>1, <3>2
  <2>13. tasks' \in Seq(Task)
    BY <1>3 DEF CardsInv
  <2>14. QED BY <1>3, <1>5, <2>3, <2>11, <2>12, <2>13 DEF CardsInv
<1>10. CASE grader[w].step # "insert"
  <2>1. cards' = [i \in DOMAIN cards |-> IF i \in RowsOf(a) THEN card ELSE cards[i]]
    BY <1>1, <1>10 DEF Store
  <2>2. \A i \in DOMAIN cards : cards[i] \in SomeCards
    BY <1>6
  <2>3. /\ DOMAIN cards' = DOMAIN cards /\ cards' \in Seq(SomeCards)
        /\ \A i \in DOMAIN cards : cards'[i] = IF i \in RowsOf(a) THEN card ELSE cards[i]
    BY <1>2, <1>6, <2>1, <2>2
  <2>4. \A i \in DOMAIN cards : cards'[i].agent = cards[i].agent
    BY <1>2, <2>3 DEF RowsOf
  <2>5. \A b : RowsOf(b)' = RowsOf(b)
    BY <2>3, <2>4 DEF RowsOf
  <2>6. \A b : Inserting(b)' = Inserting(b)
    BY <1>3, <1>10 DEF Inserting
  <2>7. \A b \in Rated : Cardinality(RowsOf(b)') + Cardinality(Inserting(b)') <= Cardinality(Graders)
    BY <2>5, <2>6 DEF CardsInv
  <2>8. ASSUME NEW i \in DOMAIN cards' PROVE Known(cards[i].agent, cards[i])'
    <3>1. PICK c : c = cards'[i] /\ Known(c.agent, c)
      <4>1. CASE i \in RowsOf(a)
        BY <1>1, <1>2, <2>3, <2>8, <4>1
      <4>2. CASE i \notin RowsOf(a)
        BY <2>3, <2>8, <4>2 DEF CardsInv
      <4>3. QED BY <4>1, <4>2
    <3>2. Known(c.agent, c)'
      BY <1>4, <3>1
    <3>3. QED BY <3>1, <3>2
  <2>9. tasks' \in Seq(Task)
    BY <1>3 DEF CardsInv
  <2>10. QED BY <1>3, <1>5, <2>3, <2>7, <2>8, <2>9 DEF CardsInv
<1>11. QED BY <1>9, <1>10

LEMMA CardsInvStep == CardsInv /\ [CardsNext]_gradevars => CardsInv'
<1>1. ASSUME CardsInv, UNCHANGED gradevars PROVE CardsInv'
  <2>1. tasks' = tasks /\ cards' = cards /\ grader' = grader
    BY <1>1 DEF gradevars
  <2>2. \A a, c : Known(a, c) => Known(a, c)'
    BY <2>1 DEF Known, Figures, Mine, CostOf
  <2>3. \A a : RowsOf(a)' = RowsOf(a) /\ Inserting(a)' = Inserting(a)
    BY <2>1 DEF RowsOf, Inserting
  <2>4. QED BY <1>1, <2>1, <2>2, <2>3 DEF CardsInv
<1>2. QED BY <1>1, FinishIs, ReadIs, LookIs, StoreIs DEF CardsNext

-----------------------------------------------------------------------------
(* Grades *)

LEMMA CostScoreIs ==
  ASSUME NEW c \in Nat, NEW d \in Nat, d <= c
  PROVE  CostScore(c) \in 0 .. 100 /\ CostScore(d) >= CostScore(c)
<1>1. /\ c <= 1 => CostScore(c) = 100
      /\ c \in 2 .. 10 => CostScore(c) = 90
      /\ c \in 11 .. 50 => CostScore(c) = 75
      /\ c \in 51 .. 100 => CostScore(c) = 60
      /\ c \in 101 .. 500 => CostScore(c) = 40
      /\ c \in 501 .. 1000 => CostScore(c) = 20
      /\ c > 1000 => CostScore(c) = 10
  BY DEF CostScore
<1>2. /\ d <= 1 => CostScore(d) = 100
      /\ d \in 2 .. 10 => CostScore(d) = 90
      /\ d \in 11 .. 50 => CostScore(d) = 75
      /\ d \in 51 .. 100 => CostScore(d) = 60
      /\ d \in 101 .. 500 => CostScore(d) = 40
      /\ d \in 501 .. 1000 => CostScore(d) = 20
      /\ d > 1000 => CostScore(d) = 10
  BY DEF CostScore
<1>3. QED BY <1>1, <1>2

\* What the rank of a grade is, by the composite.
LEMMA RankIs ==
  ASSUME NEW q, NEW e, NEW c, NEW x \in Int, x = Composite(q, e, c)
  PROVE  /\ GradeRank(Grade(q, e, c)) = IF x >= 900 THEN 5 ELSE IF x >= 800 THEN 4
                                        ELSE IF x >= 700 THEN 3 ELSE IF x >= 600 THEN 2 ELSE 1
         /\ Grade(q, e, c) = "A" => x >= 900
         /\ x < 600 => Grade(q, e, c) = "F"
<1>1. Grade(q, e, c) = CASE x >= 900 -> "A" [] x \in 800 .. 899 -> "B" [] x \in 700 .. 799 -> "C"
                         [] x \in 600 .. 699 -> "D" [] x < 600 -> "F"
  BY DEF Grade
<1>2. CASE x >= 900
  BY <1>1, <1>2 DEF GradeRank
<1>3. CASE x \in 800 .. 899
  BY <1>1, <1>3 DEF GradeRank
<1>4. CASE x \in 700 .. 799
  BY <1>1, <1>4 DEF GradeRank
<1>5. CASE x \in 600 .. 699
  BY <1>1, <1>5 DEF GradeRank
<1>6. CASE x < 600
  BY <1>1, <1>6 DEF GradeRank
<1>7. QED BY <1>2, <1>3, <1>4, <1>5, <1>6

LEMMA SuccessHelps ==
  ASSUME NEW a, NEW f \in SomeFigures, NEW more, more = [f EXCEPT !.total = @ + 1, !.ok = @ + 1]
  PROVE  /\ GradeRank(Card(a, more).grade) >= GradeRank(Card(a, f).grade)
         /\ Card(a, f).quality = 0 => Card(a, f).grade = "F"
         /\ Card(a, f).grade = "A" => "pause" \notin Card(a, f).advice
<1>1. PICK n \in Nat, k \in Nat, c \in Nat : n = f.total /\ k = f.ok /\ c = f.cost /\ n > 0 /\ k <= n
  BY DEF SomeFigures
<1>2. more.total = n + 1 /\ more.ok = k + 1 /\ more.cost = c
  BY <1>1 DEF SomeFigures
<1>3. PICK q \in Int, e \in Int, u \in Int : /\ q = (100 * k) \div n /\ e = (100 * (n - k)) \div n
                                             /\ u = c \div n
  BY <1>1
<1>4. PICK p \in Int, d \in Int, v \in Int : /\ p = (100 * (k + 1)) \div (n + 1)
                                             /\ d = (100 * (n - k)) \div (n + 1) /\ v = c \div (n + 1)
  BY <1>1
<1>5. q = Quality(f) /\ e = ErrorRate(f) /\ u = PerTask(f)
  BY <1>1, <1>3 DEF Quality, ErrorRate, PerTask
<1>6. p = Quality(more) /\ d = ErrorRate(more) /\ v = PerTask(more)
  <2>1. (n + 1) - (k + 1) = n - k
    OBVIOUS
  <2>2. QED BY <1>2, <1>4, <2>1 DEF Quality, ErrorRate, PerTask
<1>7. q \in 0 .. 100 /\ q <= p
  BY <1>1, <1>3, <1>4, ShareGrows
<1>8. e \in Nat /\ d \in Nat /\ d <= e
  <2>1. 100 * (n - k) \in Nat
    BY <1>1
  <2>2. QED BY <1>1, <1>3, <1>4, <2>1, QuotientShrinks
<1>9. u \in Nat /\ v \in Nat /\ v <= u
  BY <1>1, <1>3, <1>4, QuotientShrinks
<1>10. q + e <= 100
  <2>1. n * q <= 100 * k /\ n * e <= 100 * (n - k)
    BY <1>1, <1>3
  <2>2. n * (q + e) = n * q + n * e
    OBVIOUS
  <2>3. n * (q + e) <= 100 * n
    BY <2>1, <2>2
  <2>4. SUFFICES ASSUME q + e >= 101 PROVE FALSE
    OBVIOUS
  <2>5. n * (q + e) >= n * 101
    BY <2>4
  <2>6. QED BY <1>1, <2>3, <2>5
<1>11. PICK s \in 0 .. 100, t \in 0 .. 100 : s = CostScore(u) /\ t = CostScore(v) /\ t >= s
  BY <1>9, CostScoreIs
<1>12. PICK x \in Int, y \in Int : /\ x = 5 * q + 3 * (100 - e) + 2 * s /\ x = Composite(q, e, u)
                                   /\ y = 5 * p + 3 * (100 - d) + 2 * t /\ y = Composite(p, d, v)
  BY <1>11 DEF Composite
<1>13. y >= x
  <2>1. 5 * p >= 5 * q /\ 3 * (100 - d) >= 3 * (100 - e) /\ 2 * t >= 2 * s
    BY <1>7, <1>8, <1>11
  <2>2. x = 5 * q + 3 * (100 - e) + 2 * s /\ y = 5 * p + 3 * (100 - d) + 2 * t
    BY <1>12
  <2>3. QED BY <1>8, <1>11, <2>1, <2>2
<1>14. Card(a, f).grade = Grade(q, e, u) /\ Card(a, f).quality = q /\ Card(a, more).grade = Grade(p, d, v)
       /\ Card(a, f).advice = Advice(q, e, u, c)
  BY <1>1, <1>5, <1>6 DEF Card
<1>15. GradeRank(Grade(p, d, v)) >= GradeRank(Grade(q, e, u))
  <2>1. GradeRank(Grade(q, e, u)) = IF x >= 900 THEN 5 ELSE IF x >= 800 THEN 4
                                    ELSE IF x >= 700 THEN 3 ELSE IF x >= 600 THEN 2 ELSE 1
    BY <1>12, RankIs
  <2>2. GradeRank(Grade(p, d, v)) = IF y >= 900 THEN 5 ELSE IF y >= 800 THEN 4
                                    ELSE IF y >= 700 THEN 3 ELSE IF y >= 600 THEN 2 ELSE 1
    BY <1>12, RankIs
  <2>3. QED BY <1>13, <2>1, <2>2
<1>16. q = 0 => Grade(q, e, u) = "F"
  <2>1. q = 0 => x < 600
    BY <1>8, <1>11, <1>12
  <2>2. x < 600 => Grade(q, e, u) = "F"
    BY <1>12, RankIs
  <2>3. QED BY <2>1, <2>2
<1>17. Grade(q, e, u) = "A" => "pause" \notin Advice(q, e, u, c)
  <2>1. Grade(q, e, u) = "A" => x >= 900
    BY <1>12, RankIs
  <2>2. x >= 900 => e <= 25
    BY <1>7, <1>8, <1>10, <1>11, <1>12
  <2>3. e <= 25 => "pause" \notin Advice(q, e, u, c)
    BY <1>8 DEF Advice
  <2>4. QED BY <2>1, <2>2, <2>3
<1>18. QED BY <1>14, <1>15, <1>16, <1>17

LEMMA ScorecardsAreSound == CardsSpec => []ScorecardsSound
<1>1. CardsInv => CardsAreTrue
  <2> SUFFICES ASSUME CardsInv PROVE CardsAreTrue
    OBVIOUS
  <2>1. ASSUME NEW i \in DOMAIN cards
        PROVE  \E n \in 1 .. Len(tasks) :
                 LET f == Figures(Mine(n, cards[i].agent)) IN
                 f.total > 0 /\ cards[i] = Card(cards[i].agent, f)
    BY DEF CardsInv, Known, SomeFigures
  <2>2. ASSUME NEW a \in Rated PROVE Cardinality(RowsOf(a)) <= Cardinality(Graders)
    <3>1. Cardinality(RowsOf(a)) + Cardinality(Inserting(a)) <= Cardinality(Graders)
      BY DEF CardsInv
    <3>2. IsFiniteSet(RowsOf(a)) /\ IsFiniteSet(Inserting(a))
      <4>1. RowsOf(a) \subseteq 1 .. Len(cards) /\ Inserting(a) \subseteq Graders /\ Len(cards) \in Nat
        BY DEF RowsOf, Inserting, CardsInv
      <4>2. IsFiniteSet(1 .. Len(cards))
        BY <4>1, FS_Interval
      <4>3. QED BY <4>1, <4>2, FS_Subset, CardsAssumption
    <3>3. /\ Cardinality(RowsOf(a)) \in Nat /\ Cardinality(Inserting(a)) \in Nat
          /\ Cardinality(Graders) \in Nat
      BY <3>2, FS_CardinalityType, CardsAssumption
    <3>4. QED BY <3>1, <3>3
  <2>3. QED BY <2>1, <2>2 DEF CardsAreTrue
<1>2. CardsInv => GradesMonotone
  <2> SUFFICES ASSUME CardsInv, NEW a \in Rated, Figures(Mine(Len(tasks), a)).total > 0
               PROVE  LET f == Figures(Mine(Len(tasks), a))
                          held == Card(a, f)
                          more == Card(a, [f EXCEPT !.total = @ + 1, !.ok = @ + 1])
                      IN  /\ GradeRank(more.grade) >= GradeRank(held.grade)
                          /\ held.quality = 0 => held.grade = "F"
                          /\ held.grade = "A" => "pause" \notin held.advice
    BY DEF GradesMonotone
  <2>1. PICK S : S = Mine(Len(tasks), a)
    OBVIOUS
  <2>2. tasks \in Seq(Task) /\ Len(tasks) \in Nat /\ DOMAIN tasks = 1 .. Len(tasks)
    BY DEF CardsInv
  <2>3. S \subseteq DOMAIN tasks /\ IsFiniteSet(S)
    <3>1. S \subseteq 1 .. Len(tasks)
      BY <2>1 DEF Mine
    <3>2. IsFiniteSet(1 .. Len(tasks))
      BY <2>2, FS_Interval
    <3>3. QED BY <2>2, <3>1, <3>2, FS_Subset
  <2>4. PICK f \in SomeFigures : f = Figures(S)
    BY <2>1, <2>2, <2>3, FiguresAre
  <2>5. PICK more : more = [f EXCEPT !.total = @ + 1, !.ok = @ + 1]
    OBVIOUS
  <2>6. QED BY <2>1, <2>4, <2>5, SuccessHelps
<1>3. QED BY CardsInvInit, CardsInvStep, <1>1, <1>2, PTL DEF CardsSpec, ScorecardsSound

-----------------------------------------------------------------------------
\* Whatever channels are edited while a dispatch is under way, and however many
\* posters and graders there are: a dispatch tries each channel of its snapshot once
\* and reports what became of it, and an agent keeps one scorecard per period, whose
\* figures are those of its finished tasks.
THEOREM NoticesAreSound == NotifySpec /\ CardsSpec => []NoticesSound
<1>1. DispatchSound /\ ScorecardsSound => NoticesSound
  BY DEF NoticesSound
<1>2. QED BY DispatchIsSound, ScorecardsAreSound, <1>1, PTL

-----------------------------------------------------------------------------
(* Saved scenarios *)

Scenario == [id : 1 .. serial, org : Companies, content : Nat, template : BOOLEAN]

Planning == [at : {"idle", "saved", "changed"}, org : Companies \cup {NotPlanning.org}, id : Nat,
             content : Nat, alone : BOOLEAN]

\* What a request that no other write has disturbed still finds in the table.
Undisturbed(w) ==
    w.alone =>
        /\ w.at = "saved" => /\ w.id = serial
                             /\ \E s \in scenarios : s.id = w.id /\ s.org = w.org /\ s.content = w.content
        /\ w.at = "changed" =>
             \A s \in scenarios : s.id = w.id /\ s.org = w.org => s.content = w.content

ScenariosInv ==
    /\ serial \in 0 .. MaxScenarios /\ writes \in Nat /\ scenarios \subseteq Scenario
    /\ DOMAIN writer = 1 .. MaxScenarios
    /\ DOMAIN planner = Planners
    /\ \A p \in Planners : planner[p] \in Planning /\ Undisturbed(planner[p])
    /\ OwnContent /\ AnswersOwn /\ SavesShow

LEMMA ScenariosInvInit == ScenariosInit => ScenariosInv
<1> SUFFICES ASSUME ScenariosInit PROVE ScenariosInv
  OBVIOUS
<1>1. /\ serial \in 0 .. MaxScenarios /\ writes \in Nat /\ scenarios \subseteq Scenario
      /\ DOMAIN writer = 1 .. MaxScenarios /\ DOMAIN planner = Planners
  BY ScenariosAssumption DEF ScenariosInit
<1>2. NotPlanning \in Planning /\ Undisturbed(NotPlanning)
  BY DEF NotPlanning, Planning, Undisturbed
<1>3. \A p \in Planners : planner[p] = NotPlanning
  BY DEF ScenariosInit
<1>4. scenarios = {} /\ answered.row = {} /\ answered.kind = "none"
  BY DEF ScenariosInit, NoAnswer
<1>5. OwnContent /\ AnswersOwn /\ SavesShow
  BY <1>4 DEF OwnContent, AnswersOwn, SavesShow
<1>6. QED BY <1>1, <1>2, <1>3, <1>5 DEF ScenariosInv

\* A write leaves nobody alone but the request that made it.
LEMMA DisturbIs ==
  ASSUME ScenariosInv, NEW p \in Planners, NEW step \in Planning,
         planner' = Disturb(p, step), Undisturbed(step)'
  PROVE  /\ DOMAIN planner' = Planners
         /\ \A q \in Planners : planner'[q] \in Planning /\ Undisturbed(planner[q])'
<1>1. DOMAIN planner' = Planners /\ planner'[p] = step
  BY DEF Disturb
<1>2. ASSUME NEW q \in Planners, q # p
      PROVE  planner'[q] \in Planning /\ Undisturbed(planner[q])'
  <2>1. planner'[q] = [planner[q] EXCEPT !.alone = FALSE]
    BY <1>2 DEF Disturb
  <2>2. planner[q] \in Planning
    BY DEF ScenariosInv
  <2>3. planner'[q] \in Planning /\ planner'[q].alone = FALSE
    BY <2>1, <2>2 DEF Planning
  <2>4. QED BY <2>3 DEF Undisturbed
<1>3. QED BY <1>1, <1>2

LEMMA InsertIs ==
  ASSUME ScenariosInv, NEW p \in Planners, NEW org \in Companies, Insert(p, org)
  PROVE  ScenariosInv'
<1>1. PICK s : s = [id |-> serial + 1, org |-> org, content |-> writes + 1, template |-> FALSE]
  OBVIOUS
<1>2. PICK step : step = [at |-> "saved", org |-> org, id |-> serial + 1, content |-> writes + 1,
                          alone |-> TRUE]
  OBVIOUS
<1>3. /\ serial < MaxScenarios /\ scenarios' = scenarios \cup {s} /\ serial' = serial + 1
      /\ writes' = writes + 1 /\ writer' = [writer EXCEPT ![serial + 1] = org]
      /\ planner' = Disturb(p, step) /\ answered' = answered
  BY <1>1, <1>2 DEF Insert
<1>4. serial \in Nat /\ serial \in 0 .. MaxScenarios /\ writes \in Nat /\ MaxScenarios \in Nat
  BY ScenariosAssumption DEF ScenariosInv
<1>5. s.id = serial + 1 /\ s.org = org /\ s.content = writes + 1 /\ s \in Scenario'
  BY <1>1, <1>3, <1>4 DEF Scenario
<1>6. scenarios' \subseteq Scenario'
  <2>1. Scenario \subseteq Scenario'
    BY <1>3, <1>4 DEF Scenario
  <2>2. QED BY <1>3, <1>5, <2>1 DEF ScenariosInv
<1>7. step \in Planning /\ Undisturbed(step)'
  BY <1>2, <1>3, <1>4, <1>5 DEF Planning, Undisturbed
<1>8. /\ DOMAIN planner' = Planners
      /\ \A q \in Planners : planner'[q] \in Planning /\ Undisturbed(planner[q])'
  BY <1>3, <1>7, DisturbIs
<1>9. OwnContent'
  <2>1. \A t \in scenarios : t.id \in 1 .. serial /\ t.id # serial + 1 /\ writer[t.id] = t.org
    BY <1>4 DEF ScenariosInv, Scenario, OwnContent
  <2>2. DOMAIN writer = 1 .. MaxScenarios
    BY DEF ScenariosInv
  <2>3. \A t \in scenarios' : writer'[t.id] = t.org /\ t.id <= serial'
    BY <1>3, <1>4, <1>5, <2>1, <2>2
  <2>4. \A t, u \in scenarios' : t.id = u.id => t = u
    BY <1>3, <1>5, <2>1 DEF ScenariosInv, OwnContent
  <2>5. QED BY <2>3, <2>4 DEF OwnContent
<1>10. AnswersOwn' /\ SavesShow'
  BY <1>3 DEF ScenariosInv, AnswersOwn, SavesShow
<1>11. serial' \in 0 .. MaxScenarios /\ writes' \in Nat /\ DOMAIN writer' = 1 .. MaxScenarios
  BY <1>3, <1>4 DEF ScenariosInv
<1>12. QED BY <1>6, <1>8, <1>9, <1>10, <1>11 DEF ScenariosInv

LEMMA ChangeIs ==
  ASSUME ScenariosInv, NEW p \in Planners, NEW org \in Companies, NEW id \in 1 .. serial, Change(p, org, id)
  PROVE  ScenariosInv'
<1>1. PICK hit : hit = Own(org) \cap Row(id)
  OBVIOUS
<1>2. PICK step : step = [at |-> "changed", org |-> org, id |-> id, content |-> writes + 1, alone |-> TRUE]
  OBVIOUS
<1>3. /\ scenarios' = (scenarios \ hit) \cup {[s EXCEPT !.content = writes + 1] : s \in hit}
      /\ writer' = IF hit = {} THEN writer ELSE [writer EXCEPT ![id] = org]
      /\ planner' = Disturb(p, step) /\ writes' = writes + 1 /\ serial' = serial /\ answered' = answered
  BY <1>1, <1>2 DEF Change
<1>4. writes \in Nat /\ serial \in Nat /\ MaxScenarios \in Nat /\ serial <= MaxScenarios
  BY ScenariosAssumption DEF ScenariosInv
<1>5. hit = {s \in scenarios : s.org = org /\ s.id = id}
  BY <1>1 DEF Own, Row
<1>6. \A s \in hit : LET t == [s EXCEPT !.content = writes + 1] IN
        /\ t \in Scenario /\ t.id = id /\ t.org = org /\ t.content = writes + 1
  BY <1>4, <1>5 DEF ScenariosInv, Scenario
<1>7. \A t \in scenarios' : \/ t \in scenarios /\ ~(t.org = org /\ t.id = id)
                            \/ /\ t.id = id /\ t.org = org /\ t.content = writes + 1 /\ t \in Scenario
                               /\ \E s \in hit : t = [s EXCEPT !.content = writes + 1]
  BY <1>3, <1>5, <1>6
<1>8. Scenario' = Scenario
  BY <1>3 DEF Scenario
<1>9. scenarios' \subseteq Scenario'
  BY <1>7, <1>8 DEF ScenariosInv
<1>10. step \in Planning /\ Undisturbed(step)'
  <2>1. id \in Nat
    BY <1>4
  <2>2. \A t \in scenarios' : t.id = id /\ t.org = org => t.content = writes + 1
    BY <1>7
  <2>3. QED BY <1>2, <1>4, <2>1, <2>2 DEF Planning, Undisturbed
<1>11. /\ DOMAIN planner' = Planners
       /\ \A q \in Planners : planner'[q] \in Planning /\ Undisturbed(planner[q])'
  BY <1>3, <1>10, DisturbIs
<1>12. OwnContent'
  <2>1. \A s \in scenarios : writer[s.id] = s.org /\ s.id <= serial /\ \A t \in scenarios : s.id = t.id => s = t
    BY DEF ScenariosInv, OwnContent
  <2>2. hit = {} => scenarios' = scenarios
    BY <1>3
  <2>3. \A s \in hit : \A t \in scenarios : t.id = id => t = s
    BY <1>5, <2>1
  <2>4. DOMAIN writer = 1 .. MaxScenarios /\ id \in DOMAIN writer
    BY <1>4 DEF ScenariosInv
  <2>5. ASSUME NEW t \in scenarios' PROVE writer'[t.id] = t.org /\ t.id <= serial'
    <3>1. CASE hit = {}
      BY <1>3, <2>1, <2>2, <2>5, <3>1
    <3>2. CASE hit # {}
      <4>1. writer' = [writer EXCEPT ![id] = org]
        BY <1>3, <3>2
      <4>2. CASE t.id = id /\ t.org = org
        BY <1>3, <2>4, <4>1, <4>2
      <4>3. CASE ~(t.id = id /\ t.org = org)
        <5>1. t \in scenarios
          BY <1>7, <2>5, <4>3
        <5>2. t.id # id
          BY <1>5, <2>3, <3>2, <4>3, <5>1
        <5>3. QED BY <1>3, <2>1, <4>1, <5>1, <5>2
      <4>4. QED BY <4>2, <4>3
    <3>3. QED BY <3>1, <3>2
  <2>6. ASSUME NEW t \in scenarios', NEW u \in scenarios', t.id = u.id PROVE t = u
    <3>1. ASSUME NEW x \in scenarios', NEW y \in scenarios', x.id = y.id, y \in scenarios,
                 NEW s \in hit, x = [s EXCEPT !.content = writes + 1]
          PROVE  x = y
      <4>1. x.id = id /\ y.id = id
        BY <1>6, <3>1
      <4>2. y = s
        BY <2>3, <3>1, <4>1
      <4>3. ~(y.org = org /\ y.id = id) \/ y.content = writes + 1
        BY <1>7, <3>1
      <4>4. y.org = org /\ y.id = id
        BY <1>5, <4>2
      <4>5. y.content = writes + 1 /\ s \in Scenario
        BY <1>5, <4>3, <4>4 DEF ScenariosInv
      <4>6. y \notin scenarios \ hit
        BY <1>5, <4>4
      <4>7. x = y
        BY <3>1, <4>2, <4>5 DEF Scenario
      <4>8. QED BY <4>7
    <3>2. CASE t \in scenarios /\ u \in scenarios
      BY <2>1, <2>6, <3>2
    <3>3. CASE t \notin scenarios /\ u \in scenarios
      <4>1. PICK r \in hit : t = [r EXCEPT !.content = writes + 1]
        BY <1>7, <3>3
      <4>2. QED BY <2>6, <3>1, <3>3, <4>1
    <3>4. CASE t \in scenarios /\ u \notin scenarios
      <4>1. PICK r \in hit : u = [r EXCEPT !.content = writes + 1]
        BY <1>7, <3>4
      <4>2. QED BY <2>6, <3>1, <3>4, <4>1
    <3>5. CASE t \notin scenarios /\ u \notin scenarios
      <4>1. PICK r \in hit : t = [r EXCEPT !.content = writes + 1]
        BY <1>7, <3>5
      <4>2. PICK v \in hit : u = [v EXCEPT !.content = writes + 1]
        BY <1>7, <3>5
      <4>3. r = v
        BY <1>5, <2>3
      <4>4. QED BY <4>1, <4>2, <4>3
    <3>6. QED BY <3>2, <3>3, <3>4, <3>5
  <2>7. QED BY <2>5, <2>6 DEF OwnContent
<1>13. AnswersOwn' /\ SavesShow'
  BY <1>3 DEF ScenariosInv, AnswersOwn, SavesShow
<1>14. serial' \in 0 .. MaxScenarios /\ writes' \in Nat /\ DOMAIN writer' = 1 .. MaxScenarios
  BY <1>3, <1>4 DEF ScenariosInv
<1>15. QED BY <1>9, <1>11, <1>12, <1>13, <1>14 DEF ScenariosInv

LEMMA ReadBackIs ==
  ASSUME ScenariosInv, NEW p \in Planners, ReadBack(p)
  PROVE  ScenariosInv'
<1>1. PICK w : w = planner[p] /\ w \in Planning /\ w.at \in {"saved", "changed"} /\ Undisturbed(w)
  BY DEF ReadBack, ScenariosInv, Planning
<1>2. PICK row : row = IF w.at = "saved" THEN Newest(w.org) ELSE Visible(w.org) \cap Row(w.id)
  OBVIOUS
<1>3. PICK alone \in BOOLEAN : alone = w.alone
  BY <1>1 DEF Planning
<1>4. /\ answered' = [kind |-> w.at, org |-> w.org, asked |-> w.id, content |-> w.content,
                      alone |-> alone, row |-> row]
      /\ planner' = [planner EXCEPT ![p] = NotPlanning]
      /\ scenarios' = scenarios /\ serial' = serial /\ writes' = writes /\ writer' = writer
  BY <1>1, <1>2, <1>3 DEF ReadBack
<1>5. /\ answered'.kind = w.at /\ answered'.org = w.org /\ answered'.asked = w.id
      /\ answered'.content = w.content /\ answered'.alone = alone /\ answered'.row = row
  BY <1>4
<1>6. NotPlanning \in Planning /\ NotPlanning.at = "idle"
  BY DEF NotPlanning, Planning
<1>7. DOMAIN planner' = Planners /\ \A q \in Planners : planner'[q] = IF q = p THEN NotPlanning ELSE planner[q]
  BY <1>4 DEF ScenariosInv
<1>8. ASSUME NEW q \in Planners PROVE planner'[q] \in Planning /\ Undisturbed(planner[q])'
  <2>1. PICK v : v = planner'[q]
    OBVIOUS
  <2>2. v \in Planning /\ Undisturbed(v)
    BY <1>6, <1>7, <2>1 DEF ScenariosInv, Undisturbed
  <2>3. Undisturbed(v)'
    BY <1>4, <2>2 DEF Undisturbed
  <2>4. QED BY <2>1, <2>2, <2>3
<1>9. /\ \A s \in scenarios : s.id \in 1 .. serial
      /\ \A s, t \in scenarios : s.id = t.id => s = t
      /\ serial \in Nat
  BY DEF ScenariosInv, OwnContent, Scenario
<1>10. CASE w.at = "saved"
  <2>1. row = {s \in scenarios : s.org = w.org /\ \A t \in scenarios : t.org = w.org => t.id <= s.id}
    BY <1>2, <1>10 DEF Newest
  <2>2. ASSUME alone PROVE \E s \in scenarios : /\ s.id = w.id /\ s.id = serial
                                                /\ s.org = w.org /\ s.content = w.content
    BY <1>1, <1>3, <1>10, <2>2 DEF Undisturbed
  <2>3. \A s \in row : s.org = w.org /\ (alone => s.content = w.content /\ s.id = w.id)
    <3> SUFFICES ASSUME NEW s \in row PROVE s.org = w.org /\ (alone => s.content = w.content /\ s.id = w.id)
      OBVIOUS
    <3>1. s.org = w.org /\ s \in scenarios
      BY <2>1
    <3>2. ASSUME alone PROVE s.content = w.content /\ s.id = w.id
      <4>1. PICK t \in scenarios : t.id = w.id /\ t.id = serial /\ t.org = w.org /\ t.content = w.content
        BY <2>2, <3>2
      <4>2. t.id <= s.id /\ s.id \in 1 .. serial
        BY <1>9, <2>1, <4>1
      <4>3. s.id = t.id
        BY <1>9, <4>1, <4>2
      <4>4. s = t
        BY <1>9, <3>1, <4>3
      <4>5. QED BY <4>1, <4>4
    <3>3. QED BY <3>1, <3>2
  <2>4. alone => row # {}
    <3> SUFFICES ASSUME alone PROVE row # {}
      OBVIOUS
    <3>1. PICK t \in scenarios : t.id = serial /\ t.org = w.org
      BY <2>2
    <3>2. \A u \in scenarios : u.id <= t.id
      BY <1>9, <3>1
    <3>3. QED BY <2>1, <3>1, <3>2
  <2>5. AnswersOwn'
    BY <1>5, <2>3 DEF AnswersOwn
  <2>6. SavesShow'
    BY <1>5, <2>4 DEF SavesShow
  <2>7. OwnContent'
    BY <1>4 DEF ScenariosInv, OwnContent
  <2>8. QED BY <1>4, <1>7, <1>8, <2>5, <2>6, <2>7 DEF ScenariosInv, Scenario
<1>11. CASE w.at = "changed"
  <2>1. row = {s \in scenarios : (s.org = w.org \/ s.template) /\ s.id = w.id}
    BY <1>2, <1>11 DEF Visible, Row
  <2>2. ASSUME alone, NEW s \in scenarios, s.id = w.id, s.org = w.org PROVE s.content = w.content
    BY <1>1, <1>3, <1>11, <2>2 DEF Undisturbed
  <2>3. AnswersOwn'
    <3> SUFFICES ASSUME NEW s \in row
                 PROVE  /\ s.org = w.org \/ s.template
                        /\ alone => \/ s.content = w.content /\ s.id = w.id
                                    \/ s.template /\ s.org # w.org
      BY <1>5, <1>11 DEF AnswersOwn
    <3>1. s \in scenarios /\ (s.org = w.org \/ s.template) /\ s.id = w.id
      BY <2>1
    <3>2. QED BY <2>2, <3>1
  <2>4. SavesShow'
    BY <1>5, <1>11 DEF SavesShow
  <2>5. OwnContent'
    BY <1>4 DEF ScenariosInv, OwnContent
  <2>6. QED BY <1>4, <1>7, <1>8, <2>3, <2>4, <2>5 DEF ScenariosInv, Scenario
<1>12. QED BY <1>1, <1>10, <1>11

LEMMA DeleteIs ==
  ASSUME ScenariosInv, NEW p \in Planners, NEW org, NEW id, Delete(p, org, id)
  PROVE  ScenariosInv'
<1>1. /\ scenarios' \subseteq scenarios /\ planner' = Disturb(p, NotPlanning)
      /\ serial' = serial /\ writes' = writes /\ answered' = answered /\ writer' = writer
  BY DEF Delete
<1>2. NotPlanning \in Planning /\ Undisturbed(NotPlanning)'
  BY DEF NotPlanning, Planning, Undisturbed
<1>3. /\ DOMAIN planner' = Planners
      /\ \A q \in Planners : planner'[q] \in Planning /\ Undisturbed(planner[q])'
  BY <1>1, <1>2, DisturbIs
<1>4. OwnContent' /\ AnswersOwn' /\ SavesShow'
  BY <1>1 DEF ScenariosInv, OwnContent, AnswersOwn, SavesShow
<1>5. QED BY <1>1, <1>3, <1>4 DEF ScenariosInv, Scenario

\* A template is the row it was.
LEMMA MakeTemplateIs ==
  ASSUME ScenariosInv, NEW id, MakeTemplate(id)
  PROVE  ScenariosInv'
<1>1. /\ scenarios' = (scenarios \ Row(id)) \cup {[s EXCEPT !.template = TRUE] : s \in Row(id)}
      /\ planner' = planner /\ serial' = serial /\ writes' = writes /\ answered' = answered
      /\ writer' = writer
  BY DEF MakeTemplate
<1>2. \A s \in Row(id) : s \in scenarios /\ s.id = id /\ s \in Scenario
  BY DEF ScenariosInv, Row
<1>3. \A s \in Row(id) : LET t == [s EXCEPT !.template = TRUE] IN
        /\ t \in Scenario /\ t.id = s.id /\ t.org = s.org /\ t.content = s.content
  BY <1>2 DEF Scenario
<1>4. \A t \in scenarios' : \E s \in scenarios :
        /\ t.id = s.id /\ t.org = s.org /\ t.content = s.content /\ t \in Scenario
        /\ IF s.id = id THEN t = [s EXCEPT !.template = TRUE] ELSE t = s
  <2> SUFFICES ASSUME NEW t \in scenarios'
               PROVE  \E s \in scenarios :
                        /\ t.id = s.id /\ t.org = s.org /\ t.content = s.content /\ t \in Scenario
                        /\ IF s.id = id THEN t = [s EXCEPT !.template = TRUE] ELSE t = s
    OBVIOUS
  <2>1. CASE t \in scenarios \ Row(id)
    BY <2>1 DEF ScenariosInv, Row
  <2>2. CASE t \in {[s EXCEPT !.template = TRUE] : s \in Row(id)}
    BY <1>2, <1>3, <2>2
  <2>3. QED BY <1>1, <2>1, <2>2
<1>5. \A s \in scenarios : \E t \in scenarios' : t.id = s.id /\ t.org = s.org /\ t.content = s.content
  <2> SUFFICES ASSUME NEW s \in scenarios
               PROVE  \E t \in scenarios' : t.id = s.id /\ t.org = s.org /\ t.content = s.content
    OBVIOUS
  <2>1. CASE s \in Row(id)
    BY <1>1, <1>3, <2>1
  <2>2. CASE s \notin Row(id)
    BY <1>1, <2>2
  <2>3. QED BY <2>1, <2>2
<1>6. scenarios' \subseteq Scenario'
  <2>1. Scenario' = Scenario
    BY <1>1 DEF Scenario
  <2>2. QED BY <1>4, <2>1
<1>7. ASSUME NEW q \in Planners PROVE planner'[q] \in Planning /\ Undisturbed(planner[q])'
  <2>1. PICK w : w = planner[q] /\ w \in Planning /\ Undisturbed(w)
    BY DEF ScenariosInv
  <2>2. Undisturbed(w)'
    BY <1>1, <1>4, <1>5, <2>1 DEF Undisturbed
  <2>3. QED BY <1>1, <2>1, <2>2
<1>8. OwnContent'
  <2>1. \A t \in scenarios' : writer'[t.id] = t.org /\ t.id <= serial'
    BY <1>1, <1>4 DEF ScenariosInv, OwnContent
  <2>2. ASSUME NEW t \in scenarios', NEW u \in scenarios', t.id = u.id PROVE t = u
    <3>1. PICK s \in scenarios : t.id = s.id /\ IF s.id = id THEN t = [s EXCEPT !.template = TRUE] ELSE t = s
      BY <1>4
    <3>2. PICK r \in scenarios : u.id = r.id /\ IF r.id = id THEN u = [r EXCEPT !.template = TRUE] ELSE u = r
      BY <1>4
    <3>3. s = r
      <4>1. s.id = r.id
        BY <2>2, <3>1, <3>2
      <4>2. \A x, y \in scenarios : x.id = y.id => x = y
        BY DEF ScenariosInv, OwnContent
      <4>3. QED BY <4>1, <4>2
    <3>4. CASE s.id = id
      <4>1. t = [s EXCEPT !.template = TRUE] /\ u = [s EXCEPT !.template = TRUE]
        BY <3>1, <3>2, <3>3, <3>4
      <4>2. QED BY <4>1
    <3>5. CASE s.id # id
      <4>1. t = s /\ u = s
        BY <3>1, <3>2, <3>3, <3>5
      <4>2. QED BY <4>1
    <3>6. QED BY <3>4, <3>5
  <2>3. QED BY <2>1, <2>2 DEF OwnContent
<1>9. AnswersOwn' /\ SavesShow'
  BY <1>1 DEF ScenariosInv, AnswersOwn, SavesShow
<1>10. QED BY <1>1, <1>6, <1>7, <1>8, <1>9 DEF ScenariosInv

LEMMA ScenariosInvStep == ScenariosInv /\ [ScenariosNext]_scenvars => ScenariosInv'
<1>1. ASSUME ScenariosInv, UNCHANGED scenvars PROVE ScenariosInv'
  BY <1>1 DEF scenvars, ScenariosInv, Scenario, Undisturbed, OwnContent, AnswersOwn, SavesShow
<1>2. QED BY <1>1, InsertIs, ChangeIs, ReadBackIs, DeleteIs, MakeTemplateIs DEF ScenariosNext

\* A scenario holds what its own organization wrote, whoever else saves, updates,
\* deletes or publishes one between the two statements of a request; an answer shows
\* the asker's own scenario or a template, and, when no other write came between,
\* what was saved or updated.
THEOREM ScenariosAreSound == ScenariosSpec => []ScenariosSound
<1>1. ScenariosInv => ScenariosSound
  BY DEF ScenariosInv, ScenariosSound
<1>2. QED BY ScenariosInvInit, ScenariosInvStep, <1>1, PTL DEF ScenariosSpec

-----------------------------------------------------------------------------
(* Anomalies *)

Kinds == {"cost", "latency", "tokens", "errors"}
Amounts == {r[m] : r \in Readings, m \in Metrics}
Stats == [Metrics -> Seq(Amounts)]

Ingest == [at : {"idle", "add", "look", "mark"}, s : Series \cup {Watching.s},
           reading : Readings \cup {Watching.reading}, alerts : SUBSET Kinds, gen : Nat, now : Nat]
Announcement == [s : Series, kind : Kinds, now : Nat, n : Nat]

AnomalyTypeOK ==
    /\ baseline \in [Series -> Stats] /\ resets \in [Series -> Nat]
    /\ lastAlert \in [Series -> [Kinds -> Nat]]
    /\ watch \in [Watchers -> Ingest] /\ ticks \in Nat /\ taken \in Nat
    /\ chronicle \in [added : [Series -> Stats], told : SUBSET Announcement, mixed : SUBSET Series]

\* A window is the end of what was added.
Window(seq, all) ==
    LET n == IF Len(all) < BaselineSize THEN Len(all) ELSE BaselineSize
    IN  seq = SubSeq(all, Len(all) - n + 1, Len(all))

\* A thread in ingest has a series, and is alone with it unless the series is mixed;
\* what it is about to mark is due as long as it is alone.
Ingesting ==
    \A w \in Watchers : watch[w].at # "idle" =>
        /\ watch[w].s \in Series /\ watch[w].reading \in Readings
        /\ watch[w].at = "mark" => watch[w].alerts # {}
        /\ watch[w].s \notin chronicle.mixed =>
             /\ \A x \in Watchers : watch[x].at # "idle" /\ watch[x].s = watch[w].s => x = w
             /\ watch[w].at = "mark" => Due(w)

\* Nothing was announced later than the last alert says.
NothingLater == \A a \in chronicle.told : a.s \notin chronicle.mixed => a.now <= lastAlert[a.s][a.kind]

AnomalyInv == AnomalyTypeOK /\ BaselineIsRecent /\ Ingesting /\ NothingLater /\ AnnouncedOnce

LEMMA KindsAre == ToSet(AlertKinds) = Kinds
  BY DEF ToSet, AlertKinds, Kinds

LEMMA FirstIs ==
  ASSUME NEW S \in SUBSET Kinds, S # {}
  PROVE  First(S) \in S
<1>1. DOMAIN AlertKinds = 1 .. 4 /\ AlertKinds[1] = "cost" /\ AlertKinds[2] = "latency"
      /\ AlertKinds[3] = "tokens" /\ AlertKinds[4] = "errors"
  BY DEF AlertKinds
<1>2. \E i \in 1 .. 4 : AlertKinds[i] \in S /\ \A j \in 1 .. i - 1 : AlertKinds[j] \notin S
  <2>1. CASE "cost" \in S
    BY <1>1, <2>1
  <2>2. CASE "cost" \notin S /\ "latency" \in S
    <3>1. \A j \in 1 .. 2 - 1 : j = 1
      OBVIOUS
    <3>2. QED BY <1>1, <2>2, <3>1
  <2>3. CASE "cost" \notin S /\ "latency" \notin S /\ "tokens" \in S
    <3>1. \A j \in 1 .. 3 - 1 : j = 1 \/ j = 2
      OBVIOUS
    <3>2. QED BY <1>1, <2>3, <3>1
  <2>4. CASE "cost" \notin S /\ "latency" \notin S /\ "tokens" \notin S
    <3>1. \A j \in 1 .. 4 - 1 : j = 1 \/ j = 2 \/ j = 3
      OBVIOUS
    <3>2. "errors" \in S
      BY <2>4 DEF Kinds
    <3>3. QED BY <1>1, <2>4, <3>1, <3>2
  <2>5. QED BY <2>1, <2>2, <2>3, <2>4
<1>3. QED BY <1>1, <1>2 DEF First

\* The last n entries.
LEMMA EndIs ==
  ASSUME NEW T, NEW all \in Seq(T), NEW n \in 0 .. Len(all), NEW seq, seq = SubSeq(all, Len(all) - n + 1, Len(all))
  PROVE  /\ seq \in Seq(T) /\ Len(seq) = n
         /\ \A i \in 1 .. n : seq[i] = all[Len(all) - n + i]
<1>1. PICK k \in Nat, j \in Nat : k = Len(all) /\ j = k - n + 1 /\ j >= 1 /\ n \in Nat
  OBVIOUS
<1>2. \A i \in j .. k : all[i] \in T
  BY <1>1
<1>3. /\ SubSeq(all, j, k) \in Seq(T)
      /\ Len(SubSeq(all, j, k)) = IF j <= k THEN k - j + 1 ELSE 0
      /\ \A i \in 1 .. k - j + 1 : SubSeq(all, j, k)[i] = all[j + i - 1]
  BY <1>2, SubSeqProperties
<1>4. seq = SubSeq(all, j, k)
  BY <1>1
<1>5. k - j + 1 = n /\ (j <= k <=> n # 0) /\ \A i \in 1 .. n : j + i - 1 = k - n + i
  BY <1>1
<1>6. QED BY <1>1, <1>3, <1>4, <1>5

\* The window moves on by one.
LEMMA WindowMoves ==
  ASSUME NEW T, NEW all \in Seq(T), NEW seq \in Seq(T), NEW v \in T, Window(seq, all)
  PROVE  /\ Rolled(Append(seq, v), BaselineSize) \in Seq(T)
         /\ Window(Rolled(Append(seq, v), BaselineSize), Append(all, v))
<1>1. BaselineSize \in Nat /\ Len(all) \in Nat
  BY AnomalyAssumption
<1>2. PICK more \in Seq(T) : more = Append(all, v)
  BY AppendProperties
<1>3. Len(more) = Len(all) + 1 /\ \A i \in 1 .. Len(all) + 1 : more[i] = IF i <= Len(all) THEN all[i] ELSE v
  BY <1>1, <1>2, AppendProperties
<1>4. CASE Len(all) < BaselineSize
  <2>1. seq = SubSeq(all, 1, Len(all))
    BY <1>1, <1>4 DEF Window
  <2>2. seq = all
    BY <2>1, SubSeqFull
  <2>3. Rolled(Append(seq, v), BaselineSize) = more
    BY <1>1, <1>2, <1>3, <1>4, <2>2 DEF Rolled
  <2>4. Window(more, more)
    <3>1. SubSeq(more, 1, Len(more)) = more
      BY SubSeqFull
    <3>2. (IF Len(more) < BaselineSize THEN Len(more) ELSE BaselineSize) = Len(more)
      BY <1>1, <1>3, <1>4
    <3>3. Len(more) - Len(more) + 1 = 1
      BY <1>1, <1>3
    <3>4. QED BY <3>1, <3>2, <3>3 DEF Window
  <2>5. QED BY <1>2, <2>3, <2>4
<1>5. CASE Len(all) >= BaselineSize
  <2>1. seq = SubSeq(all, Len(all) - BaselineSize + 1, Len(all))
    <3>1. (IF Len(all) < BaselineSize THEN Len(all) ELSE BaselineSize) = BaselineSize
      BY <1>1, <1>5
    <3>2. QED BY <3>1 DEF Window
  <2>2. Len(seq) = BaselineSize /\ \A i \in 1 .. BaselineSize : seq[i] = all[Len(all) - BaselineSize + i]
    BY <1>1, <1>5, <2>1, EndIs
  <2>3. PICK long \in Seq(T) : long = Append(seq, v) /\ long # <<>>
    BY AppendProperties
  <2>4. Len(long) = BaselineSize + 1
        /\ \A i \in 1 .. BaselineSize + 1 : long[i] = IF i <= BaselineSize THEN seq[i] ELSE v
    <3>1. /\ Len(long) = Len(seq) + 1 /\ \A i \in 1 .. Len(seq) : long[i] = seq[i]
          /\ long[Len(seq) + 1] = v
      BY <2>3, AppendProperties
    <3>2. QED BY <1>1, <2>2, <3>1
  <2>5. PICK tail \in Seq(T) : tail = Tail(long)
    BY <2>3, HeadTailProperties
  <2>6. Len(tail) = BaselineSize /\ \A i \in 1 .. BaselineSize : tail[i] = long[i + 1]
    BY <1>1, <2>3, <2>4, <2>5, HeadTailProperties
  <2>7. Rolled(Append(seq, v), BaselineSize) = tail
    BY <1>1, <2>3, <2>4, <2>5 DEF Rolled
  <2>8. PICK end : end = SubSeq(more, Len(more) - BaselineSize + 1, Len(more))
    OBVIOUS
  <2>9. /\ end \in Seq(T) /\ Len(end) = BaselineSize
        /\ \A i \in 1 .. BaselineSize : end[i] = more[Len(more) - BaselineSize + i]
    BY <1>1, <1>3, <1>5, <2>8, EndIs
  <2>10. ASSUME NEW i \in 1 .. BaselineSize PROVE tail[i] = end[i]
    <3>1. tail[i] = IF i + 1 <= BaselineSize THEN seq[i + 1] ELSE v
      BY <1>1, <2>4, <2>6
    <3>2. end[i] = more[Len(all) + 1 - BaselineSize + i]
      <4>1. Len(more) - BaselineSize + i = Len(all) + 1 - BaselineSize + i
        BY <1>1, <1>3
      <4>2. QED BY <2>9, <4>1
    <3>3. CASE i + 1 <= BaselineSize
      <4>1. seq[i + 1] = all[Len(all) - BaselineSize + (i + 1)]
        BY <1>1, <2>2, <3>3
      <4>2. Len(all) - BaselineSize + (i + 1) = Len(all) + 1 - BaselineSize + i
            /\ Len(all) + 1 - BaselineSize + i \in 1 .. Len(all)
        BY <1>1, <1>5, <3>3
      <4>3. QED BY <1>3, <3>1, <3>2, <3>3, <4>1, <4>2
    <3>4. CASE i = BaselineSize
      <4>1. Len(all) + 1 - BaselineSize + i = Len(all) + 1
        BY <1>1, <3>4
      <4>2. QED BY <1>1, <1>3, <3>1, <3>2, <3>4, <4>1
    <3>5. QED BY <1>1, <3>3, <3>4
  <2>11. tail = end
    BY <2>6, <2>9, <2>10, SeqEqual
  <2>12. Window(end, more)
    <3>1. (IF Len(more) < BaselineSize THEN Len(more) ELSE BaselineSize) = BaselineSize
      BY <1>1, <1>3, <1>5
    <3>2. QED BY <2>8, <3>1 DEF Window
  <2>13. QED BY <1>2, <2>7, <2>11, <2>12
<1>6. QED BY <1>1, <1>4, <1>5

LEMMA AnomalyInvInit == AnomalyInit => AnomalyInv
<1> SUFFICES ASSUME AnomalyInit PROVE AnomalyInv
  OBVIOUS
<1>1. Watching \in Ingest /\ Watching.at = "idle"
  BY DEF Watching, Ingest
<1>2. NoStats \in Stats
  BY EmptySeq DEF NoStats, Stats
<1>3. AnomalyTypeOK
  BY <1>1, <1>2, AnomalyAssumption, KindsAre DEF AnomalyInit, AnomalyTypeOK
<1>4. BaselineIsRecent
  <2>1. SubSeq(<<>>, 1, 0) = <<>>
    BY SubSeqEmpty
  <2>2. Len(<<>>) = 0 /\ (IF 0 < BaselineSize THEN 0 ELSE BaselineSize) = 0
    BY AnomalyAssumption
  <2>3. QED BY <2>1, <2>2 DEF AnomalyInit, BaselineIsRecent, NoStats
<1>5. Ingesting /\ NothingLater /\ AnnouncedOnce
  BY <1>1 DEF AnomalyInit, Ingesting, NothingLater, AnnouncedOnce
<1>6. QED BY <1>3, <1>4, <1>5 DEF AnomalyInv

\* What a step leaves of the announcements, it leaves in order.
LEMMA CheckIs ==
  ASSUME AnomalyInv, NEW w \in Watchers, NEW s \in Series, NEW r \in Readings, Check(w, s, r)
  PROVE  AnomalyInv'
<1>1. PICK alerts : /\ alerts = Suspicious(s, r) \cup IF Bursting(Rolled(Append(statuses[s], r.ok), StatusSize))
                                                       THEN {"errors"} ELSE {}
                    /\ alerts \in SUBSET Kinds
  BY DEF Suspicious, Kinds, Metrics
<1>2. PICK step : step = [at |-> "add", s |-> s, reading |-> r, alerts |-> alerts, gen |-> resets[s], now |-> 0]
  OBVIOUS
<1>3. /\ watch[w].at = "idle" /\ taken' = taken + 1 /\ watch' = [watch EXCEPT ![w] = step]
      /\ chronicle' = IF Overlaps(w, s) THEN [chronicle EXCEPT !.mixed = @ \cup {s}] ELSE chronicle
      /\ baseline' = baseline /\ lastAlert' = lastAlert /\ ticks' = ticks /\ resets' = resets
  BY <1>1, <1>2 DEF Check
<1>4. AnomalyTypeOK
  BY DEF AnomalyInv
<1>5. step \in Ingest /\ step.at = "add" /\ step.s = s /\ step.reading = r
  BY <1>1, <1>2, <1>4 DEF Ingest, AnomalyTypeOK
<1>6. /\ watch' \in [Watchers -> Ingest] /\ watch'[w] = step
      /\ \A x \in Watchers : x # w => watch'[x] = watch[x]
  BY <1>3, <1>4, <1>5 DEF AnomalyTypeOK
<1>7. /\ chronicle'.added = chronicle.added /\ chronicle'.told = chronicle.told
      /\ chronicle'.mixed = IF Overlaps(w, s) THEN chronicle.mixed \cup {s} ELSE chronicle.mixed
      /\ chronicle' \in [added : [Series -> Stats], told : SUBSET Announcement, mixed : SUBSET Series]
  BY <1>3, <1>4 DEF AnomalyTypeOK
<1>8. AnomalyTypeOK'
  <2>1. taken' \in Nat
    BY <1>3, <1>4 DEF AnomalyTypeOK
  <2>2. QED BY <1>3, <1>4, <1>6, <1>7, <2>1 DEF AnomalyTypeOK
<1>9. BaselineIsRecent' /\ NothingLater' /\ AnnouncedOnce'
  BY <1>3, <1>7 DEF AnomalyInv, BaselineIsRecent, NothingLater, AnnouncedOnce
<1>10. Ingesting'
  <2> SUFFICES ASSUME NEW x \in Watchers, watch'[x].at # "idle"
               PROVE  /\ watch'[x].s \in Series /\ watch'[x].reading \in Readings
                      /\ watch'[x].at = "mark" => watch'[x].alerts # {}
                      /\ watch'[x].s \notin chronicle'.mixed =>
                           /\ \A y \in Watchers : watch'[y].at # "idle" /\ watch'[y].s = watch'[x].s => y = x
                           /\ watch'[x].at = "mark" => Due(x)'
    BY DEF Ingesting
  <2>1. CASE x = w
    <3>1. s \notin chronicle'.mixed => ~Overlaps(w, s)
      BY <1>7
    <3>2. QED BY <1>5, <1>6, <2>1, <3>1 DEF Overlaps
  <2>2. CASE x # w
    <3>1. watch'[x] = watch[x] /\ watch[x].at # "idle"
      BY <1>6, <2>2
    <3>2. watch[x].s = s => s \in chronicle'.mixed
      BY <1>7, <2>2, <3>1 DEF Overlaps
    <3>3. Due(x)' <=> Due(x)
      BY <1>3, <3>1 DEF Due
    <3>4. watch[x].s \notin chronicle'.mixed => watch[x].s \notin chronicle.mixed
      BY <1>7
    <3>5. QED BY <1>5, <1>6, <3>1, <3>2, <3>3, <3>4 DEF AnomalyInv, Ingesting
  <2>3. QED BY <2>1, <2>2
<1>11. QED BY <1>8, <1>9, <1>10 DEF AnomalyInv

\* A thread that goes on in its own ingest, marking or not, disturbs nobody else's.
LEMMA GoesOn ==
  ASSUME AnomalyInv, NEW w \in Watchers, NEW step \in Ingest, watch[w].at # "idle",
         watch' = [watch EXCEPT ![w] = step],
         step.at = "idle" \/ (step.s = watch[w].s /\ step.reading = watch[w].reading),
         step.at = "mark" => step.alerts # {} /\ (watch[w].s \notin chronicle.mixed => Due(w)'),
         chronicle'.mixed = chronicle.mixed,
         \A t \in Series : t # watch[w].s => lastAlert'[t] = lastAlert[t]
  PROVE  Ingesting'
<1>1. /\ watch'[w] = step /\ \A x \in Watchers : x # w => watch'[x] = watch[x]
  BY DEF AnomalyInv, AnomalyTypeOK
<1> SUFFICES ASSUME NEW x \in Watchers, watch'[x].at # "idle"
             PROVE  /\ watch'[x].s \in Series /\ watch'[x].reading \in Readings
                    /\ watch'[x].at = "mark" => watch'[x].alerts # {}
                    /\ watch'[x].s \notin chronicle'.mixed =>
                         /\ \A y \in Watchers : watch'[y].at # "idle" /\ watch'[y].s = watch'[x].s => y = x
                         /\ watch'[x].at = "mark" => Due(x)'
  BY DEF Ingesting
<1>2. CASE x = w
  BY <1>1, <1>2 DEF AnomalyInv, Ingesting
<1>3. CASE x # w
  <2>1. watch'[x] = watch[x] /\ watch[x].at # "idle" /\ watch[x].s \in Series
    BY <1>1, <1>3 DEF AnomalyInv, Ingesting
  <2>2. watch[x].s \notin chronicle.mixed => watch[x].s # watch[w].s
    BY <1>3, <2>1 DEF AnomalyInv, Ingesting
  <2>3. watch[x].s \notin chronicle.mixed => (Due(x)' <=> Due(x))
    BY <2>1, <2>2 DEF Due
  <2>4. QED BY <1>1, <2>1, <2>2, <2>3 DEF AnomalyInv, Ingesting
<1>4. QED BY <1>2, <1>3

LEMMA AddIs ==
  ASSUME AnomalyInv, NEW w \in Watchers, Add(w)
  PROVE  AnomalyInv'
<1>1. PICK s, r, old : s = watch[w].s /\ r = watch[w].reading /\ old = watch[w]
  OBVIOUS
<1>2. /\ old.at = "add" /\ s \in Series /\ r \in Readings /\ old \in Ingest
      /\ old.s = s /\ old.reading = r
  BY <1>1 DEF Add, AnomalyInv, AnomalyTypeOK, Ingesting
<1>3. PICK step : step = [old EXCEPT !.at = "look", !.now = ticks]
  OBVIOUS
<1>4. ticks \in Nat /\ step \in Ingest /\ step.at = "look" /\ step.s = s /\ step.reading = r
  BY <1>2, <1>3 DEF Ingest, AnomalyInv, AnomalyTypeOK
<1>5. watch' = [watch EXCEPT ![w] = step] /\ lastAlert' = lastAlert /\ ticks' = ticks
      /\ resets' = resets /\ taken' = taken
  BY <1>1, <1>3 DEF Add
<1>6. PICK grown : grown = Grown(chronicle.added[s], r)
  OBVIOUS
<1>7. PICK rolled : rolled = [m \in Metrics |-> Rolled(Grown(baseline[s], r)[m], BaselineSize)]
  OBVIOUS
<1>8. \/ baseline' = baseline /\ chronicle' = chronicle
      \/ /\ baseline' = [baseline EXCEPT ![s] = rolled]
         /\ chronicle' = [chronicle EXCEPT !.added[s] = grown]
  BY <1>1, <1>6, <1>7 DEF Add
<1>9. /\ chronicle \in [added : [Series -> Stats], told : SUBSET Announcement, mixed : SUBSET Series]
      /\ baseline \in [Series -> Stats]
  BY DEF AnomalyInv, AnomalyTypeOK
<1>10. ASSUME NEW m \in Metrics
       PROVE  /\ grown[m] \in Seq(Amounts) /\ rolled[m] \in Seq(Amounts)
              /\ Window(rolled[m], grown[m])
  <2>1. PICK all \in Seq(Amounts), seq \in Seq(Amounts) : all = chronicle.added[s][m] /\ seq = baseline[s][m]
    BY <1>2, <1>9 DEF Stats
  <2>2. Window(seq, all)
    BY <1>2, <2>1 DEF AnomalyInv, BaselineIsRecent, Window
  <2>3. r[m] \in Amounts
    BY <1>2 DEF Amounts
  <2>4. CASE m \in Seen(r)
    <3>1. grown[m] = Append(all, r[m]) /\ rolled[m] = Rolled(Append(seq, r[m]), BaselineSize)
      BY <1>6, <1>7, <2>1, <2>4 DEF Grown
    <3>2. QED BY <2>2, <2>3, <3>1, WindowMoves, AppendProperties
  <2>5. CASE m \notin Seen(r)
    <3>1. grown[m] = all /\ rolled[m] = Rolled(seq, BaselineSize)
      BY <1>6, <1>7, <2>1, <2>5 DEF Grown
    <3>2. Len(seq) <= BaselineSize
      <4>1. PICK n : n = IF Len(all) < BaselineSize THEN Len(all) ELSE BaselineSize
        OBVIOUS
      <4>2. n \in 0 .. Len(all) /\ n <= BaselineSize
        BY <4>1, AnomalyAssumption
      <4>3. seq = SubSeq(all, Len(all) - n + 1, Len(all))
        BY <2>2, <4>1 DEF Window
      <4>4. Len(seq) = n
        BY <4>2, <4>3, EndIs
      <4>5. QED BY <4>2, <4>4
    <3>3. rolled[m] = seq
      BY <3>1, <3>2, AnomalyAssumption DEF Rolled
    <3>4. QED BY <2>2, <3>1, <3>3
  <2>6. QED BY <2>4, <2>5
<1>11. grown \in Stats /\ rolled \in Stats
  BY <1>6, <1>7, <1>10 DEF Grown, Stats
<1>12. PICK lists \in [Series -> Stats] : lists = chronicle'.added
  BY <1>2, <1>8, <1>9, <1>11
<1>13. /\ chronicle'.told = chronicle.told /\ chronicle'.mixed = chronicle.mixed
       /\ baseline' \in [Series -> Stats]
       /\ chronicle' \in [added : [Series -> Stats], told : SUBSET Announcement, mixed : SUBSET Series]
  BY <1>2, <1>8, <1>9, <1>11
<1>14. ASSUME NEW t \in Series, NEW m \in Metrics PROVE Window(baseline'[t][m], chronicle'.added[t][m])
  <2>1. CASE baseline'[t] = baseline[t] /\ chronicle'.added[t] = chronicle.added[t]
    BY <2>1 DEF AnomalyInv, BaselineIsRecent, Window
  <2>2. CASE t = s /\ baseline'[t] = rolled /\ chronicle'.added[t] = grown
    BY <1>10, <2>2
  <2>3. QED BY <1>2, <1>8, <1>9, <2>1, <2>2
<1>15. BaselineIsRecent'
  BY <1>14 DEF BaselineIsRecent, Window
<1>16. Ingesting'
  BY <1>1, <1>2, <1>4, <1>5, <1>13, GoesOn
<1>17. watch' \in [Watchers -> Ingest]
  BY <1>4, <1>5 DEF AnomalyInv, AnomalyTypeOK
<1>18. AnomalyTypeOK'
  BY <1>5, <1>13, <1>17 DEF AnomalyInv, AnomalyTypeOK
<1>19. NothingLater' /\ AnnouncedOnce'
  BY <1>5, <1>13 DEF AnomalyInv, NothingLater, AnnouncedOnce
<1>20. QED BY <1>15, <1>16, <1>18, <1>19 DEF AnomalyInv

LEMMA LookUpIs ==
  ASSUME AnomalyInv, NEW w \in Watchers, LookUp(w)
  PROVE  AnomalyInv'
<1>1. PICK old \in Ingest : old = watch[w] /\ old.at = "look" /\ old.alerts # {}
  BY DEF LookUp, AnomalyInv, AnomalyTypeOK
<1>2. First(old.alerts) \in old.alerts /\ old.alerts \subseteq Kinds
  BY <1>1, FirstIs DEF Ingest
<1>3. PICK step : step = IF Due(w) THEN [old EXCEPT !.at = "mark"]
                         ELSE [old EXCEPT !.alerts = @ \ {First(@)}]
  OBVIOUS
<1>4. /\ step \in Ingest /\ step.s = old.s /\ step.reading = old.reading /\ step.now = old.now
      /\ step.at = "mark" => Due(w) /\ step.alerts = old.alerts
  BY <1>1, <1>3 DEF Ingest
<1>5. /\ watch' = [watch EXCEPT ![w] = step]
      /\ baseline' = baseline /\ lastAlert' = lastAlert /\ ticks' = ticks /\ resets' = resets
      /\ taken' = taken /\ chronicle' = chronicle
  BY <1>1, <1>3 DEF LookUp
<1>6. watch' \in [Watchers -> Ingest] /\ watch'[w] = step
  BY <1>4, <1>5 DEF AnomalyInv, AnomalyTypeOK
<1>7. step.at = "mark" => step.alerts # {} /\ Due(w)'
  BY <1>1, <1>4, <1>5, <1>6 DEF Due
<1>8. Ingesting'
  BY <1>1, <1>4, <1>5, <1>7, GoesOn
<1>9. AnomalyTypeOK' /\ BaselineIsRecent' /\ NothingLater' /\ AnnouncedOnce'
  BY <1>5, <1>6 DEF AnomalyInv, AnomalyTypeOK, BaselineIsRecent, NothingLater, AnnouncedOnce
<1>10. QED BY <1>8, <1>9 DEF AnomalyInv

LEMMA MarkIs ==
  ASSUME AnomalyInv, NEW w \in Watchers, Mark(w)
  PROVE  AnomalyInv'
<1>1. PICK old \in Ingest : /\ old = watch[w] /\ old.at = "mark" /\ old.alerts # {} /\ old.s \in Series
                            /\ old.s \notin chronicle.mixed => Due(w)
  BY DEF Mark, AnomalyInv, AnomalyTypeOK, Ingesting
<1>2. PICK s, k, instant : s = old.s /\ k = First(old.alerts) /\ instant = old.now
  OBVIOUS
<1>3. s \in Series /\ k \in Kinds /\ instant \in Nat /\ taken \in Nat /\ AlertCooldown \in Nat
  BY <1>1, <1>2, FirstIs, AnomalyAssumption DEF Ingest, AnomalyInv, AnomalyTypeOK
<1>4. PICK new \in Announcement : /\ new = [s |-> s, kind |-> k, now |-> instant, n |-> taken]
                                   /\ new.s = s /\ new.kind = k /\ new.now = instant
  <2>1. PICK n \in Nat : n = taken
    BY <1>3
  <2>2. [s |-> s, kind |-> k, now |-> instant, n |-> n] \in Announcement
    BY <1>3 DEF Announcement
  <2>3. QED BY <2>1, <2>2
<1>5. PICK step : step = [old EXCEPT !.at = "look", !.alerts = @ \ {First(@)}]
  OBVIOUS
<1>6. step \in Ingest /\ step.at = "look" /\ step.s = s /\ step.reading = old.reading
  BY <1>1, <1>2, <1>5 DEF Ingest
<1>7. /\ watch' = [watch EXCEPT ![w] = step] /\ lastAlert' = [lastAlert EXCEPT ![s][k] = instant]
      /\ chronicle' = [chronicle EXCEPT !.told = @ \cup {new}]
      /\ baseline' = baseline /\ ticks' = ticks /\ resets' = resets /\ taken' = taken
  BY <1>1, <1>2, <1>4, <1>5 DEF Mark
<1>8. /\ chronicle \in [added : [Series -> Stats], told : SUBSET Announcement, mixed : SUBSET Series]
      /\ lastAlert \in [Series -> [Kinds -> Nat]] /\ watch \in [Watchers -> Ingest]
  BY DEF AnomalyInv, AnomalyTypeOK
<1>9. /\ chronicle' \in [added : [Series -> Stats], told : SUBSET Announcement, mixed : SUBSET Series]
      /\ chronicle'.told = chronicle.told \cup {new} /\ chronicle'.mixed = chronicle.mixed
      /\ chronicle'.added = chronicle.added
  BY <1>7, <1>8
<1>10. /\ lastAlert' \in [Series -> [Kinds -> Nat]]
       /\ \A t \in Series, j \in Kinds : lastAlert'[t][j] = IF t = s /\ j = k THEN instant ELSE lastAlert[t][j]
       /\ \A t \in Series : t # s => lastAlert'[t] = lastAlert[t]
  BY <1>3, <1>7, <1>8
<1>11. watch' \in [Watchers -> Ingest]
  BY <1>6, <1>7, <1>8
<1>12. AnomalyTypeOK'
  BY <1>7, <1>9, <1>10, <1>11 DEF AnomalyInv, AnomalyTypeOK
<1>13. BaselineIsRecent'
  BY <1>7, <1>9 DEF AnomalyInv, BaselineIsRecent
<1>14. Ingesting'
  BY <1>1, <1>2, <1>6, <1>7, <1>9, <1>10, GoesOn
<1>15. ASSUME s \notin chronicle.mixed, NEW a \in chronicle.told, a.s = s, a.kind = k
       PROVE  a.now \in Nat /\ instant - a.now > AlertCooldown
  <2>1. instant - lastAlert[s][k] > AlertCooldown
    BY <1>1, <1>2, <1>15 DEF Due
  <2>2. a.now <= lastAlert[s][k]
    BY <1>15 DEF AnomalyInv, NothingLater
  <2>3. a.now \in Nat /\ lastAlert[s][k] \in Nat
    BY <1>3, <1>8, <1>15 DEF Announcement
  <2>4. QED BY <1>3, <2>1, <2>2, <2>3
<1>16. NothingLater'
  <2> SUFFICES ASSUME NEW a \in chronicle'.told, a.s \notin chronicle'.mixed
               PROVE  a.now <= lastAlert'[a.s][a.kind]
    BY DEF NothingLater
  <2>1. a.s \in Series /\ a.kind \in Kinds /\ a.now \in Nat
    BY <1>9 DEF Announcement
  <2>2. CASE a = new
    BY <1>3, <1>4, <1>10, <2>2
  <2>3. CASE a \in chronicle.told /\ ~(a.s = s /\ a.kind = k)
    BY <1>9, <1>10, <2>1, <2>3 DEF AnomalyInv, NothingLater
  <2>4. CASE a \in chronicle.told /\ a.s = s /\ a.kind = k
    <3>1. instant - a.now > AlertCooldown
      BY <1>9, <1>15, <2>4
    <3>2. lastAlert'[a.s][a.kind] = instant
      BY <1>3, <1>10, <2>4
    <3>3. QED BY <1>3, <2>1, <3>1, <3>2
  <2>5. QED BY <1>9, <2>2, <2>3, <2>4
<1>17. AnnouncedOnce'
  <2> SUFFICES ASSUME NEW a \in chronicle'.told, NEW b \in chronicle'.told,
                      a # b, a.s = b.s, a.kind = b.kind, a.s \notin chronicle'.mixed
               PROVE  a.now - b.now > AlertCooldown \/ b.now - a.now > AlertCooldown
    BY DEF AnnouncedOnce
  <2>1. CASE a \in chronicle.told /\ b \in chronicle.told
    BY <1>9, <2>1 DEF AnomalyInv, AnnouncedOnce
  <2>2. CASE a = new /\ b \in chronicle.told
    BY <1>4, <1>9, <1>15, <2>2
  <2>3. CASE b = new /\ a \in chronicle.told
    BY <1>4, <1>9, <1>15, <2>3
  <2>4. QED BY <1>9, <2>1, <2>2, <2>3
<1>18. QED BY <1>12, <1>13, <1>14, <1>16, <1>17 DEF AnomalyInv

LEMMA ReturnIs ==
  ASSUME AnomalyInv, NEW w \in Watchers, Return(w)
  PROVE  AnomalyInv'
<1>1. /\ watch' = [watch EXCEPT ![w] = Watching] /\ watch[w].at = "look"
      /\ baseline' = baseline /\ lastAlert' = lastAlert /\ ticks' = ticks /\ resets' = resets
      /\ taken' = taken /\ chronicle' = chronicle
  BY DEF Return
<1>2. Watching \in Ingest /\ Watching.at = "idle"
  BY DEF Watching, Ingest
<1>3. watch' \in [Watchers -> Ingest]
  BY <1>1, <1>2 DEF AnomalyInv, AnomalyTypeOK
<1>4. Ingesting'
  BY <1>1, <1>2, GoesOn
<1>5. AnomalyTypeOK' /\ BaselineIsRecent' /\ NothingLater' /\ AnnouncedOnce'
  BY <1>1, <1>3 DEF AnomalyInv, AnomalyTypeOK, BaselineIsRecent, NothingLater, AnnouncedOnce
<1>6. QED BY <1>4, <1>5 DEF AnomalyInv

\* Empty statistics are the window of nothing.
LEMMA EmptyWindow == NoStats \in Stats /\ \A m \in Metrics : Window(NoStats[m], NoStats[m])
<1>1. SubSeq(<<>>, 1, 0) = <<>>
  BY SubSeqEmpty
<1>2. Len(<<>>) = 0 /\ (IF 0 < BaselineSize THEN 0 ELSE BaselineSize) = 0
  BY AnomalyAssumption
<1>3. Window(<<>>, <<>>)
  BY <1>1, <1>2 DEF Window
<1>4. QED BY <1>3, EmptySeq DEF NoStats, Stats

LEMMA ResetSeriesIs ==
  ASSUME AnomalyInv, NEW s \in Series, ResetSeries(s)
  PROVE  AnomalyInv'
<1>1. /\ baseline' = [baseline EXCEPT ![s] = NoStats] /\ resets' = [resets EXCEPT ![s] = @ + 1]
      /\ chronicle' = [chronicle EXCEPT !.added[s] = NoStats]
      /\ lastAlert' = lastAlert /\ watch' = watch /\ ticks' = ticks /\ taken' = taken
  BY DEF ResetSeries
<1>2. AnomalyTypeOK
  BY DEF AnomalyInv
<1>3. /\ baseline' \in [Series -> Stats] /\ resets' \in [Series -> Nat]
      /\ chronicle' \in [added : [Series -> Stats], told : SUBSET Announcement, mixed : SUBSET Series]
      /\ chronicle'.told = chronicle.told /\ chronicle'.mixed = chronicle.mixed
  <2>1. PICK lists : lists = [chronicle.added EXCEPT ![s] = NoStats]
    OBVIOUS
  <2>2. lists \in [Series -> Stats] /\ chronicle' = [chronicle EXCEPT !.added = lists]
    BY <1>1, <1>2, <2>1, EmptyWindow DEF AnomalyTypeOK
  <2>3. baseline' \in [Series -> Stats] /\ resets' \in [Series -> Nat]
    BY <1>1, <1>2, EmptyWindow DEF AnomalyTypeOK
  <2>4. QED BY <1>2, <2>2, <2>3 DEF AnomalyTypeOK
<1>4. ASSUME NEW t \in Series, NEW m \in Metrics PROVE Window(baseline'[t][m], chronicle'.added[t][m])
  <2>1. CASE t = s
    BY <1>1, <1>2, <2>1, EmptyWindow DEF AnomalyTypeOK
  <2>2. CASE t # s
    <3>1. baseline'[t] = baseline[t] /\ chronicle'.added[t] = chronicle.added[t]
      BY <1>1, <1>2, <2>2 DEF AnomalyTypeOK
    <3>2. QED BY <3>1 DEF AnomalyInv, BaselineIsRecent, Window
  <2>3. QED BY <2>1, <2>2
<1>5. BaselineIsRecent'
  BY <1>4 DEF BaselineIsRecent, Window
<1>6. AnomalyTypeOK' /\ Ingesting' /\ NothingLater' /\ AnnouncedOnce'
  BY <1>1, <1>3 DEF AnomalyInv, AnomalyTypeOK, Ingesting, Due, NothingLater, AnnouncedOnce
<1>7. QED BY <1>5, <1>6 DEF AnomalyInv

LEMMA ResetAllIs ==
  ASSUME AnomalyInv, ResetAll
  PROVE  AnomalyInv'
<1>1. PICK mixed : mixed = chronicle.mixed \cup {s \in Series : \E w \in Watchers : watch[w].at # "idle" /\ watch[w].s = s}
  OBVIOUS
<1>2. /\ baseline' = [s \in Series |-> NoStats] /\ resets' = [s \in Series |-> resets[s] + 1]
      /\ lastAlert' = [s \in Series |-> [k \in Kinds |-> 0]]
      /\ chronicle' = [added |-> [s \in Series |-> NoStats], told |-> {}, mixed |-> mixed]
      /\ watch' = watch /\ ticks' = ticks /\ taken' = taken
  BY <1>1, KindsAre DEF ResetAll
<1>3. AnomalyTypeOK
  BY DEF AnomalyInv
<1>4. AnomalyTypeOK'
  <2>1. mixed \subseteq Series
    BY <1>1, <1>3 DEF AnomalyTypeOK
  <2>2. QED BY <1>2, <1>3, <2>1, EmptyWindow DEF AnomalyTypeOK
<1>5. BaselineIsRecent'
  BY <1>2, EmptyWindow DEF BaselineIsRecent, Window
<1>6. NothingLater' /\ AnnouncedOnce'
  BY <1>2 DEF NothingLater, AnnouncedOnce
<1>7. Ingesting'
  BY <1>1, <1>2 DEF AnomalyInv, Ingesting
<1>8. QED BY <1>4, <1>5, <1>6, <1>7 DEF AnomalyInv

LEMMA AnomalyInvStep == AnomalyInv /\ [AnomalyNext]_anovars => AnomalyInv'
<1>1. ASSUME AnomalyInv, TicksPass PROVE AnomalyInv'
  BY <1>1 DEF TicksPass, AnomalyInv, AnomalyTypeOK, BaselineIsRecent, Ingesting, Due, NothingLater, AnnouncedOnce
<1>2. ASSUME AnomalyInv, UNCHANGED anovars PROVE AnomalyInv'
  BY <1>2 DEF anovars, AnomalyInv, AnomalyTypeOK, BaselineIsRecent, Ingesting, Due, NothingLater, AnnouncedOnce
<1>3. QED BY <1>1, <1>2, CheckIs, AddIs, LookUpIs, MarkIs, ReturnIs, ResetSeriesIs, ResetAllIs DEF AnomalyNext

\* However many threads record calls while baselines are reset: a series is measured
\* against the last readings added since its reset, in their order, and one kind of
\* anomaly is announced once per cooldown, unless two ingests of the series overlapped.
THEOREM AnomaliesAreSound == AnomalySpec => []AnomalySound
<1>1. AnomalyInv => AnomalySound
  BY DEF AnomalyInv, AnomalySound
<1>2. QED BY AnomalyInvInit, AnomalyInvStep, <1>1, PTL DEF AnomalySpec

-----------------------------------------------------------------------------
(* Feedback *)

GivenFeedback == [n : Nat, trace : DOMAIN TraceInfo, score : {-1, 0, 1}, org : Tenants]

FeedbackInv ==
    /\ feedback \subseteq GivenFeedback /\ IsFiniteSet(feedback)
    /\ traceRows \in Seq(DOMAIN TraceInfo)
    /\ given \in Nat /\ removals \in Seq(1 .. given)
    /\ DOMAIN rater = Raters /\ \A r \in Raters : rater[r] \in 0 .. given
    /\ DeletedForGood

LEMMA FeedbackInvInit == FeedbackInit => FeedbackInv
<1> SUFFICES ASSUME FeedbackInit PROVE FeedbackInv
  OBVIOUS
<1>1. given = 0 /\ removals = <<>> /\ feedback = {} /\ traceRows = <<>>
  BY DEF FeedbackInit
<1>2. DeletedForGood
  BY <1>1 DEF DeletedForGood, ToSet
<1>3. traceRows \in Seq(DOMAIN TraceInfo) /\ removals \in Seq(1 .. given) /\ IsFiniteSet(feedback)
  BY <1>1, EmptySeq, FS_EmptySet
<1>4. DOMAIN rater = Raters /\ \A r \in Raters : rater[r] \in 0 .. given
  BY <1>1 DEF FeedbackInit
<1>5. QED BY <1>1, <1>2, <1>3, <1>4 DEF FeedbackInv

LEMMA FeedbackInvStep == FeedbackInv /\ [FeedbackNext]_fbvars => FeedbackInv'
<1> SUFFICES ASSUME FeedbackInv, [FeedbackNext]_fbvars PROVE FeedbackInv'
  OBVIOUS
<1>1. given \in Nat /\ IsFiniteSet(feedback) /\ feedback \subseteq GivenFeedback /\ removals \in Seq(1 .. given)
  BY DEF FeedbackInv
<1>2. ASSUME NEW trace \in DOMAIN TraceInfo, NEW score \in Scores, NEW org \in Tenants, Submit(trace, score, org)
      PROVE  FeedbackInv'
  <2>1. PICK f : f = [n |-> given + 1, trace |-> trace, score |-> score, org |-> org]
    OBVIOUS
  <2>2. /\ given' = given + 1 /\ feedback' = feedback \cup {f} /\ traceRows' = traceRows /\ rater' = rater
        /\ removals' = removals /\ score \in {-1, 0, 1}
    BY <1>2, <2>1 DEF Submit, ValidScore
  <2>3. f \in GivenFeedback /\ f.n = given + 1
    BY <1>1, <2>1, <2>2 DEF GivenFeedback
  <2>4. IsFiniteSet(feedback')
    BY <1>1, <2>2, FS_AddElement
  <2>5. removals \in Seq(1 .. given + 1) /\ ToSet(removals) \subseteq 1 .. given
    <3>1. 1 .. given \subseteq 1 .. given + 1
      BY <1>1
    <3>2. removals \in Seq(1 .. given + 1)
      BY <1>1, <3>1, SeqMonotonic
    <3>3. \A i \in DOMAIN removals : removals[i] \in 1 .. given
      BY <1>1, ElementOfSeq
    <3>4. QED BY <3>2, <3>3 DEF ToSet
  <2>6. {g.n : g \in feedback'} = {g.n : g \in feedback} \cup {given + 1}
    BY <2>2, <2>3
  <2>7. 1 .. given + 1 = (1 .. given) \cup {given + 1} /\ given + 1 \notin 1 .. given
    BY <1>1
  <2>8. DeletedForGood'
    BY <2>2, <2>5, <2>6, <2>7 DEF FeedbackInv, DeletedForGood
  <2>9. \A r \in Raters : rater'[r] \in 0 .. given'
    BY <1>1, <2>2 DEF FeedbackInv
  <2>10. QED BY <1>1, <2>2, <2>3, <2>4, <2>5, <2>8, <2>9 DEF FeedbackInv
<1>3. ASSUME NEW trace \in DOMAIN TraceInfo, StoreTrace(trace) PROVE FeedbackInv'
  <2>1. traceRows' \in Seq(DOMAIN TraceInfo)
    BY <1>3, AppendProperties DEF StoreTrace, FeedbackInv
  <2>2. QED BY <1>3, <2>1 DEF StoreTrace, FeedbackInv, DeletedForGood
<1>4. ASSUME NEW r \in Raters, NEW n \in 1 .. given, FindFeedback(r, n) PROVE FeedbackInv'
  BY <1>4 DEF FindFeedback, FeedbackInv, DeletedForGood
<1>5. ASSUME NEW r \in Raters, RemoveFeedback(r) PROVE FeedbackInv'
  <2>1. PICK n : n = rater[r] /\ n \in 1 .. given
    BY <1>1, <1>5 DEF RemoveFeedback, FeedbackInv
  <2>2. /\ feedback' = {f \in feedback : f.n # n} /\ removals' = Append(removals, n)
        /\ rater' = [rater EXCEPT ![r] = 0] /\ traceRows' = traceRows /\ given' = given
    BY <1>5, <2>1 DEF RemoveFeedback
  <2>3. IsFiniteSet(feedback')
    BY <1>1, <2>2, FS_Subset
  <2>4. removals' \in Seq(1 .. given)
    BY <1>1, <2>1, <2>2, AppendProperties
  <2>5. ToSet(removals') = ToSet(removals) \cup {n}
    <3>1. Len(removals') = Len(removals) + 1 /\ removals'[Len(removals) + 1] = n
          /\ \A i \in 1 .. Len(removals) : removals'[i] = removals[i]
      BY <1>1, <2>1, <2>2, AppendProperties
    <3>2. DOMAIN removals = 1 .. Len(removals) /\ DOMAIN removals' = 1 .. Len(removals')
          /\ Len(removals) \in Nat
      BY <1>1, <2>4
    <3>3. DOMAIN removals' = DOMAIN removals \cup {Len(removals) + 1}
      BY <3>1, <3>2
    <3>4. QED BY <3>1, <3>2, <3>3 DEF ToSet
  <2>6. {f.n : f \in feedback'} = {f.n : f \in feedback} \ {n}
    BY <2>2
  <2>7. DeletedForGood'
    BY <2>2, <2>5, <2>6 DEF FeedbackInv, DeletedForGood
  <2>8. DOMAIN rater' = Raters /\ \A q \in Raters : rater'[q] \in 0 .. given
    BY <1>1, <2>2 DEF FeedbackInv
  <2>9. QED BY <1>1, <2>2, <2>3, <2>4, <2>7, <2>8 DEF FeedbackInv
<1>6. CASE UNCHANGED fbvars
  BY <1>6 DEF fbvars, FeedbackInv, DeletedForGood
<1>7. QED BY <1>2, <1>3, <1>4, <1>5, <1>6 DEF FeedbackNext

-----------------------------------------------------------------------------
\* A finite set has as many members as its classes together.
LEMMA ClassesCount ==
  ASSUME NEW S, IsFiniteSet(S), NEW C, IsFiniteSet(C), NEW class \in [S -> C],
         NEW f, f = [c \in C |-> Cardinality({x \in S : class[x] = c})]
  PROVE  SumFunction(f) = Cardinality(S)
<1>1. PICK one : one = [x \in S |-> 1]
  OBVIOUS
<1>2. ASSUME NEW T \in SUBSET S PROVE SumFunctionOnSet(one, T) = Cardinality(T)
  <2> DEFINE Good == {U \in SUBSET S : SumFunctionOnSet(one, U) = Cardinality(U)}
  <2>1. {} \in Good
    BY SumEmpty, FS_EmptySet
  <2>2. ASSUME NEW U \in SUBSET T, U # {}, U \ {Chosen(U)} \in Good PROVE U \in Good
    <3>1. PICK x, V : x = Chosen(U) /\ V = U \ {x}
      OBVIOUS
    <3>2. x \in U /\ x \notin V /\ U = V \cup {x} /\ IsFiniteSet(U) /\ IsFiniteSet(V)
      BY <2>2, <3>1, ChosenIn, FS_Subset
    <3>3. SumFunctionOnSet(one, V) = Cardinality(V)
      BY <2>2, <3>1
    <3>4. \A y \in V \cup {x} : one[y] = 1
      BY <1>1, <3>1, <3>2
    <3>5. SumFunctionOnSet(one, V \cup {x}) = 1 + SumFunctionOnSet(one, V)
      BY <3>2, <3>4, SumAdd
    <3>6. Cardinality(V \cup {x}) = Cardinality(V) + 1 /\ Cardinality(V) \in Nat
      BY <3>2, FS_AddElement, FS_CardinalityType
    <3>7. U \in SUBSET S
      OBVIOUS
    <3>8. QED BY <3>2, <3>3, <3>5, <3>6, <3>7
  <2>3. IsFiniteSet(T)
    BY FS_Subset
  <2> HIDE DEF Good
  <2>4. T \in Good
    BY <2>1, <2>2, <2>3, ChosenInduction
  <2>5. QED BY <2>4 DEF Good
<1>3. \A x \in S : one[x] \in Int
  BY <1>1
<1>4. SumFunctionOnSet([c \in C |-> SumFunctionOnSet(one, {x \in S : class[x] = c})], C) = SumFunctionOnSet(one, S)
  BY <1>3, SumPartition
<1>5. f = [c \in C |-> SumFunctionOnSet(one, {x \in S : class[x] = c})]
  BY <1>2
<1>6. DOMAIN f = C /\ SumFunctionOnSet(one, S) = Cardinality(S)
  BY <1>2
<1>7. QED BY <1>4, <1>5, <1>6 DEF SumFunction

LEMMA ImageIsFinite ==
  ASSUME NEW S, IsFiniteSet(S), NEW f, DOMAIN f = S
  PROVE  IsFiniteSet({f[x] : x \in S})
<1>1. PICK g : g = [x \in S |-> f[x]]
  OBVIOUS
<1>2. g \in Surjection(S, {f[x] : x \in S})
  BY <1>1 DEF Surjection
<1>3. QED BY <1>2, FS_Surjection

\* The pairs of the join, by the trace of each.
LEMMA JoinedIs ==
  ASSUME FeedbackInv
  PROVE  /\ IsFiniteSet(Joined)
         /\ \A p \in Joined : /\ p[1] \in feedback /\ p[2] \in DOMAIN traceRows /\ p = <<p[1], p[2]>>
                              /\ p[1].trace \in DOMAIN TraceInfo /\ p[1].trace = traceRows[p[2]]
                              /\ p[1].org \in Tenants
         /\ \A f \in feedback, i \in DOMAIN traceRows : f.trace = traceRows[i] => <<f, i>> \in Joined
<1>1. IsFiniteSet(feedback) /\ feedback \subseteq GivenFeedback
  BY DEF FeedbackInv
<1>2. DOMAIN traceRows = 1 .. Len(traceRows) /\ Len(traceRows) \in Nat
  BY DEF FeedbackInv
<1>3. IsFiniteSet(DOMAIN traceRows)
  BY <1>2, FS_Interval
<1>4. IsFiniteSet(feedback \X DOMAIN traceRows)
  BY <1>1, <1>3, FS_Product
<1>5. IsFiniteSet(Joined)
  BY <1>4, FS_Subset DEF Joined
<1>6. QED BY <1>1, <1>5 DEF Joined, GivenFeedback

\* A line counts its rows, and no more positive and negative ones than there are.
LEMMA LineIs ==
  ASSUME NEW rows, IsFiniteSet(rows)
  PROVE  /\ QualityOf(rows).total = Cardinality(rows)
         /\ QualityOf(rows).positive + QualityOf(rows).negative <= QualityOf(rows).total
<1>1. PICK up, down : up = {p \in rows : p[1].score = 1} /\ down = {p \in rows : p[1].score = -1}
  OBVIOUS
<1>2. /\ QualityOf(rows).total = Cardinality(rows) /\ QualityOf(rows).positive = Cardinality(up)
      /\ QualityOf(rows).negative = Cardinality(down)
  BY <1>1 DEF QualityOf
<1>3. up \cap down = {} /\ up \cup down \subseteq rows
  BY <1>1
<1>4. IsFiniteSet(up) /\ IsFiniteSet(down)
  BY <1>3, FS_Subset
<1>5. Cardinality(up \cup down) = Cardinality(up) + Cardinality(down) - Cardinality(up \cap down)
  BY <1>4, FS_Union
<1>6. Cardinality(up \cap down) = 0
  BY <1>3, FS_EmptySet
<1>7. Cardinality(up \cup down) <= Cardinality(rows)
  BY <1>3, FS_Subset
<1>8. Cardinality(up) \in Nat /\ Cardinality(down) \in Nat
  BY <1>4, FS_CardinalityType
<1>9. QED BY <1>2, <1>5, <1>6, <1>7, <1>8

\* What has arrived is seen in the join, and once if nothing was stored twice.
LEMMA ArrivedIs ==
  ASSUME FeedbackInv
  PROVE  /\ Cardinality(Arrived) \in Nat /\ Cardinality(Arrived) <= Cardinality(Joined)
         /\ NoneResent => Cardinality(Arrived) = Cardinality(Joined)
<1>1. PICK first : first = [p \in Joined |-> p[1]]
  OBVIOUS
<1>2. DOMAIN traceRows = 1 .. Len(traceRows) /\ Len(traceRows) \in Nat
  BY DEF FeedbackInv
<1>3. ASSUME NEW trace
      PROVE  /\ TimesStored(trace) \in Nat
             /\ TimesStored(trace) > 0 <=> \E i \in DOMAIN traceRows : traceRows[i] = trace
             /\ TimesStored(trace) <= 1 =>
                  \A i, j \in DOMAIN traceRows : traceRows[i] = trace /\ traceRows[j] = trace => i = j
  <2>1. PICK places : places = {i \in DOMAIN traceRows : traceRows[i] = trace}
    OBVIOUS
  <2>2. IsFiniteSet(places)
    <3>1. IsFiniteSet(1 .. Len(traceRows))
      BY <1>2, FS_Interval
    <3>2. QED BY <1>2, <2>1, <3>1, FS_Subset
  <2>3. TimesStored(trace) = Cardinality(places) /\ Cardinality(places) \in Nat
    BY <2>1, <2>2, FS_CardinalityType DEF TimesStored
  <2>4. Cardinality(places) = 0 <=> places = {}
    BY <2>2, FS_EmptySet
  <2>5. Cardinality(places) = 1 <=> \E x : places = {x}
    BY <2>2, FS_Singleton
  <2>6. TimesStored(trace) <= 1 => \A i, j \in places : i = j
    BY <2>3, <2>4, <2>5
  <2>7. QED BY <2>1, <2>3, <2>4, <2>6
<1>4. Arrived = {f \in feedback : \E i \in DOMAIN traceRows : f.trace = traceRows[i]}
  BY <1>3 DEF Arrived
<1>5. first \in Surjection(Joined, Arrived)
  <2>1. \A p \in Joined : first[p] \in Arrived
    BY <1>1, <1>4, JoinedIs
  <2>2. \A f \in Arrived : \E p \in Joined : first[p] = f
    <3> SUFFICES ASSUME NEW f \in Arrived PROVE \E p \in Joined : first[p] = f
      OBVIOUS
    <3>1. PICK i \in DOMAIN traceRows : f.trace = traceRows[i] /\ f \in feedback
      BY <1>4
    <3>2. <<f, i>> \in Joined
      BY <3>1, JoinedIs
    <3>3. first[<<f, i>>] = f
      BY <1>1, <3>2
    <3>4. QED BY <3>2, <3>3
  <2>3. QED BY <1>1, <2>1, <2>2 DEF Surjection
<1>6. IsFiniteSet(Joined)
  BY JoinedIs
<1>7. /\ IsFiniteSet(Arrived) /\ Cardinality(Arrived) <= Cardinality(Joined)
      /\ Cardinality(Arrived) = Cardinality(Joined) <=> first \in Injection(Joined, Arrived)
  BY <1>5, <1>6, FS_Surjection
<1>8. ASSUME NoneResent PROVE first \in Injection(Joined, Arrived)
  <2>1. ASSUME NEW p \in Joined, NEW q \in Joined, p[1] = q[1] PROVE p = q
    <3>1. PICK f \in feedback, i \in DOMAIN traceRows, k \in DOMAIN traceRows :
             /\ p = <<f, i>> /\ q = <<f, k>> /\ f.trace = traceRows[i] /\ f.trace = traceRows[k]
             /\ f.trace \in DOMAIN TraceInfo
      BY <2>1, JoinedIs
    <3>2. TimesStored(f.trace) <= 1
      BY <1>8, <3>1 DEF NoneResent
    <3>3. i = k
      BY <1>3, <3>1, <3>2
    <3>4. QED BY <3>1, <3>3
  <2>2. IsInjective(first)
    BY <1>1, <2>1 DEF IsInjective
  <2>3. first \in [Joined -> Arrived]
    BY <1>5 DEF Surjection
  <2>4. QED BY <2>2, <2>3 DEF Injection
<1>9. Cardinality(Arrived) \in Nat
  BY <1>7, FS_CardinalityType
<1>10. QED BY <1>7, <1>8, <1>9

\* The lines of a partition of some rows add up to the rows.
LEMMA LinesAddUp ==
  ASSUME NEW rows, IsFiniteSet(rows), NEW C, IsFiniteSet(C), NEW class \in [rows -> C],
         NEW f, f = [c \in C |-> QualityOf({p \in rows : class[p] = c}).total]
  PROVE  SumFunction(f) = Cardinality(rows)
<1>1. f = [c \in C |-> Cardinality({p \in rows : class[p] = c})]
  BY DEF QualityOf
<1>2. SumFunction([c \in C |-> Cardinality({p \in rows : class[p] = c})]) = Cardinality(rows)
  BY ClassesCount
<1>3. QED BY <1>1, <1>2

LEMMA QualityIsSound == FeedbackInv => QualityAddsUp
<1> SUFFICES ASSUME FeedbackInv PROVE QualityAddsUp
  OBVIOUS
<1>1. IsFiniteSet(Joined) /\ IsFiniteSet(DOMAIN TraceInfo) /\ IsFiniteSet(Tenants) /\ IsFiniteSet(feedback)
      /\ Cardinality(Joined) \in Nat
  BY FeedbackAssumption, JoinedIs, FS_CardinalityType DEF FeedbackInv
<1>2. \A S \in SUBSET Joined : IsFiniteSet(S)
  BY <1>1, FS_Subset
<1>3. SumFunction([t \in DOMAIN TraceInfo |-> TraceScore(t).total]) = FeedbackSummary.total
  <2>1. PICK class : class = [f \in feedback |-> f.trace]
    OBVIOUS
  <2>2. class \in [feedback -> DOMAIN TraceInfo]
    BY <2>1 DEF FeedbackInv, GivenFeedback
  <2>3. \A t : {f \in feedback : f.trace = t} = {f \in feedback : class[f] = t}
    BY <2>1
  <2>4. [t \in DOMAIN TraceInfo |-> TraceScore(t).total]
          = [t \in DOMAIN TraceInfo |-> Cardinality({f \in feedback : class[f] = t})]
    BY <2>3 DEF TraceScore, Counts
  <2>5. FeedbackSummary.total = Cardinality(feedback)
    BY DEF FeedbackSummary, Counts
  <2>6. QED BY <1>1, <2>2, <2>4, <2>5, ClassesCount
<1>4. SumFunction([m \in DOMAIN QualityByModel |-> QualityByModel[m].total]) = Cardinality(Joined)
  <2>1. PICK C : C = {m \in Models : ModelQuality(m).total > 0}
    OBVIOUS
  <2>2. PICK class : class = [p \in Joined |-> About(p).model]
    OBVIOUS
  <2>3. IsFiniteSet(C)
    <3>1. PICK model : model = [t \in DOMAIN TraceInfo |-> TraceInfo[t].model]
      OBVIOUS
    <3>2. IsFiniteSet({model[t] : t \in DOMAIN TraceInfo})
      BY <1>1, <3>1, ImageIsFinite
    <3>3. Models = {model[t] : t \in DOMAIN TraceInfo}
      BY <3>1 DEF Models
    <3>4. C \in SUBSET Models
      BY <2>1
    <3>5. QED BY <3>2, <3>3, <3>4, FS_Subset
  <2>4. \A m : {p \in Joined : About(p).model = m} = {p \in Joined : class[p] = m}
    BY <2>2
  <2>5. ASSUME NEW p \in Joined PROVE class[p] \in C
    <3>1. class[p] \in Models
      BY <2>2, JoinedIs DEF Models, About
    <3>2. PICK rows : rows = {q \in Joined : About(q).model = class[p]}
      OBVIOUS
    <3>3. p \in rows /\ IsFiniteSet(rows)
      BY <1>2, <2>2, <3>2
    <3>4. Cardinality(rows) \in Nat /\ Cardinality(rows) # 0
      BY <3>3, FS_CardinalityType, FS_EmptySet
    <3>5. ModelQuality(class[p]).total = Cardinality(rows)
      BY <3>2, <3>3, LineIs DEF ModelQuality
    <3>6. QED BY <2>1, <3>1, <3>4, <3>5
  <2>6. class \in [Joined -> C]
    BY <2>2, <2>5
  <2>7. DOMAIN QualityByModel = C
    BY <2>1 DEF QualityByModel
  <2>8. [m \in DOMAIN QualityByModel |-> QualityByModel[m].total]
          = [m \in C |-> QualityOf({p \in Joined : class[p] = m}).total]
    <3>1. \A m \in C : QualityByModel[m] = QualityOf({p \in Joined : class[p] = m})
      BY <2>1, <2>4 DEF QualityByModel, ModelQuality
    <3>2. QED BY <2>7, <3>1
  <2>9. QED BY <1>1, <2>3, <2>6, <2>8, LinesAddUp
<1>5. SumFunction([v \in DOMAIN QualityByVersion |-> QualityByVersion[v].total]) <= Cardinality(Joined)
  <2>1. PICK rows : rows = {p \in Joined : About(p).version # Unversioned}
    OBVIOUS
  <2>2. PICK class : class = [p \in rows |-> About(p).version]
    OBVIOUS
  <2>3. PICK C : C = {class[p] : p \in rows}
    OBVIOUS
  <2>4. rows \in SUBSET Joined /\ IsFiniteSet(rows)
    BY <1>2, <2>1
  <2>5. IsFiniteSet(C)
    BY <2>2, <2>3, <2>4, ImageIsFinite
  <2>6. class \in [rows -> C]
    BY <2>2, <2>3
  <2>7. DOMAIN QualityByVersion = C
    BY <2>1, <2>2, <2>3 DEF QualityByVersion
  <2>8. \A v : {p \in rows : About(p).version = v} = {p \in rows : class[p] = v}
    BY <2>2
  <2>9. \A v \in C : QualityByVersion[v] = QualityOf({p \in rows : class[p] = v})
    BY <2>1, <2>7, <2>8 DEF QualityByVersion
  <2>10. [v \in DOMAIN QualityByVersion |-> QualityByVersion[v].total]
          = [v \in C |-> QualityOf({p \in rows : class[p] = v}).total]
    BY <2>7, <2>9
  <2>11. SumFunction([v \in DOMAIN QualityByVersion |-> QualityByVersion[v].total]) = Cardinality(rows)
    BY <2>4, <2>5, <2>6, <2>10, LinesAddUp
  <2>12. Cardinality(rows) <= Cardinality(Joined)
    BY <1>1, <2>4, FS_Subset
  <2>13. QED BY <2>11, <2>12
<1>6. PICK projects : projects = {TraceInfo[t].project : t \in DOMAIN TraceInfo}
  OBVIOUS
<1>7. ASSUME NEW m \in Models
      PROVE  /\ ModelQuality(m).positive + ModelQuality(m).negative <= ModelQuality(m).total
             /\ SumFunction([p \in projects |-> ProjectQuality(p, m).total]) = ModelQuality(m).total
             /\ SumFunction([o \in Tenants |-> Cardinality(ListFeedback(o, m))]) = ModelQuality(m).total
  <2>1. PICK rows : rows = {p \in Joined : About(p).model = m}
    OBVIOUS
  <2>2. IsFiniteSet(rows) /\ ModelQuality(m) = QualityOf(rows)
    BY <1>2, <2>1 DEF ModelQuality
  <2>3. QualityOf(rows).total = Cardinality(rows)
        /\ QualityOf(rows).positive + QualityOf(rows).negative <= QualityOf(rows).total
    BY <2>2, LineIs
  <2>4. SumFunction([p \in projects |-> ProjectQuality(p, m).total]) = Cardinality(rows)
    <3>1. PICK class : class = [p \in rows |-> About(p).project]
      OBVIOUS
    <3>2. IsFiniteSet(projects)
      <4>1. PICK project : project = [t \in DOMAIN TraceInfo |-> TraceInfo[t].project]
        OBVIOUS
      <4>2. projects = {project[t] : t \in DOMAIN TraceInfo}
        BY <1>6, <4>1
      <4>3. QED BY <1>1, <4>1, <4>2, ImageIsFinite
    <3>3. class \in [rows -> projects]
      BY <1>6, <2>1, <3>1, JoinedIs DEF About
    <3>4. \A p : {q \in Joined : About(q).model = m /\ About(q).project = p} = {q \in rows : class[q] = p}
      BY <2>1, <3>1
    <3>5. [p \in projects |-> ProjectQuality(p, m).total]
            = [p \in projects |-> QualityOf({q \in rows : class[q] = p}).total]
      BY <3>4 DEF ProjectQuality
    <3>6. QED BY <2>2, <3>2, <3>3, <3>5, LinesAddUp
  <2>5. SumFunction([o \in Tenants |-> Cardinality(ListFeedback(o, m))]) = Cardinality(rows)
    <3>1. PICK class : class = [p \in rows |-> p[1].org]
      OBVIOUS
    <3>2. class \in [rows -> Tenants]
      BY <2>1, <3>1, JoinedIs
    <3>3. \A o : {p \in Joined : About(p).model = m /\ p[1].org = o} = {p \in rows : class[p] = o}
      BY <2>1, <3>1
    <3>4. [o \in Tenants |-> Cardinality(ListFeedback(o, m))]
            = [o \in Tenants |-> Cardinality({p \in rows : class[p] = o})]
      BY <3>3 DEF ListFeedback
    <3>5. QED BY <1>1, <2>2, <3>2, <3>4, ClassesCount
  <2>6. QED BY <2>2, <2>3, <2>4, <2>5
<1>8. QED BY <1>3, <1>4, <1>5, <1>6, <1>7, ArrivedIs DEF QualityAddsUp

\* However feedback, traces and deletions come: counted by model, project, prompt
\* version or tenant, the lines add up to the feedback whose trace has arrived, more
\* only where a trace was stored twice; and what was deleted is gone, nothing else.
THEOREM FeedbackIsSound == FeedbackSpec => []FeedbackSound
<1>1. FeedbackInv => FeedbackSound
  BY QualityIsSound DEF FeedbackInv, FeedbackSound
<1>2. QED BY FeedbackInvInit, FeedbackInvStep, <1>1, PTL DEF FeedbackSpec

-----------------------------------------------------------------------------
(* Ingestion *)

\* A trace that reports can be drawn from.
IsCall(t) ==
    /\ t.model \in Int \ {0} /\ t.project \in Int /\ t.tokens \in Nat /\ t.cost \in Nat /\ t.at \in Int
    /\ t.model \in DOMAIN Tariff => (t.tokens > 0 /\ Tariff[t.model] > 0 => t.cost > 0)

\* A request is waiting, or has so much of a payload behind it.
RequestOK(r) ==
    \/ r = Waiting
    \/ /\ r.payload \in DOMAIN Payloads /\ r.count \in Nat
       /\ r = [payload |-> r.payload, left |-> r.left, count |-> r.count]
       /\ r.left \subseteq DOMAIN TracesOf(r.payload)
       /\ r.count + Cardinality(r.left) = Cardinality(DOMAIN TracesOf(r.payload))

IngestTypeOK ==
    /\ stored \in Seq(AllTraces)
    /\ DOMAIN client = Clients /\ \A c \in Clients : RequestOK(client[c])
    /\ acks \in [DOMAIN Payloads -> Seq(Nat)]
    /\ sent \in [DOMAIN Payloads -> Nat]

\* The copies of t that a request has stored, and those it has still to store.
Kept(r, t) ==
    IF r.payload = NoValue THEN 0
    ELSE Cardinality({i \in DOMAIN TracesOf(r.payload) \ r.left : TracesOf(r.payload)[i] = t})
Coming(r, t) ==
    IF r.payload = NoValue THEN 0
    ELSE Cardinality({i \in r.left : TracesOf(r.payload)[i] = t})

KeptAll(t) == SumFunction([c \in Clients |-> Kept(client[c], t)])
ComingAll(t) == SumFunction([c \in Clients |-> Coming(client[c], t)])
AckedOf(t) == SumFunction([p \in DOMAIN Payloads |-> Len(acks[p]) * InPayload(t, p)])
SentOf(t) == SumFunction([p \in DOMAIN Payloads |-> sent[p] * InPayload(t, p)])

\* Each copy that was answered for, or that a request under way has stored, is there,
\* and each that is there, or that a request has still to store, was sent.
IngestInv ==
    /\ IngestTypeOK
    /\ \A t \in AllTraces : /\ AckedOf(t) + KeptAll(t) <= Copies(t)
                            /\ Copies(t) + ComingAll(t) <= SentOf(t)
    /\ \A p \in DOMAIN Payloads : \A i \in DOMAIN acks[p] :
         acks[p][i] = Cardinality(DOMAIN TracesOf(p))

LEMMA MatchIs ==
  ASSUME NEW span, \A key \in DOMAIN span.attrs : span.attrs[key] \in Int,
         NEW keys, DOMAIN keys \subseteq Nat, NEW default
  PROVE  FirstMatch(span, keys, default) \in Int \cup {default}
<1>1. PICK hits : hits = {i \in DOMAIN keys : GetAttr(span, keys[i]) # NoValue}
  OBVIOUS
<1>2. CASE hits = {}
  BY <1>1, <1>2 DEF FirstMatch
<1>3. CASE hits # {}
  <2>1. Min(hits) \in hits
    BY <1>1, <1>3, SmallestExists DEF Min
  <2>2. GetAttr(span, keys[Min(hits)]) \in Int
    BY <1>1, <2>1 DEF GetAttr
  <2>3. QED BY <1>1, <1>3, <2>2 DEF FirstMatch
<1>4. QED BY <1>2, <1>3

LEMMA TraceIs ==
  ASSUME NEW span, \A key \in DOMAIN span.attrs : span.attrs[key] \in Int, span.start \in Int,
         NEW resource \in Int \cup {NoValue}, IsLLM(span)
  PROVE  IsCall(ToTrace(span, resource))
<1> USE IngestionAssumption
<1>1. /\ DOMAIN ModelKeys \subseteq Nat /\ DOMAIN InputKeys \subseteq Nat /\ DOMAIN OutputKeys \subseteq Nat
      /\ DOMAIN CostKeys \subseteq Nat /\ DOMAIN ProjectKeys \subseteq Nat
  BY DEF ModelKeys, InputKeys, OutputKeys, CostKeys, ProjectKeys
<1>2. Model(span) \in Int \ {0}
  BY <1>1, MatchIs DEF Model, IsLLM
<1>3. FirstMatch(span, InputKeys, 0) \in Int /\ FirstMatch(span, OutputKeys, 0) \in Int
      /\ FirstMatch(span, CostKeys, 0) \in Int
  BY <1>1, MatchIs
<1>4. Tokens(span) \in Nat /\ GivenCost(span) \in Nat
  BY <1>3 DEF Tokens, GivenCost, ToNumber
<1>5. Project(span, resource) \in Int
  <2>1. FirstMatch(span, ProjectKeys, Default) \in Int
    BY <1>1, MatchIs
  <2>2. QED BY <2>1 DEF Project
<1>6. Cost(span) \in Nat
      /\ (Model(span) \in DOMAIN Tariff => (Tokens(span) > 0 /\ Tariff[Model(span)] > 0 => Cost(span) > 0))
  BY <1>4 DEF Cost
<1>7. QED BY <1>2, <1>4, <1>5, <1>6 DEF IsCall, ToTrace

LEMMA PayloadsAre ==
  ASSUME NEW p \in DOMAIN Payloads
  PROVE  /\ IsFiniteSet(DOMAIN TracesOf(p)) /\ DOMAIN TracesOf(p) \subseteq Nat
         /\ \A i \in DOMAIN TracesOf(p) : IsCall(TracesOf(p)[i]) /\ TracesOf(p)[i] \in AllTraces
<1> USE IngestionAssumption
<1>1. DOMAIN TracesOf(p) \subseteq DOMAIN Payloads[p].spans
  BY DEF TracesOf, Parsed, Parse
<1>2. IsFiniteSet(DOMAIN TracesOf(p)) /\ DOMAIN TracesOf(p) \subseteq Nat
  BY <1>1, FS_Subset
<1>3. ASSUME NEW i \in DOMAIN TracesOf(p) PROVE IsCall(TracesOf(p)[i])
  <2>1. PICK span, r : span = Payloads[p].spans[i] /\ r = Payloads[p].resource
    OBVIOUS
  <2>2. IsLLM(span) /\ TracesOf(p)[i] = ToTrace(span, r)
    BY <2>1 DEF TracesOf, Parsed, Parse
  <2>3. r \in Int \cup {NoValue} /\ span.start \in Int /\ \A key \in DOMAIN span.attrs : span.attrs[key] \in Int
    BY <1>1, <2>1
  <2>4. QED BY <2>2, <2>3, TraceIs
<1>4. QED BY <1>2, <1>3 DEF AllTraces

\* What a request has stored and has to store is its payload.
LEMMA RequestIs ==
  ASSUME NEW r, RequestOK(r), NEW t
  PROVE  /\ Kept(r, t) \in Nat /\ Coming(r, t) \in Nat
         /\ r.payload # NoValue => /\ Kept(r, t) + Coming(r, t) = InPayload(t, r.payload)
                                   /\ r.left = {} => Coming(r, t) = 0
                                   /\ r.left = DOMAIN TracesOf(r.payload) => Kept(r, t) = 0
<1>1. CASE r.payload = NoValue
  BY <1>1 DEF Kept, Coming
<1>2. CASE r.payload # NoValue
  <2>1. r.payload \in DOMAIN Payloads /\ r.left \subseteq DOMAIN TracesOf(r.payload)
    BY <1>2 DEF RequestOK, Waiting
  <2>2. PICK A, B, C : /\ A = {i \in DOMAIN TracesOf(r.payload) \ r.left : TracesOf(r.payload)[i] = t}
                       /\ B = {i \in r.left : TracesOf(r.payload)[i] = t}
                       /\ C = {i \in DOMAIN TracesOf(r.payload) : TracesOf(r.payload)[i] = t}
    OBVIOUS
  <2>3. IsFiniteSet(A) /\ IsFiniteSet(B) /\ A \cup B = C /\ A \cap B = {}
    BY <2>1, <2>2, PayloadsAre, FS_Subset
  <2>4. Cardinality(A) \in Nat /\ Cardinality(B) \in Nat /\ Cardinality(C) = Cardinality(A) + Cardinality(B)
    <3>1. Cardinality(A) \in Nat /\ Cardinality(B) \in Nat
      BY <2>3, FS_CardinalityType
    <3>2. Cardinality(A \cup B) = Cardinality(A) + Cardinality(B) - Cardinality(A \cap B)
      BY <2>3, FS_Union
    <3>3. Cardinality(A \cap B) = 0
      BY <2>3, FS_EmptySet
    <3>4. QED BY <2>3, <3>1, <3>2, <3>3
  <2>5. Kept(r, t) = Cardinality(A) /\ Coming(r, t) = Cardinality(B) /\ InPayload(t, r.payload) = Cardinality(C)
    BY <1>2, <2>2 DEF Kept, Coming, InPayload
  <2>6. /\ r.left = {} => Cardinality(B) = 0
        /\ r.left = DOMAIN TracesOf(r.payload) => Cardinality(A) = 0
    BY <2>2, FS_EmptySet
  <2>7. QED BY <2>4, <2>5, <2>6
<1>3. QED BY <1>1, <1>2

LEMMA SumAt ==
  ASSUME NEW S, IsFiniteSet(S), NEW f, NEW g, DOMAIN f = S, DOMAIN g = S,
         \A x \in S : f[x] \in Nat /\ g[x] \in Nat, NEW x \in S, \A y \in S \ {x} : f[y] = g[y]
  PROVE  /\ SumFunction(f) \in Nat /\ SumFunction(g) \in Nat
         /\ SumFunction(g) = SumFunction(f) + (g[x] - f[x])
<1>1. SumFunctionOnSet(g, S) = SumFunctionOnSet(f, S) + (g[x] - f[x])
  BY SumChange
<1>2. SumFunctionOnSet(f, S) \in Nat /\ SumFunctionOnSet(g, S) \in Nat
  BY SumType
<1>3. SumFunction(f) = SumFunctionOnSet(f, S) /\ SumFunction(g) = SumFunctionOnSet(g, S)
  BY DEF SumFunction
<1>4. QED BY <1>1, <1>2, <1>3

LEMMA CountsAre ==
  ASSUME NEW p \in DOMAIN Payloads, NEW t
  PROVE  InPayload(t, p) \in Nat
<1>1. IsFiniteSet({i \in DOMAIN TracesOf(p) : TracesOf(p)[i] = t})
  BY PayloadsAre, FS_Subset
<1>2. QED BY <1>1, FS_CardinalityType DEF InPayload

\* One request moves from client[c] to r.
LEMMA RequestMoves ==
  ASSUME IngestTypeOK, NEW c \in Clients, NEW r, RequestOK(r), client' = [client EXCEPT ![c] = r], NEW t
  PROVE  /\ KeptAll(t) \in Nat /\ KeptAll(t)' \in Nat /\ ComingAll(t) \in Nat /\ ComingAll(t)' \in Nat
         /\ KeptAll(t)' = KeptAll(t) + (Kept(r, t) - Kept(client[c], t))
         /\ ComingAll(t)' = ComingAll(t) + (Coming(r, t) - Coming(client[c], t))
         /\ DOMAIN client' = Clients /\ \A d \in Clients : RequestOK(client'[d])
<1> USE IngestionAssumption
<1>1. DOMAIN client = Clients /\ \A d \in Clients : RequestOK(client[d])
  BY DEF IngestTypeOK
<1>2. PICK before, after : before = client /\ after = client'
  OBVIOUS
<1>3. /\ DOMAIN after = Clients /\ after[c] = r /\ \A d \in Clients \ {c} : after[d] = before[d]
      /\ \A d \in Clients : RequestOK(after[d]) /\ RequestOK(before[d])
  BY <1>1, <1>2
<1>4. PICK f, g, h, k : /\ f = [d \in Clients |-> Kept(before[d], t)] /\ g = [d \in Clients |-> Kept(after[d], t)]
                        /\ h = [d \in Clients |-> Coming(before[d], t)] /\ k = [d \in Clients |-> Coming(after[d], t)]
  OBVIOUS
<1>5. \A d \in Clients : f[d] \in Nat /\ g[d] \in Nat /\ h[d] \in Nat /\ k[d] \in Nat
  BY <1>3, <1>4, RequestIs
<1>6. \A d \in Clients \ {c} : f[d] = g[d] /\ h[d] = k[d]
  BY <1>3, <1>4
<1>7. /\ SumFunction(f) \in Nat /\ SumFunction(g) \in Nat
      /\ SumFunction(g) = SumFunction(f) + (g[c] - f[c])
  BY <1>4, <1>5, <1>6, SumAt
<1>8. /\ SumFunction(h) \in Nat /\ SumFunction(k) \in Nat
      /\ SumFunction(k) = SumFunction(h) + (k[c] - h[c])
  BY <1>4, <1>5, <1>6, SumAt
<1>9. KeptAll(t) = SumFunction(f) /\ ComingAll(t) = SumFunction(h)
  BY <1>2, <1>4 DEF KeptAll, ComingAll
<1>10. KeptAll(t)' = SumFunction(g) /\ ComingAll(t)' = SumFunction(k)
  BY <1>2, <1>4 DEF KeptAll, ComingAll
<1>11. f[c] = Kept(client[c], t) /\ g[c] = Kept(r, t) /\ h[c] = Coming(client[c], t) /\ k[c] = Coming(r, t)
  BY <1>2, <1>3, <1>4
<1>12. QED BY <1>2, <1>3, <1>7, <1>8, <1>9, <1>10, <1>11

LEMMA SentGrows ==
  ASSUME IngestTypeOK, NEW p \in DOMAIN Payloads, sent' = [sent EXCEPT ![p] = @ + 1], NEW t
  PROVE  /\ SentOf(t) \in Nat /\ SentOf(t)' = SentOf(t) + InPayload(t, p)
         /\ sent' \in [DOMAIN Payloads -> Nat]
<1> USE IngestionAssumption
<1>1. PICK before, after : before = sent /\ after = sent'
  OBVIOUS
<1>2. before \in [DOMAIN Payloads -> Nat] /\ after \in [DOMAIN Payloads -> Nat] /\ after = [before EXCEPT ![p] = @ + 1]
  BY <1>1 DEF IngestTypeOK
<1>3. PICK f, g : /\ f = [q \in DOMAIN Payloads |-> before[q] * InPayload(t, q)]
                  /\ g = [q \in DOMAIN Payloads |-> after[q] * InPayload(t, q)]
  OBVIOUS
<1>4. ASSUME NEW q \in DOMAIN Payloads PROVE f[q] \in Nat /\ g[q] \in Nat
  <2>1. before[q] \in Nat /\ after[q] \in Nat /\ InPayload(t, q) \in Nat
    BY <1>2, CountsAre
  <2>2. \A a, b \in Nat : a * b \in Nat
    OBVIOUS
  <2>3. QED BY <1>3, <2>1, <2>2
<1>5. \A q \in DOMAIN Payloads \ {p} : f[q] = g[q]
  BY <1>2, <1>3
<1>6. g[p] - f[p] = InPayload(t, p)
  <2>1. PICK a \in Nat, b \in Nat : a = before[p] /\ b = InPayload(t, p)
    BY <1>2, CountsAre
  <2>2. g[p] = (a + 1) * b /\ f[p] = a * b
    BY <1>2, <1>3, <2>1
  <2>3. (a + 1) * b = a * b + b
    BY <2>1
  <2>4. PICK z \in Nat : z = a * b
    BY <2>1
  <2>5. QED BY <2>1, <2>2, <2>3, <2>4
<1>7. SumFunction(f) \in Nat /\ SumFunction(g) = SumFunction(f) + (g[p] - f[p])
  <2>1. DOMAIN f = DOMAIN Payloads /\ DOMAIN g = DOMAIN Payloads
    BY <1>3
  <2>2. IsFiniteSet(DOMAIN Payloads)
    OBVIOUS
  <2>3. QED BY <1>4, <1>5, <2>1, <2>2, SumAt
<1>8. SentOf(t) = SumFunction(f) /\ SentOf(t)' = SumFunction(g)
  BY <1>1, <1>3 DEF SentOf
<1>9. QED BY <1>1, <1>2, <1>6, <1>7, <1>8

LEMMA AckedGrows ==
  ASSUME IngestTypeOK, NEW p \in DOMAIN Payloads, NEW n \in Nat,
         acks' = [acks EXCEPT ![p] = Append(@, n)], NEW t
  PROVE  /\ AckedOf(t) \in Nat /\ AckedOf(t)' = AckedOf(t) + InPayload(t, p)
         /\ acks' \in [DOMAIN Payloads -> Seq(Nat)]
<1> USE IngestionAssumption
<1>1. PICK before, after : before = acks /\ after = acks'
  OBVIOUS
<1>2. /\ before \in [DOMAIN Payloads -> Seq(Nat)] /\ after \in [DOMAIN Payloads -> Seq(Nat)]
      /\ \A q \in DOMAIN Payloads \ {p} : after[q] = before[q]
      /\ Len(after[p]) = Len(before[p]) + 1
  BY <1>1, AppendProperties DEF IngestTypeOK
<1>3. PICK f, g : /\ f = [q \in DOMAIN Payloads |-> Len(before[q]) * InPayload(t, q)]
                  /\ g = [q \in DOMAIN Payloads |-> Len(after[q]) * InPayload(t, q)]
  OBVIOUS
<1>4. ASSUME NEW q \in DOMAIN Payloads PROVE f[q] \in Nat /\ g[q] \in Nat
  <2>1. Len(before[q]) \in Nat /\ Len(after[q]) \in Nat /\ InPayload(t, q) \in Nat
    BY <1>2, CountsAre
  <2>2. \A a, b \in Nat : a * b \in Nat
    OBVIOUS
  <2>3. QED BY <1>3, <2>1, <2>2
<1>5. \A q \in DOMAIN Payloads \ {p} : f[q] = g[q]
  BY <1>2, <1>3
<1>6. g[p] - f[p] = InPayload(t, p)
  <2>1. PICK a \in Nat, b \in Nat : a = Len(before[p]) /\ b = InPayload(t, p)
    BY <1>2, CountsAre
  <2>2. g[p] = (a + 1) * b /\ f[p] = a * b
    BY <1>2, <1>3, <2>1
  <2>3. (a + 1) * b = a * b + b
    BY <2>1
  <2>4. PICK z \in Nat : z = a * b
    BY <2>1
  <2>5. QED BY <2>1, <2>2, <2>3, <2>4
<1>7. SumFunction(f) \in Nat /\ SumFunction(g) = SumFunction(f) + (g[p] - f[p])
  <2>1. DOMAIN f = DOMAIN Payloads /\ DOMAIN g = DOMAIN Payloads
    BY <1>3
  <2>2. IsFiniteSet(DOMAIN Payloads)
    OBVIOUS
  <2>3. QED BY <1>4, <1>5, <2>1, <2>2, SumAt
<1>8. AckedOf(t) = SumFunction(f) /\ AckedOf(t)' = SumFunction(g)
  BY <1>1, <1>3 DEF AckedOf
<1>9. QED BY <1>1, <1>2, <1>6, <1>7, <1>8

LEMMA CopiesGrow ==
  ASSUME IngestTypeOK, NEW x \in AllTraces, stored' = Append(stored, x), NEW t
  PROVE  /\ Copies(t) \in Nat /\ Copies(t)' = Copies(t) + (IF x = t THEN 1 ELSE 0)
         /\ stored' \in Seq(AllTraces)
<1>1. PICK before, after : before = stored /\ after = stored'
  OBVIOUS
<1>2. /\ before \in Seq(AllTraces) /\ after \in Seq(AllTraces)
      /\ Len(after) = Len(before) + 1 /\ \A i \in 1 .. Len(before) : after[i] = before[i]
      /\ after[Len(before) + 1] = x
  BY <1>1, AppendProperties DEF IngestTypeOK
<1>3. PICK n \in Nat : n = Len(before)
  BY <1>2
<1>4. DOMAIN before = 1 .. n /\ DOMAIN after = 1 .. n + 1 /\ IsFiniteSet(1 .. n)
  BY <1>2, <1>3, FS_Interval
<1>5. PICK A : A = {i \in 1 .. n : before[i] = t}
  OBVIOUS
<1>6. IsFiniteSet(A) /\ Cardinality(A) \in Nat /\ n + 1 \notin A
  BY <1>3, <1>4, <1>5, FS_Subset, FS_CardinalityType
<1>7. {i \in DOMAIN after : after[i] = t} = IF x = t THEN A \cup {n + 1} ELSE A
  BY <1>2, <1>3, <1>4, <1>5
<1>8. Cardinality(A \cup {n + 1}) = Cardinality(A) + 1
  BY <1>6, FS_AddElement
<1>9. Copies(t) = Cardinality(A) /\ Copies(t)' = Cardinality({i \in DOMAIN after : after[i] = t})
  BY <1>1, <1>4, <1>5 DEF Copies
<1>10. Copies(t)' = Copies(t) + (IF x = t THEN 1 ELSE 0)
  <2>1. CASE x = t
    BY <1>6, <1>7, <1>8, <1>9, <2>1
  <2>2. CASE x # t
    <3>1. {i \in DOMAIN after : after[i] = t} = A
      BY <1>7, <2>2
    <3>2. Copies(t)' = Copies(t) /\ Copies(t) \in Nat
      BY <1>6, <1>9, <3>1
    <3>3. QED BY <2>2, <3>2
  <2>3. QED BY <2>1, <2>2
<1>11. QED BY <1>1, <1>2, <1>6, <1>9, <1>10

LEMMA CopiesCount ==
  ASSUME IngestTypeOK, NEW t
  PROVE  Copies(t) \in Nat
<1>1. IsFiniteSet(1 .. Len(stored)) /\ DOMAIN stored = 1 .. Len(stored)
  BY FS_Interval DEF IngestTypeOK
<1>2. IsFiniteSet({i \in DOMAIN stored : stored[i] = t})
  BY <1>1, FS_Subset
<1>3. QED BY <1>2, FS_CardinalityType DEF Copies

LEMMA SumsAre ==
  ASSUME IngestTypeOK, NEW t
  PROVE  AckedOf(t) \in Nat /\ SentOf(t) \in Nat /\ KeptAll(t) \in Nat /\ ComingAll(t) \in Nat
<1> USE IngestionAssumption
<1>1. \A a, b \in Nat : a * b \in Nat
  OBVIOUS
<1>2. PICK f, g : /\ f = [p \in DOMAIN Payloads |-> Len(acks[p]) * InPayload(t, p)]
                  /\ g = [p \in DOMAIN Payloads |-> sent[p] * InPayload(t, p)]
  OBVIOUS
<1>3. ASSUME NEW p \in DOMAIN Payloads PROVE f[p] \in Nat /\ g[p] \in Nat
  <2>1. Len(acks[p]) \in Nat /\ sent[p] \in Nat /\ InPayload(t, p) \in Nat
    BY CountsAre DEF IngestTypeOK
  <2>2. QED BY <1>1, <1>2, <2>1
<1>4. DOMAIN f = DOMAIN Payloads /\ DOMAIN g = DOMAIN Payloads
  BY <1>2
<1>5. SumFunction(f) \in Nat /\ SumFunction(g) \in Nat
  BY <1>3, <1>4, SumType DEF SumFunction
<1>6. PICK h, k : /\ h = [c \in Clients |-> Kept(client[c], t)]
                  /\ k = [c \in Clients |-> Coming(client[c], t)]
  OBVIOUS
<1>7. \A c \in Clients : h[c] \in Nat /\ k[c] \in Nat
  BY <1>6, RequestIs DEF IngestTypeOK
<1>8. SumFunction(h) \in Nat /\ SumFunction(k) \in Nat
  BY <1>6, <1>7, SumType DEF SumFunction
<1>9. QED BY <1>2, <1>5, <1>6, <1>8 DEF AckedOf, SentOf, KeptAll, ComingAll

LEMMA WaitingIs == RequestOK(Waiting) /\ Waiting.payload = NoValue /\ \A t : Kept(Waiting, t) = 0 /\ Coming(Waiting, t) = 0
BY DEF RequestOK, Waiting, Kept, Coming

LEMMA IngestInvInit == IngestInit => IngestInv
<1> USE IngestionAssumption
<1> SUFFICES ASSUME IngestInit PROVE IngestInv
  OBVIOUS
<1>1. /\ stored = <<>> /\ acks = [p \in DOMAIN Payloads |-> <<>>] /\ sent = [p \in DOMAIN Payloads |-> 0]
      /\ client = [c \in Clients |-> Waiting]
  BY DEF IngestInit
<1>2. IngestTypeOK
  <2>1. stored \in Seq(AllTraces)
    BY <1>1, EmptySeq
  <2>2. acks \in [DOMAIN Payloads -> Seq(Nat)]
    BY <1>1, EmptySeq
  <2>3. QED BY <1>1, <2>1, <2>2, WaitingIs DEF IngestTypeOK
<1>3. ASSUME NEW t
      PROVE  AckedOf(t) = 0 /\ SentOf(t) = 0 /\ KeptAll(t) = 0 /\ ComingAll(t) = 0 /\ Copies(t) = 0
  <2>1. PICK f, g : /\ f = [p \in DOMAIN Payloads |-> Len(acks[p]) * InPayload(t, p)]
                    /\ g = [p \in DOMAIN Payloads |-> sent[p] * InPayload(t, p)]
    OBVIOUS
  <2>2. \A p \in DOMAIN Payloads : f[p] = 0 /\ g[p] = 0
    BY <1>1, <2>1, CountsAre
  <2>3. SumFunction(f) = 0 /\ SumFunction(g) = 0
    BY <2>1, <2>2, SumZero DEF SumFunction
  <2>4. PICK h, k : /\ h = [c \in Clients |-> Kept(client[c], t)]
                    /\ k = [c \in Clients |-> Coming(client[c], t)]
    OBVIOUS
  <2>5. \A c \in Clients : h[c] = 0 /\ k[c] = 0
    BY <1>1, <2>4, WaitingIs
  <2>6. SumFunction(h) = 0 /\ SumFunction(k) = 0
    BY <2>4, <2>5, SumZero DEF SumFunction
  <2>7. Copies(t) = 0
    BY <1>1, FS_EmptySet DEF Copies
  <2>8. QED BY <2>1, <2>3, <2>4, <2>6, <2>7 DEF AckedOf, SentOf, KeptAll, ComingAll
<1>4. \A p \in DOMAIN Payloads : \A i \in DOMAIN acks[p] : acks[p][i] = Cardinality(DOMAIN TracesOf(p))
  BY <1>1
<1>5. QED BY <1>2, <1>3, <1>4 DEF IngestInv

LEMMA PostIs ==
  ASSUME IngestInv, NEW c \in Clients, NEW p \in DOMAIN Payloads, Send(c, p)
  PROVE  IngestInv'
<1> USE IngestionAssumption
<1>1. PICK r : r = [payload |-> p, left |-> DOMAIN TracesOf(p), count |-> 0]
  OBVIOUS
<1>2. /\ client[c].payload = NoValue /\ client' = [client EXCEPT ![c] = r]
      /\ sent' = [sent EXCEPT ![p] = @ + 1] /\ stored' = stored /\ acks' = acks
  BY <1>1 DEF Send
<1>3. RequestOK(r) /\ r.payload = p /\ r.left = DOMAIN TracesOf(p)
  BY <1>1, PayloadsAre, FS_CardinalityType DEF RequestOK
<1>4. IngestTypeOK
  BY DEF IngestInv
<1>5. IngestTypeOK'
  <2>1. sent' \in [DOMAIN Payloads -> Nat]
    BY <1>2, <1>4, SentGrows
  <2>2. DOMAIN client' = Clients /\ \A d \in Clients : RequestOK(client'[d])
    BY <1>2, <1>3, <1>4, RequestMoves
  <2>3. QED BY <1>2, <1>4, <2>1, <2>2 DEF IngestTypeOK
<1>6. ASSUME NEW t \in AllTraces
      PROVE  (AckedOf(t) + KeptAll(t) <= Copies(t) /\ Copies(t) + ComingAll(t) <= SentOf(t))'
  <2>1. AckedOf(t)' = AckedOf(t) /\ Copies(t)' = Copies(t)
    BY <1>2 DEF AckedOf, Copies
  <2>2. SentOf(t) \in Nat /\ SentOf(t)' = SentOf(t) + InPayload(t, p)
    BY <1>2, <1>4, SentGrows
  <2>3. Kept(r, t) = 0 /\ Coming(r, t) = InPayload(t, p) /\ InPayload(t, p) \in Nat
    <3>1. Kept(r, t) + Coming(r, t) = InPayload(t, p) /\ Kept(r, t) = 0
      BY <1>3, RequestIs
    <3>2. Coming(r, t) \in Nat /\ InPayload(t, p) \in Nat
      BY <1>3, RequestIs, CountsAre
    <3>3. QED BY <3>1, <3>2
  <2>4. Kept(client[c], t) = 0 /\ Coming(client[c], t) = 0
    BY <1>2 DEF Kept, Coming
  <2>5. /\ KeptAll(t) \in Nat /\ ComingAll(t) \in Nat
        /\ KeptAll(t)' = KeptAll(t) + (Kept(r, t) - Kept(client[c], t))
        /\ ComingAll(t)' = ComingAll(t) + (Coming(r, t) - Coming(client[c], t))
    BY <1>2, <1>3, <1>4, RequestMoves
  <2>6. KeptAll(t)' = KeptAll(t) /\ ComingAll(t)' = ComingAll(t) + InPayload(t, p)
    BY <2>3, <2>4, <2>5
  <2>7. Copies(t) \in Nat
    BY <1>4, CopiesCount
  <2>8. AckedOf(t) + KeptAll(t) <= Copies(t) /\ Copies(t) + ComingAll(t) <= SentOf(t)
    BY DEF IngestInv
  <2>9. QED BY <2>1, <2>2, <2>3, <2>5, <2>6, <2>7, <2>8
<1>7. QED BY <1>2, <1>5, <1>6 DEF IngestInv

LEMMA LogTraceIs ==
  ASSUME IngestInv, NEW c \in Clients, LogTrace(c)
  PROVE  IngestInv'
<1> USE IngestionAssumption
<1>1. PICK old, next : old = client[c] /\ next = Min(old.left)
  OBVIOUS
<1>2. PICK x : x = TracesOf(old.payload)[next]
  OBVIOUS
<1>3. /\ old.left # {} /\ stored' = Append(stored, x) /\ acks' = acks /\ sent' = sent
      /\ client' = [client EXCEPT ![c].left = @ \ {next}, ![c].count = @ + 1]
  BY <1>1, <1>2 DEF LogTrace
<1>4. IngestTypeOK /\ DOMAIN client = Clients
  BY DEF IngestInv, IngestTypeOK
<1>5. /\ old.payload \in DOMAIN Payloads /\ old.left \subseteq DOMAIN TracesOf(old.payload) /\ old.count \in Nat
      /\ old = [payload |-> old.payload, left |-> old.left, count |-> old.count]
      /\ old.count + Cardinality(old.left) = Cardinality(DOMAIN TracesOf(old.payload))
  BY <1>1, <1>3, <1>4 DEF IngestTypeOK, RequestOK, Waiting
<1>6. IsFiniteSet(old.left) /\ old.left \subseteq Nat
  BY <1>5, PayloadsAre, FS_Subset
<1>7. next \in old.left
  BY <1>1, <1>3, <1>6, SmallestExists DEF Min
<1>8. x \in AllTraces
  BY <1>2, <1>5, <1>7, PayloadsAre
<1>9. PICK r : r = [payload |-> old.payload, left |-> old.left \ {next}, count |-> old.count + 1]
  OBVIOUS
<1>10. client' = [client EXCEPT ![c] = r]
  BY <1>1, <1>3, <1>4, <1>5, <1>9
<1>11. RequestOK(r)
  <2>1. Cardinality(old.left \ {next}) = Cardinality(old.left) - 1 /\ Cardinality(old.left) \in Nat
    BY <1>6, <1>7, FS_RemoveElement, FS_CardinalityType
  <2>2. (old.count + 1) + Cardinality(old.left \ {next}) = Cardinality(DOMAIN TracesOf(old.payload))
    BY <1>5, <2>1
  <2>3. r.payload = old.payload /\ r.left = old.left \ {next} /\ r.count = old.count + 1
    BY <1>9
  <2>4. QED BY <1>5, <1>9, <2>2, <2>3 DEF RequestOK
<1>12. RequestOK(old)
  BY <1>1, <1>4 DEF IngestTypeOK
<1>13. IngestTypeOK'
  <2>1. stored' \in Seq(AllTraces)
    BY <1>3, <1>4, <1>8, CopiesGrow
  <2>2. DOMAIN client' = Clients /\ \A d \in Clients : RequestOK(client'[d])
    BY <1>4, <1>10, <1>11, RequestMoves
  <2>3. QED BY <1>3, <1>4, <2>1, <2>2 DEF IngestTypeOK
<1>14. ASSUME NEW t \in AllTraces
       PROVE  (AckedOf(t) + KeptAll(t) <= Copies(t) /\ Copies(t) + ComingAll(t) <= SentOf(t))'
  <2> DEFINE one == IF x = t THEN 1 ELSE 0
  <2>1. AckedOf(t)' = AckedOf(t) /\ SentOf(t)' = SentOf(t)
    BY <1>3 DEF AckedOf, SentOf
  <2>2. one \in Nat /\ Copies(t) \in Nat /\ Copies(t)' = Copies(t) + one
    BY <1>3, <1>4, <1>8, CopiesGrow
  <2>3. Coming(old, t) = Coming(r, t) + one /\ Coming(r, t) \in Nat
    <3>1. PICK A, B : /\ A = {i \in old.left : TracesOf(old.payload)[i] = t}
                      /\ B = {i \in old.left \ {next} : TracesOf(old.payload)[i] = t}
      OBVIOUS
    <3>2. IsFiniteSet(B) /\ next \notin B /\ A = IF x = t THEN B \cup {next} ELSE B
      BY <1>2, <1>6, <1>7, <3>1, FS_Subset
    <3>3. Cardinality(B) \in Nat /\ Cardinality(B \cup {next}) = Cardinality(B) + 1
      BY <3>2, FS_AddElement, FS_CardinalityType
    <3>4. Coming(old, t) = Cardinality(A) /\ Coming(r, t) = Cardinality(B)
      BY <1>5, <1>9, <3>1 DEF Coming
    <3>5. CASE x = t
      BY <3>2, <3>3, <3>4, <3>5
    <3>6. CASE x # t
      <4>1. A = B /\ one = 0
        BY <3>2, <3>6
      <4>2. QED BY <3>3, <3>4, <4>1
    <3>7. QED BY <3>5, <3>6
  <2>4. Kept(r, t) = Kept(old, t) + one
    <3>1. r.payload = old.payload /\ old.payload # NoValue
      BY <1>5, <1>9
    <3>2. Kept(r, t) + Coming(r, t) = InPayload(t, old.payload) /\ Kept(r, t) \in Nat
      BY <1>11, <3>1, RequestIs
    <3>3. Kept(old, t) + Coming(old, t) = InPayload(t, old.payload) /\ Kept(old, t) \in Nat
      BY <1>12, <3>1, RequestIs
    <3>4. QED BY <2>2, <2>3, <3>2, <3>3
  <2>5. /\ KeptAll(t) \in Nat /\ ComingAll(t) \in Nat /\ ComingAll(t)' \in Nat
        /\ KeptAll(t)' = KeptAll(t) + (Kept(r, t) - Kept(client[c], t))
        /\ ComingAll(t)' = ComingAll(t) + (Coming(r, t) - Coming(client[c], t))
    BY <1>4, <1>10, <1>11, RequestMoves
  <2>6. Kept(old, t) \in Nat /\ AckedOf(t) \in Nat /\ SentOf(t) \in Nat
    BY <1>4, <1>12, RequestIs, SumsAre
  <2> HIDE DEF one
  <2>7. KeptAll(t)' = KeptAll(t) + one /\ ComingAll(t)' = ComingAll(t) - one
    BY <1>1, <2>2, <2>3, <2>4, <2>5, <2>6
  <2>8. AckedOf(t) + KeptAll(t) <= Copies(t) /\ Copies(t) + ComingAll(t) <= SentOf(t)
    BY DEF IngestInv
  <2>9. QED BY <2>1, <2>2, <2>5, <2>6, <2>7, <2>8
<1>15. QED BY <1>3, <1>13, <1>14 DEF IngestInv

LEMMA AcknowledgeIs ==
  ASSUME IngestInv, NEW c \in Clients, Acknowledge(c)
  PROVE  IngestInv'
<1> USE IngestionAssumption
<1>1. PICK old, p : old = client[c] /\ p = old.payload
  OBVIOUS
<1>2. /\ p # NoValue /\ old.left = {} /\ client' = [client EXCEPT ![c] = Waiting]
      /\ acks' = [acks EXCEPT ![p] = Append(@, old.count)] /\ stored' = stored /\ sent' = sent
  BY <1>1 DEF Acknowledge
<1>3. IngestTypeOK /\ DOMAIN client = Clients
  BY DEF IngestInv, IngestTypeOK
<1>4. /\ p \in DOMAIN Payloads /\ old.count \in Nat /\ RequestOK(old)
      /\ old.count + Cardinality(old.left) = Cardinality(DOMAIN TracesOf(p))
  <2>1. RequestOK(old)
    BY <1>1, <1>3 DEF IngestTypeOK
  <2>2. old # Waiting
    BY <1>1, <1>2 DEF Waiting
  <2>3. QED BY <1>1, <2>1, <2>2 DEF RequestOK
<1>5. old.count = Cardinality(DOMAIN TracesOf(p))
  BY <1>2, <1>4, FS_EmptySet
<1>6. IngestTypeOK'
  <2>1. acks' \in [DOMAIN Payloads -> Seq(Nat)]
    BY <1>2, <1>3, <1>4, AckedGrows
  <2>2. DOMAIN client' = Clients /\ \A d \in Clients : RequestOK(client'[d])
    BY <1>2, <1>3, WaitingIs, RequestMoves
  <2>3. QED BY <1>2, <1>3, <2>1, <2>2 DEF IngestTypeOK
<1>7. ASSUME NEW t \in AllTraces
      PROVE  (AckedOf(t) + KeptAll(t) <= Copies(t) /\ Copies(t) + ComingAll(t) <= SentOf(t))'
  <2>1. SentOf(t)' = SentOf(t) /\ Copies(t)' = Copies(t)
    BY <1>2 DEF SentOf, Copies
  <2>2. AckedOf(t)' = AckedOf(t) + InPayload(t, p)
    BY <1>2, <1>3, <1>4, AckedGrows
  <2>3. Kept(old, t) = InPayload(t, p) /\ Coming(old, t) = 0 /\ InPayload(t, p) \in Nat
    <3>1. Kept(old, t) + Coming(old, t) = InPayload(t, p) /\ Coming(old, t) = 0 /\ Kept(old, t) \in Nat
      BY <1>1, <1>2, <1>4, RequestIs
    <3>2. QED BY <3>1
  <2>4. /\ KeptAll(t)' = KeptAll(t) + (Kept(Waiting, t) - Kept(old, t))
        /\ ComingAll(t)' = ComingAll(t) + (Coming(Waiting, t) - Coming(old, t))
    BY <1>1, <1>2, <1>3, WaitingIs, RequestMoves
  <2>5. /\ AckedOf(t) \in Nat /\ SentOf(t) \in Nat /\ KeptAll(t) \in Nat /\ ComingAll(t) \in Nat
        /\ Copies(t) \in Nat
    BY <1>3, SumsAre, CopiesCount
  <2>6. KeptAll(t)' = KeptAll(t) - InPayload(t, p) /\ ComingAll(t)' = ComingAll(t)
    BY <2>3, <2>4, <2>5, WaitingIs
  <2>7. AckedOf(t) + KeptAll(t) <= Copies(t) /\ Copies(t) + ComingAll(t) <= SentOf(t)
    BY DEF IngestInv
  <2>8. QED BY <2>1, <2>2, <2>3, <2>5, <2>6, <2>7
<1>8. ASSUME NEW q \in DOMAIN Payloads, NEW i \in DOMAIN acks'[q]
      PROVE  acks'[q][i] = Cardinality(DOMAIN TracesOf(q))
  <2>1. acks \in [DOMAIN Payloads -> Seq(Nat)]
    BY <1>3 DEF IngestTypeOK
  <2>2. CASE q # p
    <3>1. acks'[q] = acks[q]
      BY <1>2, <2>1, <2>2
    <3>2. QED BY <3>1 DEF IngestInv
  <2>3. CASE q = p
    <3>1. PICK seq \in Seq(Nat) : seq = acks[p]
      BY <1>4, <2>1
    <3>2. acks'[p] = Append(seq, old.count)
      BY <1>2, <1>4, <2>1, <3>1
    <3>3. /\ Len(acks'[p]) = Len(seq) + 1 /\ \A j \in 1 .. Len(seq) : acks'[p][j] = seq[j]
          /\ acks'[p][Len(seq) + 1] = old.count /\ DOMAIN acks'[p] = 1 .. Len(seq) + 1
          /\ DOMAIN seq = 1 .. Len(seq) /\ Len(seq) \in Nat
      BY <1>4, <3>1, <3>2, AppendProperties
    <3>4. \A j \in DOMAIN seq : seq[j] = Cardinality(DOMAIN TracesOf(p))
      BY <1>4, <3>1 DEF IngestInv
    <3>5. QED BY <1>5, <2>3, <3>3, <3>4
  <2>4. QED BY <2>2, <2>3
<1>9. QED BY <1>6, <1>7, <1>8 DEF IngestInv

LEMMA FailRequestIs ==
  ASSUME IngestInv, NEW c \in Clients, FailRequest(c)
  PROVE  IngestInv'
<1> USE IngestionAssumption
<1>1. PICK old : old = client[c]
  OBVIOUS
<1>2. /\ client' = [client EXCEPT ![c] = Waiting] /\ acks' = acks /\ stored' = stored /\ sent' = sent
  BY DEF FailRequest
<1>3. IngestTypeOK /\ RequestOK(old)
  BY <1>1 DEF IngestInv, IngestTypeOK
<1>4. IngestTypeOK'
  <2>1. DOMAIN client' = Clients /\ \A d \in Clients : RequestOK(client'[d])
    BY <1>2, <1>3, WaitingIs, RequestMoves
  <2>2. QED BY <1>2, <1>3, <2>1 DEF IngestTypeOK
<1>5. ASSUME NEW t \in AllTraces
      PROVE  (AckedOf(t) + KeptAll(t) <= Copies(t) /\ Copies(t) + ComingAll(t) <= SentOf(t))'
  <2>1. SentOf(t)' = SentOf(t) /\ Copies(t)' = Copies(t) /\ AckedOf(t)' = AckedOf(t)
    BY <1>2 DEF SentOf, Copies, AckedOf
  <2>2. Kept(old, t) \in Nat /\ Coming(old, t) \in Nat
    BY <1>3, RequestIs
  <2>3. /\ KeptAll(t)' \in Nat /\ ComingAll(t)' \in Nat
        /\ KeptAll(t)' = KeptAll(t) + (Kept(Waiting, t) - Kept(old, t))
        /\ ComingAll(t)' = ComingAll(t) + (Coming(Waiting, t) - Coming(old, t))
    BY <1>1, <1>2, <1>3, WaitingIs, RequestMoves
  <2>4. /\ AckedOf(t) \in Nat /\ SentOf(t) \in Nat /\ KeptAll(t) \in Nat /\ ComingAll(t) \in Nat
        /\ Copies(t) \in Nat
    BY <1>3, SumsAre, CopiesCount
  <2>5. KeptAll(t)' <= KeptAll(t) /\ ComingAll(t)' <= ComingAll(t)
    BY <2>2, <2>3, <2>4, WaitingIs
  <2>6. AckedOf(t) + KeptAll(t) <= Copies(t) /\ Copies(t) + ComingAll(t) <= SentOf(t)
    BY DEF IngestInv
  <2>7. QED BY <2>1, <2>3, <2>4, <2>5, <2>6
<1>6. QED BY <1>2, <1>4, <1>5 DEF IngestInv

LEMMA IngestInvStep == IngestInv /\ [IngestNext]_invars => IngestInv'
<1>1. ASSUME IngestInv, UNCHANGED invars PROVE IngestInv'
  BY <1>1 DEF invars, IngestInv, IngestTypeOK, AckedOf, SentOf, KeptAll, ComingAll, Copies
<1>2. QED BY <1>1, PostIs, LogTraceIs, AcknowledgeIs, FailRequestIs DEF IngestNext

-----------------------------------------------------------------------------
(* What is drawn from the table                                             *)

LEMMA RowsAre ==
  ASSUME IngestInv
  PROVE  /\ IsFiniteSet(DOMAIN stored) /\ Cardinality(DOMAIN stored) = Len(stored)
         /\ \A i \in DOMAIN stored : IsCall(stored[i]) /\ stored[i] \in AllTraces
<1>1. stored \in Seq(AllTraces) /\ DOMAIN stored = 1 .. Len(stored) /\ Len(stored) \in Nat
  BY DEF IngestInv, IngestTypeOK
<1>2. IsFiniteSet(1 .. Len(stored)) /\ Cardinality(1 .. Len(stored)) = Len(stored)
  BY <1>1, FS_Interval
<1>3. \A t \in AllTraces : IsCall(t)
  BY PayloadsAre DEF AllTraces
<1>4. \A i \in DOMAIN stored : stored[i] \in AllTraces
  BY <1>1, ElementOfSeq
<1>5. QED BY <1>1, <1>2, <1>3, <1>4

\* g has the sums of f over the groups that key makes of S, C being their keys.
Grouped(S, key, C, f, g) ==
    /\ IsFiniteSet(S) /\ \A i \in S : f[i] \in Int
    /\ (\A i \in S : key[i] \in C) /\ (\A k \in C : \E i \in S : key[i] = k)
    /\ DOMAIN g = C /\ \A k \in C : g[k] = SumFunctionOnSet(f, {i \in S : key[i] = k})

\* The sums of the groups add up to the sum over the rows.
LEMMA GroupsAddUp ==
  ASSUME NEW S, NEW f, NEW C, NEW key, NEW g, Grouped(S, key, C, f, g)
  PROVE  IsFiniteSet(C) /\ SumFunction(g) = SumFunctionOnSet(f, S)
<1> USE DEF Grouped
<1>1. PICK class : class = [i \in S |-> key[i]]
  OBVIOUS
<1>2. DOMAIN class = S /\ C = {class[i] : i \in S}
  BY <1>1
<1>3. IsFiniteSet(C)
  <2>1. IsFiniteSet({class[i] : i \in S})
    BY <1>2, ImageIsFinite
  <2>2. QED BY <1>2, <2>1
<1>4. class \in [S -> C]
  BY <1>1
<1>5. SumFunctionOnSet([k \in C |-> SumFunctionOnSet(f, {i \in S : class[i] = k})], C) = SumFunctionOnSet(f, S)
  BY <1>3, <1>4, SumPartition
<1>6. PICK h : h = [k \in C |-> SumFunctionOnSet(f, {i \in S : class[i] = k})]
  OBVIOUS
<1>7. ASSUME NEW k \in C PROVE g[k] = h[k]
  <2>1. {i \in S : class[i] = k} = {i \in S : key[i] = k}
    BY <1>1
  <2>2. QED BY <1>6, <2>1
<1>8. SumFunctionOnSet(g, C) = SumFunctionOnSet(h, C)
  BY <1>3, <1>7, SumSame
<1>9. QED BY <1>3, <1>5, <1>6, <1>8 DEF SumFunction

\* A sum over some rows, as one over the restriction.
LEMMA SumOver ==
  ASSUME NEW f, NEW S, IsFiniteSet(S), NEW g, g = [x \in S |-> f[x]]
  PROVE  SumFunction(g) = SumFunctionOnSet(f, S)
<1>1. SumFunctionOnSet(g, S) = SumFunctionOnSet(f, S)
  BY SumSame
<1>2. QED BY <1>1 DEF SumFunction

LEMMA LinesAre ==
  ASSUME IngestInv, NEW T \in SUBSET DOMAIN stored,
         NEW costs, costs = [i \in DOMAIN stored |-> stored[i].cost],
         NEW tokens, tokens = [i \in DOMAIN stored |-> stored[i].tokens]
  PROVE  /\ IsFiniteSet(T) /\ \A i \in T : costs[i] \in Nat /\ tokens[i] \in Nat
         /\ CostIn(T) = SumFunctionOnSet(costs, T) /\ CostIn(T) \in Nat
         /\ Line(T).cost = CostIn(T) /\ Line(T).calls = Cardinality(T)
         /\ Line(T).tokens = SumFunctionOnSet(tokens, T)
<1>1. IsFiniteSet(T)
  BY RowsAre, FS_Subset
<1>2. \A i \in T : costs[i] \in Nat /\ tokens[i] \in Nat
  BY RowsAre DEF IsCall
<1>3. PICK f, g : f = [i \in T |-> stored[i].cost] /\ g = [i \in T |-> stored[i].tokens]
  OBVIOUS
<1>4. f = [i \in T |-> costs[i]] /\ g = [i \in T |-> tokens[i]]
  BY <1>3
<1>5. SumFunction(f) = SumFunctionOnSet(costs, T)
  BY <1>1, <1>4, SumOver
<1>6. SumFunction(g) = SumFunctionOnSet(tokens, T)
  BY <1>1, <1>4, SumOver
<1>7. SumFunctionOnSet(costs, T) \in Nat
  BY <1>1, <1>2, SumType
<1>8. QED BY <1>1, <1>2, <1>3, <1>5, <1>6, <1>7 DEF CostIn, Line

\* The lines add up to the line of all the rows.
AddsUp(groups, rows) ==
    /\ IsFiniteSet(DOMAIN groups) /\ \A k \in DOMAIN groups : groups[k].cost \in Nat
    /\ TotalOf(groups) = CostIn(rows)
    /\ SumFunction([k \in DOMAIN groups |-> groups[k].cost]) = CostIn(rows)
    /\ SumFunction([k \in DOMAIN groups |-> groups[k].tokens]) = Line(rows).tokens
    /\ SumFunction([k \in DOMAIN groups |-> groups[k].calls]) = Line(rows).calls

LEMMA ReportAddsUp ==
  ASSUME IngestInv, NEW rows \in SUBSET DOMAIN stored, NEW key, rows \subseteq DOMAIN key,
         NEW groups, groups = GroupBy(rows, key)
  PROVE  AddsUp(groups, rows) /\ DOMAIN groups = {key[i] : i \in rows}
<1>1. PICK costs, tokens : /\ costs = [i \in DOMAIN stored |-> stored[i].cost]
                           /\ tokens = [i \in DOMAIN stored |-> stored[i].tokens]
  OBVIOUS
<1>2. PICK C : C = {key[i] : i \in rows}
  OBVIOUS
<1>3. groups = [k \in C |-> Line({i \in rows : key[i] = k})]
  BY <1>2 DEF GroupBy
<1>4. IsFiniteSet(rows) /\ \A i \in rows : costs[i] \in Int /\ tokens[i] \in Int
  <2>1. IsFiniteSet(rows) /\ \A i \in rows : costs[i] \in Nat /\ tokens[i] \in Nat
    BY <1>1, LinesAre
  <2>2. QED BY <2>1
<1>5. ASSUME NEW k \in C
      PROVE  /\ groups[k].cost = SumFunctionOnSet(costs, {i \in rows : key[i] = k}) /\ groups[k].cost \in Nat
             /\ groups[k].tokens = SumFunctionOnSet(tokens, {i \in rows : key[i] = k})
             /\ groups[k].calls = Cardinality({i \in rows : key[i] = k})
  <2>1. PICK T \in SUBSET DOMAIN stored : T = {i \in rows : key[i] = k}
    OBVIOUS
  <2>2. groups[k] = Line(T)
    BY <1>3, <2>1
  <2>3. QED BY <1>1, <2>1, <2>2, LinesAre
<1>6. PICK f, g : f = [k \in C |-> groups[k].cost] /\ g = [k \in C |-> groups[k].tokens]
  OBVIOUS
<1>7. IsFiniteSet(C) /\ SumFunction(f) = SumFunctionOnSet(costs, rows)
      /\ SumFunction(g) = SumFunctionOnSet(tokens, rows)
  <2>1. /\ DOMAIN f = C /\ \A k \in C : f[k] = SumFunctionOnSet(costs, {i \in rows : key[i] = k})
        /\ DOMAIN g = C /\ \A k \in C : g[k] = SumFunctionOnSet(tokens, {i \in rows : key[i] = k})
    BY <1>5, <1>6
  <2>2. (\A i \in rows : key[i] \in C) /\ (\A k \in C : \E i \in rows : key[i] = k)
    BY <1>2
  <2>3. Grouped(rows, key, C, costs, f) /\ Grouped(rows, key, C, tokens, g)
    BY <1>4, <2>1, <2>2 DEF Grouped
  <2>4. QED BY <2>3, GroupsAddUp
<1>8. PICK class : class = [i \in rows |-> key[i]]
  OBVIOUS
<1>9. SumFunction([k \in C |-> Cardinality({i \in rows : class[i] = k})]) = Cardinality(rows)
  <2>1. class \in [rows -> C]
    BY <1>2, <1>8
  <2>2. QED BY <1>4, <1>7, <2>1, ClassesCount
<1>10. [k \in C |-> groups[k].calls] = [k \in C |-> Cardinality({i \in rows : class[i] = k})]
  <2>1. ASSUME NEW k \in C PROVE {i \in rows : key[i] = k} = {i \in rows : class[i] = k}
    BY <1>8
  <2>2. QED BY <1>5, <2>1
<1>11. /\ CostIn(rows) = SumFunctionOnSet(costs, rows) /\ Line(rows).calls = Cardinality(rows)
       /\ Line(rows).tokens = SumFunctionOnSet(tokens, rows)
  BY <1>1, LinesAre
<1>12. SumFunction([k \in C |-> groups[k].cost]) = CostIn(rows)
  BY <1>6, <1>7, <1>11
<1>13. SumFunction([k \in C |-> groups[k].tokens]) = Line(rows).tokens
  BY <1>6, <1>7, <1>11
<1>14. SumFunction([k \in C |-> groups[k].calls]) = Line(rows).calls
  BY <1>9, <1>10, <1>11
<1>15. DOMAIN groups = C
  BY <1>3
<1>16. QED BY <1>2, <1>5, <1>7, <1>12, <1>13, <1>14, <1>15 DEF TotalOf, AddsUp

LEMMA TableIsUsable ==
  ASSUME IngestInv
  PROVE  StoredIsUsable
<1>1. \A i \in DOMAIN stored : IsCall(stored[i])
  BY RowsAre
<1>2. \A i \in DOMAIN stored :
         /\ stored[i].model \notin {0, NoValue} /\ stored[i].project # NoValue
         /\ stored[i].model \in DOMAIN Tariff =>
              (stored[i].tokens > 0 /\ Tariff[stored[i].model] > 0 => stored[i].cost > 0)
  BY <1>1, IngestionAssumption DEF IsCall
<1>3. PICK all, costs : all = DOMAIN stored /\ costs = [i \in DOMAIN stored |-> stored[i].cost]
  OBVIOUS
<1>4. IsFiniteSet(all) /\ \A i \in all : costs[i] \in Int
  <2>1. IsFiniteSet(all) /\ all \in SUBSET DOMAIN stored
    BY <1>3, RowsAre
  <2>2. \A i \in all : costs[i] \in Nat
    BY <1>1, <1>3 DEF IsCall
  <2>3. QED BY <2>1, <2>2
<1>5. \A T \in SUBSET all : CostIn(T) = SumFunctionOnSet(costs, T)
  BY <1>3, LinesAre
<1>6. SumFunction(ByModel) = Summary.cost
  <2>1. PICK key, C : key = [i \in all |-> stored[i].model] /\ C = {key[i] : i \in all}
    OBVIOUS
  <2>3. C = {stored[i].model : i \in DOMAIN stored}
    BY <1>3, <2>1
  <2>4. ASSUME NEW k PROVE CostIn({i \in DOMAIN stored : stored[i].model = k})
                             = SumFunctionOnSet(costs, {i \in all : key[i] = k})
    <3>1. {i \in DOMAIN stored : stored[i].model = k} = {i \in all : key[i] = k}
      BY <1>3, <2>1
    <3>2. QED BY <1>5, <3>1
  <2>5. DOMAIN ByModel = C /\ \A k \in C : ByModel[k] = SumFunctionOnSet(costs, {i \in all : key[i] = k})
    BY <2>3, <2>4 DEF ByModel
  <2>6. SumFunction(ByModel) = SumFunctionOnSet(costs, all)
    <3>1. (\A i \in all : key[i] \in C) /\ (\A k \in C : \E i \in all : key[i] = k)
      BY <2>1
    <3>2. Grouped(all, key, C, costs, ByModel)
      BY <1>4, <2>5, <3>1 DEF Grouped
    <3>3. QED BY <3>2, GroupsAddUp
  <2>7. QED BY <1>3, <1>5, <2>6 DEF Summary
<1>7. SumFunction(ByProject) = Summary.cost
  <2>1. PICK key, C : key = [i \in all |-> stored[i].project] /\ C = {key[i] : i \in all}
    OBVIOUS
  <2>3. C = {stored[i].project : i \in DOMAIN stored}
    BY <1>3, <2>1
  <2>4. ASSUME NEW k PROVE CostIn(RowsOfProject(k)) = SumFunctionOnSet(costs, {i \in all : key[i] = k})
    <3>1. RowsOfProject(k) = {i \in all : key[i] = k}
      BY <1>3, <2>1 DEF RowsOfProject
    <3>2. QED BY <1>5, <3>1
  <2>5. DOMAIN ByProject = C /\ \A k \in C : ByProject[k] = SumFunctionOnSet(costs, {i \in all : key[i] = k})
    BY <2>3, <2>4 DEF ByProject
  <2>6. SumFunction(ByProject) = SumFunctionOnSet(costs, all)
    <3>1. (\A i \in all : key[i] \in C) /\ (\A k \in C : \E i \in all : key[i] = k)
      BY <2>1
    <3>2. Grouped(all, key, C, costs, ByProject)
      BY <1>4, <2>5, <3>1 DEF Grouped
    <3>3. QED BY <3>2, GroupsAddUp
  <2>7. QED BY <1>3, <1>5, <2>6 DEF Summary
<1>8. ASSUME NEW p \in DOMAIN ByProject, NEW rows \in Recent(p, 1)
      PROVE  \E newest \in rows : rows = {newest} /\ \A i \in RowsOfProject(p) : stored[newest].at >= stored[i].at
  <2>1. PICK mine : mine = RowsOfProject(p) /\ mine \subseteq DOMAIN stored /\ mine # {}
    BY DEF RowsOfProject, ByProject
  <2>2. IsFiniteSet(mine) /\ Cardinality(mine) \in Nat /\ Cardinality(mine) # 0
    BY <2>1, RowsAre, FS_Subset, FS_CardinalityType, FS_EmptySet
  <2>3. /\ rows \subseteq mine
        /\ Cardinality(rows) = (IF 1 < Cardinality(mine) THEN 1 ELSE Cardinality(mine))
        /\ \A x \in rows, y \in mine \ rows : stored[x].at >= stored[y].at
    BY <2>1 DEF Recent, Foremost
  <2>4. Cardinality(rows) = 1 /\ IsFiniteSet(rows)
    BY <2>2, <2>3, FS_Subset
  <2>5. PICK newest : rows = {newest}
    BY <2>4, FS_Singleton
  <2>6. stored[newest].at >= stored[newest].at
    BY <1>1, <2>1, <2>3, <2>5 DEF IsCall
  <2>7. QED BY <2>1, <2>3, <2>5, <2>6
<1>9. QED BY <1>2, <1>6, <1>7, <1>8 DEF StoredIsUsable

LEMMA ReportsTellOneStory ==
  ASSUME IngestInv
  PROVE  ReportsSound
<1> SUFFICES ASSUME NEW project \in DOMAIN ByProject, NEW rows \in Usage(project),
                    NEW summary, summary = UsageSummary(rows), NEW sum, sum = summary.all,
                    NEW bill, bill = ChargebackReport(rows, "model"),
                    NEW mine, mine = RowsOfProject(project)
             PROVE  /\ bill.total = sum.cost /\ TotalOf(CostTrends(rows, summary.models)) = sum.cost
                    /\ SumFunction([m \in summary.models |-> TokenEfficiency(rows)[m].tokens]) = sum.tokens
                    /\ SumFunction([m \in summary.models |-> TokenEfficiency(rows)[m].calls]) = sum.calls
                    /\ \A top \in TopSpenders(rows, "model", 1) : \A m \in top :
                         bill.lines[m].cost * Cardinality(summary.models) >= sum.cost
                    /\ summary.errors <= sum.calls
                    /\ Cardinality(mine) <= ReportLimit =>
                         sum.cost = ByProject[project] /\ sum.calls = Cardinality(mine)
                    /\ Cardinality(mine) > ReportLimit =>
                         /\ sum.calls = ReportLimit /\ sum.cost <= ByProject[project]
                         /\ \A i \in mine, j \in rows : stored[i].at > stored[j].at => i \in rows
  BY DEF ReportsSound
<1>1. mine \subseteq DOMAIN stored /\ IsFiniteSet(mine) /\ Cardinality(mine) \in Nat
  <2>1. mine \subseteq DOMAIN stored
    BY DEF RowsOfProject
  <2>2. QED BY <2>1, RowsAre, FS_Subset, FS_CardinalityType
<1>2. /\ rows \subseteq mine
      /\ Cardinality(rows) = (IF ReportLimit < Cardinality(mine) THEN ReportLimit ELSE Cardinality(mine))
      /\ \A x \in rows, y \in mine \ rows : stored[x].at >= stored[y].at
  BY <1>1 DEF Usage, Recent, Foremost
<1>3. rows \in SUBSET DOMAIN stored
  BY <1>1, <1>2
<1>4. PICK models : models = {stored[i].model : i \in rows}
  OBVIOUS
<1>5. summary.models = models /\ sum = Line(rows) /\ summary.errors = Cardinality({i \in rows : stored[i].failed})
  BY <1>4 DEF UsageSummary
<1>6. PICK costs : costs = [i \in DOMAIN stored |-> stored[i].cost]
  OBVIOUS
<1>7. sum.cost = CostIn(rows) /\ sum.calls = Cardinality(rows) /\ IsFiniteSet(rows)
      /\ CostIn(rows) = SumFunctionOnSet(costs, rows)
  BY <1>3, <1>5, <1>6, LinesAre
<1>8. PICK key : key = Field("model")
  OBVIOUS
<1>9. DOMAIN key = DOMAIN stored /\ models = {key[i] : i \in rows}
  BY <1>3, <1>4, <1>8 DEF Field
<1>10. PICK lines, fc, ft, fn :
         /\ lines = GroupBy(rows, key)
         /\ fc = [k \in models |-> lines[k].cost] /\ ft = [k \in models |-> lines[k].tokens]
         /\ fn = [k \in models |-> lines[k].calls]
  OBVIOUS
<1>11. /\ IsFiniteSet(models) /\ DOMAIN lines = models /\ \A k \in models : lines[k].cost \in Nat
       /\ TotalOf(lines) = CostIn(rows)
       /\ SumFunction(fc) = CostIn(rows) /\ SumFunction(ft) = Line(rows).tokens
       /\ SumFunction(fn) = Line(rows).calls
  <2>1. rows \subseteq DOMAIN key
    BY <1>3, <1>9
  <2>2. AddsUp(lines, rows) /\ DOMAIN lines = {key[i] : i \in rows}
    BY <1>3, <1>10, <2>1, ReportAddsUp
  <2>3. DOMAIN lines = models
    BY <1>9, <2>2
  <2>4. QED BY <1>10, <2>2, <2>3 DEF AddsUp
<1>12. bill.total = TotalOf(lines) /\ bill.lines = lines /\ TokenEfficiency(rows) = lines
  BY <1>8, <1>10 DEF ChargebackReport, TokenEfficiency
<1>13. TotalOf(CostTrends(rows, summary.models)) = sum.cost
  <2>1. {i \in rows : stored[i].model \in summary.models} = rows
    BY <1>4, <1>5
  <2>2. PICK period : period = [i \in DOMAIN stored |-> stored[i].at \div PeriodLength]
    OBVIOUS
  <2>3. CostTrends(rows, summary.models) = GroupBy(rows, period)
    BY <2>1, <2>2 DEF CostTrends
  <2>4. DOMAIN period = DOMAIN stored
    BY <2>2
  <2>5. AddsUp(GroupBy(rows, period), rows)
    BY <1>3, <2>4, ReportAddsUp
  <2>6. QED BY <1>7, <2>3, <2>5 DEF AddsUp
<1>14. ASSUME NEW top \in TopSpenders(rows, "model", 1), NEW m \in top
       PROVE  lines[m].cost * Cardinality(models) >= sum.cost
  <2>1. PICK f : f = fc
    OBVIOUS
  <2>2. /\ top \subseteq models /\ Cardinality(top) = (IF 1 < Cardinality(models) THEN 1 ELSE Cardinality(models))
        /\ \A x \in top, y \in models \ top : f[x] >= f[y]
    BY <1>8, <1>10, <1>11, <2>1 DEF TopSpenders, Foremost
  <2>3. IsFiniteSet(top) /\ Cardinality(top) # 0 /\ Cardinality(models) \in Nat
    BY <1>11, <2>2, FS_Subset, FS_EmptySet, FS_CardinalityType
  <2>4. Cardinality(top) = 1
    <3>1. Cardinality(top) \in Nat /\ Cardinality(top) <= 1
      BY <2>2, <2>3
    <3>2. QED BY <2>3, <3>1
  <2>5. top = {m}
    BY <2>3, <2>4, FS_Singleton
  <2>6. \A k \in models : f[k] \in 0 .. f[m]
    BY <1>10, <1>11, <2>1, <2>2, <2>5
  <2>7. SumFunctionOnSet(f, models) <= f[m] * Cardinality(models)
    BY <1>10, <1>11, <2>1, <2>2, <2>6, SumBound
  <2>8. SumFunctionOnSet(f, models) = CostIn(rows)
    BY <1>10, <1>11, <2>1 DEF SumFunction
  <2>9. f[m] = lines[m].cost /\ f[m] \in Nat
    BY <1>10, <1>11, <2>1, <2>2
  <2>10. f[m] * Cardinality(models) \in Nat
    BY <2>3, <2>9
  <2>11. CostIn(rows) \in Nat
    BY <1>3, <1>6, LinesAre
  <2>12. lines[m].cost * Cardinality(models) >= CostIn(rows)
    <3>1. PICK z \in Nat : z = f[m] * Cardinality(models)
      BY <2>10
    <3>2. z >= CostIn(rows)
      BY <2>7, <2>8, <2>11, <3>1
    <3>3. QED BY <2>9, <3>1, <3>2
  <2>13. QED BY <1>7, <2>12
<1>15. summary.errors <= sum.calls
  BY <1>5, <1>7, FS_Subset
<1>16. ByProject[project] = CostIn(mine)
  BY DEF ByProject
<1>17. Cardinality(mine) <= ReportLimit => sum.cost = ByProject[project] /\ sum.calls = Cardinality(mine)
  <2>1. SUFFICES ASSUME Cardinality(mine) <= ReportLimit PROVE rows = mine
    BY <1>7, <1>16
  <2>2. Cardinality(rows) = Cardinality(mine)
    BY <1>1, <1>2, <2>1, IngestionAssumption
  <2>3. QED BY <1>1, <1>2, <2>2, FS_Subset
<1>18. ASSUME Cardinality(mine) > ReportLimit
       PROVE  /\ sum.calls = ReportLimit /\ sum.cost <= ByProject[project]
              /\ \A i \in mine, j \in rows : stored[i].at > stored[j].at => i \in rows
  <2>1. sum.calls = ReportLimit
    BY <1>1, <1>2, <1>7, <1>18, IngestionAssumption
  <2>2. \A i \in mine : costs[i] \in Nat
    BY <1>1, <1>6, LinesAre
  <2>3. SumFunctionOnSet(costs, rows) <= SumFunctionOnSet(costs, mine)
    BY <1>1, <1>2, <2>2, SumSubset
  <2>4. CostIn(mine) = SumFunctionOnSet(costs, mine)
    BY <1>1, <1>6, LinesAre
  <2>5. ASSUME NEW i \in mine, NEW j \in rows, stored[i].at > stored[j].at PROVE i \in rows
    <3>1. stored[i].at \in Int /\ stored[j].at \in Int
      BY <1>1, <1>2, RowsAre DEF IsCall
    <3>2. QED BY <1>2, <2>5, <3>1
  <2>6. QED BY <1>7, <1>16, <2>1, <2>3, <2>4, <2>5
<1>19. QED BY <1>5, <1>7, <1>10, <1>11, <1>12, <1>13, <1>14, <1>15, <1>17, <1>18

\* Whatever payloads fail and are sent again, for any spans: what was acknowledged is
\* stored whole, once for each acknowledgement, nothing else is stored and nothing more
\* often than it was sent; each row can be reported on; and breakdowns, trends, top
\* spenders and summary of a project agree, whatever the limit cuts off.
THEOREM IngestionIsSound == IngestSpec => []IngestionSound
<1>1. ASSUME IngestInv PROVE IngestionSound
  <2>1. ASSUME NEW t \in AllTraces
        PROVE  /\ SumFunction([p \in DOMAIN Payloads |-> Len(acks[p]) * InPayload(t, p)]) <= Copies(t)
               /\ Copies(t) <= SumFunction([p \in DOMAIN Payloads |-> sent[p] * InPayload(t, p)])
    <3>1. /\ AckedOf(t) \in Nat /\ SentOf(t) \in Nat /\ KeptAll(t) \in Nat /\ ComingAll(t) \in Nat
          /\ Copies(t) \in Nat
      BY <1>1, SumsAre, CopiesCount DEF IngestInv
    <3>2. AckedOf(t) + KeptAll(t) <= Copies(t) /\ Copies(t) + ComingAll(t) <= SentOf(t)
      BY <1>1 DEF IngestInv
    <3>3. AckedOf(t) <= Copies(t) /\ Copies(t) <= SentOf(t)
      BY <3>1, <3>2
    <3>4. QED BY <3>3 DEF AckedOf, SentOf
  <2>2. \A i \in DOMAIN stored : stored[i] \in AllTraces
    BY <1>1, RowsAre
  <2>3. \A p \in DOMAIN Payloads : \A i \in DOMAIN acks[p] : acks[p][i] = Cardinality(DOMAIN TracesOf(p))
    BY <1>1 DEF IngestInv
  <2>4. NothingAckedIsLost
    BY <2>1, <2>2, <2>3 DEF NothingAckedIsLost
  <2>5. QED BY <1>1, <2>4, TableIsUsable, ReportsTellOneStory DEF IngestionSound
<1>2. QED BY IngestInvInit, IngestInvStep, <1>1, PTL DEF IngestSpec

-----------------------------------------------------------------------------
(* Forecasts: powers *)

\* A power is a product of one factor more than the power before.
LEMMA PowerIs ==
  ASSUME NEW b \in Nat
  PROVE  /\ Power(b) \in [Nat -> Nat] /\ Power(b)[0] = 1
         /\ \A i \in Nat : Power(b)[i + 1] = b * Power(b)[i]
<1> DEFINE Times == [v \in Nat |-> b * v]
           Steps(n) == [i \in 1 .. n |-> Times]
           C(n) == CHOOSE f : IsChain(f, Nat, 1, n, Steps(n))
           p == [n \in Nat |-> C(n)[n]]
           Law(f) == f = [n \in Nat |-> IF n = 0 THEN 1 ELSE b * f[n - 1]]
<1>1. ASSUME NEW n \in Nat PROVE IsChain(C(n), Nat, 1, n, Steps(n))
  <2>1. Times \in [Nat -> Nat]
    OBVIOUS
  <2>2. Steps(n) \in [1 .. n -> [Nat -> Nat]]
    BY <2>1
  <2> HIDE DEF Steps
  <2>3. \E f : IsChain(f, Nat, 1, n, Steps(n))
    BY <2>2, ChainExists
  <2>4. QED BY <2>3
<1>2. ASSUME NEW n \in Nat PROVE p[n] \in Nat
  <2>1. C(n) \in [0 .. n -> Nat]
    BY <1>1 DEF IsChain
  <2> HIDE DEF C
  <2>2. QED BY <2>1
<1>3. p[0] = 1
  <2>1. C(0)[0] = 1
    BY <1>1 DEF IsChain
  <2> HIDE DEF C
  <2>2. QED BY <2>1
<1>4. ASSUME NEW n \in Nat PROVE p[n + 1] = b * p[n]
  <2> DEFINE S == Steps(n + 1)
             R == Steps(n)
             f == C(n + 1)
             g == C(n)
  <2>1. IsChain(f, Nat, 1, n + 1, S) /\ IsChain(g, Nat, 1, n, R)
    <3>1. n + 1 \in Nat
      OBVIOUS
    <3>2. \A k \in Nat : IsChain(C(k), Nat, 1, k, Steps(k))
      BY <1>1
    <3> HIDE DEF C, Steps
    <3>3. QED BY <3>1, <3>2
  <2>2. \A i \in Nat : i \in 1 .. n + 1 /\ i \in 1 .. n => S[i] = R[i]
    OBVIOUS
  <2>3. S[n + 1] = Times
    OBVIOUS
  <2>4. p[n + 1] = f[n + 1] /\ p[n] = g[n]
    <3> HIDE DEF C
    <3>1. QED OBVIOUS
  <2> HIDE DEF S, R, f, g, p, C, Steps
  <2>5. f[n] = g[n]
    <3>1. n + 1 \in Nat /\ n <= n + 1 /\ n <= n
      OBVIOUS
    <3>2. \A i \in Nat : i <= n + 1 /\ i <= n => f[i] = g[i]
      BY <2>1, <2>2, <3>1, ChainUnique
    <3>3. QED BY <3>1, <3>2
  <2>6. f[n + 1] = S[n + 1][f[n]]
    <3>1. n + 1 \in 1 .. n + 1 /\ (n + 1) - 1 = n
      OBVIOUS
    <3>2. QED BY <2>1, <3>1 DEF IsChain
  <2>7. f[n + 1] = Times[g[n]]
    BY <2>3, <2>5, <2>6
  <2>8. g[n] \in Nat
    BY <1>2, <2>4
  <2>9. QED BY <2>4, <2>7, <2>8
<1>5. Law(p)
  <2>1. ASSUME NEW n \in Nat, n # 0 PROVE p[n] = b * p[n - 1]
    <3>1. n - 1 \in Nat /\ (n - 1) + 1 = n
      BY <2>1
    <3> HIDE DEF p
    <3>2. QED BY <1>4, <3>1
  <2>2. p = [n \in Nat |-> p[n]]
    OBVIOUS
  <2> HIDE DEF p
  <2>3. QED BY <1>3, <2>1, <2>2
<1>6. Power(b) = CHOOSE f : Law(f)
  BY DEF Power
<1>7. Law(Power(b))
  <2> HIDE DEF Law
  <2>1. QED BY <1>5, <1>6
<1>8. PICK q : q = Power(b)
  OBVIOUS
<1>9. q = [n \in Nat |-> IF n = 0 THEN 1 ELSE b * q[n - 1]]
  BY <1>7, <1>8
<1>10. q[0] = 1
  BY <1>9
<1>11. ASSUME NEW i \in Nat PROVE q[i + 1] = b * q[i]
  BY <1>9
<1>12. \A i \in Nat : q[i] \in Nat
  <2> DEFINE Bad == {i \in Nat : q[i] \notin Nat}
  <2>1. SUFFICES ASSUME Bad # {} PROVE FALSE
    OBVIOUS
  <2>2. PICK k \in Bad : \A j \in Bad : k <= j
    <3>1. Bad \in SUBSET Nat
      OBVIOUS
    <3> HIDE DEF Bad
    <3>2. QED BY <2>1, <3>1, SmallestExists
  <2>3. k # 0
    BY <1>10, <2>2
  <2>4. k - 1 \in Nat /\ ~ (k <= k - 1) /\ (k - 1) + 1 = k
    BY <2>2, <2>3
  <2>5. k - 1 \notin Bad
    <3> HIDE DEF Bad
    <3>1. QED BY <2>2, <2>4
  <2>6. q[k - 1] \in Nat
    BY <2>4, <2>5
  <2>7. q[k] = b * q[k - 1]
    BY <1>11, <2>4
  <2>8. QED BY <2>2, <2>6, <2>7
<1>13. q \in [Nat -> Nat]
  BY <1>9, <1>12
<1>14. QED BY <1>8, <1>10, <1>11, <1>13

-----------------------------------------------------------------------------
(* The entries are functions of the traces that were added *)

\* The traces of the same day and the same batch as trace i, and their entry.
MatesIn(a, i) == {j \in DOMAIN a : a[j].date = a[i].date /\ a[j].batch = a[i].batch}
EntryIn(a, i) == Day(a, MatesIn(a, i), a[i].date, a[i].batch)
Entries(a) == {EntryIn(a, i) : i \in DOMAIN a}

Numbered(a, k) == \E n \in Nat : a \in [1 .. n -> [date : Days, cost : DayCosts, batch : 1 .. k]]

ForecastInv ==
    /\ batches \in Nat
    /\ Numbered(added, batches)
    /\ daily = Entries(added)

LEMMA ForecastInvInit == ForecastInit => ForecastInv
<1> SUFFICES ASSUME ForecastInit PROVE ForecastInv
  OBVIOUS
<1>1. added \in [1 .. 0 -> [date : Days, cost : DayCosts, batch : 1 .. 0]]
  BY DEF ForecastInit
<1>2. Entries(added) = {}
  BY DEF ForecastInit, Entries
<1>3. QED BY <1>1, <1>2 DEF ForecastInv, ForecastInit, Numbered

\* How many traces there are is the last number.
LEMMA TotalIs ==
  ASSUME NEW n \in Nat, NEW A, added \in [1 .. n -> A]
  PROVE  Total = n /\ DOMAIN added = 1 .. n /\ IsFiniteSet(DOMAIN added)
<1>1. IsFiniteSet(1 .. n) /\ Cardinality(1 .. n) = n
  BY FS_Interval
<1>2. QED BY <1>1 DEF Total

LEMMA AddTracesInv ==
  ASSUME ForecastInv, NEW b \in Batch, AddTraces(b)
  PROVE  ForecastInv'
<1>1. PICK n \in Nat : added \in [1 .. n -> [date : Days, cost : DayCosts, batch : 1 .. batches]]
  BY DEF ForecastInv, Numbered
<1>2. Total = n
  BY <1>1, TotalIs
<1>3. PICK m \in 1 .. BatchSize : b \in [n + 1 .. n + m -> [date : Days, cost : DayCosts]]
  BY <1>2 DEF Batch
<1>4. PICK a, c, k : a = added /\ c = added' /\ k = batches
  OBVIOUS
<1>5. k \in Nat /\ batches' = k + 1
  BY <1>4 DEF ForecastInv, AddTraces
<1>6. c = [i \in DOMAIN a \cup DOMAIN b |->
             IF i \in DOMAIN a THEN a[i]
             ELSE [date |-> b[i].date, cost |-> b[i].cost, batch |-> k + 1]]
  BY <1>4, <1>5 DEF AddTraces
<1>7. m \in Nat
  BY <1>3, ForecastAssumption DEF ForecastAssumption
<1>8. /\ DOMAIN a = 1 .. n /\ DOMAIN b = n + 1 .. n + m
      /\ DOMAIN a \cup DOMAIN b = 1 .. n + m
      /\ \A i \in DOMAIN b : i \notin DOMAIN a
  BY <1>1, <1>3, <1>4, <1>7
<1>9. ASSUME NEW i \in DOMAIN a
      PROVE  c[i] = a[i] /\ a[i].batch \in 1 .. k
                 /\ a[i] \in [date : Days, cost : DayCosts, batch : 1 .. k]
  BY <1>1, <1>4, <1>6
<1>10. ASSUME NEW i \in DOMAIN b
       PROVE  /\ c[i].date = b[i].date /\ c[i].cost = b[i].cost /\ c[i].batch = k + 1
              /\ c[i] \in [date : Days, cost : DayCosts, batch : 1 .. k + 1]
  <2>1. b[i] \in [date : Days, cost : DayCosts]
    BY <1>3, <1>8
  <2>2. i \notin DOMAIN a /\ i \in DOMAIN a \cup DOMAIN b
    BY <1>8
  <2>3. c[i] = [date |-> b[i].date, cost |-> b[i].cost, batch |-> k + 1]
    BY <1>6, <2>2
  <2>4. k + 1 \in 1 .. k + 1
    BY <1>5
  <2>5. QED BY <2>1, <2>3, <2>4
<1>11. Numbered(added', batches')
  <2>1. \A i \in DOMAIN a : c[i] \in [date : Days, cost : DayCosts, batch : 1 .. k + 1]
    BY <1>5, <1>9
  <2>2. c \in [1 .. n + m -> [date : Days, cost : DayCosts, batch : 1 .. k + 1]]
    BY <1>6, <1>8, <1>10, <2>1
  <2>3. n + m \in Nat
    BY <1>7
  <2>4. QED BY <1>4, <1>5, <2>2, <2>3 DEF Numbered
<1>12. DOMAIN c = DOMAIN a \cup DOMAIN b
  BY <1>6
<1>13. ASSUME NEW i \in DOMAIN a PROVE EntryIn(c, i) = EntryIn(a, i)
  <2>1. \A j \in DOMAIN b : c[j].batch # c[i].batch
    BY <1>5, <1>9, <1>10
  <2>2. MatesIn(c, i) = MatesIn(a, i)
    BY <1>9, <1>12, <2>1 DEF MatesIn
  <2>3. PICK mates : mates = MatesIn(a, i)
    OBVIOUS
  <2>4. \A j \in mates : c[j].cost = a[j].cost
    BY <1>9, <2>3 DEF MatesIn
  <2>5. [j \in mates |-> c[j].cost] = [j \in mates |-> a[j].cost]
    BY <2>4
  <2>6. Day(c, mates, a[i].date, a[i].batch) = Day(a, mates, a[i].date, a[i].batch)
    BY <2>5 DEF Day
  <2>7. QED BY <1>9, <2>2, <2>3, <2>6 DEF EntryIn
<1>14. ASSUME NEW i \in DOMAIN b PROVE EntryIn(c, i) = Day(b, OfDate(b, b[i].date), b[i].date, k + 1)
  <2>1. \A j \in DOMAIN a : c[j].batch # c[i].batch
    BY <1>5, <1>9, <1>10
  <2>2. MatesIn(c, i) = OfDate(b, b[i].date)
    BY <1>10, <1>12, <2>1 DEF MatesIn, OfDate
  <2>3. PICK mates : mates = OfDate(b, b[i].date)
    OBVIOUS
  <2>4. \A j \in mates : c[j].cost = b[j].cost
    BY <1>10, <2>3 DEF OfDate
  <2>5. [j \in mates |-> c[j].cost] = [j \in mates |-> b[j].cost]
    BY <2>4
  <2>6. Day(c, mates, b[i].date, k + 1) = Day(b, mates, b[i].date, k + 1)
    BY <2>5 DEF Day
  <2>7. QED BY <1>10, <2>2, <2>3, <2>6 DEF EntryIn
<1>15. Entries(c) = Entries(a) \cup Aggregated(b, k + 1)
  <2>1. Entries(c) = {EntryIn(c, i) : i \in DOMAIN a} \cup {EntryIn(c, i) : i \in DOMAIN b}
    BY <1>12 DEF Entries
  <2>2. {EntryIn(c, i) : i \in DOMAIN a} = Entries(a)
    BY <1>13 DEF Entries
  <2>3. {EntryIn(c, i) : i \in DOMAIN b} = Aggregated(b, k + 1)
    BY <1>14 DEF Aggregated
  <2>4. QED BY <2>1, <2>2, <2>3
<1>16. daily' = Entries(added')
  BY <1>4, <1>5, <1>15 DEF AddTraces, ForecastInv
<1>17. QED BY <1>5, <1>11, <1>16 DEF ForecastInv

LEMMA ForecastInvStep == ForecastInv /\ [ForecastNext]_fcvars => ForecastInv'
<1> SUFFICES ASSUME ForecastInv, [ForecastNext]_fcvars PROVE ForecastInv'
  OBVIOUS
<1>1. CASE \E b \in Batch : AddTraces(b)
  BY <1>1, AddTracesInv
<1>2. CASE Reset
  <2>1. added' \in [1 .. 0 -> [date : Days, cost : DayCosts, batch : 1 .. 0]]
    BY <1>2 DEF Reset
  <2>2. PICK c : c = added'
    OBVIOUS
  <2>3. Entries(c) = {}
    BY <1>2, <2>2 DEF Reset, Entries
  <2>4. QED BY <1>2, <2>1, <2>2, <2>3 DEF ForecastInv, Reset, Numbered
<1>3. CASE UNCHANGED fcvars
  BY <1>3 DEF fcvars, ForecastInv
<1>4. QED BY <1>1, <1>2, <1>3 DEF ForecastNext

-----------------------------------------------------------------------------
(* The places of the entries *)

\* Every entry is that of some trace, and is known by its date and its batch.
LEMMA EntriesAre ==
  ASSUME ForecastInv
  PROVE  /\ IsFiniteSet(DOMAIN added) /\ IsFiniteSet(daily)
         /\ \A i \in DOMAIN added : added[i].cost \in Nat /\ added[i].date \in Nat /\ added[i].batch \in Nat
         /\ \A e \in daily : e.date \in Nat /\ e.batch \in Nat /\ e.cost \in Nat
         /\ \A e, f \in daily : e.date = f.date /\ e.batch = f.batch => e = f
         /\ \A i \in DOMAIN added : EntryIn(added, i).cost = SumFunctionOnSet([j \in MatesIn(added, i) |-> added[j].cost], MatesIn(added, i))
<1>1. PICK n \in Nat : added \in [1 .. n -> [date : Days, cost : DayCosts, batch : 1 .. batches]]
  BY DEF ForecastInv, Numbered
<1>2. IsFiniteSet(DOMAIN added)
  BY <1>1, TotalIs
<1>3. \A i \in DOMAIN added : added[i].cost \in Nat /\ added[i].date \in Nat /\ added[i].batch \in Nat
  <2>1. \A i \in DOMAIN added : added[i] \in [date : Days, cost : DayCosts, batch : 1 .. batches]
    BY <1>1
  <2>2. 1 .. batches \subseteq Nat
    BY DEF ForecastInv
  <2>3. QED BY <2>1, <2>2, ForecastAssumption DEF ForecastAssumption
<1>4. IsFiniteSet(daily)
  <2>1. PICK f : f = [i \in DOMAIN added |-> EntryIn(added, i)]
    OBVIOUS
  <2>2. f \in Surjection(DOMAIN added, daily)
    BY <2>1 DEF Surjection, ForecastInv, Entries
  <2>3. QED BY <1>2, <2>2, FS_Surjection
<1>5. ASSUME NEW i \in DOMAIN added
      PROVE  /\ EntryIn(added, i).date = added[i].date /\ EntryIn(added, i).batch = added[i].batch
             /\ EntryIn(added, i).cost \in Nat
             /\ EntryIn(added, i).cost = SumFunctionOnSet([j \in MatesIn(added, i) |-> added[j].cost], MatesIn(added, i))
  <2>1. PICK mates : mates = MatesIn(added, i)
    OBVIOUS
  <2>2. PICK g : g = [j \in mates |-> added[j].cost]
    OBVIOUS
  <2>3. mates \in SUBSET DOMAIN added
    BY <2>1 DEF MatesIn
  <2>4. IsFiniteSet(mates)
    BY <1>2, <2>3, FS_Subset
  <2>5. \A j \in mates : g[j] \in Nat
    BY <1>3, <2>2, <2>3
  <2>6. SumFunctionOnSet(g, mates) \in Nat
    BY <2>4, <2>5, SumType
  <2>7. DOMAIN g = mates
    BY <2>2
  <2>8. EntryIn(added, i).cost = SumFunctionOnSet(g, mates)
    BY <2>1, <2>2, <2>7 DEF EntryIn, Day, SumFunction
  <2>9. EntryIn(added, i).date = added[i].date /\ EntryIn(added, i).batch = added[i].batch
    BY DEF EntryIn, Day
  <2>10. QED BY <2>1, <2>2, <2>6, <2>8, <2>9
<1>6. ASSUME NEW i \in DOMAIN added, NEW j \in DOMAIN added,
             added[i].date = added[j].date, added[i].batch = added[j].batch
      PROVE  EntryIn(added, i) = EntryIn(added, j)
  <2>1. MatesIn(added, i) = MatesIn(added, j)
    BY <1>6 DEF MatesIn
  <2>2. QED BY <1>6, <2>1 DEF EntryIn
<1>7. \A e \in daily : \E i \in DOMAIN added : e = EntryIn(added, i)
  BY DEF ForecastInv, Entries
<1>8. \A e \in daily : e.date \in Nat /\ e.batch \in Nat /\ e.cost \in Nat
  BY <1>3, <1>5, <1>7
<1>9. ASSUME NEW e \in daily, NEW f \in daily, e.date = f.date, e.batch = f.batch PROVE e = f
  <2>1. PICK i \in DOMAIN added : e = EntryIn(added, i)
    BY <1>7
  <2>2. PICK j \in DOMAIN added : f = EntryIn(added, j)
    BY <1>7
  <2>3. added[i].date = added[j].date /\ added[i].batch = added[j].batch
    BY <1>5, <1>9, <2>1, <2>2
  <2>4. QED BY <1>6, <2>1, <2>2, <2>3
<1>10. QED BY <1>2, <1>3, <1>4, <1>5, <1>8, <1>9

\* What stands before in the list has a lower place.
LEMMA PositionGrows ==
  ASSUME ForecastInv, NEW e \in daily, NEW f \in daily, Precedes(e, f)
  PROVE  Position(e) < Position(f)
<1> USE EntriesAre
<1>1. PICK A, B : A = {g \in daily : Precedes(g, e)} /\ B = {g \in daily : Precedes(g, f)}
  OBVIOUS
<1>2. A \in SUBSET B /\ e \in B /\ e \notin A
  BY <1>1 DEF Precedes
<1>3. IsFiniteSet(B) /\ B \in SUBSET daily
  <2>1. B \in SUBSET daily
    BY <1>1
  <2>2. QED BY <2>1, FS_Subset
<1>4. IsFiniteSet(A) /\ Cardinality(A) <= Cardinality(B) /\ Cardinality(A) # Cardinality(B)
  BY <1>2, <1>3, FS_Subset
<1>5. Cardinality(A) \in Nat /\ Cardinality(B) \in Nat
  BY <1>3, <1>4, FS_CardinalityType
<1>6. QED BY <1>1, <1>4, <1>5 DEF Position

\* The places are those of a list: each entry has one of its own, and none is empty.
LEMMA PlacesAre ==
  ASSUME ForecastInv
  PROVE  /\ N \in Nat /\ IsFiniteSet(Places) /\ Cardinality(Places) = N
         /\ \A e \in daily : Position(e) \in Places
         /\ \A i \in Places : EntryAt(i) \in daily /\ Position(EntryAt(i)) = i
         /\ \A e, f \in daily : Position(e) = Position(f) => e = f
         /\ \A i \in Places : CostAt(i) \in Nat
<1>1. N \in Nat /\ IsFiniteSet(daily)
  BY EntriesAre, FS_CardinalityType DEF N
<1>2. IsFiniteSet(Places) /\ Cardinality(Places) = N
  BY <1>1, FS_Interval DEF Places
<1>3. ASSUME NEW e \in daily PROVE Position(e) \in Places
  <2>1. PICK A : A = {g \in daily : Precedes(g, e)}
    OBVIOUS
  <2>2. e \notin A /\ A \in SUBSET daily
    BY <2>1, EntriesAre DEF Precedes
  <2>3. Cardinality(A) <= N /\ Cardinality(A) # N /\ Cardinality(A) \in Nat
    BY <1>1, <2>2, FS_Subset, FS_CardinalityType DEF N
  <2>4. QED BY <1>1, <2>1, <2>3 DEF Position, Places
<1>4. ASSUME NEW e \in daily, NEW f \in daily, Position(e) = Position(f) PROVE e = f
  <2>1. Position(e) \in Nat /\ Position(f) \in Nat
    BY <1>1, <1>3 DEF Places
  <2>2. ~ Precedes(e, f) /\ ~ Precedes(f, e)
    BY <1>4, <2>1, PositionGrows
  <2>3. e.date = f.date /\ e.batch = f.batch
    BY <2>2, EntriesAre DEF Precedes
  <2>4. QED BY <2>3, EntriesAre
<1>5. PICK p : p = [e \in daily |-> Position(e)]
  OBVIOUS
<1>6. p \in Injection(daily, Places)
  BY <1>3, <1>4, <1>5 DEF Injection, IsInjective
<1>7. p \in Surjection(daily, Places)
  BY <1>1, <1>2, <1>6, FS_Injection DEF N
<1>8. \A i \in Places : \E e \in daily : Position(e) = i
  BY <1>5, <1>7 DEF Surjection
<1>9. \A i \in Places : EntryAt(i) \in daily /\ Position(EntryAt(i)) = i
  BY <1>8 DEF EntryAt
<1>10. \A i \in Places : CostAt(i) \in Nat
  BY <1>9, EntriesAre DEF CostAt
<1>11. QED BY <1>1, <1>2, <1>3, <1>4, <1>9, <1>10

\* The costs at the places are those of the entries.
LEMMA SpentByEntry ==
  ASSUME ForecastInv
  PROVE  Spent = SumFunctionOnSet([e \in daily |-> e.cost], daily)
<1>1. /\ N \in Nat /\ IsFiniteSet(Places) /\ IsFiniteSet(daily)
      /\ \A e \in daily : Position(e) \in Places /\ e.cost \in Nat
      /\ \A i \in Places : EntryAt(i) \in daily /\ Position(EntryAt(i)) = i
      /\ \A e, f \in daily : Position(e) = Position(f) => e = f
  BY PlacesAre, EntriesAre
<1>2. PICK f : f = [e \in daily |-> e.cost]
  OBVIOUS
<1>3. PICK class \in [daily -> Places] : class = [e \in daily |-> Position(e)]
  <2>1. [e \in daily |-> Position(e)] \in [daily -> Places]
    BY <1>1
  <2>2. QED BY <2>1
<1>4. \A e \in daily : f[e] \in Int
  BY <1>1, <1>2
<1>5. SumFunctionOnSet([c \in Places |-> SumFunctionOnSet(f, {e \in daily : class[e] = c})], Places)
        = SumFunctionOnSet(f, daily)
  BY <1>1, <1>4, SumPartition
<1>6. ASSUME NEW c \in Places
      PROVE  SumFunctionOnSet(f, {e \in daily : class[e] = c}) = CostAt(c)
  <2>1. {e \in daily : class[e] = c} = {EntryAt(c)}
    BY <1>1, <1>3
  <2>2. f[EntryAt(c)] = CostAt(c) /\ f[EntryAt(c)] \in Int
    BY <1>1, <1>2, <1>4 DEF CostAt
  <2>3. QED BY <2>1, <2>2, SumSingle
<1>7. [c \in Places |-> SumFunctionOnSet(f, {e \in daily : class[e] = c})] = [c \in Places |-> CostAt(c)]
  BY <1>6
<1>8. QED BY <1>2, <1>5, <1>7 DEF Spent, SumFunction

\* No cost is lost on the way into the entries.
LEMMA SpentByTrace ==
  ASSUME ForecastInv
  PROVE  Spent = SumFunction([i \in DOMAIN added |-> added[i].cost])
<1>1. /\ IsFiniteSet(DOMAIN added) /\ IsFiniteSet(daily)
      /\ \A i \in DOMAIN added : added[i].cost \in Nat
      /\ \A i \in DOMAIN added : EntryIn(added, i).cost = SumFunctionOnSet([j \in MatesIn(added, i) |-> added[j].cost], MatesIn(added, i))
  BY EntriesAre
<1>2. PICK f : f = [i \in DOMAIN added |-> added[i].cost]
  OBVIOUS
<1>3. PICK class \in [DOMAIN added -> daily] : class = [i \in DOMAIN added |-> EntryIn(added, i)]
  <2>1. [i \in DOMAIN added |-> EntryIn(added, i)] \in [DOMAIN added -> daily]
    BY DEF ForecastInv, Entries
  <2>2. QED BY <2>1
<1>4. \A i \in DOMAIN added : f[i] \in Int
  BY <1>1, <1>2
<1>5. SumFunctionOnSet([e \in daily |-> SumFunctionOnSet(f, {i \in DOMAIN added : class[i] = e})], daily)
        = SumFunctionOnSet(f, DOMAIN added)
  BY <1>1, <1>4, SumPartition
<1>6. ASSUME NEW e \in daily
      PROVE  SumFunctionOnSet(f, {i \in DOMAIN added : class[i] = e}) = e.cost
  <2>1. PICK i \in DOMAIN added : e = EntryIn(added, i)
    BY DEF ForecastInv, Entries
  <2>2. PICK mates : mates = MatesIn(added, i)
    OBVIOUS
  <2>3. \A j \in DOMAIN added : EntryIn(added, j).date = added[j].date /\ EntryIn(added, j).batch = added[j].batch
    BY DEF EntryIn, Day
  <2>4. ASSUME NEW j \in mates PROVE EntryIn(added, j) = e
    <3>1. MatesIn(added, j) = MatesIn(added, i) /\ added[j].date = added[i].date /\ added[j].batch = added[i].batch
      BY <2>2 DEF MatesIn
    <3>2. QED BY <2>1, <3>1 DEF EntryIn
  <2>5. {j \in DOMAIN added : class[j] = e} = mates
    <3>1. mates = {j \in DOMAIN added : added[j].date = added[i].date /\ added[j].batch = added[i].batch}
      BY <2>2 DEF MatesIn
    <3>2. QED BY <1>3, <2>1, <2>3, <2>4, <3>1
  <2>6. PICK g : g = [j \in mates |-> added[j].cost]
    OBVIOUS
  <2>7. IsFiniteSet(mates)
    BY <1>1, <2>5, FS_Subset
  <2>8. \A j \in mates : f[j] = g[j]
    BY <1>2, <2>5, <2>6
  <2>9. SumFunctionOnSet(f, mates) = SumFunctionOnSet(g, mates)
    BY <2>7, <2>8, SumSame
  <2>10. e.cost = SumFunctionOnSet(g, mates)
    BY <1>1, <2>1, <2>2, <2>6
  <2>11. QED BY <2>5, <2>9, <2>10
<1>7. [e \in daily |-> SumFunctionOnSet(f, {i \in DOMAIN added : class[i] = e})] = [e \in daily |-> e.cost]
  BY <1>6
<1>8. SumFunctionOnSet(f, DOMAIN added) = SumFunction([i \in DOMAIN added |-> added[i].cost])
  BY <1>2 DEF SumFunction
<1>9. QED BY <1>5, <1>7, <1>8, SpentByEntry

\* Batches that share no day leave no trace in the list, which is in the order of
\* the dates in any case.
LEMMA BatchesAreForgotten ==
  ASSUME ForecastInv
  PROVE  BatchesDoNotMatter
<1>1. PICK dates : dates = {added[i].date : i \in DOMAIN added}
  OBVIOUS
<1>2. \A i \in DOMAIN added : EntryIn(added, i).date = added[i].date /\ EntryIn(added, i).batch = added[i].batch
  BY DEF EntryIn, Day
<1>3. ASSUME ~ DayIsSplit, NEW i \in DOMAIN added
      PROVE  [EntryIn(added, i) EXCEPT !.batch = 1] = Day(added, OfDate(added, added[i].date), added[i].date, 1)
  <2>1. MatesIn(added, i) = OfDate(added, added[i].date)
    BY <1>3 DEF DayIsSplit, MatesIn, OfDate
  <2>2. PICK some, cost, calls, d, k :
          /\ some = MatesIn(added, i) /\ d = added[i].date /\ k = added[i].batch
          /\ calls = Cardinality(some) /\ cost = SumFunction([j \in some |-> added[j].cost])
    OBVIOUS
  <2>3. EntryIn(added, i) = [date |-> d, batch |-> k, calls |-> calls, cost |-> cost]
    BY <2>2 DEF EntryIn, Day
  <2>4. Day(added, OfDate(added, added[i].date), added[i].date, 1)
          = [date |-> d, batch |-> 1, calls |-> calls, cost |-> cost]
    BY <2>1, <2>2 DEF Day
  <2>5. QED BY <2>3, <2>4
<1>4. ASSUME ~ DayIsSplit
      PROVE  {[e EXCEPT !.batch = 1] : e \in daily} = {Day(added, OfDate(added, d), d, 1) : d \in dates}
  <2>1. daily = {EntryIn(added, i) : i \in DOMAIN added}
    BY DEF ForecastInv, Entries
  <2>2. {[e EXCEPT !.batch = 1] : e \in daily} = {[EntryIn(added, i) EXCEPT !.batch = 1] : i \in DOMAIN added}
    BY <2>1
  <2>3. {Day(added, OfDate(added, d), d, 1) : d \in dates}
          = {Day(added, OfDate(added, added[i].date), added[i].date, 1) : i \in DOMAIN added}
    BY <1>1
  <2>4. QED BY <1>3, <1>4, <2>2, <2>3
<1>5. ASSUME ~ DayIsSplit
      PROVE  N = Cardinality(dates)
  <2>1. PICK f : f = [e \in daily |-> e.date]
    OBVIOUS
  <2>2. daily = {EntryIn(added, i) : i \in DOMAIN added}
    BY DEF ForecastInv, Entries
  <2>3. f \in Surjection(daily, dates)
    BY <1>1, <1>2, <2>1, <2>2 DEF Surjection
  <2>4. ASSUME NEW e \in daily, NEW g \in daily, e.date = g.date PROVE e = g
    <3>1. PICK i \in DOMAIN added : e = EntryIn(added, i)
      BY <2>2
    <3>2. PICK j \in DOMAIN added : g = EntryIn(added, j)
      BY <2>2
    <3>3. e.batch = g.batch
      BY <1>2, <1>5, <2>4, <3>1, <3>2 DEF DayIsSplit
    <3>4. QED BY <2>4, <3>3, EntriesAre
  <2>5. f \in Injection(daily, dates)
    BY <2>1, <2>3, <2>4 DEF Injection, IsInjective, Surjection
  <2>6. QED BY <2>3, <2>5, EntriesAre, FS_Surjection DEF N
<1>6. ASSUME NEW i \in Places, NEW j \in Places, i < j PROVE EntryAt(i).date <= EntryAt(j).date
  <2>1. PICK e \in daily, f \in daily : e = EntryAt(i) /\ f = EntryAt(j) /\ Position(e) = i /\ Position(f) = j
    BY PlacesAre
  <2>2. ~ (Position(f) < Position(e))
    BY <1>6, <2>1, PlacesAre DEF Places
  <2>3. ~ Precedes(f, e)
    BY <2>2, PositionGrows
  <2>4. e.date \in Nat /\ f.date \in Nat
    BY EntriesAre
  <2>5. QED BY <2>1, <2>3, <2>4 DEF Precedes
<1>7. QED BY <1>1, <1>4, <1>5, <1>6, SpentByTrace DEF BatchesDoNotMatter

-----------------------------------------------------------------------------
\* The centred places: they add up to nothing, and their squares to a twelfth of SumXX
\* times four.
LEMMA CentredSums ==
  ASSUME ForecastInv, NEW c, c = [i \in Places |-> Centred(i)],
         NEW s, s = [i \in Places |-> Centred(i) * Centred(i)]
  PROVE  /\ SumFunctionOnSet(c, Places) = 0
         /\ 3 * SumFunctionOnSet(s, Places) = SumXX
         /\ SumFunctionOnSet(s, Places) \in Int
<1>1. N \in Nat /\ IsFiniteSet(Places) /\ Cardinality(Places) = N
  BY PlacesAre
<1>2. PICK n \in Nat : n = N
  BY <1>1
<1>3. Places = 0 .. n - 1 /\ \A i \in Places : i \in Nat
  BY <1>2 DEF Places
<1>4. PICK f : f = [i \in Nat |-> i]
  OBVIOUS
<1>5. PICK g : g = [i \in Nat |-> i * i]
  OBVIOUS
<1>6. PICK ones : ones = [i \in Nat |-> 1]
  OBVIOUS
<1>7. /\ SumFunctionOnSet(f, Places) \in Int /\ SumFunctionOnSet(g, Places) \in Int
  <2>1. \A i \in Places : f[i] \in Int /\ g[i] \in Int
    BY <1>3, <1>4, <1>5
  <2>2. QED BY <1>1, <2>1, SumType
<1>8. PICK p \in Int, q \in Int : p = SumFunctionOnSet(f, Places) /\ q = SumFunctionOnSet(g, Places)
  BY <1>7
<1>9. 2 * p = n * (n - 1) /\ 6 * q = n * (n - 1) * (2 * n - 1)
  BY <1>3, <1>4, <1>5, <1>8, NumbersSum
<1>10. SumFunctionOnSet(ones, Places) = n
  <2>1. \A i \in Places : ones[i] = 1
    BY <1>3, <1>6
  <2>2. SumFunctionOnSet(ones, Places) = 1 * Cardinality(Places)
    BY <1>1, <2>1, SumConst
  <2>3. QED BY <1>1, <1>2, <2>2
<1>11. SumFunctionOnSet(c, Places) = 2 * p + (-(n - 1)) * n
  <2>1. PICK a \in Int, b \in Int : a = 2 /\ b = -(n - 1)
    OBVIOUS
  <2>2. Combines(c, a, f, b, ones, Places)
    BY <1>2, <1>3, <1>4, <1>6, <2>1 DEF Centred, Combines
  <2>3. SumFunctionOnSet(c, Places) = a * SumFunctionOnSet(f, Places) + b * SumFunctionOnSet(ones, Places)
    BY <1>1, <2>2, SumCombine
  <2>4. QED BY <1>8, <1>10, <2>1, <2>3
<1>12. PICK t : t = [i \in Nat |-> 4 * (i * i) + (-(4 * (n - 1))) * i]
  OBVIOUS
<1>13. SumFunctionOnSet(t, Places) = 4 * q + (-(4 * (n - 1))) * p
  <2>1. PICK a \in Int, b \in Int : a = 4 /\ b = -(4 * (n - 1))
    OBVIOUS
  <2>2. Combines(t, a, g, b, f, Places)
    BY <1>3, <1>4, <1>5, <1>12, <2>1 DEF Combines
  <2>3. SumFunctionOnSet(t, Places) = a * SumFunctionOnSet(g, Places) + b * SumFunctionOnSet(f, Places)
    BY <1>1, <2>2, SumCombine
  <2>4. QED BY <1>8, <2>1, <2>3
<1>14. SumFunctionOnSet(s, Places) = 1 * SumFunctionOnSet(t, Places) + ((n - 1) * (n - 1)) * n
  <2>1. ASSUME NEW i \in Places
        PROVE  t[i] \in Int /\ ones[i] \in Int /\ s[i] = 1 * t[i] + ((n - 1) * (n - 1)) * ones[i]
    <3>1. t[i] = 4 * (i * i) + (-(4 * (n - 1))) * i /\ ones[i] = 1 /\ i \in Int
      BY <1>3, <1>6, <1>12
    <3>2. s[i] = (2 * i - (n - 1)) * (2 * i - (n - 1))
      BY <1>2 DEF Centred
    <3>3. QED BY <3>1, <3>2
  <2>2. PICK a \in Int, b \in Int : a = 1 /\ b = (n - 1) * (n - 1)
    OBVIOUS
  <2>3. Combines(s, a, t, b, ones, Places)
    BY <2>1, <2>2 DEF Combines
  <2>4. SumFunctionOnSet(s, Places) = a * SumFunctionOnSet(t, Places) + b * SumFunctionOnSet(ones, Places)
    BY <1>1, <2>3, SumCombine
  <2>5. QED BY <1>10, <2>2, <2>4
<1>15. SumFunctionOnSet(c, Places) = 0
  BY <1>9, <1>11
<1>16. PICK z \in Int : z = SumFunctionOnSet(s, Places)
  BY <1>13, <1>14
<1>17. z = 4 * q + (-(4 * (n - 1))) * p + ((n - 1) * (n - 1)) * n
  BY <1>13, <1>14, <1>16
<1>18. 3 * z = 2 * (6 * q) - 6 * (n - 1) * (2 * p) + 3 * ((n - 1) * (n - 1) * n)
  BY <1>17
<1>19. 3 * z = 2 * (n * (n - 1) * (2 * n - 1)) - 6 * (n - 1) * (n * (n - 1)) + 3 * ((n - 1) * (n - 1) * n)
  BY <1>9, <1>18
<1>20. 2 * (n * (n - 1) * (2 * n - 1)) - 6 * (n - 1) * (n * (n - 1)) + 3 * ((n - 1) * (n - 1) * n)
         = n * (n * n - 1)
  OBVIOUS
<1>21. QED BY <1>2, <1>15, <1>16, <1>19, <1>20 DEF SumXX

-----------------------------------------------------------------------------
(* The regression *)

LEMMA SumsTyped ==
  ASSUME ForecastInv
  PROVE  /\ Spent \in Nat /\ SumXY \in Int /\ SumXX \in Int
         /\ Spent = SumFunctionOnSet([i \in Places |-> CostAt(i)], Places)
         /\ SumXY = SumFunctionOnSet([i \in Places |-> Centred(i) * CostAt(i)], Places)
         /\ \A i \in Int : Centred(i) \in Int /\ OnLine(i) \in Int
         /\ \A i \in Places : i \in Int /\ Deviation(i) \in Int /\ Residual(i) \in Int
         /\ N >= 2 => SumXX > 0
<1>1. N \in Nat /\ IsFiniteSet(Places) /\ \A i \in Places : CostAt(i) \in Nat
  BY PlacesAre
<1>2. \A i \in Int : Centred(i) \in Int
  BY <1>1 DEF Centred
<1>3. \A i \in Places : i \in Int
  BY <1>1 DEF Places
<1>4. Spent \in Nat /\ Spent = SumFunctionOnSet([i \in Places |-> CostAt(i)], Places)
  <2>1. PICK f : f = [i \in Places |-> CostAt(i)]
    OBVIOUS
  <2>2. \A i \in Places : f[i] \in Nat
    BY <1>1, <2>1
  <2>3. SumFunctionOnSet(f, Places) \in Nat
    BY <1>1, <2>2, SumType
  <2>4. QED BY <2>1, <2>3 DEF Spent, SumFunction
<1>5. SumXY \in Int /\ SumXY = SumFunctionOnSet([i \in Places |-> Centred(i) * CostAt(i)], Places)
  <2>1. PICK f : f = [i \in Places |-> Centred(i) * CostAt(i)]
    OBVIOUS
  <2>2. \A i \in Places : f[i] \in Int
    BY <1>1, <1>2, <1>3, <2>1
  <2>3. SumFunctionOnSet(f, Places) \in Int
    BY <1>1, <2>2, SumType
  <2>4. QED BY <2>1, <2>3 DEF SumXY, SumFunction
<1>6. SumXX \in Int
  BY <1>1 DEF SumXX
<1>7. \A i \in Int : OnLine(i) \in Int
  BY <1>1, <1>2, <1>4, <1>5, <1>6 DEF OnLine
<1>8. \A i \in Places : Deviation(i) \in Int /\ Residual(i) \in Int
  BY <1>1, <1>3, <1>4, <1>6, <1>7 DEF Deviation, Residual
<1>9. N >= 2 => SumXX > 0
  <2>1. SUFFICES ASSUME N >= 2 PROVE N * (N * N - 1) > 0
    BY DEF SumXX
  <2>2. PICK k \in Nat : N = k + 2
    <3>1. N - 2 \in Nat /\ N = (N - 2) + 2
      BY <1>1, <2>1
    <3>2. QED BY <3>1
  <2>3. (k + 2) * (k + 2) - 1 >= 3
    <3>1. k * k >= 0
      OBVIOUS
    <3>2. (k + 2) * (k + 2) - 1 = k * k + 4 * k + 3
      OBVIOUS
    <3>3. QED BY <3>1, <3>2
  <2>4. PICK v \in Int : v = (k + 2) * (k + 2) - 1
    OBVIOUS
  <2>5. (k + 2) * v > 0
    BY <2>3, <2>4
  <2>6. QED BY <2>2, <2>4, <2>5
<1>10. QED BY <1>2, <1>3, <1>4, <1>5, <1>6, <1>7, <1>8, <1>9

\* What the line leaves of the deviations from the mean.
LEMMA ResidualsAre ==
  ASSUME ForecastInv
  PROVE  /\ LinearTot \in Int /\ LinearRes \in Int
         /\ LinearRes = LinearTot - 3 * (N * N) * (SumXY * SumXY) * SumXX
<1>1. N \in Nat /\ IsFiniteSet(Places) /\ \A i \in Places : CostAt(i) \in Nat
  BY PlacesAre
<1>2. PICK n \in Int, P \in Int, T \in Int, B \in Int :
        n = N /\ P = SumXX /\ T = Spent /\ B = SumXY
  <2>1. N \in Int /\ SumXX \in Int /\ Spent \in Int /\ SumXY \in Int
    BY <1>1, SumsTyped
  <2>2. QED BY <2>1
<1>3. PICK y : y = [i \in Places |-> CostAt(i)]
  OBVIOUS
<1>4. PICK c : c = [i \in Places |-> Centred(i)]
  OBVIOUS
<1>5. PICK cc : cc = [i \in Places |-> Centred(i) * Centred(i)]
  OBVIOUS
<1>6. PICK cy : cy = [i \in Places |-> Centred(i) * CostAt(i)]
  OBVIOUS
<1>7. PICK dd : dd = [i \in Places |-> Deviation(i) * Deviation(i)]
  OBVIOUS
<1>8. PICK w : w = [i \in Places |-> Centred(i) * Deviation(i)]
  OBVIOUS
<1>9. PICK u : u = [i \in Places |-> (P * P) * dd[i] + (-(6 * n * B * P)) * w[i]]
  OBVIOUS
<1>10. PICK r : r = [i \in Places |-> Residual(i) * Residual(i)]
  OBVIOUS
<1>11. /\ SumFunctionOnSet(c, Places) = 0 /\ 3 * SumFunctionOnSet(cc, Places) = P
       /\ SumFunctionOnSet(cc, Places) \in Int
  BY <1>2, <1>4, <1>5, CentredSums
<1>12. SumFunctionOnSet(cy, Places) = B
  BY <1>2, <1>6, SumsTyped
<1>13. ASSUME NEW i \in Places
       PROVE  /\ Centred(i) \in Int /\ CostAt(i) \in Int /\ Deviation(i) \in Int
              /\ Deviation(i) = n * CostAt(i) - T
              /\ Residual(i) = P * Deviation(i) - 3 * n * B * Centred(i)
  <2>1. Centred(i) \in Int /\ CostAt(i) \in Int /\ Deviation(i) \in Int
    BY <1>1, SumsTyped
  <2>2. Deviation(i) = n * CostAt(i) - T
    BY <1>2 DEF Deviation
  <2>3. Residual(i) = CostAt(i) * n * P - (T * P + 3 * B * n * Centred(i))
    BY <1>2 DEF Residual, OnLine
  <2>4. PICK v \in Int, z \in Int : v = CostAt(i) /\ z = Centred(i)
    BY <2>1
  <2>5. v * n * P - (T * P + 3 * B * n * z) = P * (n * v - T) - 3 * n * B * z
    OBVIOUS
  <2>6. QED BY <2>1, <2>2, <2>3, <2>4, <2>5
<1>14. SumFunctionOnSet(w, Places) = n * B
  <2>1. PICK a \in Int, b \in Int : a = n /\ b = -T
    OBVIOUS
  <2>2. ASSUME NEW i \in Places PROVE cy[i] \in Int /\ c[i] \in Int /\ w[i] = a * cy[i] + b * c[i]
    <3>1. PICK v \in Int, z \in Int : v = CostAt(i) /\ z = Centred(i)
      BY <1>13
    <3>2. cy[i] = z * v /\ c[i] = z /\ w[i] = z * (n * v - T)
      BY <1>4, <1>6, <1>8, <1>13, <3>1
    <3>3. z * (n * v - T) = n * (z * v) + (-T) * z
      OBVIOUS
    <3>4. QED BY <2>1, <3>2, <3>3
  <2>3. Combines(w, a, cy, b, c, Places)
    BY <2>2 DEF Combines
  <2>4. SumFunctionOnSet(w, Places) = a * SumFunctionOnSet(cy, Places) + b * SumFunctionOnSet(c, Places)
    BY <1>1, <2>3, SumCombine
  <2>5. QED BY <1>11, <1>12, <2>1, <2>4
<1>15. ASSUME NEW i \in Places
       PROVE  dd[i] \in Int /\ w[i] \in Int /\ cc[i] \in Int /\ u[i] \in Int
                /\ r[i] = u[i] + (9 * (n * n) * (B * B)) * cc[i]
  <2>1. PICK x \in Int, z \in Int : x = Deviation(i) /\ z = Centred(i)
    BY <1>13
  <2>2. dd[i] = x * x /\ w[i] = z * x /\ cc[i] = z * z
    BY <1>5, <1>7, <1>8, <2>1
  <2>3. r[i] = (P * x - 3 * n * B * z) * (P * x - 3 * n * B * z)
    BY <1>10, <1>13, <2>1
  <2>4. u[i] = (P * P) * (x * x) + (-(6 * n * B * P)) * (z * x)
    BY <1>9, <2>2
  <2>5. (P * x - 3 * n * B * z) * (P * x - 3 * n * B * z)
          = (P * P) * (x * x) + (-(6 * n * B * P)) * (z * x) + (9 * (n * n) * (B * B)) * (z * z)
    OBVIOUS
  <2>6. QED BY <2>2, <2>3, <2>4, <2>5
<1>16. PICK q \in Int : q = SumFunctionOnSet(dd, Places)
  <2>1. SumFunctionOnSet(dd, Places) \in Int
    BY <1>1, <1>15, SumType
  <2>2. QED BY <2>1
<1>17. SumFunctionOnSet(u, Places) = (P * P) * q + (-(6 * n * B * P)) * (n * B)
  <2>1. PICK a \in Int, b \in Int : a = P * P /\ b = -(6 * n * B * P)
    OBVIOUS
  <2>2. Combines(u, a, dd, b, w, Places)
    BY <1>9, <1>15, <2>1 DEF Combines
  <2>3. SumFunctionOnSet(u, Places) = a * SumFunctionOnSet(dd, Places) + b * SumFunctionOnSet(w, Places)
    BY <1>1, <2>2, SumCombine
  <2>4. QED BY <1>14, <1>16, <2>1, <2>3
<1>18. PICK m \in Int : m = SumFunctionOnSet(cc, Places) /\ 3 * m = P
  BY <1>11
<1>19. SumFunctionOnSet(r, Places) = ((P * P) * q + (-(6 * n * B * P)) * (n * B)) + (9 * (n * n) * (B * B)) * m
  <2>1. PICK a \in Int, b \in Int : a = 1 /\ b = 9 * (n * n) * (B * B)
    OBVIOUS
  <2>2. Combines(r, a, u, b, cc, Places)
    BY <1>15, <2>1 DEF Combines
  <2>3. SumFunctionOnSet(r, Places) = a * SumFunctionOnSet(u, Places) + b * SumFunctionOnSet(cc, Places)
    BY <1>1, <2>2, SumCombine
  <2>4. PICK x \in Int : x = SumFunctionOnSet(u, Places)
    BY <1>17
  <2>5. SumFunctionOnSet(r, Places) = x + b * m
    BY <1>18, <2>1, <2>3, <2>4
  <2>6. QED BY <1>17, <2>1, <2>4, <2>5
<1>20. LinearTot = q * P * P
  BY <1>2, <1>7, <1>16 DEF LinearTot, SumFunction
<1>21. LinearRes = SumFunctionOnSet(r, Places)
  BY <1>10 DEF LinearRes, SumFunction
<1>22. ((P * P) * q + (-(6 * n * B * P)) * (n * B)) + (9 * (n * n) * (B * B)) * m
         = q * P * P - 3 * (n * n) * (B * B) * P
  <2>1. (9 * (n * n) * (B * B)) * m = (3 * (n * n) * (B * B)) * (3 * m)
    OBVIOUS
  <2>2. (9 * (n * n) * (B * B)) * m = (3 * (n * n) * (B * B)) * P
    BY <1>18, <2>1
  <2>3. ((P * P) * q + (-(6 * n * B * P)) * (n * B)) + (3 * (n * n) * (B * B)) * P
         = q * P * P - 3 * (n * n) * (B * B) * P
    OBVIOUS
  <2>4. QED BY <2>2, <2>3
<1>23. LinearRes = q * P * P - 3 * (n * n) * (B * B) * P
  BY <1>19, <1>21, <1>22
<1>24. q * P * P \in Int /\ q * P * P - 3 * (n * n) * (B * B) * P \in Int
  OBVIOUS
<1>25. QED BY <1>2, <1>20, <1>23, <1>24

\* The line through N places, in terms of the line that the costs are on.
LineOf(a, s, x) == a + s * x
Straight == \A i \in 1 .. N - 2 : CostAt(i) - CostAt(i - 1) = CostAt(i + 1) - CostAt(i)

\* After two points of a line comes a third.
LEMMA NextOnLine ==
  ASSUME NEW a \in Int, NEW s \in Int, NEW k \in Int, NEW x \in Int, NEW y \in Int, NEW z \in Int,
         x = a + s * (k - 2), y = a + s * (k - 1), y - x = z - y
  PROVE  z = a + s * k
<1>1. s * (k - 2) = s * k - 2 * s /\ s * (k - 1) = s * k - s
  OBVIOUS
<1>2. PICK v \in Int : v = s * k
  OBVIOUS
<1>3. x = a + v - 2 * s /\ y = a + v - s
  BY <1>1, <1>2
<1>4. QED BY <1>2, <1>3

\* Costs with equal steps between them are on a line.
LEMMA StraightIs ==
  ASSUME ForecastInv, N >= 2, Straight, NEW a \in Int, NEW s \in Int,
         CostAt(0) = LineOf(a, s, 0), CostAt(1) = LineOf(a, s, 1)
  PROVE  \A i \in Places : CostAt(i) = LineOf(a, s, i)
<1>1. N \in Nat /\ \A i \in Places : CostAt(i) \in Nat
  BY PlacesAre
<1> DEFINE Bad == {i \in Places : CostAt(i) # LineOf(a, s, i)}
<1>2. SUFFICES ASSUME Bad # {} PROVE FALSE
  OBVIOUS
<1>3. PICK k \in Bad : \A j \in Bad : k <= j
  <2>1. Bad \in SUBSET Nat
    BY <1>1 DEF Places
  <2> HIDE DEF Bad
  <2>2. QED BY <1>2, <2>1, SmallestExists
<1>4. k \in Nat /\ k <= N - 1
  BY <1>1, <1>3 DEF Places
<1>5. k # 0 /\ k # 1
  <2>1. QED BY <1>3
<1>6. /\ k - 1 \in Places /\ k - 2 \in Places /\ k \in Places
      /\ k - 1 \in 1 .. N - 2 /\ ~ (k <= k - 1) /\ ~ (k <= k - 2)
      /\ (k - 1) - 1 = k - 2 /\ (k - 1) + 1 = k
  BY <1>1, <1>4, <1>5 DEF Places
<1>7. k - 1 \notin Bad /\ k - 2 \notin Bad
  <2> HIDE DEF Bad
  <2>1. QED BY <1>3, <1>6
<1>8. CostAt(k - 1) = LineOf(a, s, k - 1) /\ CostAt(k - 2) = LineOf(a, s, k - 2)
  BY <1>6, <1>7
<1>9. CostAt(k - 1) - CostAt(k - 2) = CostAt(k) - CostAt(k - 1)
  BY <1>6 DEF Straight
<1>10. PICK x \in Int, y \in Int, z \in Int : x = CostAt(k - 2) /\ y = CostAt(k - 1) /\ z = CostAt(k)
  <2>1. CostAt(k - 2) \in Int /\ CostAt(k - 1) \in Int /\ CostAt(k) \in Int
    BY <1>1, <1>6
  <2>2. QED BY <2>1
<1>11. x = a + s * (k - 2) /\ y = a + s * (k - 1) /\ y - x = z - y
  BY <1>8, <1>9, <1>10 DEF LineOf
<1>12. z = a + s * k
  <2> HIDE DEF Bad
  <2>1. k \in Int
    BY <1>4
  <2>2. QED BY <1>11, <2>1, NextOnLine
<1>13. QED BY <1>3, <1>10, <1>12 DEF LineOf, Bad

\* The regression finds that line.
LEMMA RegressionIs ==
  ASSUME ForecastInv, NEW a \in Int, NEW s \in Int,
         \A i \in Places : CostAt(i) = LineOf(a, s, i)
  PROVE  /\ 2 * Spent = N * (2 * a + s * (N - 1))
         /\ \A x \in Int : OnLine(x) = N * SumXX * LineOf(a, s, x)
         /\ \A i \in Places : Residual(i) = 0 /\ 2 * Deviation(i) = N * s * Centred(i)
<1>1. N \in Nat /\ IsFiniteSet(Places) /\ Cardinality(Places) = N /\ \A i \in Places : CostAt(i) \in Nat
  BY PlacesAre
<1>2. PICK n \in Int, P \in Int, T \in Int, B \in Int :
        n = N /\ P = SumXX /\ T = Spent /\ B = SumXY
  <2>1. N \in Int /\ SumXX \in Int /\ Spent \in Int /\ SumXY \in Int
    BY <1>1, SumsTyped
  <2>2. QED BY <2>1
<1>3. PICK y : y = [i \in Places |-> CostAt(i)]
  OBVIOUS
<1>4. PICK c : c = [i \in Places |-> Centred(i)]
  OBVIOUS
<1>5. PICK cc : cc = [i \in Places |-> Centred(i) * Centred(i)]
  OBVIOUS
<1>6. PICK cy : cy = [i \in Places |-> Centred(i) * CostAt(i)]
  OBVIOUS
<1>7. PICK ones : ones = [i \in Places |-> 1]
  OBVIOUS
<1>8. PICK h \in Int : h = 2 * a + s * (n - 1)
  OBVIOUS
<1>9. PICK m \in Int : m = SumFunctionOnSet(cc, Places) /\ 3 * m = P
  BY <1>2, <1>4, <1>5, CentredSums
<1>10. /\ SumFunctionOnSet(c, Places) = 0
       /\ SumFunctionOnSet(cy, Places) = B /\ SumFunctionOnSet(y, Places) = T
  BY <1>2, <1>3, <1>4, <1>5, <1>6, CentredSums, SumsTyped
<1>11. SumFunctionOnSet(ones, Places) = n
  <2>1. \A i \in Places : ones[i] = 1
    BY <1>7
  <2>2. SumFunctionOnSet(ones, Places) = 1 * Cardinality(Places)
    BY <1>1, <2>1, SumConst
  <2>3. QED BY <1>1, <1>2, <2>2
<1>12. ASSUME NEW i \in Places
       PROVE  i \in Int /\ CostAt(i) = a + s * i /\ Centred(i) = 2 * i - (n - 1) /\ Centred(i) \in Int
  <2>1. i \in Int
    BY SumsTyped
  <2>2. QED BY <1>2, <2>1 DEF LineOf, Centred
<1>13. PICK yy : yy = [i \in Places |-> s * c[i] + h * ones[i]]
  OBVIOUS
<1>14. ASSUME NEW i \in Places PROVE yy[i] = 2 * y[i] + 0 * c[i] /\ c[i] \in Int /\ y[i] \in Int
  <2>1. PICK j \in Int : j = i
    BY <1>12
  <2>2. c[i] = 2 * j - (n - 1) /\ y[i] = a + s * j /\ yy[i] = s * (2 * j - (n - 1)) + h
    BY <1>3, <1>4, <1>7, <1>12, <1>13, <2>1
  <2>3. s * (2 * j - (n - 1)) + (2 * a + s * (n - 1)) = 2 * (a + s * j)
    OBVIOUS
  <2>4. QED BY <1>8, <2>2, <2>3
<1>15. 2 * T = h * n
  <2>1. PICK two \in Int, zero \in Int : two = 2 /\ zero = 0
    OBVIOUS
  <2>2. Combines(yy, s, c, h, ones, Places)
    BY <1>7, <1>13, <1>14 DEF Combines
  <2>3. Combines(yy, two, y, zero, c, Places)
    BY <1>14, <2>1 DEF Combines
  <2>4. SumFunctionOnSet(yy, Places) = s * SumFunctionOnSet(c, Places) + h * SumFunctionOnSet(ones, Places)
    BY <1>1, <2>2, SumCombine
  <2>5. SumFunctionOnSet(yy, Places) = two * SumFunctionOnSet(y, Places) + zero * SumFunctionOnSet(c, Places)
    BY <1>1, <2>3, SumCombine
  <2>6. QED BY <1>10, <1>11, <2>1, <2>4, <2>5
<1>16. PICK v : v = [i \in Places |-> s * cc[i] + h * c[i]]
  OBVIOUS
<1>17. ASSUME NEW i \in Places
       PROVE  v[i] = 2 * cy[i] + 0 * c[i] /\ c[i] \in Int /\ cy[i] \in Int /\ cc[i] \in Int
  <2>1. PICK j \in Int : j = i
    BY <1>12
  <2>2. PICK z \in Int : z = 2 * j - (n - 1)
    OBVIOUS
  <2>3. c[i] = z /\ cc[i] = z * z /\ cy[i] = z * (a + s * j) /\ v[i] = s * (z * z) + h * z
    BY <1>4, <1>5, <1>6, <1>12, <1>16, <2>1, <2>2
  <2>4. s * (z * z) + h * z = z * (s * z + h)
    OBVIOUS
  <2>5. s * z + h = 2 * (a + s * j)
    <3>1. s * (2 * j - (n - 1)) + (2 * a + s * (n - 1)) = 2 * (a + s * j)
      OBVIOUS
    <3>2. QED BY <1>8, <2>2, <3>1
  <2>6. z * (2 * (a + s * j)) = 2 * (z * (a + s * j))
    OBVIOUS
  <2>7. QED BY <2>3, <2>4, <2>5, <2>6
<1>18. 2 * B = s * m
  <2>1. PICK two \in Int, zero \in Int : two = 2 /\ zero = 0
    OBVIOUS
  <2>2. Combines(v, s, cc, h, c, Places)
    BY <1>16, <1>17 DEF Combines
  <2>3. Combines(v, two, cy, zero, c, Places)
    BY <1>17, <2>1 DEF Combines
  <2>4. SumFunctionOnSet(v, Places) = s * SumFunctionOnSet(cc, Places) + h * SumFunctionOnSet(c, Places)
    BY <1>1, <2>2, SumCombine
  <2>5. SumFunctionOnSet(v, Places) = two * SumFunctionOnSet(cy, Places) + zero * SumFunctionOnSet(c, Places)
    BY <1>1, <2>3, SumCombine
  <2>6. QED BY <1>9, <1>10, <2>1, <2>4, <2>5
<1>19. 6 * B = s * P
  <2>1. 6 * B = 3 * (s * m)
    BY <1>18
  <2>2. 3 * (s * m) = s * (3 * m)
    OBVIOUS
  <2>3. QED BY <1>9, <2>1, <2>2
<1>20. ASSUME NEW x \in Int PROVE OnLine(x) = n * P * (a + s * x) /\ OnLine(x) \in Int
  <2>1. OnLine(x) = T * P + 3 * B * n * (2 * x - (n - 1))
    BY <1>2 DEF OnLine, Centred
  <2>2. PICK z \in Int : z = 2 * x - (n - 1)
    OBVIOUS
  <2>3. PICK o \in Int : o = OnLine(x)
    BY <2>1, <2>2
  <2>4. 2 * o = (2 * T) * P + (6 * B) * (n * z)
    <3>1. 2 * (T * P + 3 * B * n * z) = (2 * T) * P + (6 * B) * (n * z)
      OBVIOUS
    <3>2. QED BY <2>1, <2>2, <2>3, <3>1
  <2>5. 2 * o = (h * n) * P + (s * P) * (n * z)
    BY <1>15, <1>19, <2>4
  <2>6. (h * n) * P + (s * P) * (n * z) = n * P * (s * z + h)
    OBVIOUS
  <2>7. s * z + h = 2 * (a + s * x)
    <3>1. s * (2 * x - (n - 1)) + (2 * a + s * (n - 1)) = 2 * (a + s * x)
      OBVIOUS
    <3>2. QED BY <1>8, <2>2, <3>1
  <2>8. PICK l \in Int : l = a + s * x
    OBVIOUS
  <2>9. n * P * (2 * l) = 2 * (n * P * l)
    OBVIOUS
  <2>10. 2 * o = 2 * (n * P * l)
    BY <2>5, <2>6, <2>7, <2>8, <2>9
  <2>11. PICK r \in Int : r = n * P * l
    OBVIOUS
  <2>12. o = r
    BY <2>10, <2>11
  <2>13. QED BY <2>3, <2>8, <2>11, <2>12
<1>21. ASSUME NEW i \in Places PROVE Residual(i) = 0 /\ 2 * Deviation(i) = n * s * Centred(i)
  <2>1. PICK j \in Int : j = i
    BY <1>12
  <2>2. Residual(i) = (a + s * j) * n * P - n * P * (a + s * j)
    BY <1>2, <1>12, <1>20, <2>1 DEF Residual
  <2>3. PICK l \in Int : l = a + s * j
    OBVIOUS
  <2>4. l * n * P - n * P * l = 0
    OBVIOUS
  <2>5. Residual(i) = 0
    BY <2>2, <2>3, <2>4
  <2>6. Deviation(i) = n * (a + s * j) - T
    BY <1>2, <1>12, <2>1 DEF Deviation
  <2>7. 2 * (n * (a + s * j) - T) = 2 * (n * (a + s * j)) - h * n
    BY <1>15
  <2>8. 2 * (n * (a + s * j)) - (2 * a + s * (n - 1)) * n = n * s * (2 * j - (n - 1))
    OBVIOUS
  <2>9. QED BY <1>8, <1>12, <2>1, <2>5, <2>6, <2>7, <2>8
<1>22. 2 * Spent = N * (2 * a + s * (N - 1))
  <2>1. h * n = n * h
    OBVIOUS
  <2>2. QED BY <1>2, <1>8, <1>15, <2>1
<1>23. QED BY <1>2, <1>20, <1>21, <1>22 DEF LineOf

-----------------------------------------------------------------------------
(* The smoothed costs *)

LEMMA SmoothedIs ==
  ASSUME ForecastInv, N >= 1
  PROVE  /\ Smoothed[0] = CostAt(0)
         /\ \A k \in 1 .. N - 1 : Smoothed[k] = 3 * Power(10)[k - 1] * CostAt(k) + 7 * Smoothed[k - 1]
         /\ \A k \in Places : Smoothed[k] \in Nat
<1>1. N \in Nat /\ \A i \in Places : CostAt(i) \in Nat
  BY PlacesAre
<1>2. Power(10) \in [Nat -> Nat]
  BY PowerIs
<1>3. PICK top \in Nat : top = N - 1
  <2>1. N - 1 \in Nat
    BY <1>1
  <2>2. QED BY <2>1
<1>4. Places = 0 .. top /\ 0 \in Places /\ \A k \in 1 .. top : k \in Places /\ k - 1 \in Places /\ k - 1 \in Nat /\ k # 0
  BY <1>1, <1>3 DEF Places
<1>5. PICK start \in Nat : start = CostAt(0)
  BY <1>1, <1>4
<1>6. PICK w : w = [k \in 1 .. top |-> 3 * Power(10)[k - 1] * CostAt(k)]
  OBVIOUS
<1>7. \A k \in 1 .. top : w[k] \in Nat
  <2>1. ASSUME NEW k \in 1 .. top PROVE w[k] \in Nat
    <3>1. PICK p \in Nat, c \in Nat : p = Power(10)[k - 1] /\ c = CostAt(k)
      BY <1>1, <1>2, <1>4
    <3>2. w[k] = 3 * p * c
      BY <1>6, <3>1
    <3>3. QED BY <3>2
  <2>2. QED BY <2>1
<1>8. PICK S : S = [k \in 1 .. top |-> [v \in Nat |-> w[k] + 7 * v]]
  OBVIOUS
<1>9. S \in [1 .. top -> [Nat -> Nat]]
  <2>1. ASSUME NEW k \in 1 .. top PROVE S[k] \in [Nat -> Nat]
    <3>1. PICK x \in Nat : x = w[k]
      BY <1>7
    <3>2. S[k] = [v \in Nat |-> x + 7 * v]
      BY <1>8, <3>1
    <3>3. QED BY <3>2
  <2>2. QED BY <1>8, <2>1
<1>10. PICK f : IsChain(f, Nat, start, top, S)
  BY <1>9, ChainExists
<1>11. /\ f \in [0 .. top -> Nat] /\ f[0] = start
       /\ \A k \in 1 .. top : f[k] = S[k][f[k - 1]]
  BY <1>10 DEF IsChain
<1>12. ASSUME NEW k \in 1 .. top PROVE f[k] = 3 * Power(10)[k - 1] * CostAt(k) + 7 * f[k - 1]
  <2>1. f[k - 1] \in Nat
    BY <1>4, <1>11
  <2>2. S[k][f[k - 1]] = w[k] + 7 * f[k - 1]
    BY <1>8, <2>1
  <2>3. QED BY <1>6, <1>11, <2>2
<1> DEFINE Law(g) == g = [n \in Places |-> IF n = 0 THEN CostAt(0)
                                           ELSE 3 * Power(10)[n - 1] * CostAt(n) + 7 * g[n - 1]]
<1>13. Law(f)
  <2>1. ASSUME NEW n \in Places
        PROVE  f[n] = IF n = 0 THEN CostAt(0) ELSE 3 * Power(10)[n - 1] * CostAt(n) + 7 * f[n - 1]
    <3>1. CASE n = 0
      BY <1>5, <1>11, <3>1
    <3>2. CASE n # 0
      <4>1. n \in 1 .. top
        BY <1>4, <3>2
      <4>2. QED BY <1>12, <3>2, <4>1
    <3>3. QED BY <3>1, <3>2
  <2>2. f = [n \in Places |-> f[n]]
    BY <1>4, <1>11
  <2>3. QED BY <2>1, <2>2
<1>14. Law(Smoothed)
  <2>1. Smoothed = CHOOSE g : Law(g)
    BY DEF Smoothed
  <2> HIDE DEF Law
  <2>2. QED BY <1>13, <2>1
<1>15. PICK q : q = Smoothed
  OBVIOUS
<1>16. q = [n \in Places |-> IF n = 0 THEN CostAt(0)
                             ELSE 3 * Power(10)[n - 1] * CostAt(n) + 7 * q[n - 1]]
  BY <1>14, <1>15
<1>17. q[0] = CostAt(0)
  BY <1>4, <1>16
<1>18. ASSUME NEW k \in 1 .. top PROVE q[k] = 3 * Power(10)[k - 1] * CostAt(k) + 7 * q[k - 1]
  BY <1>4, <1>16
<1>19. ASSUME NEW k \in Places PROVE q[k] \in Nat
  <2> DEFINE Bad == {j \in Places : q[j] \notin Nat}
  <2>1. SUFFICES ASSUME Bad # {} PROVE FALSE
    OBVIOUS
  <2>2. PICK m \in Bad : \A j \in Bad : m <= j
    <3>1. Bad \in SUBSET Nat
      BY <1>4
    <3> HIDE DEF Bad
    <3>2. QED BY <2>1, <3>1, SmallestExists
  <2>3. m # 0
    BY <1>1, <1>4, <1>17, <2>2
  <2>4. m \in 1 .. top /\ ~ (m <= m - 1)
    BY <1>4, <2>2, <2>3
  <2>5. m - 1 \in Places
    BY <1>4, <2>4
  <2>6. m - 1 \notin Bad
    <3> HIDE DEF Bad
    <3>1. QED BY <2>2, <2>4
  <2>7. q[m - 1] \in Nat
    BY <2>5, <2>6
  <2>8. q[m] = w[m] + 7 * q[m - 1]
    BY <1>6, <1>18, <2>4
  <2>9. QED BY <1>7, <2>2, <2>4, <2>7, <2>8
<1>20. QED BY <1>3, <1>15, <1>17, <1>18, <1>19

\* Where costs never fall, smoothing stays behind them; where they never rise, above.
NeverFalls == \A i \in 1 .. N - 1 : CostAt(i) >= CostAt(i - 1)
NeverRises == \A i \in 1 .. N - 1 : CostAt(i) <= CostAt(i - 1)

\* One step of the recursion, over numbers: p is a power of ten, u the smoothed cost
\* before, c and d the costs before and at the place.
LEMMA SmoothStep ==
  ASSUME NEW p \in Nat, NEW u \in Nat, NEW c \in Nat, NEW d \in Nat
  PROVE  /\ u <= p * c /\ c <= d => 3 * p * d + 7 * u <= (10 * p) * d /\ 10 * u <= 3 * p * d + 7 * u
         /\ u >= p * c /\ c >= d => 3 * p * d + 7 * u >= (10 * p) * d /\ 10 * u >= 3 * p * d + 7 * u
<1>1. PICK v \in Int, w \in Int : v = p * c /\ w = p * d
  OBVIOUS
<1>2. 3 * p * d = 3 * w /\ (10 * p) * d = 10 * w
  BY <1>1
<1>3. c <= d => v <= w
  <2>1. SUFFICES ASSUME c <= d PROVE v <= w
    OBVIOUS
  <2>2. PICK g \in Nat : d = c + g
    <3>1. d - c \in Nat /\ d = c + (d - c)
      BY <2>1
    <3>2. QED BY <3>1
  <2>3. w = p * c + p * g /\ p * g >= 0
    BY <1>1, <2>2
  <2>4. QED BY <1>1, <2>3
<1>4. c >= d => v >= w
  <2>1. SUFFICES ASSUME c >= d PROVE v >= w
    OBVIOUS
  <2>2. PICK g \in Nat : c = d + g
    <3>1. c - d \in Nat /\ c = d + (c - d)
      BY <2>1
    <3>2. QED BY <3>1
  <2>3. v = p * d + p * g /\ p * g >= 0
    BY <1>1, <2>2
  <2>4. QED BY <1>1, <2>3
<1>5. u <= v /\ v <= w => 3 * w + 7 * u <= 10 * w /\ 10 * u <= 3 * w + 7 * u
  OBVIOUS
<1>6. u >= v /\ v >= w => 3 * w + 7 * u >= 10 * w /\ 10 * u >= 3 * w + 7 * u
  OBVIOUS
<1>7. QED BY <1>1, <1>2, <1>3, <1>4, <1>5, <1>6

\* The numbers of one step at a place.
LEMMA SmoothAt ==
  ASSUME ForecastInv, NEW k \in 1 .. N - 1
  PROVE  /\ k \in Places /\ k - 1 \in Places /\ k - 1 \in Nat
         /\ \E p \in Nat, u \in Nat, c \in Nat, d \in Nat :
              /\ p = Power(10)[k - 1] /\ Power(10)[k] = 10 * p
              /\ u = Smoothed[k - 1] /\ Smoothed[k] = 3 * p * d + 7 * u
              /\ c = CostAt(k - 1) /\ d = CostAt(k)
<1>1. N \in Nat /\ \A i \in Places : CostAt(i) \in Nat
  BY PlacesAre
<1>2. k \in Places /\ k - 1 \in Places /\ k - 1 \in Nat /\ N >= 1 /\ (k - 1) + 1 = k
  BY <1>1 DEF Places
<1>3. PICK p \in Nat : p = Power(10)[k - 1] /\ Power(10)[k] = 10 * p
  <2>1. /\ Power(10) \in [Nat -> Nat]
        /\ \A i \in Nat : Power(10)[i + 1] = 10 * Power(10)[i]
    BY PowerIs
  <2>2. Power(10)[k - 1] \in Nat
    BY <1>2, <2>1
  <2>3. Power(10)[(k - 1) + 1] = 10 * Power(10)[k - 1]
    BY <1>2, <2>1
  <2>4. QED BY <1>2, <2>2, <2>3
<1>4. PICK u \in Nat : u = Smoothed[k - 1]
  BY <1>2, SmoothedIs
<1>5. PICK c \in Nat, d \in Nat : c = CostAt(k - 1) /\ d = CostAt(k)
  BY <1>1, <1>2
<1>6. Smoothed[k] = 3 * Power(10)[k - 1] * CostAt(k) + 7 * Smoothed[k - 1]
  BY <1>2, SmoothedIs
<1>7. Smoothed[k] = 3 * p * d + 7 * u
  BY <1>3, <1>4, <1>5, <1>6
<1>8. QED BY <1>2, <1>3, <1>4, <1>5, <1>7

LEMMA SmoothedBehind ==
  ASSUME ForecastInv, N >= 1, NeverFalls
  PROVE  /\ \A k \in Places : Smoothed[k] <= Power(10)[k] * CostAt(k)
         /\ \A k \in 1 .. N - 1 : 10 * Smoothed[k - 1] <= Smoothed[k]
<1>1. N \in Nat /\ \A i \in Places : CostAt(i) \in Nat
  BY PlacesAre
<1>2. \A k \in Places : Smoothed[k] <= Power(10)[k] * CostAt(k)
  <2> DEFINE Bad == {k \in Places : ~ (Smoothed[k] <= Power(10)[k] * CostAt(k))}
  <2>1. SUFFICES ASSUME Bad # {} PROVE FALSE
    OBVIOUS
  <2>2. PICK k \in Bad : \A j \in Bad : k <= j
    <3>1. Bad \in SUBSET Nat
      BY <1>1 DEF Places
    <3> HIDE DEF Bad
    <3>2. QED BY <2>1, <3>1, SmallestExists
  <2>3. k # 0
    <3>1. Smoothed[0] = CostAt(0) /\ Power(10)[0] = 1
      BY SmoothedIs, PowerIs
    <3>2. 0 \in Places /\ CostAt(0) \in Nat
      BY <1>1 DEF Places
    <3>3. Smoothed[0] <= Power(10)[0] * CostAt(0)
      BY <3>1, <3>2
    <3>4. QED BY <2>2, <3>3
  <2>4. k \in 1 .. N - 1 /\ ~ (k <= k - 1)
    BY <1>1, <2>2, <2>3 DEF Places
  <2>5. PICK p \in Nat, u \in Nat, c \in Nat, d \in Nat :
              /\ p = Power(10)[k - 1] /\ Power(10)[k] = 10 * p
              /\ u = Smoothed[k - 1] /\ Smoothed[k] = 3 * p * d + 7 * u
              /\ c = CostAt(k - 1) /\ d = CostAt(k)
    BY <2>4, SmoothAt
  <2>6. u <= p * c
    <3>1. k - 1 \notin Bad
      <4> HIDE DEF Bad
      <4>1. QED BY <2>2, <2>4
    <3>2. k - 1 \in Places
      BY <2>4, SmoothAt
    <3>3. QED BY <2>5, <3>1, <3>2
  <2>7. c <= d
    BY <2>4, <2>5 DEF NeverFalls
  <2>8. 3 * p * d + 7 * u <= (10 * p) * d
    BY <2>6, <2>7, SmoothStep
  <2>9. QED BY <2>2, <2>5, <2>8
<1>3. ASSUME NEW k \in 1 .. N - 1 PROVE 10 * Smoothed[k - 1] <= Smoothed[k]
  <2>1. PICK p \in Nat, u \in Nat, c \in Nat, d \in Nat :
              /\ p = Power(10)[k - 1] /\ Power(10)[k] = 10 * p
              /\ u = Smoothed[k - 1] /\ Smoothed[k] = 3 * p * d + 7 * u
              /\ c = CostAt(k - 1) /\ d = CostAt(k)
    BY SmoothAt
  <2>2. k - 1 \in Places
    BY SmoothAt
  <2>3. u <= p * c
    BY <1>2, <2>1, <2>2
  <2>4. c <= d
    BY <2>1 DEF NeverFalls
  <2>5. 10 * u <= 3 * p * d + 7 * u
    BY <2>3, <2>4, SmoothStep
  <2>6. QED BY <2>1, <2>5
<1>4. QED BY <1>2, <1>3

LEMMA SmoothedAbove ==
  ASSUME ForecastInv, N >= 1, NeverRises
  PROVE  /\ \A k \in Places : Smoothed[k] >= Power(10)[k] * CostAt(k)
         /\ \A k \in 1 .. N - 1 : 10 * Smoothed[k - 1] >= Smoothed[k]
<1>1. N \in Nat /\ \A i \in Places : CostAt(i) \in Nat
  BY PlacesAre
<1>2. \A k \in Places : Smoothed[k] >= Power(10)[k] * CostAt(k)
  <2> DEFINE Bad == {k \in Places : ~ (Smoothed[k] >= Power(10)[k] * CostAt(k))}
  <2>1. SUFFICES ASSUME Bad # {} PROVE FALSE
    OBVIOUS
  <2>2. PICK k \in Bad : \A j \in Bad : k <= j
    <3>1. Bad \in SUBSET Nat
      BY <1>1 DEF Places
    <3> HIDE DEF Bad
    <3>2. QED BY <2>1, <3>1, SmallestExists
  <2>3. k # 0
    <3>1. Smoothed[0] = CostAt(0) /\ Power(10)[0] = 1
      BY SmoothedIs, PowerIs
    <3>2. 0 \in Places /\ CostAt(0) \in Nat
      BY <1>1 DEF Places
    <3>3. Smoothed[0] >= Power(10)[0] * CostAt(0)
      BY <3>1, <3>2
    <3>4. QED BY <2>2, <3>3
  <2>4. k \in 1 .. N - 1 /\ ~ (k <= k - 1)
    BY <1>1, <2>2, <2>3 DEF Places
  <2>5. PICK p \in Nat, u \in Nat, c \in Nat, d \in Nat :
              /\ p = Power(10)[k - 1] /\ Power(10)[k] = 10 * p
              /\ u = Smoothed[k - 1] /\ Smoothed[k] = 3 * p * d + 7 * u
              /\ c = CostAt(k - 1) /\ d = CostAt(k)
    BY <2>4, SmoothAt
  <2>6. u >= p * c
    <3>1. k - 1 \notin Bad
      <4> HIDE DEF Bad
      <4>1. QED BY <2>2, <2>4
    <3>2. k - 1 \in Places
      BY <2>4, SmoothAt
    <3>3. QED BY <2>5, <3>1, <3>2
  <2>7. c >= d
    BY <2>4, <2>5 DEF NeverRises
  <2>8. 3 * p * d + 7 * u >= (10 * p) * d
    BY <2>6, <2>7, SmoothStep
  <2>9. QED BY <2>2, <2>5, <2>8
<1>3. ASSUME NEW k \in 1 .. N - 1 PROVE 10 * Smoothed[k - 1] >= Smoothed[k]
  <2>1. PICK p \in Nat, u \in Nat, c \in Nat, d \in Nat :
              /\ p = Power(10)[k - 1] /\ Power(10)[k] = 10 * p
              /\ u = Smoothed[k - 1] /\ Smoothed[k] = 3 * p * d + 7 * u
              /\ c = CostAt(k - 1) /\ d = CostAt(k)
    BY SmoothAt
  <2>2. k - 1 \in Places
    BY SmoothAt
  <2>3. u >= p * c
    BY <1>2, <2>1, <2>2
  <2>4. c >= d
    BY <2>1 DEF NeverRises
  <2>5. 10 * u >= 3 * p * d + 7 * u
    BY <2>3, <2>4, SmoothStep
  <2>6. QED BY <2>1, <2>5
<1>4. QED BY <1>2, <1>3

-----------------------------------------------------------------------------
(* What is predicted *)

\* Scaling by a positive factor commutes with the floor at zero.
LEMMA PositiveScales ==
  ASSUME NEW v \in Int, NEW n \in Int, NEW p \in Int, n > 0, p > 0
  PROVE  Positive(n * p * v) = Positive(v) * n * p
<1>1. PICK m \in Int : m = n * p /\ m > 0
  <2>1. n * p > 0
    OBVIOUS
  <2>2. QED BY <2>1
<1>2. CASE v < 0
  <2>1. m * v < 0
    BY <1>1, <1>2
  <2>2. QED BY <1>1, <1>2, <2>1 DEF Positive
<1>3. CASE v >= 0
  <2>1. m * v >= 0
    BY <1>1, <1>3
  <2>2. m * v = v * n * p
    BY <1>1
  <2>3. n * p * v = m * v
    BY <1>1
  <2>4. Positive(m * v) = m * v /\ Positive(v) = v
    BY <1>3, <2>1 DEF Positive
  <2>5. QED BY <2>2, <2>3, <2>4
<1>4. QED BY <1>2, <1>3

\* A level list is one that never falls and never rises.
LEMMA LevelIsSmooth ==
  ASSUME ForecastInv, N >= 2, NEW a \in Nat, \A i \in Places : CostAt(i) = a, NEW d \in Nat
  PROVE  Smooth(d) = a * Power(10)[N - 1] * Power(20)[d]
<1>1. N \in Nat
  BY PlacesAre
<1>2. NeverFalls /\ NeverRises
  <2>1. \A i \in 1 .. N - 1 : i \in Places /\ i - 1 \in Places
    BY <1>1 DEF Places
  <2>2. QED BY <2>1 DEF NeverFalls, NeverRises
<1>3. N - 1 \in Places /\ N - 1 \in 1 .. N - 1 /\ N >= 1 /\ N - 1 \in Nat
  BY <1>1 DEF Places
<1>4. PICK p \in Nat, t \in Nat, r \in Nat : p = Power(10)[N - 1] /\ t = Power(20)[d] /\ r = Power(19)[d]
  <2>1. Power(10) \in [Nat -> Nat] /\ Power(20) \in [Nat -> Nat] /\ Power(19) \in [Nat -> Nat]
    BY PowerIs
  <2>2. QED BY <1>3, <2>1
<1>5. PICK u \in Nat : u = Smoothed[N - 1]
  BY <1>3, SmoothedIs
<1>6. u = p * a
  <2>1. u <= p * a
    BY <1>2, <1>3, <1>4, <1>5, SmoothedBehind
  <2>2. u >= p * a
    BY <1>2, <1>3, <1>4, <1>5, SmoothedAbove
  <2>3. p * a \in Int
    OBVIOUS
  <2>4. QED BY <2>1, <2>2, <2>3
<1>7. SmoothedRate = 0
  <2>1. CASE N < 3
    BY <2>1 DEF SmoothedRate
  <2>2. CASE ~ (N < 3)
    <3>1. (N - 1) - 1 = N - 2 /\ N - 2 \in Places
      BY <1>1, <2>2 DEF Places
    <3>2. PICK b \in Nat : b = Smoothed[N - 2]
      BY <1>3, <3>1, SmoothedIs
    <3>3. 10 * b <= u
      BY <1>2, <1>3, <1>5, <3>1, <3>2, SmoothedBehind
    <3>4. 10 * b >= u
      BY <1>2, <1>3, <1>5, <3>1, <3>2, SmoothedAbove
    <3>5. u - 10 * b = 0
      BY <3>3, <3>4
    <3>6. QED BY <1>5, <2>2, <3>2, <3>5 DEF SmoothedRate
  <2>3. QED BY <2>1, <2>2
<1>8. Smooth(d) = Positive(u * t + 0 * r)
  BY <1>4, <1>5, <1>7 DEF Smooth
<1>9. u * t \in Nat /\ u * t + 0 * r = u * t
  OBVIOUS
<1>10. Smooth(d) = u * t
  BY <1>8, <1>9 DEF Positive
<1>11. p * a * t = a * p * t
  OBVIOUS
<1>12. QED BY <1>4, <1>6, <1>10, <1>11

\* Costs on a line go on along it.
LEMMA LinesGoOn ==
  ASSUME ForecastInv
  PROVE  LinesContinue
<1> SUFFICES ASSUME Forecasts, \A i \in 1 .. N - 2 : CostAt(i) - CostAt(i - 1) = CostAt(i + 1) - CostAt(i)
             PROVE  LET step == CostAt(1) - CostAt(0)
                    IN  /\ \A d \in 1 .. 3 : Linear(d) = Positive(CostAt(N - 1) + step * d) * N * SumXX
                        /\ LinearRes = 0
                        /\ (LinearTot > 0) = (step # 0)
                        /\ step = 0 => \A d \in 1 .. 3 : Smooth(d) = CostAt(0) * Power(10)[N - 1] * Power(20)[d]
  BY DEF LinesContinue
<1>1. N \in Nat /\ N >= 2 /\ IsFiniteSet(Places) /\ \A i \in Places : CostAt(i) \in Nat
  BY PlacesAre DEF Forecasts
<1>2. Straight
  BY DEF Straight
<1>3. 0 \in Places /\ 1 \in Places /\ N - 1 \in Places
  BY <1>1 DEF Places
<1>4. PICK n \in Int, P \in Int : n = N /\ P = SumXX /\ n >= 2 /\ n > 0 /\ P > 0
  <2>1. N \in Int /\ SumXX \in Int /\ SumXX > 0
    BY <1>1, SumsTyped
  <2>2. QED BY <1>1, <2>1
<1>5. PICK a \in Nat, b \in Nat : a = CostAt(0) /\ b = CostAt(1)
  BY <1>1, <1>3
<1>6. PICK s \in Int : s = b - a
  OBVIOUS
<1>7. \A i \in Places : CostAt(i) = LineOf(a, s, i)
  <2>1. a \in Int /\ CostAt(0) = LineOf(a, s, 0) /\ CostAt(1) = LineOf(a, s, 1)
    BY <1>5, <1>6 DEF LineOf
  <2>2. QED BY <1>1, <1>2, <2>1, StraightIs
<1>8. /\ \A x \in Int : OnLine(x) = n * P * LineOf(a, s, x)
      /\ \A i \in Places : Residual(i) = 0 /\ 2 * Deviation(i) = n * s * Centred(i)
  <2>1. a \in Int
    OBVIOUS
  <2>2. QED BY <1>4, <1>7, <2>1, RegressionIs
<1>9. ASSUME NEW d \in 1 .. 3
      PROVE  Linear(d) = Positive(CostAt(N - 1) + s * d) * N * SumXX
  <2>1. PICK x \in Int : x = n - 1 + d
    OBVIOUS
  <2>2. OnLine(x) = n * P * (a + s * x)
    BY <1>8 DEF LineOf
  <2>3. PICK v \in Int : v = a + s * x
    OBVIOUS
  <2>4. CostAt(N - 1) + s * d = v
    <3>1. CostAt(N - 1) = a + s * (n - 1)
      BY <1>3, <1>4, <1>7 DEF LineOf
    <3>2. a + s * (n - 1) + s * d = a + s * (n - 1 + d)
      OBVIOUS
    <3>3. QED BY <2>1, <2>3, <3>1, <3>2
  <2>5. Linear(d) = Positive(n * P * v)
    BY <1>4, <2>1, <2>2, <2>3 DEF Linear
  <2>6. QED BY <1>4, <2>4, <2>5, PositiveScales
<1>10. LinearRes = 0
  <2>1. PICK r : r = [i \in Places |-> Residual(i) * Residual(i)]
    OBVIOUS
  <2>2. \A i \in Places : r[i] = 0
    BY <1>8, <2>1
  <2>3. SumFunctionOnSet(r, Places) = 0
    BY <1>1, <2>2, SumZero
  <2>4. QED BY <2>1, <2>3 DEF LinearRes, SumFunction
<1>11. PICK dd : dd = [i \in Places |-> Deviation(i) * Deviation(i)]
  OBVIOUS
<1>12. ASSUME NEW i \in Places PROVE dd[i] \in Nat
  <2>1. PICK x \in Int : x = Deviation(i)
    BY SumsTyped
  <2>2. x * x \in Nat
    OBVIOUS
  <2>3. QED BY <1>11, <2>1, <2>2
<1>13. PICK q \in Nat : q = SumFunctionOnSet(dd, Places)
  BY <1>1, <1>12, SumType
<1>14. LinearTot = q * P * P
  BY <1>4, <1>11, <1>13 DEF LinearTot, SumFunction
<1>15. ASSUME s = 0 PROVE LinearTot = 0
  <2>1. ASSUME NEW i \in Places PROVE dd[i] = 0
    <3>1. PICK x \in Int, c \in Int : x = Deviation(i) /\ c = Centred(i)
      BY SumsTyped
    <3>2. 2 * x = n * 0 * c
      BY <1>8, <1>15, <3>1
    <3>3. x = 0
      BY <3>2
    <3>4. dd[i] = x * x
      BY <1>11, <3>1
    <3>5. x * x = 0
      BY <3>3
    <3>6. QED BY <3>4, <3>5
  <2>2. q = 0
    BY <1>1, <1>13, <2>1, SumZero
  <2>3. QED BY <1>14, <2>2
<1>16. ASSUME s # 0 PROVE LinearTot > 0
  <2>1. PICK x \in Int : x = Deviation(0)
    BY <1>3, SumsTyped
  <2>2. 2 * x = n * s * (2 * 0 - (n - 1))
    BY <1>3, <1>4, <1>8, <2>1 DEF Centred
  <2>3. x # 0
    <3>1. SUFFICES ASSUME x = 0 PROVE FALSE
      OBVIOUS
    <3>2. PICK y \in Int, z \in Int : y = n * s /\ z = 2 * 0 - (n - 1)
      OBVIOUS
    <3>3. z # 0 /\ y # 0
      BY <1>4, <1>16, <3>2
    <3>4. y * z = 0
      BY <2>2, <3>1, <3>2
    <3>5. QED BY <3>3, <3>4
  <2>4. x * x > 0
    BY <2>3
  <2>5. dd[0] = x * x
    BY <1>3, <1>11, <2>1
  <2>6. SumFunctionOnSet(dd, {0}) = dd[0]
    <3>1. dd[0] \in Int
      BY <2>5
    <3>2. QED BY <3>1, SumSingle
  <2>7. SumFunctionOnSet(dd, {0}) <= q
    <3>1. {0} \in SUBSET Places
      BY <1>3
    <3>2. QED BY <1>1, <1>12, <1>13, <3>1, SumSubset
  <2>8. q > 0
    BY <2>4, <2>5, <2>6, <2>7
  <2>9. q * P > 0
    BY <1>4, <2>8
  <2>10. PICK z \in Int : z = q * P
    OBVIOUS
  <2>11. z * P > 0
    BY <1>4, <2>9, <2>10
  <2>12. QED BY <1>14, <2>10, <2>11
<1>17. (LinearTot > 0) = (s # 0)
  <2>1. CASE s = 0
    BY <1>15, <2>1
  <2>2. CASE s # 0
    BY <1>16, <2>2
  <2>3. QED BY <2>1, <2>2
<1>18. ASSUME s = 0, NEW d \in 1 .. 3
       PROVE  Smooth(d) = CostAt(0) * Power(10)[N - 1] * Power(20)[d]
  <2>1. \A i \in Places : CostAt(i) = a
    <3>1. \A i \in Places : i \in Int
      BY SumsTyped
    <3>2. QED BY <1>7, <1>18, <3>1 DEF LineOf
  <2>2. d \in Nat
    OBVIOUS
  <2>3. QED BY <1>1, <1>5, <2>1, <2>2, LevelIsSmooth
<1>19. s = CostAt(1) - CostAt(0)
  BY <1>5, <1>6
<1>20. QED BY <1>9, <1>10, <1>17, <1>18, <1>19

\* A slope that is not negative is not called decreasing, and one that is not
\* positive not increasing.
LEMMA TrendIs ==
  ASSUME ForecastInv, NEW num \in Int, NEW den \in Nat
  PROVE  /\ num >= 0 => Trend(num, den) # "decreasing"
         /\ num <= 0 => Trend(num, den) # "increasing"
<1>1. PICK n \in Nat, t \in Nat : n = N /\ t = Spent
  BY PlacesAre, SumsTyped
<1>2. PICK x \in Int, y \in Int : x = 50 * num * n /\ y = t * den
  OBVIOUS
<1>3. y >= 0
  BY <1>2
<1>4. num >= 0 => x >= 0
  BY <1>2
<1>5. num <= 0 => x <= 0
  BY <1>2
<1>6. Trend(num, den) = IF t = 0 THEN "stable" ELSE IF x > y THEN "increasing"
                        ELSE IF x < -y THEN "decreasing" ELSE "stable"
  BY <1>1, <1>2 DEF Trend
<1>7. "decreasing" # "increasing" /\ "decreasing" # "stable" /\ "increasing" # "stable"
  OBVIOUS
<1>8. ASSUME num >= 0 PROVE Trend(num, den) # "decreasing"
  <2>1. ~ (x < -y)
    BY <1>3, <1>4, <1>8
  <2>2. QED BY <1>6, <1>7, <2>1
<1>9. ASSUME num <= 0 PROVE Trend(num, den) # "increasing"
  <2>1. ~ (x > y)
    BY <1>3, <1>5, <1>9
  <2>2. QED BY <1>6, <1>7, <2>1
<1>10. QED BY <1>8, <1>9

\* Costs that never fall are in order at any distance.
LEMMA FallsOrder ==
  ASSUME ForecastInv, NeverFalls
  PROVE  \A i, j \in Places : i <= j => CostAt(i) <= CostAt(j)
<1>1. N \in Nat /\ \A i \in Places : CostAt(i) \in Nat
  BY PlacesAre
<1> SUFFICES ASSUME NEW i \in Places PROVE \A j \in Places : i <= j => CostAt(i) <= CostAt(j)
  OBVIOUS
<1> DEFINE Bad == {j \in Places : i <= j /\ ~ (CostAt(i) <= CostAt(j))}
<1>2. SUFFICES ASSUME Bad # {} PROVE FALSE
  OBVIOUS
<1>3. PICK k \in Bad : \A j \in Bad : k <= j
  <2>1. Bad \in SUBSET Nat
    BY <1>1 DEF Places
  <2> HIDE DEF Bad
  <2>2. QED BY <1>2, <2>1, SmallestExists
<1>4. k # i /\ i <= k /\ k \in Places
  BY <1>1, <1>3
<1>5. k \in 1 .. N - 1 /\ k - 1 \in Places /\ i <= k - 1 /\ ~ (k <= k - 1)
  BY <1>1, <1>4 DEF Places
<1>6. k - 1 \notin Bad
  <2> HIDE DEF Bad
  <2>1. QED BY <1>3, <1>5
<1>7. CostAt(i) <= CostAt(k - 1)
  BY <1>5, <1>6
<1>8. CostAt(k - 1) <= CostAt(k)
  BY <1>5 DEF NeverFalls
<1>9. CostAt(i) \in Nat /\ CostAt(k - 1) \in Nat /\ CostAt(k) \in Nat
  BY <1>1, <1>4, <1>5
<1>10. CostAt(i) <= CostAt(k)
  BY <1>7, <1>8, <1>9
<1>11. QED BY <1>3, <1>10

\* Costs that never rise are in order at any distance.
LEMMA RisesOrder ==
  ASSUME ForecastInv, NeverRises
  PROVE  \A i, j \in Places : i <= j => CostAt(i) >= CostAt(j)
<1>1. N \in Nat /\ \A i \in Places : CostAt(i) \in Nat
  BY PlacesAre
<1> SUFFICES ASSUME NEW i \in Places PROVE \A j \in Places : i <= j => CostAt(i) >= CostAt(j)
  OBVIOUS
<1> DEFINE Bad == {j \in Places : i <= j /\ ~ (CostAt(i) >= CostAt(j))}
<1>2. SUFFICES ASSUME Bad # {} PROVE FALSE
  OBVIOUS
<1>3. PICK k \in Bad : \A j \in Bad : k <= j
  <2>1. Bad \in SUBSET Nat
    BY <1>1 DEF Places
  <2> HIDE DEF Bad
  <2>2. QED BY <1>2, <2>1, SmallestExists
<1>4. k # i /\ i <= k /\ k \in Places
  BY <1>1, <1>3
<1>5. k \in 1 .. N - 1 /\ k - 1 \in Places /\ i <= k - 1 /\ ~ (k <= k - 1)
  BY <1>1, <1>4 DEF Places
<1>6. k - 1 \notin Bad
  <2> HIDE DEF Bad
  <2>1. QED BY <1>3, <1>5
<1>7. CostAt(i) >= CostAt(k - 1)
  BY <1>5, <1>6
<1>8. CostAt(k - 1) >= CostAt(k)
  BY <1>5 DEF NeverRises
<1>9. CostAt(i) \in Nat /\ CostAt(k - 1) \in Nat /\ CostAt(k) \in Nat
  BY <1>1, <1>4, <1>5
<1>10. CostAt(i) >= CostAt(k)
  BY <1>7, <1>8, <1>9
<1>11. QED BY <1>3, <1>10

\* The slope has the sign of the way the costs go.  Compared with the cost in the middle,
\* what comes later is not less and what comes before not more, or the other way round.
LEMMA SlopeIs ==
  ASSUME ForecastInv
  PROVE  (NeverFalls => SumXY >= 0) /\ (NeverRises => SumXY <= 0)
<1>1. N \in Nat /\ IsFiniteSet(Places) /\ \A i \in Places : CostAt(i) \in Nat
  BY PlacesAre
<1>2. PICK c : c = [i \in Places |-> Centred(i)]
  OBVIOUS
<1>3. PICK cy : cy = [i \in Places |-> Centred(i) * CostAt(i)]
  OBVIOUS
<1>4. SumFunctionOnSet(c, Places) = 0
  BY <1>2, CentredSums
<1>5. SumFunctionOnSet(cy, Places) = SumXY /\ SumXY \in Int
  BY <1>3, SumsTyped
<1>6. PICK zero : zero = [i \in Places |-> 0]
  OBVIOUS
<1>7. SumFunctionOnSet(zero, Places) = 0
  BY <1>1, <1>6, SumZero
<1>8. CASE N = 0
  <2>1. Places = {}
    BY <1>8 DEF Places
  <2>2. QED BY <1>5, <2>1, SumEmpty
<1>9. CASE N # 0
  <2>1. PICK n \in Nat : n = N /\ n # 0
    BY <1>1, <1>9
  <2>2. PICK m \in Nat : m \in Places /\ 2 * m >= n - 1 /\ 2 * m <= n
    <3>1. PICK h \in Int : h = n \div 2
      OBVIOUS
    <3>2. 2 * h <= n /\ n - 1 <= 2 * h
      BY <3>1
    <3>3. h \in Nat /\ h <= n - 1
      BY <2>1, <3>2
    <3>4. h \in Places
      BY <2>1, <3>3 DEF Places
    <3>5. QED BY <3>2, <3>3, <3>4
  <2>3. PICK y \in Nat : y = CostAt(m)
    BY <1>1, <2>2
  <2>4. PICK g : g = [i \in Places |-> Centred(i) * CostAt(i) + (-y) * Centred(i)]
    OBVIOUS
  <2>5. ASSUME NEW i \in Places
        PROVE  /\ i \in Int /\ CostAt(i) \in Nat /\ Centred(i) \in Int
               /\ Centred(i) = 2 * i - (n - 1)
               /\ g[i] = Centred(i) * (CostAt(i) - y) /\ g[i] \in Int
               /\ i >= m => Centred(i) >= 0
               /\ i <= m => i = m \/ Centred(i) <= 0
    <3>1. i \in Int /\ Centred(i) \in Int /\ CostAt(i) \in Nat
      BY <1>1, SumsTyped
    <3>2. Centred(i) = 2 * i - (n - 1)
      BY <2>1 DEF Centred
    <3>3. PICK z \in Int, v \in Int : z = Centred(i) /\ v = CostAt(i)
      BY <3>1
    <3>4. g[i] = z * v + (-y) * z
      BY <2>4, <3>3
    <3>5. z * v + (-y) * z = z * (v - y)
      OBVIOUS
    <3>6. g[i] = Centred(i) * (CostAt(i) - y) /\ g[i] \in Int
      BY <3>3, <3>4, <3>5
    <3>7. (i >= m => Centred(i) >= 0) /\ (i <= m => i = m \/ Centred(i) <= 0)
      BY <2>2, <3>1, <3>2
    <3>8. QED BY <3>1, <3>2, <3>6, <3>7
  <2>6. SumFunctionOnSet(g, Places) = SumXY
    <3>1. PICK a \in Int, b \in Int : a = 1 /\ b = -y
      OBVIOUS
    <3>2. \A i \in Places : cy[i] \in Int /\ c[i] \in Int /\ g[i] = a * cy[i] + b * c[i]
      BY <1>2, <1>3, <2>4, <2>5, <3>1
    <3>3. Combines(g, a, cy, b, c, Places)
      BY <3>2 DEF Combines
    <3>4. SumFunctionOnSet(g, Places) = a * SumFunctionOnSet(cy, Places) + b * SumFunctionOnSet(c, Places)
      BY <1>1, <3>3, SumCombine
    <3>5. QED BY <1>4, <1>5, <3>1, <3>4
  <2>7. ASSUME NeverFalls PROVE SumXY >= 0
    <3>1. ASSUME NEW i \in Places PROVE zero[i] \in Int /\ g[i] \in Int /\ zero[i] <= g[i]
      <4>1. PICK z \in Int, v \in Int : z = Centred(i) /\ v = CostAt(i) - y
        BY <2>5
      <4>2. i >= m => v >= 0
        BY <2>2, <2>3, <2>5, <2>7, <4>1, FallsOrder
      <4>3. i <= m => v <= 0
        BY <2>2, <2>3, <2>5, <2>7, <4>1, FallsOrder
      <4>4. z >= 0 /\ v >= 0 => z * v >= 0
        OBVIOUS
      <4>5. z <= 0 /\ v <= 0 => z * v >= 0
        OBVIOUS
      <4>6. i >= m \/ i <= m
        BY <2>5
      <4>7. z * v >= 0
        BY <2>5, <4>1, <4>2, <4>3, <4>4, <4>5, <4>6
      <4>8. QED BY <1>6, <2>5, <4>1, <4>7
    <3>2. SumFunctionOnSet(zero, Places) <= SumFunctionOnSet(g, Places)
      BY <1>1, <3>1, SumMono
    <3>3. QED BY <1>5, <1>7, <2>6, <3>2
  <2>8. ASSUME NeverRises PROVE SumXY <= 0
    <3>1. ASSUME NEW i \in Places PROVE zero[i] \in Int /\ g[i] \in Int /\ g[i] <= zero[i]
      <4>1. PICK z \in Int, v \in Int : z = Centred(i) /\ v = CostAt(i) - y
        BY <2>5
      <4>2. i >= m => v <= 0
        BY <2>2, <2>3, <2>5, <2>8, <4>1, RisesOrder
      <4>3. i <= m => v >= 0
        BY <2>2, <2>3, <2>5, <2>8, <4>1, RisesOrder
      <4>4. z >= 0 /\ v <= 0 => z * v <= 0
        OBVIOUS
      <4>5. z <= 0 /\ v >= 0 => z * v <= 0
        OBVIOUS
      <4>6. i >= m \/ i <= m
        BY <2>5
      <4>7. z * v <= 0
        BY <2>5, <4>1, <4>2, <4>3, <4>4, <4>5, <4>6
      <4>8. QED BY <1>6, <2>5, <4>1, <4>7
    <3>2. SumFunctionOnSet(g, Places) <= SumFunctionOnSet(zero, Places)
      BY <1>1, <3>1, SumMono
    <3>3. QED BY <1>5, <1>7, <2>6, <3>2
  <2>9. QED BY <2>7, <2>8
<1>10. QED BY <1>8, <1>9

\* So has the rate of the smoothed costs.
LEMMA RateIs ==
  ASSUME ForecastInv, N >= 2
  PROVE  /\ SmoothedRate \in Int
         /\ NeverFalls => SmoothedRate >= 0
         /\ NeverRises => SmoothedRate <= 0
<1>1. N \in Nat /\ N >= 1
  BY PlacesAre
<1>2. CASE N < 3
  BY <1>2 DEF SmoothedRate
<1>3. CASE ~ (N < 3)
  <2>1. N - 1 \in Places /\ N - 2 \in Places /\ N - 1 \in 1 .. N - 1 /\ (N - 1) - 1 = N - 2
    BY <1>1, <1>3 DEF Places
  <2>2. PICK u \in Nat, b \in Nat : u = Smoothed[N - 1] /\ b = Smoothed[N - 2]
    BY <1>1, <2>1, SmoothedIs
  <2>3. SmoothedRate = u - 10 * b
    BY <1>3, <2>2 DEF SmoothedRate
  <2>4. NeverFalls => 10 * b <= u
    BY <1>1, <2>1, <2>2, SmoothedBehind
  <2>5. NeverRises => 10 * b >= u
    BY <1>1, <2>1, <2>2, SmoothedAbove
  <2>6. QED BY <2>3, <2>4, <2>5
<1>4. QED BY <1>2, <1>3

LEMMA TrendsHold ==
  ASSUME ForecastInv
  PROVE  TrendsAgree
<1> SUFFICES ASSUME Forecasts
             PROVE  /\ LinearRes <= LinearTot
                    /\ NeverFalls => "decreasing" \notin {LinearTrend, SmoothTrend}
                    /\ NeverRises => "increasing" \notin {LinearTrend, SmoothTrend}
  BY DEF TrendsAgree, NeverFalls, NeverRises
<1>1. N \in Nat /\ N >= 2
  BY PlacesAre DEF Forecasts
<1>2. PICK n \in Int, P \in Nat, B \in Int : n = N /\ P = SumXX /\ B = SumXY
  <2>1. N \in Int /\ SumXX \in Nat /\ SumXY \in Int
    BY <1>1, SumsTyped
  <2>2. QED BY <2>1
<1>3. LinearRes <= LinearTot
  <2>1. PICK tot \in Int, res \in Int : tot = LinearTot /\ res = LinearRes /\ res = tot - 3 * (n * n) * (B * B) * P
    BY <1>2, ResidualsAre
  <2>2. PICK x \in Nat, y \in Nat : x = n * n /\ y = B * B
    OBVIOUS
  <2>3. 3 * x * y * P >= 0
    OBVIOUS
  <2>4. QED BY <2>1, <2>2, <2>3
<1>4. PICK p \in Nat : p = Power(10)[N - 1]
  <2>1. Power(10) \in [Nat -> Nat] /\ N - 1 \in Nat
    BY <1>1, PowerIs
  <2>2. QED BY <2>1
<1>5. PICK r \in Int : r = SmoothedRate
  BY <1>1, RateIs
<1>6. LinearTrend = Trend(6 * B, P) /\ SmoothTrend = Trend(r, p)
  BY <1>2, <1>4, <1>5 DEF LinearTrend, SmoothTrend
<1>7. ASSUME NeverFalls PROVE "decreasing" \notin {LinearTrend, SmoothTrend}
  <2>1. B >= 0 /\ r >= 0
    BY <1>1, <1>2, <1>5, <1>7, SlopeIs, RateIs
  <2>2. 6 * B \in Int /\ 6 * B >= 0
    BY <2>1
  <2>3. Trend(6 * B, P) # "decreasing"
    BY <2>2, TrendIs
  <2>4. Trend(r, p) # "decreasing"
    BY <2>1, TrendIs
  <2>5. QED BY <1>6, <2>3, <2>4
<1>8. ASSUME NeverRises PROVE "increasing" \notin {LinearTrend, SmoothTrend}
  <2>1. B <= 0 /\ r <= 0
    BY <1>1, <1>2, <1>5, <1>8, SlopeIs, RateIs
  <2>2. 6 * B \in Int /\ 6 * B <= 0
    BY <2>1
  <2>3. Trend(6 * B, P) # "increasing"
    BY <2>2, TrendIs
  <2>4. Trend(r, p) # "increasing"
    BY <2>1, TrendIs
  <2>5. QED BY <1>6, <2>3, <2>4
<1>9. QED BY <1>3, <1>7, <1>8

\* What is left of a budget, at the rate of the last entries.
LEMMA BudgetsLast ==
  ASSUME ForecastInv
  PROVE  ExhaustionFits
<1> SUFFICES ASSUME Forecasts, NEW limit \in Limits
             PROVE  /\ DaysRemaining(limit) > 0 => Spent * LatestDays + DaysRemaining(limit) * RateSum <= limit * LatestDays
                    /\ DaysRemaining(limit) # NeverExhausted =>
                         Spent * LatestDays + (DaysRemaining(limit) + 1) * RateSum > limit * LatestDays \/ RateSum = 0
                    /\ \A more \in Limits :
                         more >= limit => DaysRemaining(more) >= DaysRemaining(limit) \/ DaysRemaining(more) = NeverExhausted
  BY DEF ExhaustionFits
<1>1. N \in Nat /\ IsFiniteSet(Places) /\ \A i \in Places : CostAt(i) \in Nat
  BY PlacesAre
<1>2. Lately \in SUBSET Places
  <2>1. RecentDays \in Nat
    BY ForecastAssumption DEF ForecastAssumption
  <2>2. QED BY <1>1, <2>1 DEF Lately, Places
<1>3. IsFiniteSet(Lately)
  BY <1>1, <1>2, FS_Subset
<1>4. PICK d \in Nat : d = LatestDays
  BY <1>3, FS_CardinalityType DEF LatestDays
<1>5. PICK r \in Nat : r = RateSum
  <2>1. PICK f : f = [i \in Lately |-> CostAt(i)]
    OBVIOUS
  <2>2. \A i \in Lately : f[i] \in Nat
    BY <1>1, <1>2, <2>1
  <2>3. SumFunctionOnSet(f, Lately) \in Nat
    BY <1>3, <2>2, SumType
  <2>4. QED BY <2>1, <2>3 DEF RateSum, SumFunction
<1>6. PICK t \in Nat : t = Spent
  BY SumsTyped
<1>7. PICK l \in Nat : l = limit
  BY ForecastAssumption DEF ForecastAssumption
<1>8. \A b \in Nat : DaysRemaining(b) = IF b <= t THEN 0 ELSE IF r = 0 THEN -1 ELSE ((b - t) * d) \div r
  BY <1>4, <1>5, <1>6 DEF DaysRemaining, NeverExhausted
<1>9. ASSUME NEW b \in Nat, ~ (b <= t)
      PROVE  (b - t) * d \in Nat /\ (b - t) * d = b * d - t * d
  <2>1. PICK k \in Nat : b = t + k
    <3>1. b - t \in Nat /\ b = t + (b - t)
      BY <1>9
    <3>2. QED BY <3>1
  <2>2. b - t = k
    BY <2>1
  <2>3. k * d \in Nat /\ (t + k) * d = t * d + k * d
    OBVIOUS
  <2>4. QED BY <2>1, <2>2, <2>3
<1>10. ASSUME DaysRemaining(l) > 0 PROVE t * d + DaysRemaining(l) * r <= l * d
  <2>1. ~ (l <= t) /\ r # 0
    BY <1>8, <1>10
  <2>2. PICK x \in Nat : x = (l - t) * d /\ x = l * d - t * d
    BY <1>9, <2>1
  <2>3. DaysRemaining(l) = x \div r
    BY <1>8, <2>1, <2>2
  <2>4. (x \div r) * r <= x
    BY <2>1, QuotientFits
  <2>5. x \div r \in Nat
    BY <2>1, QuotientFits
  <2>6. PICK q \in Nat : q = x \div r
    BY <2>5
  <2>7. PICK u \in Int, v \in Int, w \in Int : u = t * d /\ v = l * d /\ w = q * r
    OBVIOUS
  <2>8. x = v - u /\ w <= x
    BY <2>2, <2>4, <2>6, <2>7
  <2>9. u + w <= v
    BY <2>8
  <2>10. QED BY <2>3, <2>6, <2>7, <2>9
<1>11. ASSUME DaysRemaining(l) # -1, r # 0 PROVE t * d + (DaysRemaining(l) + 1) * r > l * d
  <2>1. CASE l <= t
    <3>1. DaysRemaining(l) = 0
      BY <1>8, <2>1
    <3>2. PICK k \in Nat : t = l + k
      <4>1. t - l \in Nat /\ t = l + (t - l)
        BY <2>1
      <4>2. QED BY <4>1
    <3>3. k * d >= 0 /\ (l + k) * d = l * d + k * d
      OBVIOUS
    <3>4. (0 + 1) * r = r /\ r > 0
      BY <1>11
    <3>5. QED BY <3>1, <3>2, <3>3, <3>4
  <2>2. CASE ~ (l <= t)
    <3>1. PICK x \in Nat : x = (l - t) * d /\ x = l * d - t * d
      BY <1>9, <2>2
    <3>2. DaysRemaining(l) = x \div r
      BY <1>8, <1>11, <2>2, <3>1
    <3>3. x \div r \in Nat /\ x < (x \div r + 1) * r
      BY <1>11, QuotientFits
    <3>4. PICK q \in Nat : q = x \div r
      BY <3>3
    <3>5. PICK u \in Int, v \in Int, w \in Int : u = t * d /\ v = l * d /\ w = (q + 1) * r
      OBVIOUS
    <3>6. x = v - u /\ x < w
      BY <3>1, <3>3, <3>4, <3>5
    <3>7. u + w > v
      BY <3>6
    <3>8. QED BY <3>2, <3>4, <3>5, <3>7
  <2>3. QED BY <2>1, <2>2
<1>12. ASSUME NEW m \in Nat, m >= l, DaysRemaining(m) # -1
       PROVE  DaysRemaining(m) >= DaysRemaining(l)
  <2>1. CASE m <= t
    <3>1. l <= t
      BY <1>12, <2>1
    <3>2. QED BY <1>8, <2>1, <3>1
  <2>2. CASE ~ (m <= t) /\ r # 0
    <3>1. PICK y \in Nat : y = (m - t) * d /\ y = m * d - t * d
      BY <1>9, <2>2
    <3>2. DaysRemaining(m) = y \div r
      BY <1>8, <2>2, <3>1
    <3>3. CASE l <= t
      <4>1. DaysRemaining(l) = 0
        BY <1>8, <3>3
      <4>2. y \div r \in Nat
        BY <2>2, QuotientFits
      <4>3. QED BY <3>2, <4>1, <4>2
    <3>4. CASE ~ (l <= t)
      <4>1. PICK x \in Nat : x = (l - t) * d /\ x = l * d - t * d
        BY <1>9, <3>4
      <4>2. DaysRemaining(l) = x \div r
        BY <1>8, <2>2, <3>4, <4>1
      <4>3. x <= y
        <5>1. PICK k \in Nat : m = l + k
          <6>1. m - l \in Nat /\ m = l + (m - l)
            BY <1>12
          <6>2. QED BY <6>1
        <5>2. m * d = l * d + k * d /\ k * d >= 0
          BY <5>1
        <5>3. PICK u \in Int, v \in Int, w \in Int : u = t * d /\ v = l * d /\ w = k * d
          OBVIOUS
        <5>4. QED BY <3>1, <4>1, <5>2, <5>3
      <4>4. x \div r <= y \div r /\ x \div r \in Nat /\ y \div r \in Nat
        BY <2>2, <4>3, QuotientFits
      <4>5. QED BY <3>2, <4>2, <4>4
    <3>5. QED BY <3>3, <3>4
  <2>3. CASE ~ (m <= t) /\ r = 0
    BY <1>8, <1>12, <2>3
  <2>4. QED BY <2>1, <2>2, <2>3
<1>13. ASSUME NEW more \in Limits, more >= limit
       PROVE  DaysRemaining(more) >= DaysRemaining(limit) \/ DaysRemaining(more) = NeverExhausted
  <2>1. PICK m \in Nat : m = more
    BY ForecastAssumption DEF ForecastAssumption
  <2>2. QED BY <1>7, <1>12, <1>13, <2>1 DEF NeverExhausted
<1>14. QED BY <1>4, <1>5, <1>6, <1>7, <1>10, <1>11, <1>13 DEF NeverExhausted

\* ForecastSound: predictions follow the daily costs, however the traces came.
THEOREM ForecastIsSound == ForecastSpec => []ForecastSound
<1>1. ForecastInv => ForecastSound
  BY BatchesAreForgotten, LinesGoOn, TrendsHold, BudgetsLast DEF ForecastSound
<1>2. QED BY <1>1, ForecastInvInit, ForecastInvStep, PTL DEF ForecastSpec

-----------------------------------------------------------------------------
\* What is stored is what was sent, and what is derived from it agrees with it:
\* reports, quality, forecasts, anomalies and saved scenarios.
THEOREM InsightsAreSound ==
  IngestSpec /\ FeedbackSpec /\ ForecastSpec /\ AnomalySpec /\ ScenariosSpec => []InsightsSound
<1>1. IngestionSound /\ FeedbackSound /\ ForecastSound /\ AnomalySound /\ ScenariosSound => InsightsSound
  BY DEF InsightsSound
<1>2. QED
  BY IngestionIsSound, FeedbackIsSound, ForecastIsSound, AnomaliesAreSound, ScenariosAreSound,
     <1>1, PTL
=============================================================================
