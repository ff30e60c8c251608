------------------------- MODULE RemoteTrackerProofs -------------------------
(***************************************************************************)
(* Proofs about RemoteTracker, for any number of threads, events, starts    *)
(* and any batch size, and about Plugins, for any plugins, agents, scopes    *)
(* and traces.                                                              *)
(***************************************************************************)
EXTENDS RemoteTracker, Plugins, FiniteSetTheorems, SequenceTheorems, SumLemmas, TLAPS

\* An event is recorded by one thread, and what it has not handed over yet
\* is nowhere.
Fresh ==
    /\ \A a, b \in Apps : a # b /\ app[a].e # None => app[a].e # app[b].e
    /\ \A a \in Apps : app[a].e # None =>
         \A j \in 1 .. MaxStarts : j >= app[a].i => <<app[a].e, j>> \notin handed

\* A thread holds a batch only while it posts it.
HoldsWhileSending ==
    /\ batch[Main] # {} => main = "send"
    /\ \A t \in Timers : batch[t] # {} => timer[t] = "send"

\* Conservation, and one place only, thread by thread.
Whereabouts ==
    /\ handed = buffer \cup Flying \cup sent \cup failed \cup dropped
    /\ OnePlace

StopInProgress == main = "cancel" => ~running

Inv ==
    /\ TypeOK
    /\ IsFiniteSet(buffer) /\ BufferBounded
    /\ Whereabouts
    /\ Fresh
    /\ HoldsWhileSending
    /\ StopInProgress
    /\ RunningIsFlushed

\* A tracker that was not started holds nothing.
LEMMA InitInv == Init => Inv
  <1> SUFFICES ASSUME Init PROVE Inv
    OBVIOUS
  <1> USE RemoteAssumption DEF RemoteAssumption, Init
  <1>1. TypeOK
    <2>1. NotRecording \in [e : Events \cup {None}, i : 1 .. MaxStarts + 1]
      BY DEF NotRecording, FirstCallback
    <2>2. app \in [Apps -> [e : Events \cup {None}, i : 1 .. MaxStarts + 1]]
      BY <2>1
    <2>3. batch \in [Threads -> SUBSET Items] /\ timer \in [Timers -> {"off"}]
      OBVIOUS
    <2>4. callbacks \in 0 .. MaxStarts
      OBVIOUS
    <2>5. running \in BOOLEAN
      OBVIOUS
    <2> QED BY <2>2, <2>3, <2>4, <2>5 DEF TypeOK
  <1>2. IsFiniteSet(buffer) /\ BufferBounded
    BY FS_EmptySet DEF BufferBounded
  <1>3. Flying = {}
    BY DEF Flying
  <1>4. Whereabouts
    BY <1>3 DEF Whereabouts, OnePlace
  <1>5. Fresh /\ HoldsWhileSending /\ StopInProgress /\ RunningIsFlushed
    BY DEF Fresh, HoldsWhileSending, StopInProgress, RunningIsFlushed, NotRecording,
           FirstCallback, Threads
  <1> QED BY <1>1, <1>2, <1>4, <1>5 DEF Inv

\* The batches in flight after thread th gave up batch[th] and took B.
LEMMA FlyingAfter ==
  ASSUME TypeOK, NEW th \in Threads, NEW B, batch' = [batch EXCEPT ![th] = B]
  PROVE  \E Rest :
           /\ Flying' = Rest \cup B
           /\ Flying = Rest \cup batch[th]
           /\ \A u \in Threads : u # th => batch[u] \subseteq Rest
  <1> DEFINE Rest == UNION {batch[u] : u \in Threads \ {th}}
  <1>1. \A u \in Threads : batch'[u] = IF u = th THEN B ELSE batch[u]
    BY DEF TypeOK
  <1>2. \A x : x \in Rest <=> \E u \in Threads \ {th} : x \in batch[u]
    OBVIOUS
  <1>3. \A x : x \in Flying' <=> \E u \in Threads : x \in batch'[u]
    BY DEF Flying
  <1>4. \A x : x \in Flying <=> \E u \in Threads : x \in batch[u]
    BY DEF Flying
  <1> HIDE DEF Rest
  <1>5. Flying' = Rest \cup B
    BY <1>1, <1>2, <1>3
  <1>6. Flying = Rest \cup batch[th]
    BY <1>2, <1>4
  <1> QED BY <1>2, <1>5, <1>6

-----------------------------------------------------------------------------
\* Steps that move no item: control of the main thread and of the timers.
LEMMA ControlStep ==
  ASSUME Inv, UNCHANGED <<buffer, batch, handed, sent, failed, dropped>>,
         TypeOK', Fresh', HoldsWhileSending', StopInProgress', RunningIsFlushed'
  PROVE  Inv'
  BY DEF Inv, BufferBounded, Whereabouts, OnePlace, Flying

\* start, stop, flush and the steps that finish them: no item moves.
LEMMA MainSteps ==
  ASSUME Inv, Call \/ Cancel \/ \E t \in Timers : StartTimer(t)
  PROVE  Inv'
  <1> USE RemoteAssumption DEF RemoteAssumption, Inv, Outcomes
  <1>1. UNCHANGED <<buffer, batch, handed, sent, failed, dropped, app>>
    BY DEF Call, Start, Stop, FlushNow, Cancel, StartTimer
  <1>2. TypeOK'
    <2>1. CASE Start
      BY <1>1, <2>1 DEF TypeOK, Start
    <2>2. CASE Stop \/ FlushNow \/ Cancel
      BY <1>1, <2>2 DEF TypeOK, Stop, FlushNow, Cancel
    <2>3. ASSUME NEW t \in Timers, StartTimer(t) PROVE TypeOK'
      BY <1>1, <2>3 DEF TypeOK, StartTimer
    <2> QED BY <2>1, <2>2, <2>3 DEF Call
  <1>3. Fresh'
    BY <1>1 DEF Fresh
  <1>4. HoldsWhileSending' /\ StopInProgress' /\ RunningIsFlushed'
    BY <1>1 DEF TypeOK, HoldsWhileSending, StopInProgress, RunningIsFlushed,
                Call, Start, Stop, FlushNow, Cancel, StartTimer
  <1> QED BY <1>1, <1>2, <1>3, <1>4, ControlStep

\* A timer that fires, looks at _running, or arms its successor: no item moves.
LEMMA TimerControl ==
  ASSUME Inv, NEW t \in Timers, Fire(t) \/ CheckRunning(t) \/ Rearm(t)
  PROVE  Inv'
  <1> USE RemoteAssumption DEF RemoteAssumption, Inv, Outcomes
  <1>1. UNCHANGED <<buffer, batch, handed, sent, failed, dropped, app, main, running>>
    BY DEF Fire, CheckRunning, Rearm
  <1>2. TypeOK'
    BY <1>1 DEF TypeOK, Fire, CheckRunning, Rearm
  <1>3. Fresh'
    BY <1>1 DEF Fresh
  <1>4. HoldsWhileSending' /\ StopInProgress' /\ RunningIsFlushed'
    BY <1>1 DEF TypeOK, HoldsWhileSending, StopInProgress, RunningIsFlushed,
                Fire, CheckRunning, StillRunning, Rearm
  <1> QED BY <1>1, <1>2, <1>3, <1>4, ControlStep

\* An application thread begins or ends to record an event.
LEMMA RecordSteps ==
  ASSUME Inv, NEW a \in Apps, (\E e \in Events : Record(a, e)) \/ RecordEnd(a)
  PROVE  Inv'
  <1> USE RemoteAssumption DEF RemoteAssumption, Inv, Outcomes
  <1>1. UNCHANGED <<buffer, batch, handed, sent, failed, dropped, timer, main, running>>
    BY DEF Record, RecordEnd
  <1>2. TypeOK'
    BY <1>1 DEF TypeOK, Record, RecordEnd, NotRecording, FirstCallback
  <1>3. Fresh'
    <2>1. ASSUME NEW e \in Events, Record(a, e) PROVE Fresh'
      BY <2>1 DEF TypeOK, Fresh, Record
    <2>2. CASE RecordEnd(a)
      BY <2>2 DEF TypeOK, Fresh, RecordEnd, NotRecording
    <2> QED BY <2>1, <2>2
  <1>4. HoldsWhileSending' /\ StopInProgress' /\ RunningIsFlushed'
    BY <1>1 DEF HoldsWhileSending, StopInProgress, RunningIsFlushed
  <1> QED BY <1>1, <1>2, <1>3, <1>4, ControlStep

-----------------------------------------------------------------------------
\* The callback hands over an item nobody has seen: it enters the buffer, or
\* the batch that the full buffer has become.
LEMMA OnEventInv ==
  ASSUME Inv, NEW a \in Apps, OnEvent(a)
  PROVE  Inv'
  <1> USE RemoteAssumption DEF RemoteAssumption
  <1> DEFINE c == app[a]
             it == <<c.e, c.i>>
             b == buffer \cup {it}
  <1>0. /\ TypeOK /\ Whereabouts /\ Fresh /\ HoldsWhileSending
        /\ StopInProgress /\ RunningIsFlushed /\ IsFiniteSet(buffer) /\ BufferBounded
        /\ a \in Threads /\ a \notin Timers /\ a # Main
    BY DEF Inv, Threads
  <1>1. /\ c.e \in Events /\ c.i \in 1 .. MaxStarts /\ it \in Items
        /\ it \notin handed /\ batch[a] = {}
        /\ handed' = handed \cup {it}
        /\ app' = [app EXCEPT ![a].i = @ + 1]
        /\ UNCHANGED <<running, callbacks, main, timer, current, sent, failed, dropped>>
    <2>1. c.e \in Events /\ c.i \in 1 .. MaxStarts
      BY <1>0 DEF OnEvent, TypeOK
    <2> QED BY <1>0, <2>1 DEF OnEvent, Items, Fresh, Outcomes
  <1>2. IsFiniteSet(b) /\ Cardinality(b) \in Nat
    BY <1>0, FS_AddElement, FS_CardinalityType
  <1>3. \/ /\ Cardinality(b) >= BatchSize
           /\ buffer' = {} /\ batch' = [batch EXCEPT ![a] = b]
        \/ /\ Cardinality(b) < BatchSize
           /\ buffer' = b /\ batch' = batch
    BY <1>2 DEF OnEvent, AfterOverflow, Overflow
  <1>4. IsFiniteSet(buffer') /\ BufferBounded'
    BY <1>2, <1>3, FS_EmptySet DEF BufferBounded
  <1>5. TypeOK'
    <2>1. app' \in [Apps -> [e : Events \cup {None}, i : 1 .. MaxStarts + 1]]
      BY <1>0, <1>1 DEF TypeOK
    <2>2. b \subseteq Items
      BY <1>0, <1>1 DEF TypeOK
    <2>3. buffer' \subseteq Items /\ batch' \in [Threads -> SUBSET Items]
      BY <1>0, <1>3, <2>2 DEF TypeOK
    <2> QED BY <1>0, <1>1, <2>1, <2>3 DEF TypeOK
  <1>6. Whereabouts'
    <2>0. it \notin buffer \cup Flying \cup sent \cup failed \cup dropped
      BY <1>0, <1>1 DEF Whereabouts
    <2>1. CASE batch' = batch /\ buffer' = b
      <3>1. Flying' = Flying
        BY <2>1 DEF Flying
      <3> HIDE DEF it
      <3> QED BY <1>0, <1>1, <2>0, <2>1, <3>1 DEF Whereabouts, OnePlace
    <2>2. CASE batch' = [batch EXCEPT ![a] = b] /\ buffer' = {}
      <3>1. Flying' = Flying \cup b
        <4>1. PICK Rest : Flying' = Rest \cup b /\ Flying = Rest \cup batch[a]
          <5> HIDE DEF b
          <5> QED BY <1>0, <2>2, FlyingAfter
        <4> QED BY <1>1, <4>1
      <3>2. \A t \in Threads : batch'[t] = IF t = a THEN b ELSE batch[t]
        BY <1>0, <2>2 DEF TypeOK
      <3>3. \A t \in Threads : batch[t] \subseteq Flying
        BY DEF Flying
      <3> HIDE DEF it
      <3>4. \A t, u \in Threads : t # u => batch'[t] \cap batch'[u] = {}
        BY <1>0, <2>0, <3>2, <3>3 DEF Whereabouts, OnePlace
      <3> QED BY <1>0, <1>1, <2>0, <2>2, <3>1, <3>4 DEF Whereabouts, OnePlace
    <2> QED BY <1>3, <2>1, <2>2
  <1>7. Fresh'
    <2>1. \A x \in Apps : /\ app'[x].e = app[x].e
                         /\ app'[x].i = IF x = a THEN c.i + 1 ELSE app[x].i
      BY <1>0, <1>1 DEF TypeOK
    <2>2. \A x \in Apps, j \in 1 .. MaxStarts :
             app[x].e # None /\ j >= app'[x].i => <<app[x].e, j>> # it
      BY <1>0, <1>1, <2>1 DEF Fresh, TypeOK
    <2>3. \A x \in Apps, j \in 1 .. MaxStarts :
             app[x].e # None /\ j >= app'[x].i => <<app[x].e, j>> \notin handed
      BY <1>0, <1>1, <2>1 DEF Fresh, TypeOK
    <2> QED BY <1>0, <1>1, <2>1, <2>2, <2>3 DEF Fresh
  <1>8. HoldsWhileSending' /\ StopInProgress' /\ RunningIsFlushed'
    <2>1. \A t \in Timers \cup {Main} : batch'[t] = batch[t]
      BY <1>0, <1>3 DEF TypeOK, Threads
    <2> QED BY <1>0, <1>1, <2>1
            DEF HoldsWhileSending, StopInProgress, RunningIsFlushed
  <1> QED BY <1>4, <1>5, <1>6, <1>7, <1>8 DEF Inv

\* A POST ends: the batch is counted once and leaves the thread's hands.
LEMMA SendInv ==
  ASSUME Inv, NEW th \in Threads, Send(th)
  PROVE  Inv'
  <1> USE RemoteAssumption DEF RemoteAssumption
  <1> DEFINE B == batch[th]
  <1>0. /\ TypeOK /\ Whereabouts /\ Fresh /\ HoldsWhileSending
        /\ StopInProgress /\ RunningIsFlushed /\ IsFiniteSet(buffer) /\ BufferBounded
    BY DEF Inv
  <1>1. /\ B # {} /\ B \subseteq Items
        /\ \/ sent' = sent \cup B /\ failed' = failed
           \/ sent' = sent /\ failed' = failed \cup B
        /\ buffer' = buffer
        /\ batch' = [batch EXCEPT ![th] = {}]
        /\ main' = IF th = Main THEN "idle" ELSE main
        /\ timer' = IF th \in Timers THEN [timer EXCEPT ![th] = "check"] ELSE timer
        /\ UNCHANGED <<running, callbacks, app, current, handed, dropped>>
    BY <1>0 DEF Send, AfterSend, BackAfterFailure, TypeOK
  <1>2. \A u \in Threads : batch'[u] = IF u = th THEN {} ELSE batch[u]
    BY <1>0, <1>1 DEF TypeOK
  <1>3. TypeOK'
    <2>1. batch' \in [Threads -> SUBSET Items] /\ timer' \in
             [Timers -> {"off", "armed", "flush", "send", "check", "arm"}]
      BY <1>0, <1>1 DEF TypeOK
    <2> QED BY <1>0, <1>1, <2>1 DEF TypeOK
  <1>4. Whereabouts'
    <2>1. PICK Rest : /\ Flying' = Rest \cup {} /\ Flying = Rest \cup B
                      /\ \A u \in Threads : u # th => batch[u] \subseteq Rest
      BY <1>0, <1>1, FlyingAfter
    <2>2. Rest \cap B = {}
      \* another thread's batch shares nothing with this one
      <3>1. \A u \in Threads : u # th => batch[u] \cap B = {}
        BY <1>0 DEF Whereabouts, OnePlace
      <3>2. Flying' \cap B = {}
        BY <1>2, <3>1 DEF Flying
      <3> QED BY <2>1, <3>2
    <2> HIDE DEF B
    <2>3. \A t, u \in Threads : t # u => batch'[t] \cap batch'[u] = {}
      BY <1>0, <1>2 DEF Whereabouts, OnePlace
    <2> QED BY <1>0, <1>1, <2>1, <2>2, <2>3 DEF Whereabouts, OnePlace
  <1>5. IsFiniteSet(buffer') /\ BufferBounded' /\ Fresh'
    BY <1>0, <1>1 DEF BufferBounded, Fresh
  <1>6. HoldsWhileSending' /\ StopInProgress' /\ RunningIsFlushed'
    BY <1>0, <1>1, <1>2
    DEF TypeOK, Threads, HoldsWhileSending, StopInProgress, RunningIsFlushed
  <1> QED BY <1>3, <1>4, <1>5, <1>6 DEF Inv

\* flush() takes the whole buffer at once, so no two threads share an item.
LEMMA SwapInv ==
  ASSUME Inv, NEW th \in Threads, Swap(th)
  PROVE  Inv'
  <1> USE RemoteAssumption DEF RemoteAssumption
  <1>0. /\ TypeOK /\ Whereabouts /\ Fresh /\ HoldsWhileSending
        /\ StopInProgress /\ RunningIsFlushed
        /\ \/ th = Main /\ main = "flush"
           \/ th \in Timers /\ timer[th] = "flush"
    BY DEF Inv, Swap, InFlush
  <1>1. /\ batch[th] = {} /\ buffer' = {}
        /\ UNCHANGED <<running, callbacks, app, current, handed, sent, failed>>
    BY <1>0 DEF Swap, HoldsWhileSending
  <1>2. \E step \in {"send", "check"} :
           /\ timer' = IF th \in Timers THEN [timer EXCEPT ![th] = step] ELSE timer
           /\ main' = IF th = Main THEN (IF step = "send" THEN "send" ELSE "idle")
                                   ELSE main
           /\ step = "send" => batch' = [batch EXCEPT ![th] = buffer] /\ dropped' = dropped
           /\ step = "check" => batch' = batch /\ dropped' = dropped \cup buffer
    BY DEF Swap, AfterSend
  <1>3. PICK step \in {"send", "check"} :
           /\ timer' = IF th \in Timers THEN [timer EXCEPT ![th] = step] ELSE timer
           /\ main' = IF th = Main THEN (IF step = "send" THEN "send" ELSE "idle")
                                   ELSE main
           /\ step = "send" => batch' = [batch EXCEPT ![th] = buffer] /\ dropped' = dropped
           /\ step = "check" => batch' = batch /\ dropped' = dropped \cup buffer
    BY <1>2
  <1>4. \A u \in Threads :
           batch'[u] = IF u = th /\ step = "send" THEN buffer ELSE batch[u]
    BY <1>0, <1>3 DEF TypeOK
  <1>5. TypeOK'
    <2>1. batch' \in [Threads -> SUBSET Items] /\ timer' \in
             [Timers -> {"off", "armed", "flush", "send", "check", "arm"}]
      BY <1>0, <1>3 DEF TypeOK
    <2> QED BY <1>0, <1>1, <1>3, <2>1 DEF TypeOK
  <1>6. Whereabouts'
    <2>1. CASE step = "send"
      <3>1. Flying' = Flying \cup buffer
        <4>1. PICK Rest : Flying' = Rest \cup buffer /\ Flying = Rest \cup batch[th]
          BY <1>0, <1>3, <2>1, FlyingAfter
        <4> QED BY <1>1, <4>1
      <3>2. \A t \in Threads : batch[t] \subseteq Flying
        BY DEF Flying
      <3>3. \A t, u \in Threads : t # u => batch'[t] \cap batch'[u] = {}
        BY <1>0, <1>4, <3>2 DEF Whereabouts, OnePlace
      <3> QED BY <1>0, <1>1, <1>3, <2>1, <3>1, <3>3 DEF Whereabouts, OnePlace
    <2>2. CASE step = "check"
      <3>1. Flying' = Flying
        BY <1>3, <2>2 DEF Flying
      <3> QED BY <1>0, <1>1, <1>3, <2>2, <3>1 DEF Whereabouts, OnePlace
    <2> QED BY <2>1, <2>2
  <1>7. IsFiniteSet(buffer') /\ BufferBounded' /\ Fresh'
    BY <1>0, <1>1, FS_EmptySet DEF BufferBounded, Fresh
  <1>8. HoldsWhileSending' /\ StopInProgress' /\ RunningIsFlushed'
    BY <1>0, <1>1, <1>3, <1>4
    DEF TypeOK, Threads, HoldsWhileSending, StopInProgress, RunningIsFlushed
  <1> QED BY <1>5, <1>6, <1>7, <1>8 DEF Inv

-----------------------------------------------------------------------------
\* Every step of every thread keeps the invariant.
LEMMA StepInv == Inv /\ [Next]_vars => Inv'
  <1> SUFFICES ASSUME Inv, [Next]_vars PROVE Inv'
    OBVIOUS
  <1>0. Apps \subseteq Threads /\ Timers \subseteq Threads /\ Main \in Threads
    BY DEF Threads
  <1>1. CASE UNCHANGED vars
    BY <1>1 DEF vars, Inv, TypeOK, BufferBounded, Whereabouts, OnePlace, Flying, Fresh,
                HoldsWhileSending, StopInProgress, RunningIsFlushed
  <1>2. ASSUME NEW a \in Apps, AppStep(a) PROVE Inv'
    BY <1>0, <1>2, RecordSteps, OnEventInv, SendInv DEF AppStep
  <1>3. CASE Call \/ MainStep
    BY <1>0, <1>3, MainSteps, SwapInv, SendInv DEF MainStep
  <1>4. ASSUME NEW t \in Timers, TimerStep(t) PROVE Inv'
    BY <1>0, <1>4, TimerControl, SwapInv, SendInv DEF TimerStep
  <1> QED BY <1>1, <1>2, <1>3, <1>4 DEF Next

\* The invariant holds in every reachable state.
THEOREM Invariance == Spec => []Inv
  BY InitInv, StepInv, PTL DEF Spec

\* No event handed to the tracker is ever out of the books, for any number of
\* threads that record, flush, start and stop at once.
THEOREM NothingLost == Spec => []Conservation
  <1>1. Inv => Conservation
    BY DEF Inv, Whereabouts, Conservation
  <1> QED BY <1>1, Invariance, PTL

\* No event is in two places: it is posted by one thread, and once.
THEOREM NothingTwice == Spec => []OnePlace
  <1>1. Inv => OnePlace
    BY DEF Inv, Whereabouts
  <1> QED BY <1>1, Invariance, PTL

\* The buffer stays below batch_size, for every batch_size.
THEOREM BufferIsBounded == Spec => []BufferBounded
  <1>1. Inv => BufferBounded
    BY DEF Inv
  <1> QED BY <1>1, Invariance, PTL

\* A running tracker always has a timer chain that will flush its buffer.
THEOREM RunningHasTimer == Spec => []RunningIsFlushed
  <1>1. Inv => RunningIsFlushed
    BY DEF Inv
  <1> QED BY <1>1, Invariance, PTL

-----------------------------------------------------------------------------
(* What a plugin registry keeps of a slot *)

\* What Among keeps of a sequence is a sequence of the same kind, and has exactly
\* the entries that are in the set.
LEMMA AmongIs ==
  ASSUME NEW P, NEW q \in Seq(P), NEW K
  PROVE  Among(q, K) \in Seq(P) /\ Range(Among(q, K)) = Range(q) \cap K
<1> DEFINE n == Len(q)
           Step == [i \in 1 .. n |-> [r \in Seq(P) |-> IF q[i] \in K THEN Append(r, q[i]) ELSE r]]
           Rec(f) == [i \in 0 .. n |-> IF i = 0 THEN <<>>
                        ELSE IF q[i] \in K THEN Append(f[i - 1], q[i]) ELSE f[i - 1]]
           made == CHOOSE f : f = Rec(f)
<1>1. n \in Nat /\ \A i \in 1 .. n : q[i] \in P
  OBVIOUS
<1>2. Step \in [1 .. n -> [Seq(P) -> Seq(P)]]
  <2>1. ASSUME NEW i \in 1 .. n
        PROVE  [r \in Seq(P) |-> IF q[i] \in K THEN Append(r, q[i]) ELSE r] \in [Seq(P) -> Seq(P)]
    BY <1>1
  <2>2. QED BY <2>1
<1>3. <<>> \in Seq(P)
  OBVIOUS
<1> HIDE DEF n
<1>4. PICK g \in [0 .. n -> Seq(P)] : g[0] = <<>> /\ \A i \in 1 .. n : g[i] = Step[i][g[i - 1]]
  <2> HIDE DEF Step, Rec, made
  <2>1. n \in Nat
    BY <1>1
  <2> DEFINE As == Seq(P)
             s0 == <<>>
  <2>2. s0 \in As /\ Step \in [1 .. n -> [As -> As]]
    BY <1>2, <1>3
  <2> HIDE DEF As, s0
  <2>3. \E f : IsChain(f, As, s0, n, Step)
    BY <2>1, <2>2, ChainExists
  <2>4. QED BY <2>3 DEF IsChain, As, s0
<1>5. g = Rec(g)
  <2>1. ASSUME NEW i \in 1 .. n
        PROVE  g[i] = IF q[i] \in K THEN Append(g[i - 1], q[i]) ELSE g[i - 1]
    <3>1. i - 1 \in 0 .. n /\ g[i - 1] \in Seq(P)
      BY <1>1
    <3>2. QED BY <1>4, <3>1
  <2> HIDE DEF Step
  <2>2. ASSUME NEW i \in 0 .. n
        PROVE  g[i] = IF i = 0 THEN <<>>
                        ELSE IF q[i] \in K THEN Append(g[i - 1], q[i]) ELSE g[i - 1]
    <3>1. CASE i = 0
      BY <1>4, <3>1
    <3>2. CASE i # 0
      <4>1. i \in 1 .. n
        BY <1>1, <3>2
      <4>2. QED BY <2>1, <3>2, <4>1
    <3>3. QED BY <3>1, <3>2
  <2>3. QED BY <2>2
<1>6. made = Rec(made)
  <2>1. \E f : f = Rec(f)
    BY <1>5
  <2> HIDE DEF Rec
  <2>2. QED BY <2>1
<1>7. Among(q, K) = made[n]
  BY DEF Among, n
<1> HIDE DEF made
<1>8. made[0] = <<>> /\ \A i \in 1 .. n : made[i] = IF q[i] \in K THEN Append(made[i - 1], q[i])
                                            ELSE made[i - 1]
  <2>1. 0 \in 0 .. n /\ \A i \in 1 .. n : i \in 0 .. n /\ i # 0
    BY <1>1
  <2>2. \A i \in 0 .. n : Rec(made)[i] = IF i = 0 THEN <<>>
                        ELSE IF q[i] \in K THEN Append(made[i - 1], q[i]) ELSE made[i - 1]
    OBVIOUS
  <2> HIDE DEF Rec
  <2>3. \A i \in 0 .. n : made[i] = IF i = 0 THEN <<>>
                        ELSE IF q[i] \in K THEN Append(made[i - 1], q[i]) ELSE made[i - 1]
    BY <1>6, <2>2
  <2>4. QED BY <2>1, <2>3
<1> DEFINE Kept(i) == {q[j] : j \in {k \in 1 .. i : q[k] \in K}}
           Bad == {i \in 0 .. n : ~ (made[i] \in Seq(P) /\ Range(made[i]) = Kept(i))}
<1>9. ASSUME NEW i \in 1 .. n, made[i - 1] \in Seq(P), Range(made[i - 1]) = Kept(i - 1)
      PROVE  made[i] \in Seq(P) /\ Range(made[i]) = Kept(i)
  <2>1. CASE q[i] \in K
    <3>1. made[i] = Append(made[i - 1], q[i])
      BY <1>8, <2>1
    <3>2. Kept(i) = Kept(i - 1) \cup {q[i]}
      BY <1>1, <2>1
    <3>3. Range(Append(made[i - 1], q[i])) = Range(made[i - 1]) \cup {q[i]}
      <4> DEFINE old == made[i - 1]
      <4> HIDE DEF made
      <4>2. old \in Seq(P) /\ q[i] \in P
        BY <1>1, <1>9
      <4> HIDE DEF old
      <4>3. /\ DOMAIN Append(old, q[i]) = 1 .. Len(old) + 1 /\ DOMAIN old = 1 .. Len(old)
            /\ \A j \in 1 .. Len(old) : Append(old, q[i])[j] = old[j]
            /\ Append(old, q[i])[Len(old) + 1] = q[i]
        BY <4>2
      <4>4. 1 .. Len(old) + 1 = (1 .. Len(old)) \cup {Len(old) + 1}
        BY <4>2
      <4>5. Range(Append(old, q[i])) = Range(old) \cup {q[i]}
        BY <4>3, <4>4 DEF Range
      <4>6. QED BY <4>5 DEF old
    <3>4. made[i] \in Seq(P)
      BY <1>1, <1>9, <3>1
    <3> HIDE DEF Kept
    <3>5. QED BY <1>9, <3>1, <3>2, <3>3, <3>4
  <2>2. CASE q[i] \notin K
    <3>1. made[i] = made[i - 1]
      BY <1>8, <2>2
    <3>2. Kept(i) = Kept(i - 1)
      BY <1>1, <2>2
    <3>3. QED BY <1>9, <3>1, <3>2
  <2>3. QED BY <2>1, <2>2
<1>10. Range(made[0]) = Kept(0) /\ made[0] \in Seq(P)
  BY <1>8 DEF Range
<1> HIDE DEF Kept
<1>11. Bad = {}
  <2> SUFFICES ASSUME Bad # {} PROVE FALSE
    OBVIOUS
  <2>1. PICK k \in Bad : \A j \in Bad : k <= j
    <3>1. Bad \in SUBSET Nat
      BY <1>1
    <3> HIDE DEF Bad
    <3>2. QED BY <3>1, SmallestExists
  <2>2. k # 0 /\ k \in 0 .. n
    BY <1>10, <2>1
  <2>3. k \in 1 .. n /\ k - 1 \in 0 .. n /\ k - 1 \notin Bad
    BY <1>1, <2>1, <2>2
  <2>4. made[k] \in Seq(P) /\ Range(made[k]) = Kept(k)
    BY <1>9, <2>3
  <2>5. QED BY <2>1, <2>4
<1>12. made[n] \in Seq(P) /\ Range(made[n]) = Kept(n)
  <2>1. n \in 0 .. n /\ n \notin Bad
    <3> HIDE DEF Bad
    <3>1. QED BY <1>1, <1>11
  <2>2. QED BY <2>1
<1>13. Kept(n) = Range(q) \cap K
  BY DEF Kept, Range, n
<1>14. QED BY <1>7, <1>12, <1>13

-----------------------------------------------------------------------------
(* The registry *)

\* Another model than the one asked for is the choice of a working runtime.
LEMMA OverrideIs ==
  ASSUME NEW m, Runtimes \in Seq(Plugin)
  PROVE  ModelOverride(m) # m =>
            \E p \in Range(Runtimes) \ Breaks : ModelOverride(m) \in Range(Overrides[p])
<1> DEFINE q == Runtimes
           n == Len(q)
           A == {m} \cup UNION {Range(Overrides[p]) : p \in Plugin}
           Next1(i, x) == IF Answers(q[i], x) THEN Overrides[q[i]][x] ELSE x
           Step == [i \in 1 .. n |-> [x \in A |-> Next1(i, x)]]
           Rec(f) == [i \in 0 .. n |-> IF i = 0 THEN m
                        ELSE IF Answers(q[i], f[i - 1]) THEN Overrides[q[i]][f[i - 1]] ELSE f[i - 1]]
           made == CHOOSE f : f = Rec(f)
<1>1. n \in Nat /\ \A i \in 1 .. n : q[i] \in Plugin
  OBVIOUS
<1>2. ModelOverride(m) = made[n]
  BY DEF ModelOverride
<1>3. Range(q) = {q[i] : i \in 1 .. n}
  BY DEF Range
<1> HIDE DEF q, n, made
<1>4. ASSUME NEW i \in 1 .. n, NEW x \in A PROVE Next1(i, x) \in A
  <2>1. CASE Answers(q[i], x)
    <3>1. Overrides[q[i]][x] \in Range(Overrides[q[i]])
      BY <2>1 DEF Answers, Range
    <3>2. QED BY <1>1, <2>1, <3>1
  <2>2. CASE ~ Answers(q[i], x)
    BY <2>2
  <2>3. QED BY <2>1, <2>2
<1> HIDE DEF A
<1>5. Step \in [1 .. n -> [A -> A]]
  <2> HIDE DEF Next1
  <2>1. \A i \in 1 .. n : [x \in A |-> Next1(i, x)] \in [A -> A]
    BY <1>4
  <2>2. QED BY <2>1
<1>6. PICK g \in [0 .. n -> A] : g[0] = m /\ \A i \in 1 .. n : g[i] = Step[i][g[i - 1]]
  <2>1. m \in A
    BY DEF A
  <2>2. n \in Nat
    BY <1>1
  <2> HIDE DEF Step
  <2>3. \E f : IsChain(f, A, m, n, Step)
    BY <1>5, <2>1, <2>2, ChainExists
  <2>4. QED BY <2>3 DEF IsChain
<1>7. g = Rec(g)
  <2>1. ASSUME NEW i \in 1 .. n PROVE g[i] = Next1(i, g[i - 1])
    <3>1. i - 1 \in 0 .. n /\ g[i - 1] \in A
      BY <1>1
    <3> HIDE DEF Next1
    <3>2. QED BY <1>6, <3>1
  <2> HIDE DEF Step
  <2>2. ASSUME NEW i \in 0 .. n
        PROVE  g[i] = IF i = 0 THEN m ELSE Next1(i, g[i - 1])
    <3>1. CASE i = 0
      BY <1>6, <3>1
    <3>2. CASE i # 0
      <4>1. i \in 1 .. n
        BY <1>1, <3>2
      <4> HIDE DEF Next1
      <4>2. QED BY <2>1, <3>2, <4>1
    <3>3. QED BY <3>1, <3>2
  <2>3. QED BY <2>2
<1>8. made = Rec(made)
  <2>1. \E f : f = Rec(f)
    BY <1>7
  <2> HIDE DEF Rec
  <2>2. QED BY <2>1 DEF made
<1>9. made[0] = m /\ \A i \in 1 .. n : made[i] = Next1(i, made[i - 1])
  <2>1. 0 \in 0 .. n /\ \A i \in 1 .. n : i \in 0 .. n /\ i # 0
    BY <1>1
  <2>2. \A i \in 0 .. n : Rec(made)[i] = IF i = 0 THEN m ELSE Next1(i, made[i - 1])
    OBVIOUS
  <2> HIDE DEF Rec, Next1
  <2>3. \A i \in 0 .. n : made[i] = IF i = 0 THEN m ELSE Next1(i, made[i - 1])
    BY <1>8, <2>2
  <2>4. QED BY <2>1, <2>3
<1> DEFINE Good(i) == made[i] = m \/ \E j \in 1 .. i : q[j] \notin Breaks /\ made[i] \in Range(Overrides[q[j]])
           Bad == {i \in 0 .. n : ~ Good(i)}
<1>10. ASSUME NEW i \in 1 .. n, Good(i - 1) PROVE Good(i)
  <2>1. CASE Answers(q[i], made[i - 1])
    <3>1. made[i] = Overrides[q[i]][made[i - 1]]
      BY <1>9, <2>1
    <3>2. q[i] \notin Breaks /\ made[i] \in Range(Overrides[q[i]])
      BY <2>1, <3>1 DEF Answers, Range
    <3>3. i \in 1 .. i
      BY <1>1
    <3>4. QED BY <3>2, <3>3
  <2>2. CASE ~ Answers(q[i], made[i - 1])
    <3>1. made[i] = made[i - 1]
      BY <1>9, <2>2
    <3>2. 1 .. i - 1 \subseteq 1 .. i
      BY <1>1
    <3>3. QED BY <1>10, <3>1, <3>2
  <2>3. QED BY <2>1, <2>2
<1>11. Good(0)
  BY <1>9
<1> HIDE DEF Good
<1>12. Bad = {}
  <2> SUFFICES ASSUME Bad # {} PROVE FALSE
    OBVIOUS
  <2>1. PICK k \in Bad : \A j \in Bad : k <= j
    <3>1. Bad \in SUBSET Nat
      BY <1>1
    <3> HIDE DEF Bad
    <3>2. QED BY <3>1, SmallestExists
  <2>2. k # 0 /\ k \in 0 .. n
    BY <1>11, <2>1
  <2>3. k \in 1 .. n /\ k - 1 \in 0 .. n /\ k - 1 \notin Bad
    BY <1>1, <2>1, <2>2
  <2>4. Good(k)
    BY <1>10, <2>3
  <2>5. QED BY <2>1, <2>4
<1>13. Good(n)
  BY <1>1, <1>12
<1>14. QED BY <1>2, <1>3, <1>13 DEF Good, q

\* What is in the slots is a plugin of that type; an unload in progress has a name,
\* slots left, and the list of the slot it is at.
HostType == [name : NamesOf \cup {Void}, left : Seq(Slots), at : Slots \cup {Void}, list : Seq(Plugin)]
RegistryTypeOK ==
    /\ byName \in [NamesOf -> Plugin \cup {Void}]
    /\ \A n \in NamesOf : byName[n] # Void => NameOf[byName[n]] = n
    /\ slot \in [Slots -> Seq(Plugin)]
    /\ \A s \in Slots : \A p \in Range(slot[s]) : SlotOf[p] = s
    /\ host \in [Hosts -> HostType]
    /\ \A h \in Hosts : \A p \in Range(host[h].list) : SlotOf[p] = host[h].at
    /\ \A h \in Hosts : host[h].name = Void => host[h] = AtRest
    /\ raced \in BOOLEAN

\* Who handles an action is a working reactor that offers it.
ActionsOffered ==
    /\ actions = [a \in DOMAIN actions |-> actions[a]]
    /\ \A a \in DOMAIN actions : actions[a] # Void => actions[a] \notin Breaks /\ a \in Ops[actions[a]]

\* As long as no two calls overlapped: at most one unload is in progress, loaded
\* names are in their slots, and what is in a slot is loaded by name or about to be
\* taken out by that unload, whose list lacks its name and nothing else.
Leaving(h, p, s) == NameOf[p] = host[h].name /\ s \in Range(host[h].left) \cup {host[h].at}
OneUnload == \A g, h \in Hosts : host[g].name # Void /\ host[h].name # Void => g = h
NamesInSlots == \A n \in NamesOf : byName[n] # Void => byName[n] \in Range(slot[SlotOf[byName[n]]])
SlotsAreNamed ==
    \A s \in Slots : \A p \in Range(slot[s]) :
        byName[NameOf[p]] # Void \/ \E h \in Hosts : Leaving(h, p, s)
UnloadsOff ==
    \A h \in Hosts : host[h].name # Void =>
        /\ byName[host[h].name] = Void
        /\ host[h].at # Void =>
             Range(host[h].list) = {p \in Range(slot[host[h].at]) : NameOf[p] # host[h].name}
Alone == ~raced => OneUnload /\ NamesInSlots /\ SlotsAreNamed /\ UnloadsOff

LEMMA RangeOfAppend ==
  ASSUME NEW P, NEW q \in Seq(P), NEW p
  PROVE  Range(Append(q, p)) = Range(q) \cup {p}
<1>1. /\ DOMAIN Append(q, p) = 1 .. Len(q) + 1 /\ DOMAIN q = 1 .. Len(q)
      /\ \A j \in 1 .. Len(q) : Append(q, p)[j] = q[j]
      /\ Append(q, p)[Len(q) + 1] = p
  OBVIOUS
<1>2. 1 .. Len(q) + 1 = (1 .. Len(q)) \cup {Len(q) + 1}
  OBVIOUS
<1>3. QED BY <1>1, <1>2 DEF Range

LEMMA RangeOfTail ==
  ASSUME NEW P, NEW q \in Seq(P), q # <<>>
  PROVE  /\ Head(q) \in P /\ Tail(q) \in Seq(P)
         /\ Range(q) = Range(Tail(q)) \cup {Head(q)}
<1>1. /\ Tail(q) \in Seq(P) /\ Len(Tail(q)) = Len(q) - 1 /\ Len(q) \in Nat \ {0}
      /\ \A i \in 1 .. Len(q) - 1 : Tail(q)[i] = q[i + 1]
      /\ Head(q) = q[1]
  OBVIOUS
<1>2. DOMAIN q = 1 .. Len(q) /\ DOMAIN Tail(q) = 1 .. Len(q) - 1
  BY <1>1
<1>3. Head(q) \in P
  BY <1>1
<1>4. ASSUME NEW x \in Range(q) PROVE x \in Range(Tail(q)) \cup {Head(q)}
  <2>1. PICK i \in 1 .. Len(q) : x = q[i]
    BY <1>2 DEF Range
  <2>2. CASE i = 1
    BY <1>1, <2>1, <2>2
  <2>3. CASE i # 1
    <3>1. i - 1 \in 1 .. Len(q) - 1 /\ Tail(q)[i - 1] = q[i]
      BY <1>1, <2>3
    <3>2. QED BY <1>2, <2>1, <3>1 DEF Range
  <2>4. QED BY <2>2, <2>3
<1>5. ASSUME NEW x \in Range(Tail(q)) \cup {Head(q)} PROVE x \in Range(q)
  <2>1. CASE x = Head(q)
    <3>1. 1 \in 1 .. Len(q)
      BY <1>1
    <3>2. QED BY <1>1, <1>2, <2>1, <3>1 DEF Range
  <2>2. CASE x \in Range(Tail(q))
    <3>1. PICK i \in 1 .. Len(q) - 1 : x = Tail(q)[i]
      BY <1>2, <2>2 DEF Range
    <3>2. i + 1 \in 1 .. Len(q) /\ x = q[i + 1]
      BY <1>1, <3>1
    <3>3. QED BY <1>2, <3>2 DEF Range
  <2>3. QED BY <2>1, <2>2
<1>6. QED BY <1>1, <1>3, <1>4, <1>5

LEMMA SlotsKnown ==
  /\ \A p \in Plugin : SlotOf[p] \in Slots /\ NameOf[p] \in NamesOf
  /\ Void \notin NamesOf /\ Void \notin Slots /\ Void \notin Plugin
  /\ SlotOrder \in Seq(Slots) /\ Range(SlotOrder) = Slots
<1>1. Range(AllSlots) = {"notifier", "policy", "exporter", "provider", "tracker", "reactor", "runtime", "agent"}
  <2>1. DOMAIN AllSlots = 1 .. 8
    BY DEF AllSlots
  <2>2. 1 .. 8 = {1, 2, 3, 4, 5, 6, 7, 8}
    OBVIOUS
  <2>3. QED BY <2>1, <2>2 DEF Range, AllSlots
<1>2. Slots \subseteq Range(AllSlots)
  BY <1>1, RegistryAssumption DEF Slots
<1>3. AllSlots \in Seq(Range(AllSlots))
  BY <1>1 DEF AllSlots
<1>4. SlotOrder \in Seq(Range(AllSlots)) /\ Range(SlotOrder) = Slots
  <2> DEFINE all == AllSlots
             P == Range(all)
             K == Slots
  <2>1. all \in Seq(P) /\ K \subseteq Range(all)
    BY <1>2, <1>3
  <2> HIDE DEF all, P, K
  <2>2. Among(all, K) \in Seq(P) /\ Range(Among(all, K)) = Range(all) \cap K
    BY <2>1, AmongIs
  <2>3. Among(all, K) \in Seq(P) /\ Range(Among(all, K)) = K
    BY <2>1, <2>2
  <2>4. QED BY <2>3 DEF all, P, K, SlotOrder
<1>5. SlotOrder \in Seq(Slots)
  <2>1. \A i \in 1 .. Len(SlotOrder) : SlotOrder[i] \in Slots
    BY <1>4 DEF Range
  <2>2. QED BY <1>4, <2>1
<1>6. \A p \in Plugin : SlotOf[p] \in Slots /\ NameOf[p] \in NamesOf
  BY DEF Slots, NamesOf
<1>7. Void \notin NamesOf
  BY RegistryAssumption DEF NamesOf, Range
<1>8. QED BY <1>2, <1>4, <1>5, <1>6, <1>7, RegistryAssumption

\* A host is resting if it has no name.
LEMMA RestingHosts ==
  RegistryTypeOK => /\ \A h \in Hosts : host[h] = AtRest <=> host[h].name = Void
                    /\ Busy <=> \E h \in Hosts : host[h].name # Void
<1>1. AtRest.name = Void
  BY DEF AtRest
<1>2. QED BY <1>1 DEF RegistryTypeOK, Busy

\* Each step changes what its action says.
LEMMA FilterIs ==
  ASSUME RegistryTypeOK, NEW h \in Hosts, Filter(h)
  PROVE  \E s \in Slots :
           /\ host[h].name # Void /\ host[h].at = Void
           /\ Range(host[h].left) = Range(host'[h].left) \cup {s}
           /\ host'[h].name = host[h].name /\ host'[h].at = s
           /\ host'[h].left \in Seq(Slots) /\ host'[h].list \in Seq(Plugin)
           /\ Range(host'[h].list) = {p \in Range(slot[s]) : NameOf[p] # host[h].name}
           /\ host' \in [Hosts -> HostType]
           /\ \A g \in Hosts \ {h} : host'[g] = host[g]
<1> DEFINE s == Head(host[h].left)
           K == {p \in Plugin : NameOf[p] # host[h].name}
           row == [host[h] EXCEPT !.left = Tail(host[h].left), !.at = s, !.list = Without(s, host[h].name)]
<1>1. host[h] \in HostType /\ host[h].left # <<>> /\ host[h].at = Void
  BY DEF Filter, RegistryTypeOK
<1>2. host[h].left \in Seq(Slots) /\ host[h].name \in NamesOf \cup {Void}
  BY <1>1 DEF HostType
<1>3. s \in Slots /\ Tail(host[h].left) \in Seq(Slots)
      /\ Range(host[h].left) = Range(Tail(host[h].left)) \cup {s}
  BY <1>1, <1>2, RangeOfTail
<1>4. slot[s] \in Seq(Plugin)
  BY <1>3 DEF RegistryTypeOK
<1>5. Without(s, host[h].name) \in Seq(Plugin)
      /\ Range(Without(s, host[h].name)) = {p \in Range(slot[s]) : NameOf[p] # host[h].name}
  <2>1. Range(slot[s]) \subseteq Plugin
    BY <1>4 DEF Range
  <2>2. Among(slot[s], K) \in Seq(Plugin) /\ Range(Among(slot[s], K)) = Range(slot[s]) \cap K
    <3> DEFINE q == slot[s]
    <3>1. q \in Seq(Plugin)
      BY <1>4
    <3> HIDE DEF q, K
    <3>2. Among(q, K) \in Seq(Plugin) /\ Range(Among(q, K)) = Range(q) \cap K
      BY <3>1, AmongIs
    <3>3. QED BY <3>2 DEF q
  <2>3. QED BY <2>1, <2>2 DEF Without
<1>6. host' = [host EXCEPT ![h] = row]
  BY DEF Filter, RegistryTypeOK
<1> HIDE DEF s
<1>7. /\ row \in HostType /\ row.name = host[h].name /\ row.at = s
      /\ row.left = Tail(host[h].left) /\ row.list = Without(s, host[h].name)
  BY <1>1, <1>3, <1>5 DEF HostType
<1> HIDE DEF row
<1>8. host'[h] = row /\ (\A g \in Hosts \ {h} : host'[g] = host[g]) /\ host' \in [Hosts -> HostType]
  BY <1>6, <1>7 DEF RegistryTypeOK
<1>9. host[h].name # Void
  <2>1. AtRest.left = <<>>
    BY DEF AtRest
  <2>2. QED BY <1>1, <2>1 DEF RegistryTypeOK
<1>10. QED BY <1>1, <1>3, <1>5, <1>7, <1>8, <1>9

LEMMA AssignIs ==
  ASSUME RegistryTypeOK, NEW h \in Hosts, Assign(h)
  PROVE  /\ host[h].at \in Slots /\ host[h].name # Void /\ host[h].list \in Seq(Plugin)
         /\ slot' \in [Slots -> Seq(Plugin)] /\ slot'[host[h].at] = host[h].list
         /\ \A s \in Slots \ {host[h].at} : slot'[s] = slot[s]
         /\ \A g \in Hosts \ {h} : host'[g] = host[g]
         /\ host' \in [Hosts -> HostType]
         /\ \/ host[h].left = <<>> /\ host'[h] = AtRest
            \/ /\ host'[h].name = host[h].name /\ host'[h].at = Void
               /\ host'[h].left = host[h].left /\ host'[h].list = <<>>
<1> DEFINE row == IF host[h].left = <<>> THEN AtRest ELSE [host[h] EXCEPT !.at = Void, !.list = <<>>]
<1>1. host[h] \in HostType /\ host[h].at # Void
  BY DEF Assign, RegistryTypeOK
<1>2. host[h].at \in Slots /\ host[h].list \in Seq(Plugin)
  BY <1>1 DEF HostType
<1>3. host[h].name # Void
  <2>1. AtRest.at = Void
    BY DEF AtRest
  <2>2. QED BY <1>1, <2>1 DEF RegistryTypeOK
<1>4. slot' \in [Slots -> Seq(Plugin)] /\ slot'[host[h].at] = host[h].list
      /\ \A s \in Slots \ {host[h].at} : slot'[s] = slot[s]
  BY <1>2 DEF Assign, RegistryTypeOK
<1>5. host' = [host EXCEPT ![h] = row]
  BY DEF Assign, RegistryTypeOK
<1>6. /\ row \in HostType
      /\ \/ host[h].left = <<>> /\ row = AtRest
         \/ /\ row.name = host[h].name /\ row.at = Void
            /\ row.left = host[h].left /\ row.list = <<>>
  <2>1. <<>> \in Seq(Plugin) /\ <<>> \in Seq(Slots)
    OBVIOUS
  <2>2. CASE host[h].left = <<>>
    <3>1. row = AtRest
      BY <2>2
    <3>2. AtRest \in HostType
      BY <2>1 DEF HostType, AtRest
    <3>3. QED BY <2>2, <3>1, <3>2
  <2>3. CASE host[h].left # <<>>
    <3>1. row = [host[h] EXCEPT !.at = Void, !.list = <<>>]
      BY <2>3
    <3>2. row = [name |-> host[h].name, left |-> host[h].left, at |-> Void, list |-> <<>>]
      BY <1>1, <3>1 DEF HostType
    <3> HIDE DEF row
    <3>3. QED BY <1>1, <2>1, <3>2 DEF HostType
  <2>4. QED BY <2>2, <2>3
<1> HIDE DEF row
<1>7. host'[h] = row /\ (\A g \in Hosts \ {h} : host'[g] = host[g]) /\ host' \in [Hosts -> HostType]
  BY <1>5, <1>6 DEF RegistryTypeOK
<1>8. QED BY <1>2, <1>3, <1>4, <1>6, <1>7

LEMMA StartIs ==
  ASSUME RegistryTypeOK, NEW h \in Hosts, NEW n \in NamesOf, StartUnload(h, n)
  PROVE  /\ host[h] = AtRest /\ host' \in [Hosts -> HostType]
         /\ host'[h].name = n /\ host'[h].at = Void
         /\ host'[h].left = SlotOrder /\ host'[h].list = <<>>
         /\ \A g \in Hosts \ {h} : host'[g] = host[g]
<1> DEFINE row == [AtRest EXCEPT !.name = n, !.left = SlotOrder]
<1>1. /\ row \in HostType /\ row.name = n /\ row.at = Void
      /\ row.left = SlotOrder /\ row.list = <<>>
  <2>1. n \in NamesOf \cup {Void} /\ SlotOrder \in Seq(Slots) /\ <<>> \in Seq(Plugin)
    BY SlotsKnown
  <2>2. row = [name |-> n, left |-> SlotOrder, at |-> Void, list |-> <<>>]
    <3>1. row = [AtRest EXCEPT !.name = n, !.left = SlotOrder]
      OBVIOUS
    <3> HIDE DEF row
    <3>2. QED BY <3>1 DEF AtRest
  <2> HIDE DEF row
  <2>3. QED BY <2>1, <2>2 DEF HostType
<1>2. host[h] = AtRest /\ host' = [host EXCEPT ![h] = row]
  BY DEF StartUnload
<1> HIDE DEF row
<1>3. QED BY <1>1, <1>2 DEF RegistryTypeOK

LEMMA LoadIs ==
  ASSUME RegistryTypeOK, NEW h \in Hosts, NEW p \in Plugin, Load(h, p)
  PROVE  /\ host[h] = AtRest
         /\ byName' \in [NamesOf -> Plugin \cup {Void}] /\ byName'[NameOf[p]] = p
         /\ \A n \in NamesOf \ {NameOf[p]} : byName'[n] = byName[n]
         /\ slot' \in [Slots -> Seq(Plugin)]
         /\ Range(slot'[SlotOf[p]]) = Range(slot[SlotOf[p]]) \cup {p}
         /\ \A s \in Slots \ {SlotOf[p]} : slot'[s] = slot[s]
         /\ UNCHANGED <<host, actions>>
<1>1. SlotOf[p] \in Slots /\ NameOf[p] \in NamesOf
  BY SlotsKnown
<1>2. slot[SlotOf[p]] \in Seq(Plugin)
  BY <1>1 DEF RegistryTypeOK
<1>3. /\ Append(slot[SlotOf[p]], p) \in Seq(Plugin)
      /\ Range(Append(slot[SlotOf[p]], p)) = Range(slot[SlotOf[p]]) \cup {p}
  BY <1>2, RangeOfAppend
<1>4. slot'[SlotOf[p]] = Append(slot[SlotOf[p]], p) /\ slot' \in [Slots -> Seq(Plugin)]
      /\ \A s \in Slots \ {SlotOf[p]} : slot'[s] = slot[s]
  BY <1>1, <1>3 DEF Load, RegistryTypeOK
<1>5. QED BY <1>1, <1>3, <1>4 DEF Load, RegistryTypeOK

LEMMA RegistryTypeInit == PluginsInit => RegistryTypeOK
<1> SUFFICES ASSUME PluginsInit PROVE RegistryTypeOK
  OBVIOUS
<1>1. <<>> \in Seq(Plugin) /\ <<>> \in Seq(Slots) /\ Range(<<>>) = {}
  BY DEF Range
<1>2. AtRest \in HostType /\ AtRest.list = <<>>
  BY <1>1 DEF AtRest, HostType
<1>3. QED BY <1>1, <1>2 DEF PluginsInit, RegistryTypeOK

LEMMA RegistryTypeStep == RegistryTypeOK /\ [PluginsNext]_plugvars => RegistryTypeOK'
<1> SUFFICES ASSUME RegistryTypeOK, [PluginsNext]_plugvars PROVE RegistryTypeOK'
  OBVIOUS
<1>1. ASSUME NEW h \in Hosts, NEW p \in Plugin, Load(h, p) PROVE RegistryTypeOK'
  <2>1. ASSUME NEW s \in Slots, NEW r \in Range(slot'[s]) PROVE SlotOf[r] = s
    <3>1. CASE s = SlotOf[p]
      <4>1. r \in Range(slot[s]) \cup {p}
        BY <1>1, <3>1, LoadIs
      <4>2. QED BY <3>1, <4>1 DEF RegistryTypeOK
    <3>2. CASE s # SlotOf[p]
      <4>1. r \in Range(slot[s])
        BY <1>1, <3>2, LoadIs
      <4>2. QED BY <4>1 DEF RegistryTypeOK
    <3>3. QED BY <3>1, <3>2
  <2>2. \A n \in NamesOf : byName'[n] # Void => NameOf[byName'[n]] = n
    BY <1>1, LoadIs, SlotsKnown DEF RegistryTypeOK
  <2>3. raced' \in BOOLEAN
    BY <1>1 DEF Load, RegistryTypeOK
  <2>4. QED BY <1>1, <2>1, <2>2, <2>3, LoadIs DEF RegistryTypeOK
<1>2. ASSUME NEW h \in Hosts, NEW n \in NamesOf, StartUnload(h, n) PROVE RegistryTypeOK'
  <2>1. byName' \in [NamesOf -> Plugin \cup {Void}]
        /\ \A m \in NamesOf : byName'[m] # Void => NameOf[byName'[m]] = m
    BY <1>2 DEF StartUnload, RegistryTypeOK
  <2>2. \A g \in Hosts : \A p \in Range(host'[g].list) : SlotOf[p] = host'[g].at
    <3>1. Range(<<>>) = {}
      BY DEF Range
    <3>2. QED BY <1>2, <3>1, StartIs DEF RegistryTypeOK
  <2>3. \A g \in Hosts : host'[g].name = Void => host'[g] = AtRest
    BY <1>2, StartIs, SlotsKnown DEF RegistryTypeOK
  <2>4. slot' = slot /\ raced' \in BOOLEAN
    BY <1>2 DEF StartUnload, RegistryTypeOK
  <2>5. host' \in [Hosts -> HostType]
    BY <1>2, StartIs
  <2>6. QED BY <2>1, <2>2, <2>3, <2>4, <2>5 DEF RegistryTypeOK
<1>3. ASSUME NEW h \in Hosts, Filter(h) PROVE RegistryTypeOK'
  <2>1. PICK s \in Slots :
           /\ host[h].name # Void
           /\ host'[h].name = host[h].name /\ host'[h].at = s
           /\ Range(host'[h].list) = {p \in Range(slot[s]) : NameOf[p] # host[h].name}
           /\ host' \in [Hosts -> HostType]
           /\ \A g \in Hosts \ {h} : host'[g] = host[g]
    BY <1>3, FilterIs
  <2>2. \A g \in Hosts : \A p \in Range(host'[g].list) : SlotOf[p] = host'[g].at
    BY <2>1 DEF RegistryTypeOK
  <2>3. \A g \in Hosts : host'[g].name = Void => host'[g] = AtRest
    BY <2>1 DEF RegistryTypeOK
  <2>4. QED BY <1>3, <2>1, <2>2, <2>3 DEF RegistryTypeOK, Filter
<1>4. ASSUME NEW h \in Hosts, Assign(h) PROVE RegistryTypeOK'
  <2>1. Range(<<>>) = {} /\ AtRest.list = <<>>
    BY DEF Range, AtRest
  <2>2. \A g \in Hosts : \A p \in Range(host'[g].list) : SlotOf[p] = host'[g].at
    BY <1>4, <2>1, AssignIs DEF RegistryTypeOK
  <2>3. \A g \in Hosts : host'[g].name = Void => host'[g] = AtRest
    BY <1>4, AssignIs DEF RegistryTypeOK
  <2>4. ASSUME NEW s \in Slots, NEW p \in Range(slot'[s]) PROVE SlotOf[p] = s
    <3>1. CASE s = host[h].at
      <4>1. p \in Range(host[h].list)
        BY <1>4, <3>1, AssignIs
      <4>2. QED BY <3>1, <4>1 DEF RegistryTypeOK
    <3>2. CASE s # host[h].at
      <4>1. p \in Range(slot[s])
        BY <1>4, <3>2, AssignIs
      <4>2. QED BY <4>1 DEF RegistryTypeOK
    <3>3. QED BY <3>1, <3>2
  <2>5. byName' = byName /\ raced' = raced
    BY <1>4 DEF Assign
  <2>6. slot' \in [Slots -> Seq(Plugin)] /\ host' \in [Hosts -> HostType]
    BY <1>4, AssignIs
  <2>7. QED BY <2>2, <2>3, <2>4, <2>5, <2>6 DEF RegistryTypeOK
<1>5. ASSUME NEW h \in Hosts, Activate(h) PROVE RegistryTypeOK'
  BY <1>5 DEF Activate, RegistryTypeOK
<1>6. CASE UNCHANGED plugvars
  BY <1>6 DEF plugvars, RegistryTypeOK
<1>7. QED BY <1>1, <1>2, <1>3, <1>4, <1>5, <1>6 DEF PluginsNext

LEMMA ActionsStep ==
  RegistryTypeOK /\ ActionsOffered /\ [PluginsNext]_plugvars => ActionsOffered'
<1> SUFFICES ASSUME RegistryTypeOK, ActionsOffered, [PluginsNext]_plugvars PROVE ActionsOffered'
  OBVIOUS
<1>1. ASSUME NEW h \in Hosts, Activate(h) PROVE ActionsOffered'
  <2> DEFINE ps(a) == Among(slot["reactor"], {p \in Plugin \ Breaks : a \in Ops[p]})
  <2>1. slot["reactor"] \in Seq(Plugin)
    <3>1. "reactor" \in Slots
      BY DEF Slots
    <3>2. QED BY <3>1 DEF RegistryTypeOK
  <2>2. actions' = [a \in DOMAIN actions |-> IF ps(a) = <<>> THEN actions[a] ELSE ps(a)[Len(ps(a))]]
    BY <1>1 DEF Activate
  <2>3. ASSUME NEW a, ps(a) # <<>>
        PROVE  ps(a)[Len(ps(a))] \in {p \in Plugin \ Breaks : a \in Ops[p]}
    <3> DEFINE q == slot["reactor"]
               K == {p \in Plugin \ Breaks : a \in Ops[p]}
               r == Among(q, K)
    <3>1. q \in Seq(Plugin)
      BY <2>1
    <3> HIDE DEF q, K
    <3>2. r \in Seq(Plugin) /\ Range(r) = Range(q) \cap K
      BY <3>1, AmongIs
    <3>3. r # <<>>
      BY <2>3 DEF q, K
    <3> HIDE DEF r
    <3>4. Len(r) \in DOMAIN r
      BY <3>2, <3>3
    <3>5. r[Len(r)] \in K
      BY <3>2, <3>4 DEF Range
    <3>6. QED BY <3>5 DEF r, q, K
  <2> HIDE DEF ps
  <2>4. QED BY <2>2, <2>3 DEF ActionsOffered
<1>2. ASSUME UNCHANGED actions PROVE ActionsOffered'
  BY <1>2 DEF ActionsOffered
<1>3. QED BY <1>1, <1>2 DEF PluginsNext, Load, StartUnload, Filter, Assign, plugvars

LEMMA AloneStep == RegistryTypeOK /\ Alone /\ [PluginsNext]_plugvars => Alone'
<1> SUFFICES ASSUME RegistryTypeOK, Alone, [PluginsNext]_plugvars, ~ raced'
             PROVE  OneUnload' /\ NamesInSlots' /\ SlotsAreNamed' /\ UnloadsOff'
  BY DEF Alone
<1>1. ~ raced
  BY DEF PluginsNext, Load, StartUnload, Filter, Assign, Activate, plugvars
<1>2. OneUnload /\ NamesInSlots /\ SlotsAreNamed /\ UnloadsOff
  BY <1>1 DEF Alone
<1>3. \A n \in NamesOf : byName[n] # Void => byName[n] \in Plugin /\ NameOf[byName[n]] = n
  BY DEF RegistryTypeOK
<1>4. ASSUME NEW h \in Hosts, NEW p \in Plugin, Load(h, p)
      PROVE  OneUnload' /\ NamesInSlots' /\ SlotsAreNamed' /\ UnloadsOff'
  <2>1. \A g \in Hosts : host'[g].name = Void
    <3>1. ~ Busy
      BY <1>4 DEF Load
    <3>2. QED BY <1>4, <3>1, LoadIs, RestingHosts
  <2>2. \A g \in Hosts : host[g].name = Void
    BY <2>1, <1>4, LoadIs
  <2>3. NamesInSlots'
    <3>1. ASSUME NEW n \in NamesOf, byName'[n] # Void
          PROVE  byName'[n] \in Range(slot'[SlotOf[byName'[n]]])
      <4>1. CASE n = NameOf[p]
        BY <1>4, <4>1, LoadIs
      <4>2. CASE n # NameOf[p]
        <5>1. byName'[n] = byName[n] /\ byName[n] \in Plugin /\ byName[n] \in Range(slot[SlotOf[byName[n]]])
          BY <1>2, <1>3, <1>4, <3>1, <4>2, LoadIs DEF NamesInSlots
        <5>2. SlotOf[byName[n]] \in Slots
          BY <5>1, SlotsKnown
        <5>3. Range(slot[SlotOf[byName[n]]]) \subseteq Range(slot'[SlotOf[byName[n]]])
          BY <1>4, <5>2, LoadIs
        <5>4. QED BY <5>1, <5>3
      <4>3. QED BY <4>1, <4>2
    <3>2. QED BY <3>1 DEF NamesInSlots
  <2>4. SlotsAreNamed'
    <3>1. ASSUME NEW s \in Slots, NEW r \in Range(slot'[s]) PROVE byName'[NameOf[r]] # Void
      <4>1. CASE r = p
        BY <1>4, <4>1, LoadIs, SlotsKnown
      <4>2. CASE r # p
        <5>1. r \in Range(slot[s])
          <6>1. CASE s = SlotOf[p]
            <7>1. Range(slot'[SlotOf[p]]) = Range(slot[SlotOf[p]]) \cup {p}
              BY <1>4, LoadIs
            <7>2. r \in Range(slot'[SlotOf[p]])
              BY <6>1
            <7>3. r \in Range(slot[SlotOf[p]])
              BY <4>2, <7>1, <7>2
            <7>4. QED BY <6>1, <7>3
          <6>2. CASE s # SlotOf[p]
            BY <1>4, <6>2, LoadIs
          <6>3. QED BY <6>1, <6>2
        <5>2. r \in Plugin
          BY <5>1 DEF RegistryTypeOK, Range
        <5>3. NameOf[r] \in NamesOf /\ Void \notin NamesOf /\ Void \notin Plugin
          BY <5>2, SlotsKnown
        <5>4. byName[NameOf[r]] # Void
          BY <1>2, <2>2, <5>1, <5>3 DEF SlotsAreNamed, Leaving
        <5>5. CASE NameOf[r] = NameOf[p]
          BY <1>4, <5>3, <5>5, LoadIs
        <5>6. CASE NameOf[r] # NameOf[p]
          BY <1>4, <5>3, <5>4, <5>6, LoadIs
        <5>7. QED BY <5>5, <5>6
      <4>3. QED BY <4>1, <4>2
    <3>2. QED BY <3>1 DEF SlotsAreNamed
  <2>5. OneUnload' /\ UnloadsOff'
    BY <2>1 DEF OneUnload, UnloadsOff
  <2>6. QED BY <2>3, <2>4, <2>5
<1>5. ASSUME NEW h \in Hosts, NEW n \in NamesOf, StartUnload(h, n)
      PROVE  OneUnload' /\ NamesInSlots' /\ SlotsAreNamed' /\ UnloadsOff'
  <2>1. \A g \in Hosts : host[g].name = Void
    <3>1. ~ Busy
      BY <1>5 DEF StartUnload
    <3>2. QED BY <3>1, RestingHosts
  <2>2. \A g \in Hosts : host'[g].name # Void => g = h
    BY <1>5, <2>1, StartIs
  <2>3. slot' = slot /\ byName'[n] = Void /\ \A m \in NamesOf \ {n} : byName'[m] = byName[m]
    BY <1>5 DEF StartUnload, RegistryTypeOK
  <2>4. NamesInSlots'
    BY <1>2, <2>3 DEF NamesInSlots
  <2>5. SlotsAreNamed'
    <3>1. ASSUME NEW s \in Slots, NEW r \in Range(slot'[s])
          PROVE  byName'[NameOf[r]] # Void \/ Leaving(h, r, s)'
      <4>1. r \in Range(slot[s]) /\ r \in Plugin
        BY <2>3 DEF RegistryTypeOK, Range
      <4>2. NameOf[r] \in NamesOf /\ Void \notin NamesOf
        BY <4>1, SlotsKnown
      <4>3. byName[NameOf[r]] # Void
        BY <1>2, <2>1, <4>1, <4>2 DEF SlotsAreNamed, Leaving
      <4>4. CASE NameOf[r] = n
        BY <1>5, <4>4, StartIs, SlotsKnown DEF Leaving
      <4>5. CASE NameOf[r] # n
        BY <2>3, <4>2, <4>3, <4>5
      <4>6. QED BY <4>4, <4>5
    <3>2. QED BY <3>1 DEF SlotsAreNamed
  <2>6. UnloadsOff'
    BY <1>5, <2>2, <2>3, StartIs DEF UnloadsOff
  <2>7. OneUnload'
    BY <2>2 DEF OneUnload
  <2>8. QED BY <2>4, <2>5, <2>6, <2>7
<1>6. ASSUME NEW h \in Hosts, Filter(h)
      PROVE  OneUnload' /\ NamesInSlots' /\ SlotsAreNamed' /\ UnloadsOff'
  <2>1. PICK s \in Slots :
           /\ host[h].name # Void /\ host[h].at = Void
           /\ Range(host[h].left) = Range(host'[h].left) \cup {s}
           /\ host'[h].name = host[h].name /\ host'[h].at = s
           /\ Range(host'[h].list) = {p \in Range(slot[s]) : NameOf[p] # host[h].name}
           /\ \A g \in Hosts \ {h} : host'[g] = host[g]
    BY <1>6, FilterIs
  <2>2. byName' = byName /\ slot' = slot
    BY <1>6 DEF Filter
  <2>3. \A g \in Hosts : host'[g].name = host[g].name
    BY <2>1
  <2>4. OneUnload' /\ NamesInSlots'
    BY <1>2, <2>2, <2>3 DEF OneUnload, NamesInSlots
  <2>5. SlotsAreNamed'
    <3>1. ASSUME NEW x \in Slots, NEW r \in Range(slot[x]), NEW g \in Hosts, Leaving(g, r, x)
          PROVE  Leaving(g, r, x)'
      <4>1. x # Void
        BY SlotsKnown
      <4>2. CASE g = h
        BY <2>1, <3>1, <4>1, <4>2 DEF Leaving
      <4>3. CASE g # h
        BY <2>1, <3>1, <4>3 DEF Leaving
      <4>4. QED BY <4>2, <4>3
    <3>2. QED BY <1>2, <2>2, <3>1 DEF SlotsAreNamed
  <2>6. UnloadsOff'
    <3>1. ASSUME NEW g \in Hosts, host'[g].name # Void
          PROVE  /\ byName'[host'[g].name] = Void
                 /\ host'[g].at # Void =>
                      Range(host'[g].list) = {p \in Range(slot'[host'[g].at]) : NameOf[p] # host'[g].name}
      <4>1. CASE g = h
        BY <1>2, <2>1, <2>2, <4>1 DEF UnloadsOff
      <4>2. CASE g # h
        BY <1>2, <2>1, <2>2, <3>1, <4>2 DEF UnloadsOff
      <4>3. QED BY <4>1, <4>2
    <3>2. QED BY <3>1 DEF UnloadsOff
  <2>7. QED BY <2>4, <2>5, <2>6
<1>7. ASSUME NEW h \in Hosts, Assign(h)
      PROVE  OneUnload' /\ NamesInSlots' /\ SlotsAreNamed' /\ UnloadsOff'
  <2> DEFINE at == host[h].at
             name == host[h].name
  <2>1. /\ at \in Slots /\ name # Void /\ at # Void
        /\ slot'[at] = host[h].list
        /\ \A s \in Slots \ {at} : slot'[s] = slot[s]
        /\ \A g \in Hosts \ {h} : host'[g] = host[g]
        /\ byName' = byName
    BY <1>7, AssignIs, SlotsKnown DEF Assign
  <2>2. \/ host[h].left = <<>> /\ host'[h].name = Void
        \/ /\ host'[h].name = name /\ host'[h].at = Void
           /\ host'[h].left = host[h].left
    BY <1>7, AssignIs DEF AtRest
  <2>3. \A g \in Hosts \ {h} : host[g].name = Void
    BY <1>2, <2>1 DEF OneUnload
  <2>4. byName[name] = Void /\ Range(host[h].list) = {p \in Range(slot[at]) : NameOf[p] # name}
    BY <1>2, <2>1 DEF UnloadsOff
  <2>5. OneUnload'
    BY <2>1, <2>3 DEF OneUnload
  <2>6. NamesInSlots'
    <3>1. ASSUME NEW n \in NamesOf, byName[n] # Void
          PROVE  byName[n] \in Range(slot'[SlotOf[byName[n]]])
      <4>1. byName[n] \in Plugin /\ NameOf[byName[n]] = n /\ byName[n] \in Range(slot[SlotOf[byName[n]]])
        BY <1>2, <1>3, <3>1 DEF NamesInSlots
      <4>2. SlotOf[byName[n]] \in Slots /\ n # name
        BY <2>4, <3>1, <4>1, SlotsKnown
      <4>3. CASE SlotOf[byName[n]] = at
        BY <2>1, <2>4, <4>1, <4>2, <4>3
      <4>4. CASE SlotOf[byName[n]] # at
        BY <2>1, <4>1, <4>2, <4>4
      <4>5. QED BY <4>3, <4>4
    <3>2. QED BY <2>1, <3>1 DEF NamesInSlots
  <2>7. SlotsAreNamed'
    <3>1. ASSUME NEW x \in Slots, NEW r \in Range(slot'[x]), byName[NameOf[r]] = Void
          PROVE  Leaving(h, r, x)'
      <4>1. r \in Range(slot[x]) /\ (x = at => NameOf[r] # name)
        BY <2>1, <2>4
      <4>2. r \in Plugin
        BY <4>1 DEF RegistryTypeOK, Range
      <4>3. NameOf[r] \in NamesOf /\ Void \notin NamesOf
        BY <4>2, SlotsKnown
      <4>4. Leaving(h, r, x)
        BY <1>2, <2>3, <3>1, <4>1, <4>3 DEF SlotsAreNamed, Leaving
      <4>5. NameOf[r] = name /\ x # at /\ x \in Range(host[h].left)
        BY <4>1, <4>4 DEF Leaving
      <4>6. host[h].left # <<>>
        BY <4>5 DEF Range
      <4>7. QED BY <2>2, <4>5, <4>6 DEF Leaving
    <3>2. QED BY <2>1, <3>1 DEF SlotsAreNamed
  <2>8. UnloadsOff'
    BY <2>1, <2>2, <2>3, <2>4 DEF UnloadsOff
  <2>9. QED BY <2>5, <2>6, <2>7, <2>8
<1>8. ASSUME UNCHANGED <<byName, slot, host>>
      PROVE  OneUnload' /\ NamesInSlots' /\ SlotsAreNamed' /\ UnloadsOff'
  BY <1>2, <1>8 DEF OneUnload, NamesInSlots, SlotsAreNamed, UnloadsOff, Leaving
<1>9. QED BY <1>4, <1>5, <1>6, <1>7, <1>8 DEF PluginsNext, Activate, plugvars

LEMMA AnswersCome == RegistryTypeOK /\ ActionsOffered /\ SlotsMatchNames => AnswersComeFromLoaded
<1> SUFFICES ASSUME RegistryTypeOK, ActionsOffered, SlotsMatchNames PROVE AnswersComeFromLoaded
  OBVIOUS
<1>1. "runtime" \in Slots /\ "provider" \in Slots
  BY DEF Slots
<1>2. Runtimes \in Seq(Plugin) /\ slot["provider"] \in Seq(Plugin)
  BY <1>1 DEF RegistryTypeOK, Runtimes
<1>3. WithinLimits => \A p \in Range(Runtimes) \cap Throttles : p \in Breaks
  BY DEF WithinLimits
<1>4. ASSUME NEW m \in Requested, Pricer(m) # Void
      PROVE  /\ Pricer(m) \in Range(slot["provider"]) /\ m \in Knows[Pricer(m)]
             /\ ~ Busy /\ ~ raced => byName[NameOf[Pricer(m)]] # Void
  <2> DEFINE q == slot["provider"]
             K == {p \in Plugin : p \in Breaks \/ m \in Knows[p]}
             s == Among(q, K)
  <2>1. s # <<>> /\ s[1] \notin Breaks /\ Pricer(m) = s[1]
    BY <1>4 DEF Pricer
  <2>2. q \in Seq(Plugin)
    BY <1>2
  <2> HIDE DEF q, K
  <2>3. s \in Seq(Plugin) /\ Range(s) = Range(q) \cap K
    BY <2>2, AmongIs
  <2> HIDE DEF s
  <2>4. s[1] \in Range(s)
    <3>1. 1 \in DOMAIN s
      BY <2>1, <2>3
    <3>2. QED BY <3>1 DEF Range
  <2>5. s[1] \in Range(q) /\ m \in Knows[s[1]]
    BY <2>1, <2>3, <2>4 DEF K
  <2>6. Pricer(m) \in Range(slot["provider"]) /\ m \in Knows[Pricer(m)]
    BY <2>1, <2>5 DEF q
  <2>7. QED BY <1>1, <2>6 DEF SlotsMatchNames
<1>5. ASSUME NEW m \in Requested, ModelOverride(m) # m
      PROVE  \E p \in Range(Runtimes) \ Breaks : ModelOverride(m) \in Range(Overrides[p])
  BY <1>2, <1>5, OverrideIs
<1>6. QED BY <1>3, <1>4, <1>5 DEF AnswersComeFromLoaded, ActionsOffered

\* RegistrySound: unless calls overlap, names and slots agree, and all answers of
\* the registry come from what is loaded.
LEMMA RegistryIsSound == PluginsSpec => []RegistrySound
<1> DEFINE RegistryInv == RegistryTypeOK /\ ActionsOffered /\ Alone
<1>1. PluginsInit => RegistryInv
  <2> SUFFICES ASSUME PluginsInit PROVE RegistryInv
    OBVIOUS
  <2>1. RegistryTypeOK
    BY RegistryTypeInit
  <2>2. ActionsOffered
    BY DEF PluginsInit, ActionsOffered
  <2>3. \A h \in Hosts : host[h].name = Void
    BY DEF PluginsInit, AtRest
  <2>4. Range(<<>>) = {}
    BY DEF Range
  <2>5. OneUnload /\ NamesInSlots /\ SlotsAreNamed /\ UnloadsOff
    BY <2>3, <2>4 DEF PluginsInit, OneUnload, NamesInSlots, SlotsAreNamed, UnloadsOff
  <2>6. QED BY <2>1, <2>2, <2>5 DEF Alone
<1>2. RegistryInv /\ [PluginsNext]_plugvars => RegistryInv'
  BY RegistryTypeStep, ActionsStep, AloneStep
<1>3. RegistryInv => RegistrySound
  <2> SUFFICES ASSUME RegistryInv PROVE RegistrySound
    OBVIOUS
  <2>1. SlotsMatchNames
    <3> SUFFICES ASSUME ~ Busy, ~ raced
                 PROVE  /\ \A n \in NamesOf : byName[n] # Void => byName[n] \in Range(slot[SlotOf[byName[n]]])
                        /\ \A s \in Slots : \A p \in Range(slot[s]) : byName[NameOf[p]] # Void /\ SlotOf[p] = s
      BY DEF SlotsMatchNames
    <3>1. \A h \in Hosts : host[h].name = Void
      BY RestingHosts
    <3>2. \A s \in Slots : \A p \in Range(slot[s]) : NameOf[p] \in NamesOf /\ Void \notin NamesOf
      BY SlotsKnown DEF RegistryTypeOK, Range
    <3>3. NamesInSlots /\ SlotsAreNamed
      BY DEF Alone
    <3>4. \A s \in Slots : \A p \in Range(slot[s]) : byName[NameOf[p]] # Void
      BY <3>1, <3>2, <3>3 DEF SlotsAreNamed, Leaving
    <3>5. QED BY <3>3, <3>4 DEF NamesInSlots, RegistryTypeOK
  <2>2. QED BY <2>1, AnswersCome DEF RegistrySound
<1>4. QED BY <1>1, <1>2, <1>3, PTL DEF PluginsSpec

-----------------------------------------------------------------------------
(* The agents' lives *)

Transition == [agent : Worker, from : AllStates, to : AllStates]
Move == [agent : Worker, from : AllStates, to : AllStates, step : {"write", "record", "emit"}]

LifeTypeOK ==
    /\ state \in [Worker -> AllStates \cup {"none"}]
    /\ history \in Seq(Transition) /\ told \in Seq(Transition)
    /\ mover \in [Movers -> Move \cup {Free}]
    /\ crossed \subseteq Worker
    /\ \A m \in Movers : mover[m] # Free => mover[m].to \in ValidTransitions[mover[m].from]
    /\ \A i \in DOMAIN history : history[i].to \in ValidTransitions[history[i].from]

\* Entry after entry of an agent starts where the one before ended; the last ends at x.
Follows(q, a) == \A i, j \in DOMAIN q : NextOf(q, a, i, j) => q[i].to = q[j].from
EndsAt(q, a, x) == \A i \in DOMAIN q : LastOf(q, a, i) => q[i].to = x
Unheard(a) == \A i \in DOMAIN told : told[i].agent # a

\* What an agent's one transition read is true until it writes, and what it wrote
\* after; history and events end where it started until they hear of it.
OneMove(a) == \A m, k \in Movers : mover[m].agent = a /\ mover[k].agent = a => m = k
MoveOK(m, a) ==
    /\ IF mover[m].step = "write" THEN Current(a) = mover[m].from ELSE state[a] = mover[m].to
    /\ EndsAt(history, a, IF mover[m].step = "emit" THEN mover[m].to ELSE mover[m].from)
    /\ EndsAt(told, a, mover[m].from)
    /\ Unheard(a) => mover[m].from = "registered"
RestOK(a) ==
    /\ EndsAt(history, a, state[a]) /\ EndsAt(told, a, state[a])
    /\ Unheard(a) => state[a] \in {"none", "registered"}
OneLife(a) ==
    /\ OneMove(a) /\ Follows(history, a) /\ Follows(told, a)
    /\ \A m \in Movers : mover[m].agent = a => MoveOK(m, a)
    /\ ~ InTransit(a) => RestOK(a)
LifeInv == LifeTypeOK /\ \A a \in Worker \ crossed : OneLife(a)

LEMMA StatesKnown ==
  "registered" \in AllStates /\ "none" \notin AllStates /\ ValidTransitions["terminated"] = {}
BY DEF AllStates, ValidTransitions

LEMMA AppendEntry ==
  ASSUME NEW P, NEW q \in Seq(P), NEW e \in P
  PROVE  LET r == Append(q, e) n == Len(q) + 1 IN
         /\ r \in Seq(P) /\ DOMAIN r = DOMAIN q \cup {n} /\ n \in Nat /\ DOMAIN q \subseteq Nat
         /\ r[n] = e /\ \A i \in DOMAIN q : r[i] = q[i] /\ i < n
<1>1. /\ Append(q, e) \in Seq(P) /\ DOMAIN Append(q, e) = 1 .. Len(q) + 1 /\ DOMAIN q = 1 .. Len(q)
      /\ \A j \in 1 .. Len(q) : Append(q, e)[j] = q[j]
      /\ Append(q, e)[Len(q) + 1] = e
  OBVIOUS
<1>2. 1 .. Len(q) + 1 = (1 .. Len(q)) \cup {Len(q) + 1}
  OBVIOUS
<1>3. QED BY <1>1, <1>2

\* An entry of somebody else's says nothing about an agent.
LEMMA AppendOther ==
  ASSUME NEW q \in Seq(Transition), NEW e \in Transition, NEW a, e.agent # a
  PROVE  /\ Follows(q, a) => Follows(Append(q, e), a)
         /\ \A x : EndsAt(q, a, x) => EndsAt(Append(q, e), a, x)
         /\ (\A i \in DOMAIN Append(q, e) : Append(q, e)[i].agent # a) => \A i \in DOMAIN q : q[i].agent # a
<1> DEFINE r == Append(q, e)
           n == Len(q) + 1
<1>1. /\ r \in Seq(Transition) /\ DOMAIN r = DOMAIN q \cup {n} /\ n \in Nat /\ DOMAIN q \subseteq Nat
      /\ r[n] = e /\ \A i \in DOMAIN q : r[i] = q[i] /\ i < n
  BY AppendEntry
<1> HIDE DEF r, n
<1>2. Follows(q, a) => Follows(r, a)
  BY <1>1 DEF Follows, NextOf
<1>3. \A x : EndsAt(q, a, x) => EndsAt(r, a, x)
  BY <1>1 DEF EndsAt, LastOf
<1>4. (\A i \in DOMAIN r : r[i].agent # a) => \A i \in DOMAIN q : q[i].agent # a
  BY <1>1
<1>5. QED BY <1>2, <1>3, <1>4 DEF r

\* An entry of the agent's own that starts where the last one ended goes on.
LEMMA AppendOwn ==
  ASSUME NEW q \in Seq(Transition), NEW e \in Transition, NEW a, e.agent = a,
         Follows(q, a), EndsAt(q, a, e.from)
  PROVE  /\ Follows(Append(q, e), a) /\ EndsAt(Append(q, e), a, e.to)
         /\ \E i \in DOMAIN Append(q, e) : Append(q, e)[i].agent = a
<1> DEFINE r == Append(q, e)
           n == Len(q) + 1
<1>1. /\ r \in Seq(Transition) /\ DOMAIN r = DOMAIN q \cup {n} /\ n \in Nat /\ DOMAIN q \subseteq Nat
      /\ r[n] = e /\ \A i \in DOMAIN q : r[i] = q[i] /\ i < n
  BY AppendEntry
<1> HIDE DEF r, n
<1>2. ASSUME NEW i \in DOMAIN r, NEW j \in DOMAIN r, NextOf(r, a, i, j) PROVE r[i].to = r[j].from
  <2>1. i \in DOMAIN q
    BY <1>1, <1>2 DEF NextOf
  <2>2. CASE j \in DOMAIN q
    <3>1. NextOf(q, a, i, j)
      BY <1>1, <1>2, <2>1, <2>2 DEF NextOf
    <3>2. QED BY <1>1, <2>1, <2>2, <3>1 DEF Follows
  <2>3. CASE j = n
    <3>1. LastOf(q, a, i)
      BY <1>1, <1>2, <2>1, <2>3 DEF NextOf, LastOf
    <3>2. QED BY <1>1, <2>1, <2>3, <3>1 DEF EndsAt
  <2>4. QED BY <1>1, <2>2, <2>3
<1>3. Follows(r, a)
  BY <1>2 DEF Follows
<1>4. EndsAt(r, a, e.to)
  BY <1>1 DEF EndsAt, LastOf
<1>5. QED BY <1>1, <1>3, <1>4 DEF r

\* Dropping the oldest entries changes none of this.
LEMMA LatestKeeps ==
  ASSUME NEW q \in Seq(Transition), NEW n \in Nat, NEW a
  PROVE  /\ Latest(q, n) \in Seq(Transition)
         /\ \A i \in DOMAIN Latest(q, n) : \E j \in DOMAIN q : Latest(q, n)[i] = q[j]
         /\ Follows(q, a) => Follows(Latest(q, n), a)
         /\ \A x : EndsAt(q, a, x) => EndsAt(Latest(q, n), a, x)
<1> DEFINE r == Latest(q, n)
<1>1. PICK d \in Nat : /\ r \in Seq(Transition) /\ DOMAIN q \subseteq Nat /\ DOMAIN r \subseteq Nat
                       /\ \A i \in DOMAIN r : i + d \in DOMAIN q /\ r[i] = q[i + d]
                       /\ \A k \in DOMAIN q : k > d => k - d \in DOMAIN r /\ r[k - d] = q[k]
                       /\ \A i \in DOMAIN r : i > 0
  <2>1. CASE Len(q) > n
    <3>1. r = SubSeq(q, Len(q) - n + 1, Len(q))
      BY <2>1 DEF Latest
    <3>2. Len(q) - n + 1 \in 1 .. Len(q) + 1
      BY <2>1
    <3>3. r \in Seq(Transition) /\ Len(r) = n /\ \A i \in 1 .. n : r[i] = q[i + (Len(q) - n)]
      BY <2>1, <3>1, <3>2
    <3>4. DOMAIN r = 1 .. n /\ DOMAIN q = 1 .. Len(q) /\ Len(q) - n \in Nat
      BY <2>1, <3>3
    <3> HIDE DEF r
    <3> DEFINE d == Len(q) - n
    <3>5. d \in Nat /\ Len(q) \in Nat /\ Len(q) = d + n
      BY <3>4
    <3>6. \A i \in 1 .. n : r[i] = q[i + d]
      BY <3>3
    <3> HIDE DEF d
    <3>7. /\ \A i \in 1 .. n : i + d \in 1 .. Len(q) /\ r[i] = q[i + d]
          /\ \A k \in 1 .. Len(q) : k > d => k - d \in 1 .. n /\ r[k - d] = q[k]
          /\ \A i \in 1 .. n : i > 0
      <4>1. \A i \in 1 .. n : i + d \in 1 .. Len(q)
        BY <3>5
      <4>2. ASSUME NEW k \in 1 .. Len(q), k > d PROVE k - d \in 1 .. n /\ r[k - d] = q[k]
        <5>1. k - d \in 1 .. n /\ (k - d) + d = k
          BY <3>5, <4>2
        <5>2. QED BY <3>6, <5>1
      <4>3. QED BY <3>6, <4>1, <4>2
    <3>8. 1 .. Len(q) \subseteq Nat /\ 1 .. n \subseteq Nat
      OBVIOUS
    <3>9. QED BY <3>3, <3>4, <3>5, <3>7, <3>8
  <2>2. CASE ~ (Len(q) > n)
    <3>1. r = q /\ DOMAIN q = 1 .. Len(q) /\ Len(q) \in Nat
      BY <2>2 DEF Latest
    <3> HIDE DEF r
    <3>2. /\ \A i \in DOMAIN q : i + 0 = i /\ i - 0 = i /\ i > 0
          /\ DOMAIN q \subseteq Nat
      BY <3>1
    <3>3. QED BY <3>1, <3>2
  <2>3. QED BY <2>1, <2>2
<1> HIDE DEF r
<1>2. ASSUME NEW i \in DOMAIN r, NEW j \in DOMAIN r, NextOf(r, a, i, j) PROVE NextOf(q, a, i + d, j + d)
  <2>1. ASSUME NEW k \in DOMAIN q, i + d < k, k < j + d PROVE q[k].agent # a
    <3>1. k > d /\ i < k - d /\ k - d < j
      BY <1>1, <2>1
    <3>2. k - d \in DOMAIN r /\ r[k - d] = q[k]
      BY <1>1, <3>1
    <3>3. QED BY <1>2, <3>1, <3>2 DEF NextOf
  <2>2. i + d < j + d /\ q[i + d].agent = a /\ q[j + d].agent = a
    BY <1>1, <1>2 DEF NextOf
  <2>3. QED BY <2>1, <2>2 DEF NextOf
<1>3. Follows(q, a) => Follows(r, a)
  BY <1>1, <1>2 DEF Follows
<1>4. ASSUME NEW i \in DOMAIN r, LastOf(r, a, i) PROVE LastOf(q, a, i + d)
  <2>1. ASSUME NEW k \in DOMAIN q, k > i + d PROVE q[k].agent # a
    <3>1. k > d /\ k - d > i
      BY <1>1, <2>1
    <3>2. k - d \in DOMAIN r /\ r[k - d] = q[k]
      BY <1>1, <3>1
    <3>3. QED BY <1>4, <3>1, <3>2 DEF LastOf
  <2>2. q[i + d].agent = a
    BY <1>1, <1>4 DEF LastOf
  <2>3. QED BY <2>1, <2>2 DEF LastOf
<1>5. \A x : EndsAt(q, a, x) => EndsAt(r, a, x)
  BY <1>1, <1>4 DEF EndsAt
<1>6. \A i \in DOMAIN r : \E j \in DOMAIN q : r[i] = q[j]
  BY <1>1
<1>7. QED BY <1>1, <1>3, <1>5, <1>6 DEF r

\* Nothing ends nowhere: an agent without a state has no entries.
LEMMA NoEnd ==
  ASSUME NEW q \in Seq(Transition), NEW a, EndsAt(q, a, "none"), NEW x
  PROVE  EndsAt(q, a, x)
<1>1. \A i \in DOMAIN q : q[i].to # "none"
  <2>1. \A i \in DOMAIN q : q[i] \in Transition
    OBVIOUS
  <2>2. QED BY <2>1, StatesKnown DEF Transition
<1>2. QED BY <1>1 DEF EndsAt

LEMMA LifeInvInit == LifeInit => LifeInv
<1> SUFFICES ASSUME LifeInit PROVE LifeInv
  OBVIOUS
<1>1. history = <<>> /\ told = <<>> /\ DOMAIN history = {} /\ DOMAIN told = {}
  BY DEF LifeInit
<1>2. LifeTypeOK
  <2>1. <<>> \in Seq(Transition)
    OBVIOUS
  <2>2. QED BY <1>1, <2>1 DEF LifeInit, LifeTypeOK
<1>3. ASSUME NEW a \in Worker PROVE OneLife(a)
  <2>1. \A m \in Movers : mover[m].agent # a
    BY LifeAssumption DEF LifeInit, Free
  <2>2. RestOK(a)
    BY <1>1 DEF RestOK, EndsAt, LifeInit
  <2>3. QED BY <1>1, <2>1, <2>2 DEF OneLife, OneMove, Follows
<1>4. QED BY <1>2, <1>3 DEF LifeInv

\* A mover has an agent unless it is free, and then its step is one of three.
LEMMA MoverIs ==
  ASSUME LifeTypeOK, NEW m \in Movers
  PROVE  /\ mover[m] = Free => mover[m].agent \notin Worker /\ mover[m].step = "idle"
         /\ mover[m] # Free => /\ mover[m] \in Move /\ mover[m].agent \in Worker
                               /\ Entry(m) \in Transition
                               /\ mover[m].from \in AllStates /\ mover[m].to \in AllStates
                               /\ mover[m].step \in {"write", "record", "emit"}
                               /\ mover[m].to \in ValidTransitions[mover[m].from]
<1>1. Free.agent \notin Worker /\ Free.step = "idle"
  BY LifeAssumption DEF Free
<1>2. mover[m] # Free => mover[m] \in Move
  BY DEF LifeTypeOK
<1>3. QED BY <1>1, <1>2 DEF LifeTypeOK, Move, Transition, Entry

\* What the actions do to the movers.
LEMMA ReadIs ==
  ASSUME LifeTypeOK, NEW m \in Movers, NEW a \in Worker, NEW to \in AllStates, ReadState(m, a, to)
  PROVE  /\ mover[m] = Free /\ to \in ValidTransitions[Current(a)] /\ Current(a) \in AllStates
         /\ mover'[m].agent = a /\ mover'[m].from = Current(a) /\ mover'[m].to = to
         /\ mover'[m].step = "write" /\ mover'[m] \in Move
         /\ \A k \in Movers \ {m} : mover'[k] = mover[k]
         /\ mover' \in [Movers -> Move \cup {Free}]
         /\ UNCHANGED <<state, history, told>>
<1> DEFINE row == [agent |-> a, from |-> Current(a), to |-> to, step |-> "write"]
<1>1. Current(a) \in AllStates
  BY StatesKnown DEF Current, LifeTypeOK
<1>2. row \in Move /\ row.agent = a /\ row.from = Current(a) /\ row.to = to /\ row.step = "write"
  BY <1>1 DEF Move
<1>3. mover' = [mover EXCEPT ![m] = row]
  BY DEF ReadState
<1> HIDE DEF row
<1>4. mover'[m] = row /\ (\A k \in Movers \ {m} : mover'[k] = mover[k])
      /\ mover' \in [Movers -> Move \cup {Free}]
  BY <1>2, <1>3 DEF LifeTypeOK
<1>5. QED BY <1>1, <1>2, <1>4 DEF ReadState, Allowed

LEMMA NextStepIs ==
  ASSUME LifeTypeOK, NEW m \in Movers, NEW st \in {"record", "emit"}, mover[m].step # "idle",
         mover' = [mover EXCEPT ![m].step = st]
  PROVE  /\ mover[m] # Free /\ mover'[m] \in Move /\ mover'[m].step = st
         /\ mover'[m].agent = mover[m].agent /\ mover'[m].from = mover[m].from /\ mover'[m].to = mover[m].to
         /\ \A k \in Movers \ {m} : mover'[k] = mover[k]
         /\ \A k \in Movers : mover'[k].agent = mover[k].agent
         /\ mover' \in [Movers -> Move \cup {Free}]
<1>1. mover[m] # Free /\ mover[m] \in Move
  BY MoverIs
<1> DEFINE row == [mover[m] EXCEPT !.step = st]
<1>2. /\ row \in Move /\ row.agent = mover[m].agent /\ row.from = mover[m].from
      /\ row.to = mover[m].to /\ row.step = st
  BY <1>1 DEF Move
<1>3. mover' = [mover EXCEPT ![m] = row]
  BY DEF LifeTypeOK
<1> HIDE DEF row
<1>4. mover'[m] = row /\ (\A k \in Movers \ {m} : mover'[k] = mover[k])
      /\ mover' \in [Movers -> Move \cup {Free}]
  BY <1>2, <1>3 DEF LifeTypeOK
<1>5. QED BY <1>1, <1>2, <1>4

LEMMA EmitIs ==
  ASSUME LifeTypeOK, NEW m \in Movers, EmitMove(m)
  PROVE  /\ mover[m] # Free /\ Entry(m) \in Transition /\ told' = Append(told, Entry(m))
         /\ Entry(m).agent = mover[m].agent /\ Entry(m).from = mover[m].from /\ Entry(m).to = mover[m].to
         /\ mover'[m] = Free /\ mover'[m].agent \notin Worker
         /\ \A k \in Movers \ {m} : mover'[k] = mover[k]
         /\ mover' \in [Movers -> Move \cup {Free}]
<1>1. Free.agent \notin Worker /\ Free.step = "idle"
  BY LifeAssumption DEF Free
<1>2. mover[m] # Free
  BY <1>1 DEF EmitMove
<1>3. Entry(m).agent = mover[m].agent /\ Entry(m).from = mover[m].from /\ Entry(m).to = mover[m].to
  BY DEF Entry
<1>4. mover' = [mover EXCEPT ![m] = Free] /\ told' = Append(told, Entry(m))
  BY DEF EmitMove
<1>5. QED BY <1>1, <1>2, <1>3, <1>4, MoverIs DEF LifeTypeOK

LEMMA RecordIs ==
  ASSUME LifeTypeOK, NEW m \in Movers, RecordMove(m)
  PROVE  /\ mover[m] # Free /\ Entry(m) \in Transition
         /\ Append(history, Entry(m)) \in Seq(Transition)
         /\ history' = Latest(Append(history, Entry(m)), HistoryCap) /\ history' \in Seq(Transition)
         /\ Entry(m).agent = mover[m].agent /\ Entry(m).from = mover[m].from /\ Entry(m).to = mover[m].to
         /\ \A i \in DOMAIN history' : history'[i].to \in ValidTransitions[history'[i].from]
<1>1. mover[m] # Free /\ Entry(m) \in Transition /\ mover[m].to \in ValidTransitions[mover[m].from]
  BY MoverIs DEF RecordMove
<1>2. Entry(m).agent = mover[m].agent /\ Entry(m).from = mover[m].from /\ Entry(m).to = mover[m].to
  BY DEF Entry
<1> DEFINE q == Append(history, Entry(m))
           n == Len(history) + 1
<1>3. /\ q \in Seq(Transition) /\ DOMAIN q = DOMAIN history \cup {n}
      /\ q[n] = Entry(m) /\ \A i \in DOMAIN history : q[i] = history[i]
  BY <1>1, AppendEntry DEF LifeTypeOK
<1>4. history' = Latest(q, HistoryCap)
  BY DEF RecordMove
<1> HIDE DEF q, n
<1>5. \A i \in DOMAIN q : q[i].to \in ValidTransitions[q[i].from]
  BY <1>1, <1>2, <1>3 DEF LifeTypeOK
<1>6. Latest(q, HistoryCap) \in Seq(Transition)
      /\ \A i \in DOMAIN Latest(q, HistoryCap) : \E j \in DOMAIN q : Latest(q, HistoryCap)[i] = q[j]
  BY <1>3, LatestKeeps, LifeAssumption
<1>7. QED BY <1>1, <1>2, <1>3, <1>4, <1>5, <1>6 DEF q

LEMMA LifeTypeStep == LifeTypeOK /\ [LifeNext]_lifevars => LifeTypeOK'
<1> SUFFICES ASSUME LifeTypeOK, [LifeNext]_lifevars PROVE LifeTypeOK'
  OBVIOUS
<1>1. ASSUME NEW a \in Worker, RegisterAgent(a) PROVE LifeTypeOK'
  BY <1>1, StatesKnown DEF RegisterAgent, LifeTypeOK
<1>2. ASSUME NEW m \in Movers, NEW a \in Worker, NEW to \in AllStates, ReadState(m, a, to)
      PROVE  LifeTypeOK'
  <2>1. crossed' \subseteq Worker
    BY <1>2 DEF ReadState, LifeTypeOK
  <2>2. \A k \in Movers : mover'[k] # Free => mover'[k].to \in ValidTransitions[mover'[k].from]
    BY <1>2, ReadIs DEF LifeTypeOK
  <2>3. QED BY <1>2, <2>1, <2>2, ReadIs DEF LifeTypeOK
<1>3. ASSUME NEW m \in Movers, WriteState(m) PROVE LifeTypeOK'
  <2>1. mover[m].agent \in Worker /\ mover[m].to \in AllStates /\ mover[m] # Free
        /\ mover[m].to \in ValidTransitions[mover[m].from]
    BY <1>3, MoverIs DEF WriteState
  <2>2. /\ mover'[m].from = mover[m].from /\ mover'[m].to = mover[m].to
        /\ \A k \in Movers \ {m} : mover'[k] = mover[k]
        /\ mover' \in [Movers -> Move \cup {Free}]
    BY <1>3, NextStepIs DEF WriteState
  <2>3. \A k \in Movers : mover'[k] # Free => mover'[k].to \in ValidTransitions[mover'[k].from]
    BY <2>1, <2>2 DEF LifeTypeOK
  <2>4. state' \in [Worker -> AllStates \cup {"none"}]
    BY <1>3, <2>1 DEF WriteState, LifeTypeOK
  <2>5. QED BY <1>3, <2>2, <2>3, <2>4 DEF WriteState, LifeTypeOK
<1>4. ASSUME NEW m \in Movers, RecordMove(m) PROVE LifeTypeOK'
  <2>1. mover[m] # Free /\ mover[m].to \in ValidTransitions[mover[m].from]
    BY <1>4, MoverIs DEF RecordMove
  <2>2. /\ mover'[m].from = mover[m].from /\ mover'[m].to = mover[m].to
        /\ \A k \in Movers \ {m} : mover'[k] = mover[k]
        /\ mover' \in [Movers -> Move \cup {Free}]
    BY <1>4, NextStepIs DEF RecordMove
  <2>3. \A k \in Movers : mover'[k] # Free => mover'[k].to \in ValidTransitions[mover'[k].from]
    BY <2>1, <2>2 DEF LifeTypeOK
  <2>4. history' \in Seq(Transition)
        /\ \A i \in DOMAIN history' : history'[i].to \in ValidTransitions[history'[i].from]
    BY <1>4, RecordIs
  <2>5. UNCHANGED <<state, told, crossed>>
    BY <1>4 DEF RecordMove
  <2>6. QED BY <2>2, <2>3, <2>4, <2>5 DEF LifeTypeOK
<1>5. ASSUME NEW m \in Movers, EmitMove(m) PROVE LifeTypeOK'
  <2>1. told' \in Seq(Transition)
    BY <1>5, EmitIs, AppendEntry DEF LifeTypeOK
  <2>2. \A k \in Movers : mover'[k] # Free => mover'[k].to \in ValidTransitions[mover'[k].from]
    BY <1>5, EmitIs DEF LifeTypeOK
  <2>3. mover' \in [Movers -> Move \cup {Free}]
    BY <1>5, EmitIs
  <2>4. UNCHANGED <<state, history, crossed>>
    BY <1>5 DEF EmitMove
  <2>5. QED BY <2>1, <2>2, <2>3, <2>4 DEF LifeTypeOK
<1>6. CASE UNCHANGED lifevars
  BY <1>6 DEF lifevars, LifeTypeOK
<1>7. QED BY <1>1, <1>2, <1>3, <1>4, <1>5, <1>6 DEF LifeNext

\* What does not concern an agent leaves its life as it was.
LEMMA LifeGoesOn ==
  ASSUME NEW a, OneLife(a), state'[a] = state[a],
         \A k \in Movers : mover'[k].agent = a <=> mover[k].agent = a,
         \A k \in Movers : mover[k].agent = a => mover'[k] = mover[k],
         Follows(history', a), \A x : EndsAt(history, a, x) => EndsAt(history', a, x),
         Follows(told', a), \A x : EndsAt(told, a, x) => EndsAt(told', a, x),
         Unheard(a)' => Unheard(a)
  PROVE  OneLife(a)'
<1>1. OneMove(a)'
  BY DEF OneLife, OneMove
<1>2. Current(a)' = Current(a)
  BY DEF Current
<1>3. ASSUME NEW m \in Movers, mover'[m].agent = a PROVE MoveOK(m, a)'
  <2>1. mover'[m] = mover[m] /\ MoveOK(m, a)
    BY <1>3 DEF OneLife
  <2>2. IF mover'[m].step = "write" THEN Current(a)' = mover'[m].from ELSE state'[a] = mover'[m].to
    BY <1>2, <2>1 DEF MoveOK
  <2>3. EndsAt(history', a, IF mover'[m].step = "emit" THEN mover'[m].to ELSE mover'[m].from)
    BY <2>1 DEF MoveOK
  <2>4. EndsAt(told', a, mover'[m].from) /\ (Unheard(a)' => mover'[m].from = "registered")
    BY <2>1 DEF MoveOK
  <2>5. QED BY <2>2, <2>3, <2>4 DEF MoveOK
<1>4. ASSUME ~ InTransit(a)' PROVE RestOK(a)'
  <2>1. ~ InTransit(a)
    BY <1>4 DEF InTransit
  <2>2. QED BY <2>1 DEF OneLife, RestOK
<1>5. QED BY <1>1, <1>3, <1>4 DEF OneLife

LEMMA LifeInvStep == LifeInv /\ [LifeNext]_lifevars => LifeInv'
<1> SUFFICES ASSUME LifeInv, [LifeNext]_lifevars, NEW a \in Worker, a \notin crossed'
             PROVE  OneLife(a)'
  BY LifeTypeStep DEF LifeInv
<1>1. LifeTypeOK
  BY DEF LifeInv
<1>2. a \notin crossed
  BY DEF LifeNext, RegisterAgent, ReadState, WriteState, RecordMove, EmitMove, lifevars
<1>3. OneLife(a)
  BY <1>2 DEF LifeInv
<1>4. history \in Seq(Transition) /\ told \in Seq(Transition)
  BY <1>1 DEF LifeTypeOK
<1>5. ASSUME NEW b \in Worker, RegisterAgent(b) PROVE OneLife(a)'
  <2>1. CASE b # a
    <3>1. state'[a] = state[a] /\ UNCHANGED <<history, told, mover>>
      BY <1>1, <1>5, <2>1 DEF RegisterAgent, LifeTypeOK
    <3>2. QED BY <1>3, <3>1, LifeGoesOn DEF OneLife, Unheard
  <2>2. CASE b = a
    <3>1. ~ InTransit(a) /\ UNCHANGED <<history, told, mover>> /\ state[a] = "none" /\ state'[a] = "registered"
      BY <1>1, <1>5, <2>2 DEF RegisterAgent, LifeTypeOK
    <3>2. RestOK(a)
      BY <1>3, <3>1 DEF OneLife
    <3>3. EndsAt(history, a, "registered") /\ EndsAt(told, a, "registered")
      BY <1>4, <3>1, <3>2, NoEnd DEF RestOK
    <3>4. RestOK(a)'
      BY <3>1, <3>3 DEF RestOK
    <3>5. \A m \in Movers : mover'[m].agent # a
      BY <3>1 DEF InTransit
    <3>6. QED BY <1>3, <3>1, <3>4, <3>5 DEF OneLife, OneMove
  <2>3. QED BY <2>1, <2>2
<1>6. ASSUME NEW m \in Movers, NEW b \in Worker, NEW to \in AllStates, ReadState(m, b, to)
      PROVE  OneLife(a)'
  <2>1. /\ mover[m] = Free /\ mover'[m].agent = b /\ mover'[m].from = Current(b)
        /\ mover'[m].step = "write"
        /\ \A k \in Movers \ {m} : mover'[k] = mover[k]
        /\ UNCHANGED <<state, history, told>>
    BY <1>1, <1>6, ReadIs
  <2>2. mover[m].agent # a
    BY <1>1, <2>1, MoverIs
  <2>3. CASE b # a
    <3>1. /\ \A k \in Movers : mover'[k].agent = a <=> mover[k].agent = a
          /\ \A k \in Movers : mover[k].agent = a => mover'[k] = mover[k]
      BY <2>1, <2>2, <2>3
    <3>2. QED BY <1>3, <2>1, <3>1, LifeGoesOn DEF OneLife, Unheard
  <2>4. CASE b = a
    <3>1. ~ InTransit(a)
      BY <1>6, <2>4 DEF ReadState
    <3>2. RestOK(a) /\ \A k \in Movers \ {m} : mover'[k].agent # a
      BY <1>3, <2>1, <3>1 DEF OneLife, InTransit
    <3>3. EndsAt(history, a, Current(a)) /\ EndsAt(told, a, Current(a))
      BY <1>4, <3>2, NoEnd DEF RestOK, Current
    <3>4. Unheard(a) => Current(a) = "registered"
      BY <3>2 DEF RestOK, Current
    <3>5. Current(a)' = Current(a) /\ (Unheard(a)' <=> Unheard(a))
      BY <2>1 DEF Current, Unheard
    <3>6. MoveOK(m, a)'
      BY <2>1, <2>4, <3>3, <3>4, <3>5 DEF MoveOK
    <3>7. InTransit(a)'
      BY <2>1, <2>4 DEF InTransit
    <3>8. \A k \in Movers : mover'[k].agent = a => k = m
      BY <3>2
    <3>9. QED BY <1>3, <2>1, <3>6, <3>7, <3>8 DEF OneLife, OneMove
  <2>5. QED BY <2>3, <2>4
<1>7. ASSUME NEW m \in Movers, WriteState(m) PROVE OneLife(a)'
  <2>1. /\ mover[m] # Free /\ mover'[m].step = "record"
        /\ mover'[m].agent = mover[m].agent /\ mover'[m].from = mover[m].from /\ mover'[m].to = mover[m].to
        /\ \A k \in Movers \ {m} : mover'[k] = mover[k]
        /\ \A k \in Movers : mover'[k].agent = mover[k].agent
    BY <1>1, <1>7, NextStepIs DEF WriteState
  <2>2. mover[m].agent \in Worker /\ UNCHANGED <<history, told>>
    BY <1>1, <1>7, <2>1, MoverIs DEF WriteState
  <2>3. CASE mover[m].agent # a
    <3>1. state'[a] = state[a]
      BY <1>1, <1>7, <2>3 DEF WriteState, LifeTypeOK
    <3>2. \A k \in Movers : mover[k].agent = a => mover'[k] = mover[k]
      BY <2>1, <2>3
    <3>3. QED BY <1>3, <2>1, <2>2, <3>1, <3>2, LifeGoesOn DEF OneLife, Unheard
  <2>4. CASE mover[m].agent = a
    <3>1. state'[a] = mover[m].to
      BY <1>1, <1>7, <2>2, <2>4 DEF WriteState, LifeTypeOK
    <3>2. MoveOK(m, a) /\ mover[m].step = "write"
      BY <1>3, <1>7, <2>4 DEF OneLife, WriteState
    <3>3. Unheard(a)' <=> Unheard(a)
      BY <2>2 DEF Unheard
    <3>4. MoveOK(m, a)'
      BY <2>1, <2>2, <3>1, <3>2, <3>3 DEF MoveOK
    <3>5. \A k \in Movers : mover'[k].agent = a => k = m
      BY <1>3, <2>1, <2>4 DEF OneLife, OneMove
    <3>6. InTransit(a)'
      BY <2>1, <2>4 DEF InTransit
    <3>7. QED BY <1>3, <2>2, <3>4, <3>5, <3>6 DEF OneLife, OneMove
  <2>5. QED BY <2>3, <2>4
<1>8. ASSUME NEW m \in Movers, RecordMove(m) PROVE OneLife(a)'
  <2>1. /\ mover[m] # Free /\ mover'[m].step = "emit"
        /\ mover'[m].agent = mover[m].agent /\ mover'[m].from = mover[m].from /\ mover'[m].to = mover[m].to
        /\ \A k \in Movers \ {m} : mover'[k] = mover[k]
        /\ \A k \in Movers : mover'[k].agent = mover[k].agent
    BY <1>1, <1>8, NextStepIs DEF RecordMove
  <2>2. UNCHANGED <<state, told>>
    BY <1>8 DEF RecordMove
  <2>3. PICK e \in Transition : e = Entry(m)
    BY <1>1, <1>8, RecordIs
  <2>4. /\ e.agent = mover[m].agent /\ e.from = mover[m].from /\ e.to = mover[m].to
        /\ Append(history, e) \in Seq(Transition)
        /\ history' = Latest(Append(history, e), HistoryCap)
    BY <1>1, <1>8, <2>3, RecordIs
  <2>5. PICK q \in Seq(Transition) : q = Append(history, e)
    BY <2>4
  <2>6. /\ Follows(q, a) => Follows(history', a)
        /\ \A x : EndsAt(q, a, x) => EndsAt(history', a, x)
    BY <2>4, <2>5, LatestKeeps, LifeAssumption
  <2>7. CASE mover[m].agent # a
    <3>1. /\ Follows(history, a) => Follows(q, a)
          /\ \A x : EndsAt(history, a, x) => EndsAt(q, a, x)
      BY <1>4, <2>3, <2>4, <2>5, <2>7, AppendOther
    <3>2. \A k \in Movers : mover[k].agent = a => mover'[k] = mover[k]
      BY <2>1, <2>7
    <3>3. Follows(history', a) /\ \A x : EndsAt(history, a, x) => EndsAt(history', a, x)
      BY <1>3, <2>6, <3>1 DEF OneLife
    <3>4. Follows(told', a) /\ (\A x : EndsAt(told, a, x) => EndsAt(told', a, x)) /\ (Unheard(a)' => Unheard(a))
      BY <1>3, <2>2 DEF OneLife, Unheard
    <3>5. QED BY <1>3, <2>1, <2>2, <3>2, <3>3, <3>4, LifeGoesOn
  <2>8. CASE mover[m].agent = a
    <3>1. MoveOK(m, a) /\ mover[m].step = "record"
      BY <1>3, <1>8, <2>8 DEF OneLife, RecordMove
    <3>2. Follows(history, a) /\ EndsAt(history, a, e.from)
      BY <1>3, <2>4, <3>1 DEF OneLife, MoveOK
    <3>3. Follows(q, a) /\ EndsAt(q, a, e.to)
      BY <1>4, <2>4, <2>5, <2>8, <3>2, AppendOwn
    <3>4. Follows(history', a) /\ EndsAt(history', a, mover[m].to)
      BY <2>4, <2>6, <3>3
    <3>5. Unheard(a)' <=> Unheard(a)
      BY <2>2 DEF Unheard
    <3>6. MoveOK(m, a)'
      BY <2>1, <2>2, <3>1, <3>4, <3>5 DEF MoveOK
    <3>7. \A k \in Movers : mover'[k].agent = a => k = m
      BY <1>3, <2>1, <2>8 DEF OneLife, OneMove
    <3>8. InTransit(a)'
      BY <2>1, <2>8 DEF InTransit
    <3>9. QED BY <1>3, <2>2, <3>4, <3>6, <3>7, <3>8 DEF OneLife, OneMove
  <2>9. QED BY <2>7, <2>8
<1>9. ASSUME NEW m \in Movers, EmitMove(m) PROVE OneLife(a)'
  <2>1. /\ mover[m] # Free /\ mover'[m].agent # a
        /\ \A k \in Movers \ {m} : mover'[k] = mover[k]
    BY <1>1, <1>9, EmitIs
  <2>2. UNCHANGED <<state, history>>
    BY <1>9 DEF EmitMove
  <2>3. PICK e \in Transition : e = Entry(m)
    BY <1>1, <1>9, EmitIs
  <2>4. e.agent = mover[m].agent /\ e.from = mover[m].from /\ e.to = mover[m].to /\ told' = Append(told, e)
    BY <1>1, <1>9, <2>3, EmitIs
  <2>5. CASE mover[m].agent # a
    <3>1. /\ Follows(told', a) /\ \A x : EndsAt(told, a, x) => EndsAt(told', a, x)
          /\ Unheard(a)' => Unheard(a)
      BY <1>3, <1>4, <2>3, <2>4, <2>5, AppendOther DEF OneLife, Unheard
    <3>2. /\ \A k \in Movers : mover'[k].agent = a <=> mover[k].agent = a
          /\ \A k \in Movers : mover[k].agent = a => mover'[k] = mover[k]
      BY <2>1, <2>5
    <3>3. Follows(history', a) /\ \A x : EndsAt(history, a, x) => EndsAt(history', a, x)
      BY <1>3, <2>2 DEF OneLife
    <3>4. QED BY <1>3, <2>2, <3>1, <3>2, <3>3, LifeGoesOn
  <2>6. CASE mover[m].agent = a
    <3>1. MoveOK(m, a) /\ mover[m].step = "emit"
      BY <1>3, <1>9, <2>6 DEF OneLife, EmitMove
    <3>2. /\ Follows(told', a) /\ EndsAt(told', a, e.to)
          /\ \E i \in DOMAIN told' : told'[i].agent = a
      BY <1>3, <1>4, <2>3, <2>4, <2>6, <3>1, AppendOwn DEF OneLife, MoveOK
    <3>3. \A k \in Movers : mover'[k].agent # a
      BY <1>3, <2>1, <2>6 DEF OneLife, OneMove
    <3>4. state'[a] = e.to /\ EndsAt(history', a, e.to)
      BY <2>2, <2>4, <3>1 DEF MoveOK
    <3>5. RestOK(a)'
      BY <3>2, <3>4 DEF RestOK, Unheard
    <3>6. QED BY <1>3, <2>2, <3>2, <3>3, <3>5 DEF OneLife, OneMove
  <2>7. QED BY <2>5, <2>6
<1>10. CASE UNCHANGED lifevars
  BY <1>3, <1>10, LifeGoesOn DEF lifevars, OneLife, Unheard
<1>11. QED BY <1>5, <1>6, <1>7, <1>8, <1>9, <1>10 DEF LifeNext

\* HistoryIsALife and ToldInOrder follow: a history goes on only from a state that
\* may be left, so it ends with a termination.
LEMMA LivesAreTold == LifeSpec => [](HistoryIsALife /\ ToldInOrder)
<1>1. LifeInv => HistoryIsALife /\ ToldInOrder
  <2> SUFFICES ASSUME LifeInv PROVE HistoryIsALife /\ ToldInOrder
    OBVIOUS
  <2>1. ASSUME NEW a \in Worker \ crossed PROVE OneLife(a)
    BY DEF LifeInv
  <2>2. \A i \in DOMAIN history : history[i].to \in ValidTransitions[history[i].from]
    BY DEF LifeInv, LifeTypeOK
  <2>3. HistoryIsALife
    <3>1. ASSUME NEW a \in Worker \ crossed, NEW i \in DOMAIN history, NEW j \in DOMAIN history,
                 NextOf(history, a, i, j)
          PROVE  history[i].to = history[j].from /\ history[i].to # "terminated"
      BY <2>1, <2>2, <3>1, StatesKnown DEF OneLife, Follows
    <3>2. ASSUME NEW a \in Worker \ crossed, NEW i \in DOMAIN history, ~ InTransit(a), LastOf(history, a, i)
          PROVE  history[i].to = state[a]
      BY <2>1, <3>2 DEF OneLife, RestOK, EndsAt
    <3>3. QED BY <2>2, <3>1, <3>2 DEF HistoryIsALife
  <2>4. ToldInOrder
    BY <2>1 DEF ToldInOrder, OneLife, Follows, RestOK, EndsAt, Unheard
  <2>5. QED BY <2>3, <2>4
<1>2. QED BY LifeInvInit, LifeInvStep, <1>1, PTL DEF LifeSpec

-----------------------------------------------------------------------------
(* The in-memory tracker *)

\* A trace half recorded is still due to both of its scopes, or to its agent.
TraceOf == [project : Projects, agent : Worker, fee : Nat, left : SUBSET (Projects \cup Worker)]
HalfRecorded(b) == b \in TraceOf /\ b.left \in {{b.project, b.agent}, {b.agent}}
MemTypeOK ==
    /\ spend \in [Projects \cup Worker -> Nat] /\ fees \in Nat
    /\ booking = [m \in Movers |-> booking[m]]
    /\ \A m \in Movers : booking[m] = NoTrace \/ HalfRecorded(booking[m])

\* What is spent in a kind of scope and what is still due to one make what was recorded.
Due(K) == [m \in Movers |-> IF booking[m].left \cap K # {} THEN booking[m].fee ELSE 0]
BooksOf(K) == SumFunctionOnSet(spend, K) + SumFunctionOnSet(Due(K), Movers) = fees
MemInv == MemTypeOK /\ BooksOf(Projects) /\ BooksOf(Worker)

LEMMA DueIs ==
  ASSUME MemTypeOK, NEW K
  PROVE  /\ \A m \in Movers : Due(K)[m] \in Nat
         /\ \A m \in Movers : booking[m] = NoTrace => Due(K)[m] = 0
<1>1. NoTrace.left = {} /\ NoTrace.fee = 0
  BY DEF NoTrace
<1>2. \A m \in Movers : booking[m].fee \in Nat
  BY <1>1 DEF MemTypeOK, HalfRecorded, TraceOf
<1>3. QED BY <1>1, <1>2 DEF Due

LEMMA DueNextIs ==
  ASSUME MemTypeOK', NEW K
  PROVE  \A m \in Movers : Due(K)'[m] \in Nat
<1>1. NoTrace.left = {} /\ NoTrace.fee = 0
  BY DEF NoTrace
<1>2. \A m \in Movers : booking'[m].fee \in Nat
  BY <1>1 DEF MemTypeOK, HalfRecorded, TraceOf
<1>3. QED BY <1>1, <1>2 DEF Due

LEMMA MemInvInit == MemInit => MemInv
<1> SUFFICES ASSUME MemInit PROVE MemInv
  OBVIOUS
<1>1. MemTypeOK
  BY DEF MemInit, MemTypeOK
<1>2. ASSUME NEW K \in {Projects, Worker} PROVE BooksOf(K)
  <2>1. SumFunctionOnSet(spend, K) = 0
    <3>1. \A x \in K : spend[x] = 0
      BY DEF MemInit
    <3>2. QED BY <3>1, SumZero, LifeAssumption
  <2>2. SumFunctionOnSet(Due(K), Movers) = 0
    <3>1. \A m \in Movers : Due(K)[m] = 0
      BY <1>1, DueIs DEF MemInit
    <3>2. QED BY <3>1, SumZero, LifeAssumption
  <2>3. QED BY <2>1, <2>2 DEF BooksOf, MemInit
<1>3. QED BY <1>1, <1>2 DEF MemInv

LEMMA KeepIs ==
  ASSUME MemTypeOK, NEW m \in Movers, NEW p \in Projects, NEW a \in Worker, NEW fee \in Fees,
         KeepTrace(m, p, a, fee)
  PROVE  /\ MemTypeOK' /\ booking[m] = NoTrace /\ spend' = spend /\ fees' = fees + fee /\ fee \in Nat
         /\ booking'[m].fee = fee /\ booking'[m].left = {p, a}
         /\ \A k \in Movers \ {m} : booking'[k] = booking[k]
<1> DEFINE row == [project |-> p, agent |-> a, fee |-> fee, left |-> {p, a}]
<1>1. fee \in Nat
  BY LifeAssumption
<1>2. HalfRecorded(row) /\ row.fee = fee /\ row.left = {p, a}
  BY <1>1 DEF HalfRecorded, TraceOf
<1>3. booking' = [booking EXCEPT ![m] = row]
  BY DEF KeepTrace
<1> HIDE DEF row
<1>4. booking'[m] = row /\ (\A k \in Movers \ {m} : booking'[k] = booking[k])
      /\ booking' = [k \in Movers |-> booking'[k]]
  BY <1>3 DEF MemTypeOK
<1>5. booking[m] = NoTrace /\ spend' = spend /\ fees' = fees + fee
  BY DEF KeepTrace
<1>6. MemTypeOK'
  BY <1>1, <1>2, <1>4, <1>5 DEF MemTypeOK
<1>7. QED BY <1>1, <1>2, <1>4, <1>5, <1>6

\* AddSpend books the fee of one scope that is due, which is then due no more.
LEMMA AddIs ==
  ASSUME MemTypeOK, NEW m \in Movers, AddSpend(m)
  PROVE  \E x \in booking[m].left :
           /\ MemTypeOK' /\ fees' = fees /\ booking[m].fee \in Nat
           /\ spend'[x] = spend[x] + booking[m].fee /\ x \in Projects \cup Worker
           /\ \A y \in (Projects \cup Worker) \ {x} : spend'[y] = spend[y]
           /\ \A K \in {Projects, Worker} : booking'[m].left \cap K = (booking[m].left \cap K) \ {x}
           /\ \A K \in {Projects, Worker} : x \in K => booking'[m].left \cap K = {}
           /\ booking'[m].left # {} => booking'[m].fee = booking[m].fee
           /\ \A k \in Movers \ {m} : booking'[k] = booking[k]
<1> DEFINE b == booking[m]
           x == IF b.project \in b.left THEN b.project ELSE b.agent
           rest == b.left \ {x}
           row == IF rest = {} THEN NoTrace ELSE [b EXCEPT !.left = rest]
<1>1. NoTrace.left = {}
  BY DEF NoTrace
<1>2. b.left # {} /\ HalfRecorded(b)
  BY <1>1 DEF AddSpend, MemTypeOK
<1>3. /\ b.project \in Projects /\ b.agent \in Worker /\ b.fee \in Nat /\ b.project # b.agent
      /\ b.left = {b.project, b.agent} \/ b.left = {b.agent}
  BY <1>2, LifeAssumption DEF HalfRecorded, TraceOf
<1>4. booking' = [booking EXCEPT ![m] = row] /\ spend' = [spend EXCEPT ![x] = spend[x] + b.fee] /\ fees' = fees
  BY DEF AddSpend, Fee, MemTypeOK
<1>5. x \in b.left /\ x \in Projects \cup Worker
  BY <1>3
<1>6. \/ x = b.project /\ rest = {b.agent}
      \/ x = b.agent /\ rest = {}
  BY <1>3
<1>7. /\ row = NoTrace \/ HalfRecorded(row)
      /\ row.left = rest /\ (rest # {} => row.fee = b.fee)
  <2>1. CASE rest = {}
    BY <1>1, <2>1
  <2>2. CASE rest # {}
    <3>1. rest = {b.agent} /\ rest \subseteq Projects \cup Worker
      BY <1>3, <1>6, <2>2
    <3>2. row = [b EXCEPT !.left = rest]
      BY <2>2
    <3>3. b \in TraceOf
      BY <1>2 DEF HalfRecorded
    <3> HIDE DEF rest, row, b
    <3>4. row \in TraceOf /\ row.left = rest /\ row.fee = b.fee /\ row.agent = b.agent
      BY <3>1, <3>2, <3>3 DEF TraceOf
    <3>5. QED BY <3>1, <3>4 DEF HalfRecorded
  <2>3. QED BY <2>1, <2>2
<1>8. \A K \in {Projects, Worker} : rest \cap K = (b.left \cap K) \ {x}
  OBVIOUS
<1>9. \A K \in {Projects, Worker} : x \in K => rest \cap K = {}
  BY <1>3, <1>6, LifeAssumption
<1> HIDE DEF x, rest, row
<1>10. booking'[m] = row /\ (\A k \in Movers \ {m} : booking'[k] = booking[k])
       /\ booking' = [k \in Movers |-> booking'[k]]
  BY <1>4 DEF MemTypeOK
<1>11. spend'[x] = spend[x] + b.fee /\ spend' \in [Projects \cup Worker -> Nat]
       /\ \A y \in (Projects \cup Worker) \ {x} : spend'[y] = spend[y]
  <2>1. spend[x] + b.fee \in Nat
    BY <1>3, <1>5 DEF MemTypeOK
  <2> HIDE DEF b
  <2>2. QED BY <1>4, <1>5, <2>1 DEF MemTypeOK
<1>12. MemTypeOK'
  BY <1>4, <1>7, <1>10, <1>11 DEF MemTypeOK
<1> HIDE DEF b
<1>13. QED BY <1>3, <1>4, <1>5, <1>7, <1>8, <1>9, <1>10, <1>11, <1>12 DEF b

LEMMA MemInvStep == MemInv /\ [MemNext]_memvars => MemInv'
<1> SUFFICES ASSUME MemInv, [MemNext]_memvars PROVE MemInv'
  OBVIOUS
<1>1. MemTypeOK /\ \A K \in {Projects, Worker} : BooksOf(K)
  BY DEF MemInv
<1>2. SUFFICES MemTypeOK' /\ \A K \in {Projects, Worker} : BooksOf(K)'
  BY DEF MemInv
<1>3. \A K \in {Projects, Worker} : IsFiniteSet(K) /\ K \subseteq Projects \cup Worker
  BY LifeAssumption
<1>4. ASSUME NEW K \in {Projects, Worker}
      PROVE  SumFunctionOnSet(spend, K) \in Nat /\ SumFunctionOnSet(Due(K), Movers) \in Nat /\ fees \in Nat
  <2>1. \A x \in K : spend[x] \in Nat
    BY <1>1, <1>3 DEF MemTypeOK
  <2>2. \A m \in Movers : Due(K)[m] \in Nat
    BY <1>1, DueIs
  <2>3. SumFunctionOnSet(spend, K) \in Nat
    BY <1>3, <2>1, SumType
  <2>4. SumFunctionOnSet(Due(K), Movers) \in Nat
    BY <2>2, SumType, LifeAssumption
  <2>5. QED BY <1>1, <2>3, <2>4 DEF MemTypeOK
<1>5. ASSUME NEW m \in Movers, NEW p \in Projects, NEW a \in Worker, NEW fee \in Fees, KeepTrace(m, p, a, fee)
      PROVE  MemTypeOK' /\ \A K \in {Projects, Worker} : BooksOf(K)'
  <2>1. /\ MemTypeOK' /\ booking[m] = NoTrace /\ spend' = spend /\ fees' = fees + fee /\ fee \in Nat
        /\ booking'[m].fee = fee /\ booking'[m].left = {p, a}
        /\ \A k \in Movers \ {m} : booking'[k] = booking[k]
    BY <1>1, <1>5, KeepIs
  <2>2. ASSUME NEW K \in {Projects, Worker} PROVE BooksOf(K)'
    <3>1. PICK f : f = Due(K)
      OBVIOUS
    <3>2. PICK g : g = Due(K)'
      OBVIOUS
    <3>3. \A k \in Movers : f[k] \in Int /\ g[k] \in Int
      <4>1. \A k \in Movers : g[k] \in Nat
        BY <2>1, <3>2, DueNextIs
      <4>2. QED BY <1>1, <3>1, <4>1, DueIs
    <3>4. \A k \in Movers \ {m} : f[k] = g[k]
      BY <2>1, <3>1, <3>2 DEF Due
    <3>5. f[m] = 0
      BY <1>1, <2>1, <3>1, DueIs
    <3>6. g[m] = fee
      <4>1. booking'[m].left \cap K # {}
        BY <2>1
      <4>2. QED BY <2>1, <3>2, <4>1 DEF Due
    <3>7. SumFunctionOnSet(g, Movers) = SumFunctionOnSet(f, Movers) + (g[m] - f[m])
      BY <3>3, <3>4, SumChange, LifeAssumption
    <3>8. SumFunctionOnSet(spend, K) + SumFunctionOnSet(f, Movers) = fees
      BY <1>1, <3>1 DEF BooksOf
    <3>9. SumFunctionOnSet(spend, K) \in Nat /\ SumFunctionOnSet(f, Movers) \in Nat
      BY <1>4, <3>1
    <3>10. SumFunctionOnSet(spend, K) + SumFunctionOnSet(g, Movers) = fees + fee
      BY <2>1, <3>5, <3>6, <3>7, <3>8, <3>9
    <3>11. SumFunctionOnSet(spend', K) + SumFunctionOnSet(Due(K)', Movers) = fees'
      BY <2>1, <3>2, <3>10
    <3>12. QED BY <3>11 DEF BooksOf
  <2>3. QED BY <2>1, <2>2
<1>6. ASSUME NEW m \in Movers, AddSpend(m)
      PROVE  MemTypeOK' /\ \A K \in {Projects, Worker} : BooksOf(K)'
  <2>1. PICK x \in booking[m].left :
           /\ MemTypeOK' /\ fees' = fees /\ booking[m].fee \in Nat
           /\ spend'[x] = spend[x] + booking[m].fee /\ x \in Projects \cup Worker
           /\ \A y \in (Projects \cup Worker) \ {x} : spend'[y] = spend[y]
           /\ \A K \in {Projects, Worker} : booking'[m].left \cap K = (booking[m].left \cap K) \ {x}
           /\ \A K \in {Projects, Worker} : x \in K => booking'[m].left \cap K = {}
           /\ booking'[m].left # {} => booking'[m].fee = booking[m].fee
           /\ \A k \in Movers \ {m} : booking'[k] = booking[k]
    BY <1>1, <1>6, AddIs
  <2>2. ASSUME NEW K \in {Projects, Worker} PROVE BooksOf(K)'
    <3>1. PICK f : f = Due(K)
      OBVIOUS
    <3>2. PICK g : g = Due(K)'
      OBVIOUS
    <3>3. \A k \in Movers : f[k] \in Int /\ g[k] \in Int
      <4>1. \A k \in Movers : g[k] \in Nat
        BY <2>1, <3>2, DueNextIs
      <4>2. QED BY <1>1, <3>1, <4>1, DueIs
    <3>4. \A k \in Movers \ {m} : f[k] = g[k]
      BY <2>1, <3>1, <3>2 DEF Due
    <3>5. f[m] = IF booking[m].left \cap K # {} THEN booking[m].fee ELSE 0
      BY <3>1 DEF Due
    <3>6. g[m] = IF booking'[m].left \cap K # {} THEN booking'[m].fee ELSE 0
      BY <3>2 DEF Due
    <3>7. \A y \in K : spend[y] \in Int /\ spend'[y] \in Int
      BY <1>1, <1>3, <2>1 DEF MemTypeOK
    <3>8. SumFunctionOnSet(g, Movers) = SumFunctionOnSet(f, Movers) + (g[m] - f[m])
      BY <3>3, <3>4, SumChange, LifeAssumption
    <3>9. SumFunctionOnSet(spend, K) + SumFunctionOnSet(f, Movers) = fees
      BY <1>1, <3>1 DEF BooksOf
    <3>10. SumFunctionOnSet(spend, K) \in Nat /\ SumFunctionOnSet(f, Movers) \in Nat
      BY <1>4, <3>1
    <3>11. CASE x \in K
      <4>1. f[m] = booking[m].fee
        BY <2>1, <3>5, <3>11
      <4>2. g[m] = 0
        BY <2>1, <3>6, <3>11
      <4>3. SumFunctionOnSet(spend', K) = SumFunctionOnSet(spend, K) + (spend'[x] - spend[x])
        <5>1. \A y \in K \ {x} : spend[y] = spend'[y]
          BY <1>3, <2>1
        <5>2. QED BY <1>3, <3>7, <3>11, <5>1, SumChange
      <4>4. spend[x] \in Nat
        BY <1>1, <2>1 DEF MemTypeOK
      <4>5. SumFunctionOnSet(spend', K) + SumFunctionOnSet(g, Movers) = fees'
        BY <2>1, <3>8, <3>9, <3>10, <4>1, <4>2, <4>3, <4>4
      <4>6. SumFunctionOnSet(spend', K) + SumFunctionOnSet(Due(K)', Movers) = fees'
        BY <3>2, <4>5
      <4>7. QED BY <4>6 DEF BooksOf
    <3>12. CASE x \notin K
      <4>1. booking'[m].left \cap K = booking[m].left \cap K
        BY <2>1, <3>12
      <4>2. g[m] = f[m]
        BY <2>1, <3>5, <3>6, <4>1
      <4>3. SumFunctionOnSet(spend', K) = SumFunctionOnSet(spend, K)
        <5>1. \A y \in K : spend'[y] = spend[y]
          BY <1>3, <2>1, <3>12
        <5>2. QED BY <1>3, <5>1, SumSame
      <4>4. SumFunctionOnSet(spend', K) + SumFunctionOnSet(g, Movers) = fees'
        BY <2>1, <3>3, <3>8, <3>9, <3>10, <4>2, <4>3
      <4>5. SumFunctionOnSet(spend', K) + SumFunctionOnSet(Due(K)', Movers) = fees'
        BY <3>2, <4>4
      <4>6. QED BY <4>5 DEF BooksOf
    <3>13. QED BY <3>11, <3>12
  <2>3. QED BY <2>1, <2>2
<1>7. CASE UNCHANGED memvars
  BY <1>1, <1>7 DEF memvars, MemTypeOK, BooksOf, Due
<1>8. QED BY <1>5, <1>6, <1>7 DEF MemNext

\* ScopesAgree: with nothing half recorded nothing is due, and projects and agents
\* have both spent what was recorded.
LEMMA BooksAgree == MemSpec => []ScopesAgree
<1>1. MemInv => ScopesAgree
  <2> SUFFICES ASSUME MemInv, \A m \in Movers : booking[m] = NoTrace, NEW K \in {Projects, Worker}
               PROVE  SpentBy(K) = fees
    BY DEF ScopesAgree
  <2>1. MemTypeOK /\ BooksOf(K)
    BY DEF MemInv
  <2>2. SumFunctionOnSet(Due(K), Movers) = 0
    <3>1. \A m \in Movers : Due(K)[m] = 0
      BY <2>1, DueIs
    <3>2. QED BY <3>1, SumZero, LifeAssumption
  <2>3. SumFunctionOnSet(spend, K) \in Nat
    <3>1. IsFiniteSet(K) /\ \A x \in K : spend[x] \in Nat
      BY <2>1, LifeAssumption DEF MemTypeOK
    <3>2. QED BY <3>1, SumType
  <2>4. QED BY <2>1, <2>2, <2>3 DEF BooksOf, SpentBy
<1>2. QED BY MemInvInit, MemInvStep, <1>1, PTL DEF MemSpec

-----------------------------------------------------------------------------
\* PluginsSound: of the registry, the agents and the tracker together.
THEOREM PluginsAreSound == PluginsSpec /\ LifeSpec /\ MemSpec => []PluginsSound
<1>1. RegistrySound /\ HistoryIsALife /\ ToldInOrder /\ ScopesAgree => PluginsSound
  BY DEF PluginsSound, LifecycleSound
<1>2. QED BY <1>1, RegistryIsSound, LivesAreTold, BooksAgree, PTL
==============================================================================
