---------------------------- MODULE RemoteTracker ----------------------------
(***************************************************************************)
(* RemoteTracker (agentcost/sdk/remote.py): the SDK buffers trace events    *)
(* and posts them in batches to the server.                                 *)
(*                                                                         *)
(* Threads: application threads that record events, the main thread that    *)
(* calls start, stop and flush, and the threading.Timer threads that flush  *)
(* periodically.  The buffer is only touched under _lock, so a swap is one  *)
(* step; a POST happens outside the lock and is a step of its own.          *)
(*                                                                         *)
(* An item <<e, i>> is event e as handed over by the i-th registration of   *)
(* the callback with the CostTracker; the order inside a batch is left out. *)
(***************************************************************************)
EXTENDS Naturals, FiniteSets

CONSTANTS Apps,         \* application threads
          Timers,       \* timer chains: one per start() that may be alive
          Main,         \* the thread that calls start, stop and flush
          Events,       \* trace events, each recorded at most once
          BatchSize,    \* batch_size
          MaxStarts,    \* bound on the calls of start()
          HasEndpoint,  \* is a server URL configured
          None

ASSUME RemoteAssumption ==
    /\ BatchSize \in Nat \ {0}
    /\ MaxStarts \in Nat
    /\ HasEndpoint \in BOOLEAN
    /\ None \notin Events /\ None \notin Timers
    /\ Main \notin Apps \cup Timers /\ Apps \cap Timers = {}

Threads == Apps \cup Timers \cup {Main}
Items == Events \X (1 .. MaxStarts)

VARIABLES running,     \* _running
          callbacks,   \* registrations of _on_event in CostTracker._on_trace
          buffer,      \* _buffer
          app,         \* app[a]: the event a is recording, its next callback
          main,        \* where the main thread is
          timer,       \* timer[t]: where a timer chain is
          current,     \* _timer
          batch,       \* batch[th]: the batch th took and has not posted yet
          handed,      \* items appended to the buffer so far
          sent, failed, dropped   \* posted, lost in a failed POST, no endpoint

vars == <<running, callbacks, buffer, app, main, timer, current, batch,
          handed, sent, failed, dropped>>

FirstCallback == 1
NotRecording == [e |-> None, i |-> FirstCallback]

TypeOK ==
    /\ running \in BOOLEAN
    /\ callbacks \in 0 .. MaxStarts
    /\ buffer \subseteq Items
    /\ app \in [Apps -> [e : Events \cup {None}, i : 1 .. MaxStarts + 1]]
    /\ main \in {"idle", "arm", "cancel", "flush", "send"}
    /\ timer \in [Timers -> {"off", "armed", "flush", "send", "check", "arm"}]
    /\ current \in Timers \cup {None}
    /\ batch \in [Threads -> SUBSET Items]
    /\ handed \subseteq Items
    /\ sent \subseteq Items /\ failed \subseteq Items /\ dropped \subseteq Items

Init ==
    /\ running = FALSE
    /\ callbacks = 0
    /\ buffer = {}
    /\ app = [a \in Apps |-> NotRecording]
    /\ main = "idle"
    /\ timer = [t \in Timers |-> "off"]
    /\ current = None
    /\ batch = [th \in Threads |-> {}]
    /\ handed = {}
    /\ sent = {} /\ failed = {} /\ dropped = {}

Outcomes == <<sent, failed, dropped>>

-----------------------------------------------------------------------------
(* Application threads: CostTracker.record calls every registration *)

Record(a, e) ==
    /\ app[a] = NotRecording
    /\ \A b \in Apps : app[b].e # e
    /\ \A it \in handed : it[1] # e
    /\ callbacks > 0
    /\ app' = [app EXCEPT ![a] = [e |-> e, i |-> FirstCallback]]
    /\ UNCHANGED <<running, callbacks, main, timer, current, buffer, batch, handed>>
    /\ UNCHANGED Outcomes

MutKeepOverflow(b) == b
\* What is left in the buffer when its content b reached batch_size.
AfterOverflow(b) == {}

\* The batch taken from it: the copy is made after the append.
Overflow(b, it) == b

\* _on_event, up to the end of its `with self._lock'.
OnEvent(a) ==
    LET c == app[a]
        it == <<c.e, c.i>>
        b == buffer \cup {it}
    IN
    /\ c.e # None
    /\ c.i <= callbacks
    /\ batch[a] = {}
    /\ handed' = handed \cup {it}
    /\ IF Cardinality(b) >= BatchSize
       THEN buffer' = AfterOverflow(b) /\ batch' = [batch EXCEPT ![a] = Overflow(b, it)]
       ELSE buffer' = b /\ UNCHANGED batch
    /\ app' = [app EXCEPT ![a].i = @ + 1]
    /\ UNCHANGED <<running, callbacks, main, timer, current>>
    /\ UNCHANGED Outcomes

RecordEnd(a) ==
    /\ app[a].e # None
    /\ app[a].i > callbacks
    /\ batch[a] = {}
    /\ app' = [app EXCEPT ![a] = NotRecording]
    /\ UNCHANGED <<running, callbacks, main, timer, current, buffer, batch, handed>>
    /\ UNCHANGED Outcomes

-----------------------------------------------------------------------------
(* _send_batch and flush, whichever thread runs them *)

\* Where a thread goes after its POST.
AfterSend(th) ==
    /\ main' = IF th = Main THEN "idle" ELSE main
    /\ timer' = IF th \in Timers THEN [timer EXCEPT ![th] = "check"] ELSE timer

\* What comes back to the buffer when the POST of b fails: nothing, it is counted.
BackAfterFailure(b) == {}

\* The POST succeeds or fails; without an endpoint its URL is not valid.
Send(th) ==
    /\ batch[th] # {}
    /\ \/ /\ HasEndpoint
          /\ sent' = sent \cup batch[th]
          /\ UNCHANGED <<failed, buffer>>
       \/ /\ failed' = failed \cup batch[th]
          /\ buffer' = buffer \cup BackAfterFailure(batch[th])
          /\ UNCHANGED sent
    /\ batch' = [batch EXCEPT ![th] = {}]
    /\ AfterSend(th)
    /\ UNCHANGED <<running, callbacks, app, current, handed, dropped>>

InFlush(th) ==
    \/ th = Main /\ main = "flush"
    \/ th \in Timers /\ timer[th] = "flush"

\* flush(): take the whole buffer under the lock; without an endpoint it is
\* dropped, and an empty buffer ends the call at once.
Swap(th) ==
    /\ InFlush(th)
    /\ buffer' = {}
    /\ IF HasEndpoint /\ buffer # {}
       THEN /\ batch' = [batch EXCEPT ![th] = buffer]
            /\ main' = IF th = Main THEN "send" ELSE main
            /\ timer' = IF th \in Timers THEN [timer EXCEPT ![th] = "send"] ELSE timer
            /\ UNCHANGED dropped
       ELSE /\ dropped' = dropped \cup buffer
            /\ AfterSend(th)
            /\ UNCHANGED batch
    /\ UNCHANGED <<running, callbacks, app, current, handed, sent, failed>>

-----------------------------------------------------------------------------
(* start, stop and flush, called by the main thread *)

Start ==
    /\ main = "idle"
    /\ ~running
    /\ callbacks < MaxStarts
    /\ running' = TRUE
    /\ callbacks' = callbacks + 1
    /\ main' = "arm"
    /\ UNCHANGED <<app, timer, current, buffer, batch, handed>>
    /\ UNCHANGED Outcomes

\* _schedule_flush from start().
StartTimer(t) ==
    /\ main = "arm"
    /\ timer[t] = "off"
    /\ timer' = [timer EXCEPT ![t] = "armed"]
    /\ current' = t
    /\ main' = "idle"
    /\ UNCHANGED <<running, callbacks, app, buffer, batch, handed>>
    /\ UNCHANGED Outcomes

Stop ==
    /\ main = "idle"
    /\ callbacks > 0
    /\ running' = FALSE
    /\ main' = "cancel"
    /\ UNCHANGED <<callbacks, app, timer, current, buffer, batch, handed>>
    /\ UNCHANGED Outcomes

\* cancel() ends a timer that still waits and does nothing to one that fired.
Cancel ==
    /\ main = "cancel"
    /\ timer' = [t \in Timers |->
                   IF t = current /\ timer[t] = "armed" THEN "off" ELSE timer[t]]
    /\ current' = None
    /\ main' = "flush"
    /\ UNCHANGED <<running, callbacks, app, buffer, batch, handed>>
    /\ UNCHANGED Outcomes

FlushNow ==
    /\ main = "idle"
    /\ callbacks > 0
    /\ main' = "flush"
    /\ UNCHANGED <<running, callbacks, app, timer, current, buffer, batch, handed>>
    /\ UNCHANGED Outcomes

-----------------------------------------------------------------------------
(* Timer threads: _periodic_flush *)

Fire(t) ==
    /\ timer[t] = "armed"
    /\ timer' = [timer EXCEPT ![t] = "flush"]
    /\ UNCHANGED <<running, callbacks, app, main, current, buffer, batch, handed>>
    /\ UNCHANGED Outcomes

MutAlways == TRUE
MutNever == FALSE
\* `if not self._running: return' of _schedule_flush.
StillRunning == running

CheckRunning(t) ==
    /\ timer[t] = "check"
    /\ timer' = [timer EXCEPT ![t] = IF StillRunning THEN "arm" ELSE "off"]
    /\ UNCHANGED <<running, callbacks, app, main, current, buffer, batch, handed>>
    /\ UNCHANGED Outcomes

\* A new Timer replaces the one that fired; it is the same chain t.
Rearm(t) ==
    /\ timer[t] = "arm"
    /\ timer' = [timer EXCEPT ![t] = "armed"]
    /\ current' = t
    /\ UNCHANGED <<running, callbacks, app, main, buffer, batch, handed>>
    /\ UNCHANGED Outcomes

-----------------------------------------------------------------------------
AppStep(a) == (\E e \in Events : Record(a, e)) \/ OnEvent(a) \/ RecordEnd(a) \/ Send(a)
Call == Start \/ Stop \/ FlushNow
MainStep == (\E t \in Timers : StartTimer(t)) \/ Cancel \/ Swap(Main) \/ Send(Main)
TimerStep(t) == Fire(t) \/ Swap(t) \/ Send(t) \/ CheckRunning(t) \/ Rearm(t)

Next ==
    \/ \E a \in Apps : AppStep(a)
    \/ Call
    \/ MainStep
    \/ \E t \in Timers : TimerStep(t)

Spec == Init /\ [][Next]_vars

\* Threads run on, and a timer fires after flush_interval; nobody has to call
\* start, stop or flush, or to record anything.
FairSpec ==
    /\ Spec
    /\ WF_vars(MainStep)
    /\ \A t \in Timers : WF_vars(TimerStep(t))
    /\ \A a \in Apps : WF_vars(OnEvent(a) \/ RecordEnd(a) \/ Send(a))

-----------------------------------------------------------------------------
(* Properties *)

Flying == UNION {batch[th] : th \in Threads}

\* Two threads that flush at once never take the same event, and an event that
\* was counted is never posted again.
OnePlace ==
    /\ \A t, u \in Threads : t # u => batch[t] \cap batch[u] = {}
    /\ buffer \cap Flying = {}
    /\ (sent \cup failed \cup dropped) \cap (buffer \cup Flying) = {}
    /\ sent \cap (failed \cup dropped) = {} /\ failed \cap dropped = {}
\* No event is lost or duplicated on its way: whatever was handed to the
\* tracker is in the buffer, in a batch on its way, or counted as sent, failed
\* or dropped, and in one of these places only.
Conservation ==
    /\ handed = buffer \cup Flying \cup sent \cup failed \cup dropped
    /\ OnePlace

\* Outside the lock the buffer is below batch_size: memory is bounded however
\* slow the server is, at the price of blocking the thread that fills it.
BufferBounded == Cardinality(buffer) < BatchSize

\* While the tracker runs, some timer chain is alive: no interleaving of stop,
\* start and a firing timer leaves it running without a periodic flush.
RunningIsFlushed == running /\ main # "arm" => \E t \in Timers : timer[t] # "off"

\* So an item in the buffer leaves it, unless the tracker is stopped.
EventuallyOut == \A it \in Items : it \in buffer ~> it \notin buffer \/ ~running

\* The chain of timers of a stopped tracker ends, even if stop() came between
\* the check of _running and the arming of the next timer.
StoppedTimersEnd == []<>(running \/ \A t \in Timers : timer[t] = "off")
=============================================================================
