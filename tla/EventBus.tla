------------------------------- MODULE EventBus -------------------------------
(***************************************************************************)
(* EventBus (agentcost/events): emit() records the event, runs the          *)
(* callbacks, fills the queues of the SSE streams and starts one delivery   *)
(* thread per webhook.                                                      *)
(*                                                                         *)
(* An emit() may be at any point while others run, in other threads or      *)
(* inside one of its callbacks, so phase[e] says where the emit of e is.    *)
(* What is done under _lock is one step.  The one callback of the program   *)
(* is the reaction engine; hooks are WebhookSubscription objects of one     *)
(* URL, each registered once.                                               *)
(***************************************************************************)
EXTENDS Naturals, Sequences, FiniteSets

CONSTANTS Events,      \* events emitted, each once; their type is a function of them
          None,        \* "no value"
          MaxHistory,  \* max_history
          Streams,     \* SSE queues
          SseCap,      \* maxsize of an SSE queue (100 in the code)
          Hooks,       \* webhook subscription objects
          HookEvents,  \* events whose type matches their event_types
          MaxRetries,  \* max_retries
          FailLimit    \* failed deliveries that disable a webhook (10)

ASSUME BusAssumption ==
    /\ MaxHistory \in Nat /\ SseCap \in Nat \ {0}
    /\ MaxRetries \in Nat /\ FailLimit \in Nat \ {0}
    /\ HookEvents \subseteq Events
    /\ None \notin Hooks

VARIABLES phase,      \* phase[e]: where the emit of e stands
          history,    \* _history
          subscribed, \* is the engine's callback registered
          opened,     \* streams ever handed out
          listed,     \* _sse_queues
          waiting,    \* waiting[s]: content of the queue
          got,        \* history: everything put into the queue
          late,       \* late[s]: events past their SSE delivery when s opened
          hook,       \* the registered webhook of the URL
          used,       \* hooks ever registered
          active,     \* hooks whose .active is set
          failures,   \* _failures
          delivery    \* delivery[h][e]: the delivery thread of e to h

busVars == <<phase, history, subscribed, opened, listed, waiting, got, late,
             hook, used, active, failures, delivery>>
streamVars == <<opened, listed, waiting, got, late>>
hookVars == <<hook, used, active, failures, delivery>>

Delivery(at, n) == [at |-> at, n |-> n]

BusTypeOK ==
    /\ phase \in [Events -> {"new", "callbacks", "calling", "sse", "hooks", "done"}]
    /\ history \in Seq(Events) /\ Len(history) <= MaxHistory
    /\ subscribed \in BOOLEAN
    /\ listed \subseteq opened /\ opened \subseteq Streams
    /\ \A s \in Streams :
          /\ waiting[s] \in Seq(Events) /\ Len(waiting[s]) <= SseCap
          /\ got[s] \in Seq(Events)
          /\ late[s] \subseteq Events
    /\ hook \in used \cup {None} /\ used \subseteq Hooks
    /\ active \subseteq Hooks
    /\ failures \in [Hooks -> 0 .. Cardinality(Events)]
    /\ delivery \in [Hooks -> [Events ->
           [at : {"none", "try", "check", "ok", "failed"}, n : 0 .. MaxRetries]]]

BusInit ==
    /\ phase = [e \in Events |-> "new"]
    /\ history = <<>>
    /\ subscribed = TRUE
    /\ opened = {} /\ listed = {}
    /\ waiting = [s \in Streams |-> <<>>]
    /\ got = [s \in Streams |-> <<>>]
    /\ late = [s \in Streams |-> {}]
    /\ hook = None /\ used = {}
    /\ active = Hooks
    /\ failures = [h \in Hooks |-> 0]
    /\ delivery = [h \in Hooks |-> [e \in Events |-> Delivery("none", 0)]]

-----------------------------------------------------------------------------
(* emit *)

Enter(e, p) == phase' = [phase EXCEPT ![e] = p]

Trimmed(h) == IF Len(h) > MaxHistory THEN Tail(h) ELSE h

Publish(e) ==
    /\ phase[e] = "new"
    /\ history' = Trimmed(Append(history, e))
    /\ Enter(e, "callbacks")
    /\ UNCHANGED <<subscribed, streamVars, hookVars>>

\* The callback starts, and returns or raises.
CallEngine(e) ==
    /\ phase[e] = "callbacks"
    /\ subscribed
    /\ Enter(e, "calling")
    /\ UNCHANGED <<history, subscribed, streamVars, hookVars>>

EngineReturns(e) ==
    /\ phase[e] = "calling"
    /\ Enter(e, "sse")
    /\ UNCHANGED <<history, subscribed, streamVars, hookVars>>

NoCallback(e) ==
    /\ phase[e] = "callbacks"
    /\ ~subscribed
    /\ Enter(e, "sse")
    /\ UNCHANGED <<history, subscribed, streamVars, hookVars>>

MutKeepFull(full) == {}
\* put_nowait raises on a full queue; that stream is dropped for good.
DeadQueues(full) == full

PutStreams(e) ==
    LET full == {s \in listed : Len(waiting[s]) >= SseCap}
        open == listed \ full
    IN
    /\ phase[e] = "sse"
    /\ waiting' = [s \in Streams |-> IF s \in open THEN Append(waiting[s], e) ELSE waiting[s]]
    /\ got' = [s \in Streams |-> IF s \in open THEN Append(got[s], e) ELSE got[s]]
    /\ listed' = listed \ DeadQueues(full)
    /\ Enter(e, "hooks")
    /\ UNCHANGED <<history, subscribed, opened, late, hookVars>>

\* One delivery thread for the webhook, if there is one and it is active.
StartDelivery(e) ==
    /\ phase[e] = "hooks"
    /\ delivery' = IF hook \in active /\ e \in HookEvents
                   THEN [delivery EXCEPT ![hook][e] = Delivery("try", 0)]
                   ELSE delivery
    /\ Enter(e, "done")
    /\ UNCHANGED <<history, subscribed, streamVars, hook, used, active, failures>>

-----------------------------------------------------------------------------
(* _deliver_webhook *)

Delivered(h, e) ==
    /\ delivery[h][e].at = "try"
    /\ delivery[h][e].n < MaxRetries
    /\ delivery' = [delivery EXCEPT ![h][e].at = "ok"]
    /\ failures' = [failures EXCEPT ![h] = 0]
    /\ UNCHANGED <<phase, history, subscribed, streamVars, hook, used, active>>

MutStartOver(n) == IF n + 1 = MaxRetries THEN 0 ELSE n + 1
NextAttempt(n) == n + 1

AttemptFails(h, e) ==
    /\ delivery[h][e].at = "try"
    /\ delivery[h][e].n < MaxRetries
    /\ delivery' = [delivery EXCEPT ![h][e].n = NextAttempt(@)]
    /\ UNCHANGED <<phase, history, subscribed, streamVars, hook, used, active, failures>>

GiveUp(h, e) ==
    /\ delivery[h][e] = Delivery("try", MaxRetries)
    /\ delivery' = [delivery EXCEPT ![h][e].at = "check"]
    /\ failures' = [failures EXCEPT ![h] = @ + 1]
    /\ UNCHANGED <<phase, history, subscribed, streamVars, hook, used, active>>

MutOneEarly(h) == failures[h] + 1 >= FailLimit
TooManyFailures(h) == failures[h] >= FailLimit

\* The counter is compared after the += of its own thread; a success of
\* another thread may have reset it in between.
MayDisable(h, e) ==
    /\ delivery[h][e].at = "check"
    /\ active' = IF TooManyFailures(h) THEN active \ {h} ELSE active
    /\ delivery' = [delivery EXCEPT ![h][e].at = "failed"]
    /\ UNCHANGED <<phase, history, subscribed, streamVars, hook, used, failures>>

Attempt(h, e) == Delivered(h, e) \/ AttemptFails(h, e) \/ GiveUp(h, e) \/ MayDisable(h, e)

-----------------------------------------------------------------------------
(* subscriptions *)

Passed == {e \in Events : phase[e] \in {"hooks", "done"}}

OpenStream(s) ==
    /\ s \notin opened
    /\ opened' = opened \cup {s}
    /\ listed' = listed \cup {s}
    /\ late' = [late EXCEPT ![s] = Passed]
    /\ UNCHANGED <<phase, history, subscribed, waiting, got, hookVars>>

\* The reader of the stream takes the next event.
ReadStream(s) ==
    /\ waiting[s] # <<>>
    /\ waiting' = [waiting EXCEPT ![s] = Tail(@)]
    /\ UNCHANGED <<phase, history, subscribed, opened, listed, got, late, hookVars>>

\* subscribe_webhook replaces the subscription of the same URL by a new object.
SubscribeWebhook(h) ==
    /\ h \notin used
    /\ hook' = h
    /\ used' = used \cup {h}
    /\ UNCHANGED <<phase, history, subscribed, streamVars, active, failures, delivery>>

Unsubscribe ==
    /\ hook # None
    /\ hook' = None
    /\ UNCHANGED <<phase, history, subscribed, streamVars, used, active, failures, delivery>>

\* ReactionEngine.start and stop.
SetEngine ==
    /\ subscribed' = ~subscribed
    /\ UNCHANGED <<phase, history, streamVars, hookVars>>

Subscriptions ==
    \/ \E s \in Streams : OpenStream(s) \/ ReadStream(s)
    \/ \E h \in Hooks : SubscribeWebhook(h)
    \/ Unsubscribe
    \/ SetEngine

-----------------------------------------------------------------------------
(* Properties *)

InSeq(x, seq) == \E i \in 1 .. Len(seq) : seq[i] = x

\* A stream that is still registered has missed nothing: every event whose emit
\* is past the SSE step, and was not when the stream was opened, was put into
\* its queue.  A reader that falls behind is cut off, never given a gap.
StreamsHaveNoGap ==
    \A s \in listed : \A e \in Passed \ late[s] : InSeq(e, got[s])

\* A webhook is only disabled once FailLimit of its deliveries have failed,
\* whatever delivery threads race on the counter.
DisabledAfterFailures ==
    \A h \in Hooks : h \notin active =>
        Cardinality({e \in Events : delivery[h][e].at \in {"check", "failed"}}) >= FailLimit
=============================================================================
