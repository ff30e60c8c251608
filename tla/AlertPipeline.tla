---------------------------- MODULE AlertPipeline ----------------------------
(***************************************************************************)
(* The reaction engine on the event bus: emit() calls the engine back in    *)
(* its own thread, before it fills the SSE queues, and the action           *)
(* `escalate' of a reaction emits another event inside that callback.       *)
(***************************************************************************)
EXTENDS EventBus, Reactions

CONSTANT Escalation   \* the event a reaction to e emits, None = no `escalate'

Escalated == {Escalation[e] : e \in Events} \ {None}

vars == <<busVars, engineVars>>

ASSUME PipelineAssumption ==
    /\ Escalation \in [Events -> Events \cup {None}]
    /\ \A e, f \in Events : Escalation[e] = Escalation[f] => e = f \/ Escalation[e] = None

TypeOK == BusTypeOK /\ EngineTypeOK

Init == BusInit /\ EngineInit

\* A caller in the program emits an event.
Emit(e) ==
    /\ e \notin Escalated
    /\ at[e] = "none"
    /\ Publish(e)
    /\ UNCHANGED engineVars

\* An API call triggers a reaction by hand, enabled or not; e is its event,
\* never emitted.
Trigger(e) ==
    /\ e \notin Escalated
    /\ phase[e] = "new"
    /\ Execute(e)
    /\ UNCHANGED busVars

\* The callback: _on_event returns at once when no live reaction matches.
Callback(e) ==
    /\ CallEngine(e)
    /\ \/ OnEvent(e)
       \/ ReactionOf[e] \notin loaded /\ UNCHANGED engineVars

CallbackReturns(e) ==
    /\ at[e] \in {"none", "done"}
    /\ EngineReturns(e)
    /\ UNCHANGED engineVars

\* _action_escalate: a nested emit, in the same thread.
Escalate(e) ==
    /\ at[e] = "act"
    /\ Escalation[e] # None
    /\ Publish(Escalation[e])
    /\ UNCHANGED engineVars

\* The actions of e are over when the nested emit has returned.
EscalationOver(e) == Escalation[e] # None => phase[Escalation[e]] = "done"

React(e) ==
    /\ \/ CheckCooldown(e) \/ FindRow(e) \/ SetCooldown(e) \/ Persist(e)
       \/ EscalationOver(e) /\ Act(e)
    /\ UNCHANGED busVars

Deliver(e) ==
    /\ NoCallback(e) \/ PutStreams(e) \/ StartDelivery(e)
    /\ UNCHANGED engineVars

\* What the thread that emits e does next.
ThreadStep(e) ==
    Callback(e) \/ CallbackReturns(e) \/ Escalate(e) \/ React(e) \/ Deliver(e)

HookStep == (\E h \in Hooks, e \in Events : Attempt(h, e)) /\ UNCHANGED engineVars

Next ==
    \/ \E e \in Events : Emit(e) \/ Trigger(e) \/ ThreadStep(e)
    \/ HookStep
    \/ Subscriptions /\ UNCHANGED engineVars
    \/ Environment /\ UNCHANGED busVars

Spec == Init /\ [][Next]_vars

\* Threads run on; nobody has to emit, subscribe, read or reset anything.
FairSpec == Spec /\ (\A e \in Events : WF_vars(ThreadStep(e))) /\ WF_vars(HookStep)

-----------------------------------------------------------------------------
(* Properties *)

\* Every emit() returns: a callback that waits for the engine's lock gets it,
\* and a reaction that emits from inside its own callback blocks nobody.
EmitReturns == \A e \in Events : phase[e] = "callbacks" ~> phase[e] = "done"

\* Every delivery thread ends.
DeliveriesEnd ==
    \A h \in Hooks, e \in Events :
        delivery[h][e].at = "try" ~> delivery[h][e].at \in {"ok", "failed"}

=============================================================================
