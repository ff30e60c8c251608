----------------------------- MODULE MCApprovals -----------------------------
(* Instances of Approvals for TLC. *)
EXTENDS Approvals, TLC

Symmetry == Permutations(Workers) \cup Permutations(Requests)

VARIABLES died,    \* history: has a worker died inside a call
          solo     \* one process serves the API: its handlers run one at a time

OthersIdle(w) == \A u \in Workers \ {w} : IsIdle(u)

MCInit == Init /\ died = FALSE /\ solo \in BOOLEAN
MCNext ==
    /\ solo' = solo
    /\ \/ Tick /\ UNCHANGED died
       \/ \E w \in Workers : (solo => OthersIdle(w)) /\ WorkerStep(w) /\ UNCHANGED died
       \/ (\E w \in Workers : Crash(w)) /\ died' = TRUE
MCSpec == MCInit /\ [][MCNext]_<<vars, died, solo>>

\* As long as no worker died, every decision that stands is in the audit trail
\* once the calls on its request have ended, races between deciders included.
AuditedUnlessDied == ~died => StandingDecisionAudited

\* One process implements the abstract lifecycle: a request is pending, then
\* decided or expired, and then final, sweeps and deaths of the process included.
KeptBySingleProcess == Lifecycle!Init /\ [][solo => [Lifecycle!Next]_status]_<<status, solo>>
=============================================================================
