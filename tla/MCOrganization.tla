---------------------------- MODULE MCOrganization ----------------------------
(***************************************************************************)
(* Instances of Membership and AuditLog for TLC.  The two share nothing but *)
(* the order of a request's calls, so a behaviour exercises one of them:    *)
(* `part' is chosen once, and the other component stays in its first state. *)
(***************************************************************************)
EXTENDS Membership, AuditLog, TLC

CONSTANTS Ann, Bob, Cid, o1, o2, MaxRequests

VARIABLES part,
          budget   \* bound on the requests of a behaviour

MCClaims == (Ann :> [org |-> o1, role |-> "platform_admin"])
            @@ (Bob :> [org |-> o1, role |-> "org_admin"])
            @@ (Cid :> [org |-> o2, role |-> "org_member"])

MCInit ==
    /\ part \in {"membership", "audit"}
    /\ budget = MaxRequests
    /\ MembershipInit
    /\ AuditInit

\* A step that leaves every call alone is a request of its own.
NewRequest ==
    \/ call' = call /\ now' = now
    \/ \E w \in Workers : call[w] = Idle /\ call'[w] # Idle

Spend == IF NewRequest THEN budget > 0 /\ budget' = budget - 1 ELSE budget' = budget

MCNext ==
    /\ part' = part
    /\ \/ part = "membership" /\ MembershipNext /\ Spend /\ UNCHANGED avars
       \/ part = "audit" /\ AuditNext /\ UNCHANGED <<mvars, budget>>

MCSpec == MCInit /\ [][MCNext]_<<mvars, avars, part, budget>>

Symmetry == Permutations(Workers) \cup Permutations(Writers) \cup Permutations(Invites)

TypeOK == MembershipTypeOK /\ AuditTypeOK
===============================================================================
