-------------------------- MODULE ApprovalLifecycle --------------------------
(***************************************************************************)
(* What agentcost/policy/approval_service.py promises of an approval       *)
(* request: it is pending until somebody approves or denies it or its time *)
(* runs out, and whichever comes first is final.                           *)
(***************************************************************************)
CONSTANT Requests
VARIABLE status

Final == {"approved", "denied", "expired"}

Init == status = [r \in Requests |-> "none"]

Create(r) == status[r] = "none" /\ status' = [status EXCEPT ![r] = "pending"]

Decide(r) ==
    /\ status[r] = "pending"
    /\ \E d \in {"approved", "denied"} : status' = [status EXCEPT ![r] = d]

\* One sweep may expire several requests at once.
Expire ==
    \E R \in SUBSET {r \in Requests : status[r] = "pending"} :
        status' = [r \in Requests |-> IF r \in R THEN "expired" ELSE status[r]]

Next == Expire \/ \E r \in Requests : Create(r) \/ Decide(r)

Spec == Init /\ [][Next]_status
=============================================================================
