-------------------------------- MODULE Ledger --------------------------------
(***************************************************************************)
(* What the audit log promises its callers, without hashes: an append-only  *)
(* list of events per organization.  An event that was handed over appears  *)
(* once at the end of its list, unless its writer dies; nothing else ever   *)
(* happens to a list but its removal together with the organization.        *)
(***************************************************************************)
EXTENDS Sequences

CONSTANTS Writers, Tenants, Events, Nothing

VARIABLES entries,   \* entries[o]: the events of organization o, oldest first
          asked      \* asked[w]: what w is asked to record, Nothing if nothing

lvars == <<entries, asked>>

LedgerInit ==
    /\ entries = [o \in Tenants |-> <<>>]
    /\ asked = [w \in Writers |-> Nothing]

Ask(w, o, e) ==
    /\ asked[w] = Nothing
    /\ asked' = [asked EXCEPT ![w] = <<o, e>>]
    /\ UNCHANGED entries

Record(w) ==
    /\ asked[w] # Nothing
    /\ entries' = [entries EXCEPT ![asked[w][1]] = Append(@, asked[w][2])]
    /\ asked' = [asked EXCEPT ![w] = Nothing]

Forget(w) ==
    /\ asked[w] # Nothing
    /\ asked' = [asked EXCEPT ![w] = Nothing]
    /\ UNCHANGED entries

Remove(o) ==
    /\ entries' = [entries EXCEPT ![o] = <<>>]
    /\ UNCHANGED asked

LedgerNext ==
    \/ \E w \in Writers : \/ \E o \in Tenants, e \in Events : Ask(w, o, e)
                          \/ Record(w)
                          \/ Forget(w)
    \/ \E o \in Tenants : Remove(o)

LedgerSpec == LedgerInit /\ [][LedgerNext]_lvars
===============================================================================
