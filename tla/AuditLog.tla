------------------------------- MODULE AuditLog -------------------------------
(***************************************************************************)
(* AuditService (agentcost/org/audit_service.py): one chain of entries per  *)
(* organization.  log() reads the hash of the last entry and inserts the    *)
(* new entry in a second database call, so two callers may read the same    *)
(* last hash.  SHA-256 is taken to be injective: the hash of an entry is    *)
(* the sequence of all events it covers.  The other columns of an entry are *)
(* its event; two events may be equal, as may two timestamps.               *)
(***************************************************************************)
EXTENDS Naturals, Sequences

CONSTANTS Writers,     \* callers of log(): requests being served
          Tenants,     \* organizations
          Events,      \* what an entry says
          MaxEntries,  \* bound on the entries of an organization, and on
                       \* those a hash covers
          Limit,       \* limit of verify_chain
          Nothing

ASSUME AuditLogAssumption ==
    /\ MaxEntries \in Nat
    /\ Limit \in Nat
    /\ Nothing \notin Tenants \cup (Tenants \X Events)

VARIABLES rows,      \* rows[o]: audit_log of organization o in the order of id
          pending,   \* pending[w]: the entry w is about to insert
          overlap    \* history: organizations in which log() calls overlapped

avars == <<rows, pending, overlap>>

Genesis == <<>>
Hash(prev, e) == Append(prev, e)
Entry(prev, e) == [event |-> e, prev |-> prev, hash |-> Hash(prev, e)]
NoEntry == [org |-> Nothing, event |-> Nothing, prev |-> Genesis]
Chain == Seq(Events)
Entries == [event : Events, prev : Chain, hash : Chain]

AuditTypeOK ==
    /\ rows \in [Tenants -> Seq(Entries)]
    /\ pending \in [Writers -> {NoEntry}
                     \cup [org : Tenants, event : Events, prev : Chain]]
    /\ overlap \in SUBSET Tenants

AuditInit ==
    /\ rows = [o \in Tenants |-> <<>>]
    /\ pending = [w \in Writers |-> NoEntry]
    /\ overlap = {}

MutFirstHash(r) == IF r = <<>> THEN Genesis ELSE r[1].hash
LastHash(r) == IF r = <<>> THEN Genesis ELSE r[Len(r)].hash

Busy(w, o) == pending[w] # NoEntry /\ pending[w].org = o
SomeBusy(o) == \E w \in Writers : Busy(w, o)

\* SELECT entry_hash ... ORDER BY id DESC LIMIT 1
LogRead(w, o, e) ==
    /\ pending[w] = NoEntry
    /\ Len(rows[o]) < MaxEntries /\ Len(LastHash(rows[o])) < MaxEntries
    /\ pending' = [pending EXCEPT
                     ![w] = [org |-> o, event |-> e, prev |-> LastHash(rows[o])]]
    /\ overlap' = IF SomeBusy(o) THEN overlap \cup {o} ELSE overlap
    /\ UNCHANGED rows

MutInFront(r, x) == <<x>> \o r
Added(r, x) == Append(r, x)

\* INSERT INTO audit_log
LogInsert(w) ==
    LET c == pending[w] IN
    /\ c # NoEntry
    /\ rows' = [rows EXCEPT ![c.org] = Added(@, Entry(c.prev, c.event))]
    /\ pending' = [pending EXCEPT ![w] = NoEntry]
    /\ UNCHANGED overlap

\* The writer dies, or the INSERT fails and the request ends with an error.
LogLost(w) ==
    /\ pending[w] # NoEntry
    /\ pending' = [pending EXCEPT ![w] = NoEntry]
    /\ UNCHANGED <<rows, overlap>>

\* OrgService.delete_org deletes the organization's entries with the rest.
PurgeLog(o) ==
    /\ rows' = [rows EXCEPT ![o] = <<>>]
    /\ overlap' = IF SomeBusy(o) THEN overlap \cup {o} ELSE overlap
    /\ UNCHANGED pending

AuditNext ==
    \/ \E w \in Writers : \/ \E o \in Tenants, e \in Events : LogRead(w, o, e)
                          \/ LogInsert(w)
                          \/ LogLost(w)
    \/ \E o \in Tenants : PurgeLog(o)

AuditSpec == AuditInit /\ [][AuditNext]_avars

-----------------------------------------------------------------------------
(* verify_chain: walks the first Limit entries, each against the hash of    *)
(* the one before it, and stops at the first that does not fit.             *)

Expected(r, k) == IF k = 1 THEN Genesis ELSE r[k - 1].hash
Fits(r, k) ==
    /\ r[k].prev = Expected(r, k)
    /\ r[k].hash = Hash(Expected(r, k), r[k].event)
MutNewest(r) == {k \in 1 .. Len(r) : k + Limit > Len(r) /\ ~Fits(r, k)}
Misfits(r) == {k \in 1 .. Len(r) : k <= Limit /\ ~Fits(r, k)}
Valid(r) == Misfits(r) = {}
FirstBroken(r) == CHOOSE k \in Misfits(r) : \A j \in Misfits(r) : k <= j

\* verify_chain reports a broken chain only of an organization in which calls
\* of log() overlapped each other or a deletion; without overlap every entry
\* chains to the one before it, whatever was lost on the way.
BrokenOnlyByOverlap ==
    \A o \in Tenants : o \notin overlap => Valid(rows[o])

\* The entry verify_chain names as the first broken one stays the first broken
\* one, however many entries follow, until the log is deleted.
BreakStays ==
    [][\A o \in Tenants :
         ~Valid(rows[o]) =>
           \/ rows'[o] = <<>>
           \/ ~Valid(rows'[o]) /\ FirstBroken(rows'[o]) = FirstBroken(rows[o])]_avars

Rewritten(r, k, e) == [r EXCEPT ![k].event = e]

\* "tamper-evident chain": in a log that verifies, an entry whose event is
\* replaced afterwards is exactly the entry verify_chain names, as long as the
\* entry is among the Limit oldest.
EditIsLocated ==
    \A o \in Tenants : Valid(rows[o]) =>
      \A k \in 1 .. Len(rows[o]), e \in Events :
        k <= Limit /\ e # rows[o][k].event =>
          /\ ~Valid(Rewritten(rows[o], k, e))
          /\ FirstBroken(Rewritten(rows[o], k, e)) = k

ChainSound == BrokenOnlyByOverlap /\ EditIsLocated

\* The list of events and requests an AuditLog state stands for.
EventsOf == [o \in Tenants |-> [k \in 1 .. Len(rows[o]) |-> rows[o][k].event]]
AskedOf == [w \in Writers |-> IF pending[w] = NoEntry THEN Nothing
                               ELSE <<pending[w].org, pending[w].event>>]

Promised == INSTANCE Ledger WITH entries <- EventsOf, asked <- AskedOf

\* Hash-chaining implements the plain append-only list: an entry that was read
\* and inserted in two steps is still recorded once, at the end.
ImplementsLedger == Promised!LedgerSpec
===============================================================================
