-------------------------- MODULE OrganizationProofs --------------------------
(***************************************************************************)
(* Proofs about what an organization keeps and whom it lets in: AuditLog, for  *)
(* any number of writers, organizations and entries and any limit of            *)
(* verify_chain; Membership, for any number of people, organizations, invites   *)
(* and workers; Access, for any number of visitors, addresses, keys and hours   *)
(* and any limits.                                                              *)
(***************************************************************************)
EXTENDS AuditLog, Membership, Access, SumLemmas, SequenceTheorems, FiniteSetTheorems, TLAPS

-----------------------------------------------------------------------------
(* The audit log: what verify_chain calls broken.                           *)

\* Every entry hashes itself on top of the entry its writer read.
Hashed == \A o \in Tenants : \A k \in 1 .. Len(rows[o]) :
            rows[o][k].hash = Hash(rows[o][k].prev, rows[o][k].event)

\* Without overlap every entry follows the one before it,
Chained == \A o \in Tenants : o \notin overlap =>
             \A k \in 1 .. Len(rows[o]) : rows[o][k].prev = Expected(rows[o], k)

\* at most one call of log is between its two database calls,
Alone == \A o \in Tenants : o \notin overlap =>
           \A v, w \in Writers : Busy(v, o) /\ Busy(w, o) => v = w

\* and what that call read is still the last hash.
UpToDate == \A o \in Tenants : o \notin overlap =>
              \A w \in Writers : Busy(w, o) => pending[w].prev = LastHash(rows[o])

\* The inductive invariant behind BrokenOnlyByOverlap.
Inv == AuditTypeOK /\ Hashed /\ Chained /\ Alone /\ UpToDate

\* A writer that is about to insert knows its organization, event and hash.
LEMMA PendingIsEntry ==
  ASSUME AuditTypeOK, NEW w \in Writers, pending[w] # NoEntry
  PROVE  pending[w].org \in Tenants /\ pending[w].event \in Events
         /\ pending[w].prev \in Chain
  BY DEF AuditTypeOK

\* The columns of an entry in a log.
LEMMA EntryAt ==
  ASSUME NEW r \in Seq(Entries), NEW k \in 1 .. Len(r)
  PROVE  r[k] \in Entries /\ r[k].event \in Events /\ r[k].hash \in Chain
  <1>1. r[k] \in Entries
    BY ElementOfSeq
  <1> QED BY <1>1 DEF Entries

\* The last hash of a log is a chain of events.
LEMMA LastHashIsChain ==
  ASSUME NEW r \in Seq(Entries)
  PROVE  LastHash(r) \in Chain
  <1>1. CASE r = <<>>
    BY <1>1 DEF LastHash, Chain, Genesis
  <1>2. CASE r # <<>>
    <2>1. Len(r) \in 1 .. Len(r)
      BY <1>2, EmptySeq, LenProperties
    <2> QED BY <1>2, <2>1, EntryAt DEF LastHash
  <1> QED BY <1>1, <1>2

\* An inserted entry is of the type of an entry.
LEMMA EntryIsEntry ==
  ASSUME NEW p \in Chain, NEW e \in Events
  PROVE  Entry(p, e) \in Entries
  BY AppendProperties DEF Entry, Entries, Hash, Chain

\* The columns of the log and what writers hold are of their types.
LEMMA Typing == AuditSpec => []AuditTypeOK
  <1>1. AuditInit => AuditTypeOK
    BY DEF AuditInit, AuditTypeOK
  <1>2. AuditTypeOK /\ [AuditNext]_avars => AuditTypeOK'
    <2> SUFFICES ASSUME AuditTypeOK, [AuditNext]_avars PROVE AuditTypeOK'
      OBVIOUS
    <2>1. ASSUME NEW w \in Writers, NEW o \in Tenants, NEW e \in Events,
                 LogRead(w, o, e)
          PROVE  AuditTypeOK'
      <3>1. LastHash(rows[o]) \in Chain
        BY LastHashIsChain DEF AuditTypeOK
      <3> QED BY <2>1, <3>1 DEF LogRead, AuditTypeOK
    <2>2. ASSUME NEW w \in Writers, LogInsert(w) PROVE AuditTypeOK'
      <3> DEFINE c == pending[w]
      <3>1. c.org \in Tenants /\ Entry(c.prev, c.event) \in Entries
        BY <2>2, PendingIsEntry, EntryIsEntry DEF LogInsert
      <3>2. Append(rows[c.org], Entry(c.prev, c.event)) \in Seq(Entries)
        BY <3>1, AppendProperties DEF AuditTypeOK
      <3> QED BY <2>2, <3>1, <3>2 DEF LogInsert, Added, AuditTypeOK
    <2>3. ASSUME NEW w \in Writers, LogLost(w) PROVE AuditTypeOK'
      BY <2>3 DEF LogLost, AuditTypeOK
    <2>4. ASSUME NEW o \in Tenants, PurgeLog(o) PROVE AuditTypeOK'
      BY <2>4 DEF PurgeLog, AuditTypeOK
    <2>5. CASE UNCHANGED avars
      BY <2>5 DEF avars, AuditTypeOK
    <2> QED BY <2>1, <2>2, <2>3, <2>4, <2>5 DEF AuditNext
  <1> QED BY <1>1, <1>2, PTL DEF AuditSpec

-----------------------------------------------------------------------------
(* What an INSERT does to one log.                                          *)

\* The new entry is the last, and the entries before it stay where they are.
LEMMA AddedEntry ==
  ASSUME NEW r \in Seq(Entries), NEW x \in Entries
  PROVE  /\ Added(r, x) \in Seq(Entries)
         /\ Len(Added(r, x)) = Len(r) + 1
         /\ \A k \in 1 .. Len(r) : Added(r, x)[k] = r[k]
         /\ Added(r, x)[Len(r) + 1] = x
         /\ LastHash(Added(r, x)) = x.hash
         /\ \A k \in 1 .. Len(r) : Expected(Added(r, x), k) = Expected(r, k)
         /\ Expected(Added(r, x), Len(r) + 1) = LastHash(r)
  <1> DEFINE s == Added(r, x)
  <1>1. /\ s \in Seq(Entries) /\ Len(s) = Len(r) + 1 /\ s # <<>>
        /\ \A k \in 1 .. Len(r) : s[k] = r[k]
        /\ s[Len(r) + 1] = x
    BY AppendProperties DEF Added
  <1>2. Len(r) \in Nat /\ (r = <<>> <=> Len(r) = 0)
    BY EmptySeq
  <1>3. LastHash(s) = x.hash
    BY <1>1 DEF LastHash
  <1>4. \A k \in 1 .. Len(r) : Expected(s, k) = Expected(r, k)
    BY <1>1, <1>2 DEF Expected
  <1>5. Expected(s, Len(r) + 1) = LastHash(r)
    BY <1>1, <1>2 DEF Expected, LastHash
  <1> QED BY <1>1, <1>3, <1>4, <1>5

\* So an entry fits, or not, whatever is inserted after it.
LEMMA FitsStays ==
  ASSUME NEW r \in Seq(Entries), NEW x \in Entries, NEW k \in 1 .. Len(r)
  PROVE  Fits(Added(r, x), k) <=> Fits(r, k)
  BY AddedEntry DEF Fits

-----------------------------------------------------------------------------
\* Inv is inductive.
LEMMA Invariance == AuditSpec => []Inv
  <1>1. AuditInit => Inv
    BY DEF AuditInit, Inv, AuditTypeOK, Hashed, Chained, Alone, UpToDate, Busy
  <1>2. Inv /\ AuditTypeOK' /\ [AuditNext]_avars => Inv'
    <2> SUFFICES ASSUME Inv, AuditTypeOK', [AuditNext]_avars PROVE Inv'
      OBVIOUS
    <2> USE DEF Inv
    <2>1. ASSUME NEW w \in Writers, NEW o \in Tenants, NEW e \in Events,
                 LogRead(w, o, e)
          PROVE  Inv'
      <3>1. UNCHANGED rows /\ overlap \subseteq overlap'
        BY <2>1 DEF LogRead
      <3>2. Hashed' /\ Chained'
        BY <3>1 DEF Hashed, Chained, Expected
      <3>3. pending'[w] = [org |-> o, event |-> e, prev |-> LastHash(rows[o])]
            /\ \A v \in Writers \ {w} : pending'[v] = pending[v]
        BY <2>1 DEF LogRead, AuditTypeOK
      <3>4. \A q \in Tenants : Busy(w, q)' => q = o
        BY <3>3 DEF Busy
      <3>5. ASSUME o \notin overlap' PROVE \A v \in Writers \ {w} : ~Busy(v, o)'
        BY <2>1, <3>3, <3>5 DEF LogRead, SomeBusy, Busy
      <3>6. \A q \in Tenants, v \in Writers \ {w} : Busy(v, q)' => Busy(v, q)
        BY <3>3 DEF Busy
      <3>7. Alone'
        BY <3>1, <3>4, <3>5, <3>6 DEF Alone
      <3>8. UpToDate'
        BY <3>1, <3>3, <3>4, <3>6 DEF UpToDate
      <3> QED BY <3>2, <3>7, <3>8
    <2>2. ASSUME NEW w \in Writers, LogInsert(w) PROVE Inv'
      <3> DEFINE c == pending[w]
                 x == Entry(c.prev, c.event)
      <3>1. c # NoEntry /\ c.org \in Tenants /\ x \in Entries
            /\ Busy(w, c.org)
        BY <2>2, PendingIsEntry, EntryIsEntry DEF LogInsert, Busy
      <3>2. /\ rows'[c.org] = Added(rows[c.org], x)
            /\ \A q \in Tenants \ {c.org} : rows'[q] = rows[q]
            /\ overlap' = overlap
        BY <2>2 DEF LogInsert, AuditTypeOK
      <3>3. /\ \A q \in Tenants, v \in Writers : Busy(v, q)' => Busy(v, q) /\ v # w
            /\ \A v \in Writers \ {w} : pending'[v] = pending[v]
        BY <2>2 DEF LogInsert, Busy, AuditTypeOK
      <3>4. /\ Len(rows'[c.org]) = Len(rows[c.org]) + 1 /\ Len(rows[c.org]) \in Nat
            /\ \A k \in 1 .. Len(rows[c.org]) : rows'[c.org][k] = rows[c.org][k]
            /\ rows'[c.org][Len(rows[c.org]) + 1] = x
            /\ \A k \in 1 .. Len(rows[c.org]) :
                 Expected(rows'[c.org], k) = Expected(rows[c.org], k)
            /\ Expected(rows'[c.org], Len(rows[c.org]) + 1) = LastHash(rows[c.org])
        <4>1. rows[c.org] \in Seq(Entries) /\ Len(rows[c.org]) \in Nat
          BY <3>1, LenProperties DEF AuditTypeOK
        <4>2. x \in Entries /\ rows'[c.org] = Added(rows[c.org], x)
          BY <3>1, <3>2
        <4>3. Expected(rows'[c.org], Len(rows[c.org]) + 1)
                = Expected(Added(rows[c.org], x), Len(rows[c.org]) + 1)
              /\ \A k \in 1 .. Len(rows[c.org]) :
                   Expected(rows'[c.org], k) = Expected(Added(rows[c.org], x), k)
          BY <4>2 DEF Expected
        <4> DEFINE s == Added(rows[c.org], x)
                   n == Len(rows[c.org])
        <4>4. /\ Len(s) = n + 1 /\ s[n + 1] = x
              /\ \A k \in 1 .. n : s[k] = rows[c.org][k]
              /\ \A k \in 1 .. n : Expected(s, k) = Expected(rows[c.org], k)
              /\ Expected(s, n + 1) = LastHash(rows[c.org])
          <5> HIDE DEF x, c
          <5> QED BY <4>1, <4>2, AddedEntry
        <4> HIDE DEF x, c, n
        <4> QED BY <4>1, <4>2, <4>3, <4>4 DEF n
      <3>5. Hashed'
        <4> SUFFICES ASSUME NEW q \in Tenants, NEW k \in 1 .. Len(rows'[q])
                     PROVE  rows'[q][k].hash
                              = Hash(rows'[q][k].prev, rows'[q][k].event)
          BY DEF Hashed
        <4>1. CASE q # c.org
          BY <3>2, <4>1 DEF Hashed
        <4>2. CASE q = c.org /\ k \in 1 .. Len(rows[q])
          BY <3>1, <3>4, <4>2 DEF Hashed
        <4>3. CASE q = c.org /\ k \notin 1 .. Len(rows[q])
          <5>1. k = Len(rows[q]) + 1
            BY <3>4, <4>3
          <5>2. rows'[q][k] = x
            BY <3>4, <4>3, <5>1
          <5> QED BY <5>2 DEF Entry
        <4> QED BY <4>1, <4>2, <4>3
      <3>6. Chained'
        <4> SUFFICES ASSUME NEW q \in Tenants, q \notin overlap,
                            NEW k \in 1 .. Len(rows'[q])
                     PROVE  rows'[q][k].prev = Expected(rows'[q], k)
          BY <3>2 DEF Chained, Expected
        <4>1. CASE q # c.org
          BY <3>2, <4>1 DEF Chained, Expected
        <4>2. CASE q = c.org /\ k \in 1 .. Len(rows[q])
          BY <3>1, <3>4, <4>2 DEF Chained
        <4>3. CASE q = c.org /\ k \notin 1 .. Len(rows[q])
          <5>1. k = Len(rows[q]) + 1
            BY <3>4, <4>3
          <5>2. rows'[q][k] = x /\ Expected(rows'[q], k) = LastHash(rows[q])
            BY <3>4, <4>3, <5>1
          <5>3. c.prev = LastHash(rows[q])
            BY <3>1, <4>3 DEF UpToDate
          <5> QED BY <5>2, <5>3 DEF Entry
        <4> QED BY <4>1, <4>2, <4>3
      <3>7. Alone'
        BY <3>2, <3>3 DEF Alone
      <3>8. UpToDate'
        <4> SUFFICES ASSUME NEW q \in Tenants, q \notin overlap,
                            NEW v \in Writers, Busy(v, q)'
                     PROVE  pending'[v].prev = LastHash(rows'[q])
          BY <3>2 DEF UpToDate, LastHash
        <4>1. Busy(v, q) /\ v # w
          BY <3>3
        <4>2. q # c.org
          BY <3>1, <4>1 DEF Alone
        <4> QED BY <3>2, <3>3, <4>1, <4>2 DEF UpToDate
      <3> QED BY <3>5, <3>6, <3>7, <3>8
    <2>3. ASSUME NEW w \in Writers, LogLost(w) PROVE Inv'
      <3>1. UNCHANGED <<rows, overlap>>
            /\ \A q \in Tenants, v \in Writers :
                 Busy(v, q)' => Busy(v, q) /\ pending'[v] = pending[v]
        BY <2>3 DEF LogLost, Busy, AuditTypeOK
      <3> QED BY <3>1 DEF Hashed, Chained, Alone, UpToDate, Expected, LastHash
    <2>4. ASSUME NEW o \in Tenants, PurgeLog(o) PROVE Inv'
      <3>1. /\ rows'[o] = <<>>
            /\ \A q \in Tenants \ {o} : rows'[q] = rows[q]
            /\ UNCHANGED pending /\ overlap \subseteq overlap'
            /\ o \notin overlap' => \A v \in Writers : ~Busy(v, o)
        BY <2>4 DEF PurgeLog, AuditTypeOK, SomeBusy
      <3>2. \A q \in Tenants, v \in Writers : Busy(v, q)' <=> Busy(v, q)
        BY <3>1 DEF Busy
      <3>3. Hashed' /\ Chained'
        BY <3>1 DEF Hashed, Chained, Expected
      <3>4. Alone' /\ UpToDate'
        BY <3>1, <3>2 DEF Alone, UpToDate, LastHash
      <3> QED BY <3>3, <3>4
    <2>5. CASE UNCHANGED avars
      BY <2>5 DEF avars, AuditTypeOK, Hashed, Chained, Alone, UpToDate, Busy,
                  Expected, LastHash
    <2> QED BY <2>1, <2>2, <2>3, <2>4, <2>5 DEF AuditNext
  <1> QED BY <1>1, <1>2, Typing, PTL DEF AuditSpec

-----------------------------------------------------------------------------
\* verify_chain names exactly the entry that was edited.
LEMMA EditNamed ==
  ASSUME NEW r \in Seq(Entries), Valid(r), NEW k \in 1 .. Len(r), k <= Limit,
         NEW e \in Events, e # r[k].event
  PROVE  ~Valid(Rewritten(r, k, e)) /\ FirstBroken(Rewritten(r, k, e)) = k
  <1> DEFINE s == Rewritten(r, k, e)
  <1>1. /\ Len(s) = Len(r)
        /\ s[k].event = e /\ s[k].prev = r[k].prev /\ s[k].hash = r[k].hash
        /\ \A j \in 1 .. Len(r) : j # k => s[j] = r[j]
    BY DEF Rewritten, Entries
  <1>2. \A j \in 1 .. Len(r) : Expected(s, j) = Expected(r, j)
    BY <1>1 DEF Expected
  <1>3. Fits(r, k)
    BY DEF Valid, Misfits
  <1>4. Expected(r, k) \in Chain
    <2>1. CASE k = 1
      BY <2>1 DEF Expected, Genesis, Chain
    <2>2. CASE k # 1
      <3>1. k - 1 \in 1 .. Len(r)
        BY <2>2, LenProperties
      <3> QED BY <2>2, <3>1, EntryAt DEF Expected
    <2> QED BY <2>1, <2>2
  <1>5. ~Fits(s, k)
    <2>1. r[k].event \in Events
      BY EntryAt
    <2>2. Append(Expected(r, k), e) # Append(Expected(r, k), r[k].event)
      BY <1>4, <2>1, AppendInjective DEF Chain
    <2> QED BY <1>1, <1>2, <1>3, <2>2 DEF Fits, Hash
  <1>6. \A j \in Misfits(s) : j = k
    BY <1>1, <1>2 DEF Misfits, Fits, Valid
  <1>7. k \in Misfits(s)
    BY <1>1, <1>5 DEF Misfits
  <1>8. k \in Nat
    OBVIOUS
  <1> QED BY <1>6, <1>7, <1>8 DEF Valid, FirstBroken

\* verify_chain finds fault only with an organization whose log() calls
\* overlapped, and an edited entry is the one it names.
THEOREM ChainIsSound == AuditSpec => []ChainSound
  <1>1. Inv => ChainSound
    <2>1. ASSUME Inv PROVE BrokenOnlyByOverlap
      BY <2>1 DEF Inv, Hashed, Chained, BrokenOnlyByOverlap, Valid, Misfits, Fits
    <2>2. ASSUME Inv PROVE EditIsLocated
      BY <2>2, EditNamed DEF Inv, AuditTypeOK, EditIsLocated
    <2> QED BY <2>1, <2>2 DEF ChainSound
  <1> QED BY <1>1, Invariance, PTL

\* The misfits of a longer log are those of the log and later ones.
LEMMA FirstBrokenStays ==
  ASSUME NEW r \in Seq(Entries), NEW x \in Entries, ~Valid(r)
  PROVE  ~Valid(Added(r, x)) /\ FirstBroken(Added(r, x)) = FirstBroken(r)
  <1> DEFINE s == Added(r, x)
             Least(q, k) == k \in Misfits(q) /\ \A j \in Misfits(q) : k <= j
  <1>1. \A k \in 1 .. Len(r) : k \in Misfits(s) <=> k \in Misfits(r)
    <2>1. Len(s) = Len(r) + 1 /\ Len(r) \in Nat
      BY AddedEntry, LenProperties
    <2>2. \A k \in 1 .. Len(r) : Fits(s, k) <=> Fits(r, k)
      BY FitsStays
    <2> HIDE DEF s
    <2> QED BY <2>1, <2>2 DEF Misfits
  <1>2. \A k \in Misfits(r) : k \in 1 .. Len(r)
    BY DEF Misfits
  <1>3. \A k \in Misfits(s) : k \in 1 .. Len(r) \/ k = Len(r) + 1
    BY AddedEntry DEF Misfits
  <1>4. PICK m \in Misfits(r) : TRUE
    BY DEF Valid
  <1>5. \A k : Least(s, k) <=> Least(r, k)
    <2>1. ASSUME NEW k, Least(s, k) PROVE Least(r, k)
      BY <1>1, <1>2, <1>3, <1>4, <2>1
    <2>2. ASSUME NEW k, Least(r, k) PROVE Least(s, k)
      BY <1>1, <1>2, <1>3, <1>4, <2>2
    <2> QED BY <2>1, <2>2
  <1>6. (CHOOSE k : Least(s, k)) = (CHOOSE k : Least(r, k))
    <2> HIDE DEF Least
    <2> QED BY <1>5
  <1> QED BY <1>1, <1>2, <1>4, <1>6 DEF FirstBroken, Valid

\* The first broken entry stays the first broken one until the log is deleted.
THEOREM BreakIsFinal == AuditSpec => BreakStays
  <1>1. AuditTypeOK /\ [AuditNext]_avars
          => [\A o \in Tenants : ~Valid(rows[o]) =>
                \/ rows'[o] = <<>>
                \/ ~Valid(rows'[o])
                   /\ FirstBroken(rows'[o]) = FirstBroken(rows[o])]_avars
    <2> SUFFICES ASSUME AuditTypeOK, [AuditNext]_avars, NEW o \in Tenants,
                        ~Valid(rows[o]), rows'[o] # <<>>
                 PROVE  ~Valid(rows'[o])
                        /\ FirstBroken(rows'[o]) = FirstBroken(rows[o])
      OBVIOUS
    <2>1. CASE rows'[o] = rows[o]
      BY <2>1
    <2>2. ASSUME NEW w \in Writers, LogInsert(w), pending[w].org = o
          PROVE  ~Valid(rows'[o])
                 /\ FirstBroken(rows'[o]) = FirstBroken(rows[o])
      <3> DEFINE x == Entry(pending[w].prev, pending[w].event)
      <3>1. x \in Entries
        BY <2>2, PendingIsEntry, EntryIsEntry DEF LogInsert
      <3>2. rows[o] \in Seq(Entries) /\ rows'[o] = Added(rows[o], x)
        BY <2>2 DEF LogInsert, AuditTypeOK
      <3> QED BY <3>1, <3>2, FirstBrokenStays
    <2>3. ASSUME NEW w \in Writers, LogInsert(w), pending[w].org # o
          PROVE  rows'[o] = rows[o]
      BY <2>3 DEF LogInsert, AuditTypeOK
    <2>4. ASSUME NEW q \in Tenants, PurgeLog(q) PROVE rows'[o] = rows[o]
      BY <2>4 DEF PurgeLog, AuditTypeOK
    <2> QED BY <2>1, <2>2, <2>3, <2>4
            DEF AuditNext, LogRead, LogLost, avars
  <1> QED BY <1>1, Typing, PTL DEF AuditSpec, BreakStays

-----------------------------------------------------------------------------
(* The refinement.                                                          *)

Said(r) == [k \in 1 .. Len(r) |-> r[k].event]

\* A log says as many events as it has entries.
LEMMA SaidIsEvents ==
  ASSUME NEW r \in Seq(Entries)
  PROVE  Said(r) \in Seq(Events) /\ Len(Said(r)) = Len(r)
  <1>1. Len(r) \in Nat /\ Said(r) \in [1 .. Len(r) -> Events]
    BY LenProperties, EntryAt DEF Said
  <1> QED BY <1>1, IsASeq, LenProperties

\* Inserting an entry adds its event at the end of the list.
LEMMA SaidAdded ==
  ASSUME NEW r \in Seq(Entries), NEW x \in Entries
  PROVE  Said(Added(r, x)) = Append(Said(r), x.event)
  <1> DEFINE s == Added(r, x)
  <1>1. Said(r) \in Seq(Events) /\ Len(Said(r)) = Len(r)
    BY SaidIsEvents
  <1>2. x.event \in Events
    BY DEF Entries
  <1>3. /\ Len(Append(Said(r), x.event)) = Len(r) + 1
        /\ \A k \in 1 .. Len(r) : Append(Said(r), x.event)[k] = r[k].event
        /\ Append(Said(r), x.event)[Len(r) + 1] = x.event
    BY <1>1, <1>2, AppendProperties DEF Said
  <1>4. Said(Added(r, x)) \in Seq(Events)
        /\ Len(Said(Added(r, x))) = Len(r) + 1
    BY AddedEntry, SaidIsEvents
  <1>5. \A k \in 1 .. Len(r) + 1 :
          Said(Added(r, x))[k] = Append(Said(r), x.event)[k]
    <2>1. /\ Len(s) = Len(r) + 1 /\ Len(r) \in Nat
          /\ \A k \in 1 .. Len(r) : s[k] = r[k]
          /\ s[Len(r) + 1] = x
      BY AddedEntry, LenProperties
    <2> HIDE DEF s
    <2> SUFFICES ASSUME NEW k \in 1 .. Len(r) + 1
                 PROVE  Said(s)[k] = Append(Said(r), x.event)[k]
      BY DEF s
    <2>2. Said(s)[k] = s[k].event
      BY <2>1 DEF Said
    <2>3. k \in 1 .. Len(r) \/ k = Len(r) + 1
      BY <2>1
    <2> QED BY <1>3, <2>1, <2>2, <2>3
  <1>6. Append(Said(r), x.event) \in Seq(Events)
    BY <1>1, <1>2, AppendProperties
  <1> QED BY <1>3, <1>4, <1>5, <1>6, SeqEqual

\* Hash-chaining in two database calls implements the append-only list.
THEOREM LedgerImplemented == AuditSpec => ImplementsLedger
  <1>1. AuditInit => Promised!LedgerInit
    BY DEF AuditInit, Promised!LedgerInit, EventsOf, AskedOf
  <1>2. AuditTypeOK /\ [AuditNext]_avars
          => [Promised!LedgerNext]_(Promised!lvars)
    <2> SUFFICES ASSUME AuditTypeOK, [AuditNext]_avars
                 PROVE  [Promised!LedgerNext]_(Promised!lvars)
      OBVIOUS
    <2>1. EventsOf = [o \in Tenants |-> Said(rows[o])]
          /\ EventsOf' = [o \in Tenants |-> Said(rows'[o])]
      BY DEF EventsOf, Said
    <2>2. ASSUME NEW w \in Writers, NEW o \in Tenants, NEW e \in Events,
                 LogRead(w, o, e)
          PROVE  Promised!Ask(w, o, e)
      <3>1. EventsOf' = EventsOf
        BY <2>1, <2>2 DEF LogRead
      <3>2. AskedOf[w] = Nothing
        BY <2>2 DEF LogRead, AskedOf
      <3>3. pending' = [pending EXCEPT
                 ![w] = [org |-> o, event |-> e, prev |-> LastHash(rows[o])]]
            /\ pending'[w] # NoEntry
        BY <2>2, AuditLogAssumption DEF LogRead, NoEntry, AuditTypeOK
      <3>4. AskedOf' = [AskedOf EXCEPT ![w] = <<o, e>>]
        BY <3>3 DEF AskedOf, AuditTypeOK
      <3> QED BY <3>1, <3>2, <3>4 DEF Promised!Ask
    <2>3. ASSUME NEW w \in Writers, pending[w] # NoEntry,
                 pending' = [pending EXCEPT ![w] = NoEntry]
          PROVE  /\ AskedOf[w] = <<pending[w].org, pending[w].event>>
                 /\ AskedOf[w] # Nothing
                 /\ AskedOf' = [AskedOf EXCEPT ![w] = Nothing]
      <3>1. AskedOf[w] = <<pending[w].org, pending[w].event>>
        BY <2>3 DEF AskedOf
      <3>2. AskedOf[w] # Nothing
        BY <2>3, <3>1, PendingIsEntry, AuditLogAssumption
      <3>3. AskedOf' = [AskedOf EXCEPT ![w] = Nothing]
        BY <2>3 DEF AskedOf, AuditTypeOK
      <3> QED BY <3>1, <3>2, <3>3
    <2>4. ASSUME NEW w \in Writers, LogInsert(w) PROVE Promised!Record(w)
      <3> DEFINE c == pending[w]
                 x == Entry(c.prev, c.event)
      <3>1. c.org \in Tenants /\ x \in Entries /\ x.event = c.event
        BY <2>4, PendingIsEntry, EntryIsEntry DEF LogInsert, Entry
      <3>2. rows' = [rows EXCEPT ![c.org] = Added(rows[c.org], x)]
        BY <2>4 DEF LogInsert
      <3>3. Said(Added(rows[c.org], x)) = Append(Said(rows[c.org]), c.event)
        BY <3>1, SaidAdded DEF AuditTypeOK
      <3>4. EventsOf' = [EventsOf EXCEPT ![c.org] = Append(@, c.event)]
        <4>1. EventsOf[c.org] = Said(rows[c.org])
          BY <2>1, <3>1
        <4>2. EventsOf' = [EventsOf EXCEPT ![c.org] = Said(rows'[c.org])]
          <5> HIDE DEF x, c
          <5> QED BY <2>1, <3>1, <3>2 DEF AuditTypeOK
        <4>3. Said(rows'[c.org]) = Append(Said(rows[c.org]), c.event)
          BY <3>1, <3>2, <3>3 DEF AuditTypeOK
        <4> QED BY <4>1, <4>2, <4>3
      <3>5. /\ AskedOf[w] # Nothing
            /\ AskedOf[w][1] = c.org /\ AskedOf[w][2] = c.event
            /\ AskedOf' = [AskedOf EXCEPT ![w] = Nothing]
        <4>1. c # NoEntry /\ pending' = [pending EXCEPT ![w] = NoEntry]
          BY <2>4 DEF LogInsert
        <4>2. AskedOf[w] = <<c.org, c.event>> /\ AskedOf[w] # Nothing
              /\ AskedOf' = [AskedOf EXCEPT ![w] = Nothing]
          BY <2>3, <4>1
        <4> HIDE DEF c
        <4> QED BY <4>2
      <3> HIDE DEF c, x
      <3> QED BY <3>4, <3>5 DEF Promised!Record
    <2>5. ASSUME NEW w \in Writers, LogLost(w) PROVE Promised!Forget(w)
      BY <2>1, <2>3, <2>5 DEF LogLost, Promised!Forget
    <2>6. ASSUME NEW o \in Tenants, PurgeLog(o) PROVE Promised!Remove(o)
      <3>1. Said(<<>>) = <<>>
        BY DEF Said
      <3>2. EventsOf' = [EventsOf EXCEPT ![o] = <<>>]
        BY <2>1, <2>6, <3>1 DEF PurgeLog, AuditTypeOK
      <3>3. AskedOf' = AskedOf
        BY <2>6 DEF PurgeLog, AskedOf
      <3> QED BY <3>2, <3>3 DEF Promised!Remove
    <2>7. ASSUME UNCHANGED avars PROVE UNCHANGED Promised!lvars
      BY <2>7 DEF avars, Promised!lvars, EventsOf, AskedOf
    <2> QED BY <2>2, <2>4, <2>5, <2>6, <2>7 DEF AuditNext, Promised!LedgerNext
  <1> QED BY <1>1, <1>2, Typing, PTL
          DEF AuditSpec, ImplementsLedger, Promised!LedgerSpec

-----------------------------------------------------------------------------
(* Membership.  Typed is about the locals of requests, AdminInv about what a  *)
(* change saw and still holds, PendingInv about invitations on their way,     *)
(* JoinInv about who holds an invite and what is owed for it.                 *)

Users == [org : Somewhere, role : Roles, own : BOOLEAN]
InviteRows == {i \in [st : Statuses, org : Somewhere, email : Someone, role : Roles, exp : Nat] :
                 IF i.st = "none" THEN i.org = None ELSE i.org \in Orgs /\ i.email \in People}
Calls == [op : Ops \cup {"none"}, at : Steps, org : Somewhere, actor : Someone,
          p : Someone, todo : SUBSET Invites, role : Roles, gone : BOOLEAN]

\* A request stands at a step of its own kind, with the locals of that kind.
CallFits(c) ==
    /\ c \in Calls
    /\ c.op = "none" <=> c = Idle
    /\ c.at = "idle" <=> c = Idle
    /\ c.at \in {"count", "write"} => c.op \in Changes
    /\ c.op \in Changes => c.at \in {"count", "write", "audit"}
    /\ c.at = "pending" => c.op = "invite"
    /\ c.at \in {"mark", "mark_only"} => c.op = "accept"
    /\ c.at = "insert" => c.op \in {"invite", "accept"}
    /\ c.op = "invite" => c.at \in {"pending", "insert", "audit"} /\ c.actor \in People
    /\ c.at \in {"count", "write", "pending", "audit"} => c.org \in Orgs
    /\ c.at \in {"count", "write", "pending", "audit"} => c.p \in People
    /\ c.at \in {"insert", "mark"} => c.p \in People
    /\ c.op \in {"invite", "accept"} => c.org \in Orgs
    /\ c.op \notin {"accept", "list", "revoke"} => c.todo = {}
    /\ c.op = "accept" => \E i \in Invites : c.todo = {i}
    /\ c.op = "delete_org" <=> c.at = "users"

\* Everything but the calls is typed; an invite that was created names an
\* organization and a person.
TablesTyped ==
    /\ users \in [People -> Users]
    /\ invites \in [Invites -> InviteRows]
    /\ founded \subseteq Orgs
    /\ trail \subseteq Ops \X Orgs \X People
    /\ now \in 0 .. MaxTime
    /\ disturbed \subseteq Orgs \cup (Orgs \X People) \cup Invites
    /\ emptied \subseteq Orgs
    /\ joined \subseteq Invites
    /\ resent \subseteq Invites

\* Typing, with what the locals of a request promise.
Typed ==
    /\ TablesTyped
    /\ call \in [Workers -> Calls]
    /\ \A w \in Workers : CallFits(call[w])

\* Claims give every person an organization and a role.
LEMMA ClaimsType ==
  /\ None \notin Orgs \cup People \cup Invites
  /\ \A p \in People : /\ Claims[p].org \in Orgs /\ Claims[p].org # None
                       /\ Claims[p].role \in Roles
  BY MembershipAssumption

\* The first state is typed, and nobody serves a request.
LEMMA InitTyped == MembershipInit => Typed
  <1> SUFFICES ASSUME MembershipInit PROVE Typed
    OBVIOUS
  <1>1. users \in [People -> Users]
    BY MembershipAssumption DEF MembershipInit, NoRow, Users, Somewhere, Roles
  <1>2. invites \in [Invites -> InviteRows]
    BY DEF MembershipInit, NoInvite, InviteRows, Somewhere, Someone, Roles, Statuses
  <1>3. founded \subseteq Orgs
    BY MembershipAssumption DEF MembershipInit
  <1>4. TablesTyped
    BY <1>1, <1>2, <1>3, MembershipAssumption DEF MembershipInit, TablesTyped
  <1>5. CallFits(Idle)
    BY DEF CallFits, Idle, Calls, Changes, Ops, Steps, Somewhere, Someone, Roles
  <1> QED BY <1>4, <1>5 DEF Typed, MembershipInit, CallFits

\* A step that changes one call, to one that fits.
LEMMA OneCall ==
  ASSUME Typed, NEW w \in Workers, NEW c, CallFits(c), Becomes(w, c)
  PROVE  call' \in [Workers -> Calls] /\ \A u \in Workers : CallFits(call'[u])
  BY DEF Typed, Calls, CallFits, Becomes

\* Deleting rows changes no call but in what it still knows to exist.
LEMMA OnlyGone ==
  ASSUME NEW calls \in [Workers -> Calls], NEW gone, \A w \in Workers : CallFits(calls[w])
  PROVE  /\ Deleted(calls, gone) \in [Workers -> Calls]
         /\ \A w \in Workers : CallFits(Deleted(calls, gone)[w])
  <1>1. ASSUME NEW w \in Workers
        PROVE  CallFits(Deleted(calls, gone)[w])
    <2>1. CASE calls[w].op \in Changes /\ calls[w].p \in gone /\ calls[w].at \in {"count", "write"}
      <3>1. Deleted(calls, gone)[w] = [calls[w] EXCEPT !.gone = TRUE]
        BY <2>1 DEF Deleted
      <3>2. calls[w] \in Calls /\ calls[w] # Idle
        BY <2>1 DEF Idle, Changes
      <3>3. [calls[w] EXCEPT !.gone = TRUE] # Idle /\ [calls[w] EXCEPT !.gone = TRUE] \in Calls
        BY <3>2, <2>1 DEF Idle, Calls, Changes
      <3> QED BY <3>1, <3>2, <3>3 DEF CallFits, Calls
    <2>2. CASE ~(calls[w].op \in Changes /\ calls[w].p \in gone /\ calls[w].at \in {"count", "write"})
      BY <2>2 DEF Deleted
    <2> QED BY <2>1, <2>2
  <1>2. ASSUME NEW w \in Workers
        PROVE  Deleted(calls, gone)[w] \in Calls
    BY <1>1 DEF CallFits
  <1>3. Deleted(calls, gone) = [w \in Workers |-> Deleted(calls, gone)[w]]
    BY DEF Deleted
  <1> QED BY <1>1, <1>2, <1>3

\* Provisioning gives a person a row only where there is none.
LEMMA ProvisionedType ==
  ASSUME Typed, NEW p \in People
  PROVE  /\ Provisioned(p) \in [People -> Users]
         /\ \A q \in People :
              \/ Provisioned(p)[q] = users[q]
              \/ users[q] = NoRow /\ Provisioned(p)[q].org = Claims[p].org
  <1>1. Row(Claims[p].org, Claims[p].role) \in Users
    BY ClaimsType DEF Row, Users, Somewhere
  <1>2. users \in [People -> Users]
    BY DEF Typed, TablesTyped, Users
  <1>3. CASE users[p] = NoRow
    <2>1. Provisioned(p) = [users EXCEPT ![p] = Row(Claims[p].org, Claims[p].role)]
      BY <1>3 DEF Provisioned
    <2>2. Row(Claims[p].org, Claims[p].role).org = Claims[p].org
      BY DEF Row
    <2> QED BY <1>1, <1>2, <1>3, <2>1, <2>2
  <1>4. CASE users[p] # NoRow
    <2>1. Provisioned(p) = users
      BY <1>4 DEF Provisioned
    <2> QED BY <1>2, <2>1
  <1> QED BY <1>3, <1>4


\* A step that changes one call to one that fits keeps the typing of the calls.
LEMMA OneCallTyped ==
  ASSUME Typed, NEW w \in Workers, NEW c, CallFits(c), Becomes(w, c), TablesTyped'
  PROVE  Typed'
  <1>1. call' \in [Workers -> Calls] /\ \A u \in Workers : CallFits(call'[u])
    BY OneCall
  <1> QED BY <1>1 DEF Typed

\* An idle worker fits.
LEMMA IdleFits == CallFits(Idle)
  BY DEF CallFits, Idle, Changes, Calls, Ops, Steps, Somewhere, Someone, Roles

\* Changes of members keep the typing.
LEMMA TeamTyped ==
  ASSUME Typed, NEW w \in Workers, TeamStep(w)
  PROVE  Typed'
  <1> USE ClaimsType, IdleFits
  <1>0. TablesTyped /\ call[w] \in Calls /\ CallFits(call[w])
    BY DEF Typed
  <1>1. ASSUME NEW op \in Changes, NEW actor \in People, NEW p \in People,
               NEW role \in GivenRoles, StartChange(w, op, actor, p, role)
        PROVE  Typed'
    <2> DEFINE o == Claims[actor].org
               c == [Request(op, "write", o, actor, p) EXCEPT !.role = role]
               d == [c EXCEPT !.at = "count"]
    <2>1. CallFits(c) /\ CallFits(d)
      <3>1. role \in Roles
        BY MembershipAssumption
      <3> QED BY <3>1 DEF Request, Idle, CallFits, Calls, Ops, Changes, Steps, Somewhere, Someone, Roles
    <2>2. Becomes(w, c) \/ Becomes(w, d)
      BY <1>1 DEF StartChange
    <2>3. TablesTyped'
      BY <1>0, <1>1 DEF StartChange, TablesTyped, tables, Users, InviteRows
    <2> QED BY <2>1, <2>2, <2>3, OneCallTyped
  <1>2. ASSUME CountAdmins(w) PROVE Typed'
    <2>1. CallFits([call[w] EXCEPT !.at = "write"])
      BY <1>0, <1>2 DEF CountAdmins, CallFits, Calls, Idle, Changes, Steps
    <2>2. TablesTyped'
      BY <1>0, <1>2 DEF CountAdmins, TablesTyped, tables, history, Users, InviteRows
    <2>3. Becomes(w, Idle) \/ Becomes(w, [call[w] EXCEPT !.at = "write"])
      BY <1>2 DEF CountAdmins, Goes
    <2> QED BY <2>1, <2>2, <2>3, OneCallTyped
  <1>3. ASSUME WriteChange(w) PROVE Typed'
    <2> DEFINE c == [call[w] EXCEPT !.at = "audit"]
               calls == [call EXCEPT ![w] = c]
    <2>1. CallFits(c)
      BY <1>0, <1>3 DEF WriteChange, CallFits, Calls, Idle, Changes, Steps
    <2>2. calls \in [Workers -> Calls] /\ \A u \in Workers : CallFits(calls[u])
      BY <2>1 DEF Typed, CallFits
    <2>3. PICK gone : call' = Deleted(calls, gone)
      BY <1>3 DEF WriteChange
    <2>4. call' \in [Workers -> Calls] /\ \A u \in Workers : CallFits(call'[u])
      BY <2>2, <2>3, OnlyGone
    <2>5. TablesTyped'
      <3>1. users' \in [People -> Users]
        <4>1. \/ users' = users
              \/ users' = [users EXCEPT ![call[w].p].role = call[w].role]
              \/ users' = [users EXCEPT ![call[w].p] = NoRow]
          BY <1>3 DEF WriteChange
        <4>2. NoRow \in Users
          BY DEF NoRow, Users, Somewhere, Roles
        <4>3. call[w].role \in Roles
          BY <1>0 DEF Calls
        <4>4. users \in [People -> Users]
          BY <1>0 DEF TablesTyped
        <4>5. \A q \in People : [users[q] EXCEPT !.role = call[w].role] \in Users
          BY <4>3, <4>4 DEF Users
        <4> QED BY <4>1, <4>2, <4>4, <4>5
      <3> QED BY <1>0, <1>3, <3>1 DEF WriteChange, TablesTyped, history, InviteRows
    <2> QED BY <2>4, <2>5 DEF Typed
  <1>4. ASSUME Audit(w) PROVE Typed'
    <2>1. TablesTyped'
      <3>1. users' \in [People -> Users]
        BY <1>0, <1>4, ProvisionedType DEF Audit, TablesTyped, CallFits
      <3>2. trail' \subseteq Ops \X Orgs \X People
        BY <1>0, <1>4 DEF Audit, TablesTyped, CallFits, Calls, Idle
      <3> QED BY <1>0, <1>4, <3>1, <3>2 DEF Audit, TablesTyped, history, InviteRows
    <2> QED BY <1>4, <2>1, OneCallTyped DEF Audit
  <1>5. ASSUME NEW actor \in People, NEW o \in Orgs, CreateOrg(w, actor, o) PROVE Typed'
    <2>1. CallFits(Request("create_org", "audit", o, actor, actor))
      BY DEF Request, Idle, CallFits, Calls, Ops, Changes, Steps, Somewhere, Someone, Roles
    <2>2. TablesTyped'
      <3>1. users \in [People -> Users]
        BY <1>0 DEF TablesTyped
      <3>2. [users[actor] EXCEPT !.org = o, !.role = "org_admin"] \in Users
        BY <3>1 DEF Users, Somewhere, Roles, AdminRoles
      <3>3. users' \in [People -> Users]
        BY <1>5, <3>1, <3>2 DEF CreateOrg
      <3>4. emptied' \subseteq Orgs /\ founded' \subseteq Orgs
        BY <1>0, <1>5, <3>1 DEF CreateOrg, TablesTyped, Users, Somewhere
      <3> QED BY <1>0, <1>5, <3>3, <3>4 DEF CreateOrg, TablesTyped, InviteRows
    <2> QED BY <1>5, <2>1, <2>2, OneCallTyped DEF CreateOrg
  <1>6. ASSUME NEW o \in Orgs, DeleteInvites(w, o) PROVE Typed'
    <2>1. CallFits(Request("delete_org", "users", o, None, None))
      BY DEF Request, Idle, CallFits, Calls, Ops, Changes, Steps, Somewhere, Someone, Roles
    <2>2. TablesTyped'
      <3>1. \A i \in Invites :
              /\ invites[i] \in InviteRows
              /\ invites[i].org = o => [invites[i] EXCEPT !.st = "deleted"] \in InviteRows
        BY <1>0 DEF TablesTyped, InviteRows, Statuses
      <3>2. invites' \in [Invites -> InviteRows]
        BY <1>6, <3>1 DEF DeleteInvites
      <3> QED BY <1>0, <1>6, <3>2 DEF DeleteInvites, TablesTyped, Users
    <2> QED BY <1>6, <2>1, <2>2, OneCallTyped DEF DeleteInvites
  <1>7. ASSUME DeleteUsers(w) PROVE Typed'
    <2> DEFINE calls == [call EXCEPT ![w] = Idle]
    <2>2. calls \in [Workers -> Calls] /\ \A u \in Workers : CallFits(calls[u])
      BY DEF Typed, CallFits
    <2>3. PICK gone : call' = Deleted(calls, gone)
      BY <1>7 DEF DeleteUsers
    <2>4. call' \in [Workers -> Calls] /\ \A u \in Workers : CallFits(call'[u])
      BY <2>2, <2>3, OnlyGone
    <2>5. TablesTyped'
      <3>1. NoRow \in Users
        BY DEF NoRow, Users, Somewhere, Roles
      <3>2. users' \in [People -> Users]
        BY <1>0, <1>7, <3>1 DEF DeleteUsers, TablesTyped
      <3> QED BY <1>0, <1>7, <3>2 DEF DeleteUsers, TablesTyped, history, InviteRows
    <2> QED BY <2>4, <2>5 DEF Typed
  <1> QED BY <1>1, <1>2, <1>3, <1>4, <1>5, <1>6, <1>7 DEF TeamStep


\* Invites keep the typing.
LEMMA InviteTyped ==
  ASSUME Typed, NEW w \in Workers, InviteStep(w)
  PROVE  Typed'
  <1> USE ClaimsType, IdleFits
  <1>0. TablesTyped /\ call[w] \in Calls /\ CallFits(call[w])
    BY DEF Typed
  <1>1. \A i \in Invites : invites[i] \in InviteRows
    BY <1>0 DEF TablesTyped
  <1>2. ASSUME NEW S, NEW st \in Statuses \ {"none"} PROVE Marked(S, st) \in [Invites -> InviteRows]
    <2>1. \A i \in Invites : Exists(i) => [invites[i] EXCEPT !.st = st] \in InviteRows
      BY <1>1 DEF InviteRows, Exists
    <2> QED BY <1>1, <2>1 DEF Marked
  <1>3. ASSUME NEW actor \in People, NEW p \in People, NEW role \in GivenRoles,
               StartInvite(w, actor, p, role)
        PROVE  Typed'
    <2> DEFINE o == Claims[actor].org
               c == [Request("invite", "pending", o, actor, p) EXCEPT !.role = role]
    <2>1. CallFits(c)
      <3>1. role \in Roles
        BY MembershipAssumption
      <3> QED BY <3>1 DEF Request, Idle, CallFits, Calls, Ops, Changes, Steps, Somewhere, Someone, Roles
    <2>2. TablesTyped'
      <3>1. users' \in [People -> Users]
        BY <1>3, ProvisionedType DEF StartInvite
      <3> QED BY <1>0, <1>3, <3>1 DEF StartInvite, TablesTyped, InviteRows
    <2>3. Becomes(w, c) \/ Becomes(w, call[w])
      BY <1>3 DEF Typed, StartInvite, Becomes
    <2> QED BY <1>0, <2>1, <2>2, <2>3, OneCallTyped
  <1>4. ASSUME CheckPending(w) PROVE Typed'
    <2>1. CallFits([call[w] EXCEPT !.at = "insert"])
      BY <1>0, <1>4 DEF CheckPending, CallFits, Calls, Idle, Changes, Steps
    <2>2. TablesTyped'
      BY <1>0, <1>4 DEF CheckPending, TablesTyped, tables, history, Users, InviteRows
    <2>3. Becomes(w, Idle) \/ Becomes(w, [call[w] EXCEPT !.at = "insert"])
      BY <1>4 DEF CheckPending, Goes
    <2> QED BY <2>1, <2>2, <2>3, OneCallTyped
  <1>5. ASSUME InsertUser(w) PROVE Typed'
    <2>1. CallFits([call[w] EXCEPT !.at = "mark"])
      BY <1>0, <1>5 DEF InsertUser, CallFits, Calls, Idle, Changes, Steps
    <2>2. TablesTyped'
      <3>1. Row(call[w].org, call[w].role) \in Users /\ call[w].p \in People
        BY <1>0, <1>5 DEF InsertUser, CallFits, Calls, Row, Users
      <3>2. users' \in [People -> Users] /\ joined' \subseteq Invites
        BY <1>0, <1>5, <3>1 DEF InsertUser, TablesTyped, Calls
      <3> QED BY <1>0, <1>5, <3>2 DEF InsertUser, TablesTyped, InviteRows
    <2>3. Becomes(w, Idle) \/ Becomes(w, [call[w] EXCEPT !.at = "mark"])
      BY <1>5 DEF InsertUser, Goes
    <2> QED BY <2>1, <2>2, <2>3, OneCallTyped
  <1>6. ASSUME MarkAccepted(w) PROVE Typed'
    <2>1. call[w].at = "mark" => CallFits([call[w] EXCEPT !.at = "audit"])
      BY <1>0, <1>6 DEF MarkAccepted, CallFits, Calls, Idle, Changes, Steps
    <2>2. invites' \in [Invites -> InviteRows]
      BY <1>2, <1>6 DEF MarkAccepted, Accepted, Statuses
    <2>3. TablesTyped'
      BY <1>0, <1>6, <2>2 DEF MarkAccepted, TablesTyped, history, Users
    <2> QED BY <1>6, <2>1, <2>3, OneCallTyped DEF MarkAccepted
  <1>7. ASSUME RevokeInvite(w) PROVE Typed'
    <2>1. invites' \in [Invites -> InviteRows]
      BY <1>2, <1>7 DEF RevokeInvite, Statuses
    <2>2. TablesTyped'
      BY <1>0, <1>7, <2>1 DEF RevokeInvite, TablesTyped, history, Users
    <2> QED BY <1>7, <2>2, OneCallTyped DEF RevokeInvite
  <1>8. ASSUME NEW i \in Invites, InsertInvite(w, i) PROVE Typed'
    <2>1. CallFits([call[w] EXCEPT !.at = "audit"])
      BY <1>0, <1>8 DEF InsertInvite, CallFits, Calls, Idle, Changes, Steps
    <2>2. now + Expiry \in Nat
      BY <1>0, MembershipAssumption DEF TablesTyped
    <2>3. invites' \in [Invites -> InviteRows]
      <3> DEFINE row == [st |-> "pending", org |-> call[w].org, email |-> call[w].p,
                         role |-> call[w].role, exp |-> now + Expiry]
      <3>1. call[w].org \in Orgs /\ call[w].p \in People /\ call[w].role \in Roles
        BY <1>0, <1>8 DEF InsertInvite, CallFits, Calls
      <3>2. row \in InviteRows
        BY <2>2, <3>1 DEF InviteRows, Statuses, Somewhere, Someone
      <3>3. invites' = [invites EXCEPT ![i] = row]
        BY <1>8 DEF InsertInvite
      <3> QED BY <1>1, <1>0, <3>2, <3>3 DEF TablesTyped
    <2>4. TablesTyped'
      BY <1>0, <1>8, <2>3 DEF InsertInvite, TablesTyped, history, Users
    <2> QED BY <1>8, <2>1, <2>4, OneCallTyped DEF InsertInvite, Goes
  <1>9. ASSUME NEW i \in Invites, ExpireInvite(w, i) PROVE Typed'
    <2> DEFINE c == [call[w] EXCEPT !.todo = @ \ {i}]
    <2>1. call[w].todo # {i} => CallFits(c)
      BY <1>0, <1>9 DEF ExpireInvite, CallFits, Calls, Idle, Changes
    <2>2. invites' \in [Invites -> InviteRows]
      BY <1>2, <1>9 DEF ExpireInvite, Statuses
    <2>3. TablesTyped'
      BY <1>0, <1>9, <2>2 DEF ExpireInvite, TablesTyped, history, Users
    <2> QED BY <1>9, <2>1, <2>3, OneCallTyped DEF ExpireInvite
  <1>10. ASSUME NEW i \in Invites, NEW p \in People, StartAccept(w, i, p) PROVE Typed'
    <2>1. PICK step \in {"expire", "mark_only", "insert"} :
            Becomes(w, [Request("accept", step, invites[i].org, p, p)
                          EXCEPT !.todo = {i}, !.role = invites[i].role])
      BY <1>10 DEF StartAccept
    <2>2. /\ invites[i].org \in Somewhere /\ invites[i].org \in Orgs
          /\ invites[i].role \in Roles
      BY <1>1, <1>10 DEF InviteRows, StartAccept, IsPending
    <2>3. CallFits([Request("accept", step, invites[i].org, p, p)
                      EXCEPT !.todo = {i}, !.role = invites[i].role])
      BY <2>2 DEF Request, Idle, CallFits, Calls, Ops, Changes, Steps, Someone
    <2>4. TablesTyped'
      BY <1>0, <1>10 DEF StartAccept, TablesTyped, tables, Touched, Users, InviteRows
    <2> QED BY <2>1, <2>3, <2>4, OneCallTyped
  <1>11. ASSUME NEW i \in Invites, NEW p \in People, StartRevoke(w, i, p) PROVE Typed'
    <2>1. invites[i].org \in Somewhere
      BY <1>1 DEF InviteRows
    <2>2. CallFits([Request("revoke", "revoke", invites[i].org, None, None) EXCEPT !.todo = {i}])
      BY <2>1 DEF Request, Idle, CallFits, Calls, Ops, Changes, Steps, Someone, Roles
    <2>3. TablesTyped'
      BY <1>0, <1>11 DEF StartRevoke, TablesTyped, tables, Touched, Users, InviteRows
    <2> QED BY <1>11, <2>2, <2>3, OneCallTyped DEF StartRevoke
  <1>12. ASSUME NEW i \in Invites, NEW p \in People, Resend(w, i, p) PROVE Typed'
    <2>1. now + Expiry \in Nat
      BY <1>0, MembershipAssumption DEF TablesTyped
    <2>2. [invites[i] EXCEPT !.st = "pending", !.exp = now + Expiry] \in InviteRows
      BY <1>1, <1>12, <2>1 DEF InviteRows, Statuses, Resend, Exists
    <2>3. invites' \in [Invites -> InviteRows]
      BY <1>0, <1>12, <2>2 DEF Resend, TablesTyped
    <2>4. TablesTyped'
      BY <1>0, <1>12, <2>3 DEF Resend, TablesTyped, Users
    <2> QED BY <1>12, <2>4 DEF Resend, Typed, TablesTyped, TablesTyped, Users, InviteRows, Calls
  <1>13. ASSUME NEW p \in People, StartList(w, p) PROVE Typed'
    <2>1. PICK late \in SUBSET Invites :
            /\ Becomes(w, [Request("list", "expire", Claims[p].org, None, None)
                             EXCEPT !.todo = late])
            /\ Touched(late)
      BY <1>13 DEF StartList
    <2>2. CallFits([Request("list", "expire", Claims[p].org, None, None) EXCEPT !.todo = late])
      BY DEF Request, Idle, CallFits, Calls, Ops, Changes, Steps, Someone, Somewhere, Roles
    <2>3. TablesTyped'
      BY <1>0, <1>13, <2>1 DEF StartList, TablesTyped, tables, Touched, Users, InviteRows
    <2> QED BY <2>1, <2>2, <2>3, OneCallTyped
  <1> QED BY <1>3, <1>4, <1>5, <1>6, <1>7, <1>8, <1>9, <1>10, <1>11, <1>12, <1>13
        DEF InviteStep

\* Every step keeps the typing.
LEMMA StepTyped == Typed /\ [MembershipNext]_mvars => Typed'
  <1> SUFFICES ASSUME Typed, [MembershipNext]_mvars PROVE Typed'
    OBVIOUS
  <1> USE DEF Typed
  <1>1. CASE \E p \in People : Login(p)
    <2>1. PICK p \in People : Login(p)
      BY <1>1
    <2>2. TablesTyped'
      BY <2>1, ProvisionedType, ClaimsType DEF Login, TablesTyped, history, InviteRows
    <2> QED BY <2>1, <2>2 DEF Login, Typed, TablesTyped, TablesTyped, Users, InviteRows, Calls
  <1>2. CASE \E w \in Workers : TeamStep(w)
    BY <1>2, TeamTyped
  <1>3. CASE \E w \in Workers : InviteStep(w)
    BY <1>3, InviteTyped
  <1>4. CASE \E w \in Workers : Crash(w)
    <2>1. PICK w \in Workers : Crash(w)
      BY <1>4
    <2>2. TablesTyped'
      BY <2>1 DEF Crash, TablesTyped, tables, Users, InviteRows, Calls
    <2> QED BY <2>1, <2>2, IdleFits, OneCallTyped DEF Crash
  <1>5. CASE Tick
    <2>1. TablesTyped'
      BY <1>5, MembershipAssumption DEF Tick, TablesTyped, tables, history, Users, InviteRows
    <2> QED BY <1>5, <2>1 DEF Tick, Typed, TablesTyped, TablesTyped, Users, InviteRows, Calls
  <1>6. CASE UNCHANGED mvars
    BY <1>6 DEF mvars, tables, history, Typed, TablesTyped
  <1> QED BY <1>1, <1>2, <1>3, <1>4, <1>5, <1>6 DEF MembershipNext


-----------------------------------------------------------------------------
(* The last admin of an organization.                                       *)

\* w is between the look at a member of o and the change of it.
Changing(w, o) == call[w].op \in Changes /\ call[w].org = o /\ call[w].at \in {"count", "write"}

\* Organizations whose changes never overlapped and whose people nobody took.
Calm(o) == o \in Orgs /\ o \notin disturbed \cup emptied

\* One change at a time.
OneChange ==
    \A o \in Orgs : Calm(o) =>
        \A u, w \in Workers : Changing(u, o) /\ Changing(w, o) => u = w

\* What a change looked up is still there, unless its row was deleted.
StillMember ==
    \A o \in Orgs : Calm(o) =>
        \A w \in Workers : Changing(w, o) /\ ~call[w].gone => Member(call[w].p, o)

\* A change about to take an admin leaves another one.
OtherAdmin ==
    \A o \in Orgs : Calm(o) =>
        \A w \in Workers :
            /\ Changing(w, o) /\ call[w].at = "write" /\ ~call[w].gone
            /\ CostsAnAdmin(call[w].op, users[call[w].p].role, call[w].role)
            => \E q \in Admins(o) : q # call[w].p

\* Only an organization in deletion loses its users.
DeletingEmptied == \A w \in Workers : call[w].at = "users" => call[w].org \in emptied

AdminInv == OneChange /\ StillMember /\ OtherAdmin /\ DeletingEmptied

\* Before the first request there is no change to lose an admin by.
LEMMA InitAdmin == MembershipInit => AdminInv
  BY DEF MembershipInit, AdminInv, OneChange, StillMember, OtherAdmin, DeletingEmptied,
         Changing, Idle, Changes

\* Two admins counted are one more than the member that is changed.
LEMMA TwoAdmins ==
  ASSUME NEW S, NEW p, EnoughAdmins(Cardinality(S))
  PROVE  \E q \in S : q # p
  <1> SUFFICES ASSUME S \subseteq {p} PROVE FALSE
    OBVIOUS
  <1>1. IsFiniteSet({p}) /\ Cardinality({p}) = 1
    BY FS_Singleton
  <1>2. IsFiniteSet(S) /\ Cardinality(S) <= 1
    BY <1>1, FS_Subset
  <1>3. Cardinality(S) \in Nat
    BY <1>2, FS_CardinalityType
  <1> QED BY <1>2, <1>3 DEF EnoughAdmins

\* No admin of a calm organization is lost.
Kept == \A o \in Orgs : Admins(o) # {} /\ Calm(o)' => AdminsOf(users', o) # {}


\* The members of a calm organization keep their rows.
RowsKept ==
    \A o \in Orgs : Calm(o)' => \A q \in People : Member(q, o) => users'[q] = users[q]

\* What was not calm does not become calm.
OnlyRougher == disturbed \subseteq disturbed' /\ emptied \subseteq emptied'

\* Nobody starts or advances a change.
NoNewChange ==
    \A w \in Workers, o \in Orgs :
        Changing(w, o)' => /\ Changing(w, o)
                           /\ call'[w].op = call[w].op /\ call'[w].p = call[w].p
                           /\ call'[w].role = call[w].role /\ call'[w].at = call[w].at
                           /\ ~call'[w].gone => ~call[w].gone

\* A step that neither advances a change nor touches members of calm
\* organizations keeps their admins.
LEMMA AdminFrame ==
  ASSUME Typed, AdminInv, OnlyRougher, RowsKept, NoNewChange, DeletingEmptied'
  PROVE  AdminInv' /\ Kept
  <1>1. \A o \in Orgs : Calm(o)' => Calm(o)
    BY DEF OnlyRougher, Calm
  <1>2. ASSUME NEW o \in Orgs, Calm(o)', NEW q \in Admins(o)
        PROVE  q \in AdminsOf(users', o)
    BY <1>2 DEF RowsKept, Admins, AdminsOf, Member
  <1>3. Kept
    BY <1>2 DEF Kept
  <1>4. OneChange'
    <2> SUFFICES ASSUME NEW o \in Orgs, Calm(o)', NEW u \in Workers, NEW w \in Workers,
                        Changing(u, o)', Changing(w, o)'
                 PROVE  u = w
      BY DEF OneChange
    <2> QED BY <1>1 DEF NoNewChange, AdminInv, OneChange
  <1>5. ASSUME NEW o \in Orgs, Calm(o)', NEW w \in Workers, Changing(w, o)', ~call'[w].gone
        PROVE  /\ Calm(o) /\ Changing(w, o) /\ ~call[w].gone /\ call[w].p \in People
               /\ Member(call[w].p, o) /\ users'[call[w].p] = users[call[w].p]
               /\ call'[w].p = call[w].p
    <2>1. Calm(o) /\ Changing(w, o) /\ ~call[w].gone /\ call'[w].p = call[w].p
      BY <1>1, <1>5 DEF NoNewChange
    <2>2. Member(call[w].p, o)
      BY <2>1 DEF AdminInv, StillMember
    <2>3. call[w].p \in People
      BY <2>1 DEF Typed, CallFits, Changing
    <2> QED BY <1>5, <2>1, <2>2, <2>3 DEF RowsKept
  <1>6. StillMember'
    <2> SUFFICES ASSUME NEW o \in Orgs, Calm(o)', NEW w \in Workers, Changing(w, o)',
                        ~call'[w].gone
                 PROVE  users'[call'[w].p].org = o
      BY DEF StillMember, Member
    <2> QED BY <1>5 DEF Member
  <1>7. OtherAdmin'
    <2> SUFFICES ASSUME NEW o \in Orgs, Calm(o)', NEW w \in Workers, Changing(w, o)',
                        call'[w].at = "write", ~call'[w].gone,
                        CostsAnAdmin(call'[w].op, users'[call'[w].p].role, call'[w].role)
                 PROVE  \E q \in AdminsOf(users', o) : q # call'[w].p
      BY DEF OtherAdmin, Admins
    <2>1. \E q \in Admins(o) : q # call[w].p
      BY <1>5 DEF NoNewChange, AdminInv, OtherAdmin
    <2> QED BY <1>2, <1>5, <2>1
  <1> QED BY <1>3, <1>4, <1>6, <1>7 DEF AdminInv

\* One call that is not a change, or no longer at its look and write.
LEMMA OneCallAdmin ==
  ASSUME Typed, AdminInv, OnlyRougher, RowsKept, NEW w \in Workers, NEW c, Becomes(w, c),
         c.op \in Changes => c.at \notin {"count", "write"},
         c.at = "users" => c.org \in emptied'
  PROVE  AdminInv' /\ Kept
  <1>1. call'[w] = c /\ \A u \in Workers : u # w => call'[u] = call[u]
    BY DEF Becomes, Typed
  <1>2. NoNewChange
    BY <1>1 DEF NoNewChange, Changing
  <1>3. DeletingEmptied'
    BY <1>1 DEF DeletingEmptied, AdminInv, OnlyRougher
  <1> QED BY <1>2, <1>3, AdminFrame

\* Provisioning touches no member of any organization.
LEMMA ProvisionedKeeps ==
  ASSUME Typed, NEW p \in People, users' = Provisioned(p)
  PROVE  RowsKept
  <1> SUFFICES ASSUME NEW o \in Orgs, NEW q \in People, Member(q, o)
               PROVE  users'[q] = users[q]
    BY DEF RowsKept
  <1>1. users[q] # NoRow
    BY ClaimsType DEF Member, NoRow
  <1> QED BY <1>1, ProvisionedType

\* A step that leaves the users alone keeps every row.
LEMMA SameUsersKeep ==
  ASSUME users' = users
  PROVE  RowsKept
  BY DEF RowsKept

\* A step of an invite is a step of no change.
LEMMA InviteAdmin ==
  ASSUME Typed, AdminInv, NEW w \in Workers, InviteStep(w)
  PROVE  AdminInv' /\ Kept
  <1>0. CallFits(call[w]) /\ call \in [Workers -> Calls]
    BY DEF Typed
  <1> USE SameUsersKeep
  <1>1. ASSUME NEW actor \in People, NEW p \in People, NEW role \in GivenRoles,
               StartInvite(w, actor, p, role)
        PROVE  AdminInv' /\ Kept
    <2> DEFINE c == [Request("invite", "pending", Claims[actor].org, actor, p)
                       EXCEPT !.role = role]
    <2>1. OnlyRougher /\ RowsKept
      BY <1>1, ProvisionedKeeps DEF StartInvite, OnlyRougher
    <2>2. c.op = "invite" /\ c.at = "pending"
      BY DEF Request, Idle
    <2>3. CASE Becomes(w, c)
      BY <2>1, <2>2, <2>3, OneCallAdmin DEF Changes
    <2>4. CASE call' = call
      BY <2>1, <2>4, AdminFrame
        DEF NoNewChange, Changing, DeletingEmptied, AdminInv, OnlyRougher
    <2> QED BY <1>1, <2>3, <2>4 DEF StartInvite
  <1>2. ASSUME users' = users \/ RowsKept, disturbed \subseteq disturbed', emptied' = emptied,
               NEW c, Becomes(w, c), c.op \notin Changes, c.at # "users"
        PROVE  AdminInv' /\ Kept
    BY <1>2, OneCallAdmin DEF OnlyRougher
  <1>3. Idle.op = "none" /\ Idle.at = "idle"
    BY DEF Idle
  <1>4. ASSUME call[w].op \notin Changes, NEW step \in Steps, step # "users"
        PROVE  LET c == [call[w] EXCEPT !.at = step] IN c.op \notin Changes /\ c.at # "users"
    BY <1>0, <1>4 DEF CallFits, Calls
  <1>5. CASE CheckPending(w)
    <2>1. call[w].op \notin Changes
      BY <1>0, <1>5 DEF CheckPending, CallFits, Changes
    <2> QED BY <1>2, <1>3, <1>4, <1>5, <2>1
          DEF CheckPending, Goes, tables, history, Changes, Steps
  <1>6. CASE InsertUser(w)
    <2>1. call[w].op \notin Changes /\ call[w].p \in People
      BY <1>0, <1>6 DEF InsertUser, CallFits, Changes
    <2>2. RowsKept
      <3> SUFFICES ASSUME NEW o \in Orgs, NEW q \in People, Member(q, o)
                   PROVE  users'[q] = users[q]
        BY DEF RowsKept
      <3>1. users[q] # NoRow
        BY ClaimsType DEF Member, NoRow
      <3> QED BY <1>6, <2>1, <3>1 DEF InsertUser, Typed, TablesTyped
    <2> QED BY <1>2, <1>3, <1>4, <1>6, <2>1, <2>2 DEF InsertUser, Goes, Changes, Steps
  <1>7. CASE MarkAccepted(w)
    <2>1. call[w].op \notin Changes
      BY <1>0, <1>7 DEF MarkAccepted, CallFits, Changes
    <2> QED BY <1>2, <1>3, <1>4, <1>7, <2>1 DEF MarkAccepted, history, Changes, Steps
  <1>8. CASE RevokeInvite(w)
    BY <1>2, <1>3, <1>8 DEF RevokeInvite, history, Changes
  <1>9. ASSUME NEW i \in Invites, InsertInvite(w, i) PROVE AdminInv' /\ Kept
    <2>1. call[w].op \notin Changes
      BY <1>9 DEF InsertInvite, Changes
    <2> QED BY <1>2, <1>4, <1>9, <2>1 DEF InsertInvite, Goes, history, Steps
  <1>10. ASSUME NEW i \in Invites, ExpireInvite(w, i) PROVE AdminInv' /\ Kept
    <2> DEFINE c == [call[w] EXCEPT !.todo = @ \ {i}]
    <2>1. c.op \notin Changes /\ c.at # "users"
      BY <1>0, <1>10 DEF ExpireInvite, CallFits, Calls, Changes
    <2> QED BY <1>2, <1>3, <1>10, <2>1 DEF ExpireInvite, history, Changes
  <1>11. ASSUME NEW i \in Invites, NEW p \in People, StartAccept(w, i, p)
         PROVE  AdminInv' /\ Kept
    <2>1. PICK step \in {"expire", "mark_only", "insert"} :
            Becomes(w, [Request("accept", step, invites[i].org, p, p)
                          EXCEPT !.todo = {i}, !.role = invites[i].role])
      BY <1>11 DEF StartAccept
    <2> DEFINE c == [Request("accept", step, invites[i].org, p, p)
                       EXCEPT !.todo = {i}, !.role = invites[i].role]
    <2>2. c.op \notin Changes /\ c.at # "users"
      BY DEF Request, Idle, Changes
    <2> QED BY <1>2, <1>11, <2>1, <2>2 DEF StartAccept, tables, Touched
  <1>12. ASSUME NEW i \in Invites, NEW p \in People, StartRevoke(w, i, p)
         PROVE  AdminInv' /\ Kept
    <2> DEFINE c == [Request("revoke", "revoke", invites[i].org, None, None)
                       EXCEPT !.todo = {i}]
    <2>1. c.op \notin Changes /\ c.at # "users"
      BY DEF Request, Idle, Changes
    <2> QED BY <1>2, <1>12, <2>1 DEF StartRevoke, tables, Touched
  <1>13. ASSUME NEW i \in Invites, NEW p \in People, Resend(w, i, p)
         PROVE  AdminInv' /\ Kept
    <2>1. call' = call /\ OnlyRougher /\ RowsKept
      BY <1>13 DEF Resend, OnlyRougher
    <2> QED BY <1>13, <2>1, AdminFrame
          DEF NoNewChange, Changing, DeletingEmptied, AdminInv, OnlyRougher
  <1>14. ASSUME NEW p \in People, StartList(w, p) PROVE AdminInv' /\ Kept
    <2>1. PICK late \in SUBSET Invites :
            /\ Becomes(w, [Request("list", "expire", Claims[p].org, None, None)
                             EXCEPT !.todo = late])
            /\ Touched(late)
      BY <1>14 DEF StartList
    <2> DEFINE c == [Request("list", "expire", Claims[p].org, None, None) EXCEPT !.todo = late]
    <2>2. c.op \notin Changes /\ c.at # "users"
      BY DEF Request, Idle, Changes
    <2> QED BY <1>2, <1>14, <2>1, <2>2 DEF StartList, tables, Touched
  <1> QED BY <1>1, <1>5, <1>6, <1>7, <1>8, <1>9, <1>10, <1>11, <1>12, <1>13, <1>14
        DEF InviteStep

\* What deletion of rows does to a call.
LEMMA DeletedIs ==
  ASSUME NEW calls \in [Workers -> Calls], NEW gone, NEW w \in Workers
  PROVE  LET c == Deleted(calls, gone)[w] IN
         /\ c.op = calls[w].op /\ c.at = calls[w].at /\ c.org = calls[w].org
         /\ c.p = calls[w].p /\ c.role = calls[w].role /\ c.todo = calls[w].todo
         /\ c.actor = calls[w].actor
         /\ c.gone <=> \/ calls[w].gone
                       \/ /\ calls[w].op \in Changes /\ calls[w].p \in gone
                          /\ calls[w].at \in {"count", "write"}
  BY DEF Deleted, Calls


\* A change begins: nobody else may change in that organization, and one that
\* skips the count takes no admin.
LEMMA StartChangeAdmin ==
  ASSUME Typed, AdminInv, NEW w \in Workers, NEW op \in Changes, NEW actor \in People,
         NEW p \in People, NEW role \in GivenRoles, StartChange(w, op, actor, p, role)
  PROVE  AdminInv' /\ Kept
  <1> DEFINE o == Claims[actor].org
  <1>1. users' = users /\ emptied' = emptied /\ disturbed \subseteq disturbed'
    BY DEF StartChange, tables
  <1>2. \A x \in Orgs : Calm(x)' => Calm(x)
    BY <1>1 DEF Calm
  <1>3. PICK c : /\ call' = [call EXCEPT ![w] = c]
                 /\ c.op = op /\ c.org = o /\ c.p = p /\ c.role = role
                 /\ c.at \in {"count", "write"}
                 /\ c.at = "write" => ~CostsAnAdmin(op, users[p].role, role)
    <2> DEFINE a == [Request(op, "write", o, actor, p) EXCEPT !.role = role]
               b == [a EXCEPT !.at = "count"]
    <2>1. /\ a.op = op /\ a.org = o /\ a.p = p /\ a.role = role /\ a.at = "write"
          /\ b.op = op /\ b.org = o /\ b.p = p /\ b.role = role /\ b.at = "count"
      BY DEF Request, Idle
    <2>2. Becomes(w, IF CostsAnAdmin(op, users[p].role, role) THEN b ELSE a)
      BY DEF StartChange
    <2> HIDE DEF a, b
    <2> QED BY <2>1, <2>2 DEF Becomes
  <1>4. call'[w] = c /\ \A u \in Workers : u # w => call'[u] = call[u]
    BY <1>3 DEF Typed
  <1>5. ASSUME Calm(o)' PROVE \A u \in Workers : ~Changing(u, o)
    BY <1>5 DEF StartChange, ChangingIn, Changing, Calm
  <1>6. Kept
    BY <1>1, <1>2 DEF Kept, Admins
  <1>7. OneChange'
    BY <1>2, <1>3, <1>4, <1>5 DEF AdminInv, OneChange, Changing
  <1>8. StillMember'
    <2>1. Member(p, o)
      BY DEF StartChange
    <2> QED BY <1>1, <1>2, <1>3, <1>4, <2>1 DEF AdminInv, StillMember, Changing, Member
  <1>9. OtherAdmin'
    BY <1>1, <1>2, <1>3, <1>4 DEF AdminInv, OtherAdmin, Changing, Admins, AdminsOf
  <1>10. DeletingEmptied'
    BY <1>1, <1>3, <1>4 DEF AdminInv, DeletingEmptied
  <1> QED BY <1>6, <1>7, <1>8, <1>9, <1>10 DEF AdminInv

\* The count: it lets a change pass that leaves another admin.
LEMMA CountAdmin ==
  ASSUME Typed, AdminInv, NEW w \in Workers, CountAdmins(w)
  PROVE  AdminInv' /\ Kept
  <1>1. UNCHANGED <<users, disturbed, emptied>> /\ call[w].at = "count"
    BY DEF CountAdmins, tables, history
  <1>2. CASE Becomes(w, Idle)
    <2>1. Idle.op = "none" /\ Idle.at = "idle"
      BY DEF Idle
    <2> QED BY <1>1, <1>2, <2>1, SameUsersKeep, OneCallAdmin DEF OnlyRougher, Changes
  <1>3. CASE Goes(w, "write") /\ EnoughAdmins(Cardinality(Admins(call[w].org)))
    <2>1. /\ call'[w].op = call[w].op /\ call'[w].org = call[w].org
          /\ call'[w].p = call[w].p /\ call'[w].role = call[w].role
          /\ call'[w].gone = call[w].gone /\ call'[w].at = "write"
          /\ \A u \in Workers : u # w => call'[u] = call[u]
      BY <1>3 DEF Goes, Becomes, Typed, Calls
    <2>2. \E q \in Admins(call[w].org) : q # call[w].p
      BY <1>3, TwoAdmins
    <2>3. Kept
      BY <1>1 DEF Kept, Calm, Admins
    <2>4. OneChange'
      BY <1>1, <2>1 DEF AdminInv, OneChange, Changing, Calm
    <2>5. StillMember'
      BY <1>1, <2>1 DEF AdminInv, StillMember, Changing, Calm, Member
    <2>6. OtherAdmin'
      BY <1>1, <2>1, <2>2 DEF AdminInv, OtherAdmin, Changing, Calm, Admins, AdminsOf
    <2>7. DeletingEmptied'
      BY <1>1, <2>1 DEF AdminInv, DeletingEmptied
    <2> QED BY <2>3, <2>4, <2>5, <2>6, <2>7 DEF AdminInv
  <1> QED BY <1>2, <1>3 DEF CountAdmins

\* The write: in a calm organization what was counted still holds.
LEMMA WriteAdmin ==
  ASSUME Typed, AdminInv, NEW w \in Workers, WriteChange(w)
  PROVE  AdminInv' /\ Kept
  <1> DEFINE me == call[w]
             hit == ~me.gone /\ Member(me.p, me.org)
             c == [me EXCEPT !.at = "audit"]
             calls == [call EXCEPT ![w] = c]
             gone == IF hit /\ me.op # "role" THEN {me.p} ELSE {}
  <1>1. /\ me.op \in Changes /\ me.p \in People /\ me.org \in Orgs /\ me.role \in Roles
        /\ me.at = "write" /\ Changing(w, me.org)
    BY DEF WriteChange, Typed, CallFits, Calls, Changing
  <1>2. UNCHANGED <<disturbed, emptied>> /\ \A x \in Orgs : Calm(x)' <=> Calm(x)
    BY DEF WriteChange, history, Calm
  <1>3. \A u \in Workers :
          /\ call'[u].op = call[u].op /\ call'[u].org = call[u].org
          /\ call'[u].p = call[u].p /\ call'[u].role = call[u].role
          /\ call'[u].at = IF u = w THEN "audit" ELSE call[u].at
          /\ ~call'[u].gone => ~call[u].gone
    <2>1. calls \in [Workers -> Calls]
      BY DEF Typed, Calls, Steps
    <2>2. call' = Deleted(calls, gone)
      BY DEF WriteChange
    <2>3. calls[w] = c /\ \A u \in Workers : u # w => calls[u] = call[u]
      BY DEF Typed
    <2>4. /\ c.op = me.op /\ c.org = me.org /\ c.p = me.p /\ c.role = me.role
          /\ c.at = "audit" /\ c.gone = me.gone
      BY DEF Typed, Calls
    <2> HIDE DEF calls, gone, c
    <2> QED BY <2>1, <2>2, <2>3, <2>4, DeletedIs
  <1>4. \A q \in People : q # me.p \/ ~hit => users'[q] = users[q]
    BY <1>1 DEF WriteChange, Typed, TablesTyped
  <1>5. hit /\ me.op = "role" => users'[me.p].org = me.org /\ users'[me.p].role = me.role
    <2> SUFFICES ASSUME hit, me.op = "role"
                 PROVE  users'[me.p].org = me.org /\ users'[me.p].role = me.role
      OBVIOUS
    <2>1. users' = [users EXCEPT ![me.p] = [@ EXCEPT !.role = me.role]]
      BY DEF WriteChange
    <2>2. users'[me.p] = [users[me.p] EXCEPT !.role = me.role] /\ users[me.p] \in Users
      BY <1>1, <2>1 DEF Typed, TablesTyped
    <2> QED BY <1>1, <2>2 DEF Users, Member
  <1> HIDE DEF hit, gone, calls, c
  <1>6. ASSUME NEW x \in Orgs, x # me.org, NEW q \in People, Member(q, x)
        PROVE  users'[q] = users[q]
    BY <1>4, <1>6 DEF Member, hit
  <1>7. ASSUME NEW x \in Orgs, Calm(x), NEW u \in Workers, Changing(u, x)'
        PROVE  /\ Changing(u, x) /\ u # w /\ x # me.org /\ call[u].p \in People
               /\ call[u].at = "write" <=> call'[u].at = "write"
    <2>1. Changing(u, x) /\ u # w
      BY <1>3, <1>7 DEF Changing
    <2>2. x # me.org
      BY <1>1, <1>7, <2>1 DEF AdminInv, OneChange
    <2> QED BY <1>3, <2>1, <2>2 DEF Typed, CallFits, Changing
  <1>8. Kept
    <2> SUFFICES ASSUME NEW x \in Orgs, Calm(x), NEW a \in Admins(x)
                 PROVE  \E q \in People : users'[q].org = x /\ IsAdmin(users'[q].role)
      BY <1>2 DEF Kept, AdminsOf
    <2>1. a \in People /\ Member(a, x) /\ IsAdmin(users[a].role)
      BY DEF Admins, AdminsOf, Member
    <2>2. CASE x # me.org \/ ~hit
      BY <1>4, <1>6, <2>1, <2>2 DEF Member
    <2>3. CASE x = me.org /\ hit /\ CostsAnAdmin(me.op, users[me.p].role, me.role)
      <3>1. PICK q \in Admins(x) : q # me.p
        BY <1>1, <2>3 DEF AdminInv, OtherAdmin, hit
      <3> QED BY <1>4, <3>1 DEF Admins, AdminsOf
    <2>4. CASE x = me.org /\ hit /\ ~CostsAnAdmin(me.op, users[me.p].role, me.role)
      <3>1. CASE a = me.p
        BY <1>1, <1>5, <2>1, <2>4, <3>1 DEF CostsAnAdmin
      <3>2. CASE a # me.p
        BY <1>4, <2>1, <3>2 DEF Member
      <3> QED BY <3>1, <3>2
    <2> QED BY <2>2, <2>3, <2>4
  <1>9. OneChange'
    BY <1>2, <1>7 DEF AdminInv, OneChange
  <1>10. StillMember'
    <2> SUFFICES ASSUME NEW x \in Orgs, Calm(x), NEW u \in Workers, Changing(u, x)',
                        ~call'[u].gone
                 PROVE  users'[call'[u].p].org = x
      BY <1>2 DEF StillMember, Member
    <2>1. Member(call[u].p, x)
      BY <1>3, <1>7 DEF AdminInv, StillMember
    <2> QED BY <1>3, <1>6, <1>7, <2>1 DEF Member
  <1>11. OtherAdmin'
    <2> SUFFICES ASSUME NEW x \in Orgs, Calm(x), NEW u \in Workers, Changing(u, x)',
                        call'[u].at = "write", ~call'[u].gone,
                        CostsAnAdmin(call'[u].op, users'[call'[u].p].role, call'[u].role)
                 PROVE  \E q \in AdminsOf(users', x) : q # call'[u].p
      BY <1>2 DEF OtherAdmin, Admins
    <2>1. Member(call[u].p, x)
      BY <1>3, <1>7 DEF AdminInv, StillMember
    <2>2. users'[call[u].p] = users[call[u].p]
      BY <1>6, <1>7, <2>1
    <2>3. PICK q \in Admins(x) : q # call[u].p
      BY <1>3, <1>7, <2>2 DEF AdminInv, OtherAdmin
    <2>4. users'[q] = users[q]
      BY <1>6, <1>7, <2>3 DEF Admins, AdminsOf, Member
    <2> QED BY <1>3, <2>3, <2>4 DEF Admins, AdminsOf
  <1>12. DeletingEmptied'
    BY <1>2, <1>3 DEF AdminInv, DeletingEmptied
  <1> QED BY <1>8, <1>9, <1>10, <1>11, <1>12 DEF AdminInv

\* Every step keeps the admins of calm organizations.
LEMMA StepAdmin ==
  ASSUME Typed, AdminInv, [MembershipNext]_mvars
  PROVE  AdminInv' /\ Kept
  <1> USE SameUsersKeep
  <1>1. Idle.op = "none" /\ Idle.at = "idle"
    BY DEF Idle
  <1>2. ASSUME OnlyRougher, RowsKept, call' = call
        PROVE  AdminInv' /\ Kept
    BY <1>2, AdminFrame DEF NoNewChange, Changing, DeletingEmptied, AdminInv, OnlyRougher
  <1>3. ASSUME NEW w \in Workers, OnlyRougher, RowsKept, Becomes(w, Idle)
        PROVE  AdminInv' /\ Kept
    BY <1>1, <1>3, OneCallAdmin DEF Changes
  <1>4. CASE \E p \in People : Login(p)
    BY <1>2, <1>4, ProvisionedKeeps DEF Login, OnlyRougher, history
  <1>5. ASSUME NEW w \in Workers, TeamStep(w) PROVE AdminInv' /\ Kept
    <2>1. CASE \E op \in Changes, actor, p \in People, role \in GivenRoles :
                 StartChange(w, op, actor, p, role)
      BY <2>1, StartChangeAdmin
    <2>2. CASE CountAdmins(w)
      BY <2>2, CountAdmin
    <2>3. CASE WriteChange(w)
      BY <2>3, WriteAdmin
    <2>4. CASE Audit(w)
      <3>1. call[w].op = "invite" => call[w].actor \in People
        BY DEF Typed, CallFits
      <3>2. RowsKept
        BY <2>4, <3>1, ProvisionedKeeps DEF Audit
      <3> QED BY <1>3, <2>4, <3>2 DEF Audit, history, OnlyRougher
    <2>5. ASSUME NEW actor \in People, NEW o \in Orgs, CreateOrg(w, actor, o)
          PROVE  AdminInv' /\ Kept
      <3> DEFINE c == Request("create_org", "audit", o, actor, actor)
      <3>1. c.op = "create_org" /\ c.at = "audit"
        BY DEF Request, Idle
      <3>2. RowsKept
        BY <2>5, ClaimsType DEF CreateOrg, RowsKept, Calm, Member, Typed, TablesTyped
      <3>3. OnlyRougher /\ Becomes(w, c)
        BY <2>5 DEF CreateOrg, OnlyRougher
      <3> HIDE DEF c
      <3> QED BY <3>1, <3>2, <3>3, OneCallAdmin DEF Changes
    <2>6. ASSUME NEW o \in Orgs, DeleteInvites(w, o) PROVE AdminInv' /\ Kept
      <3> DEFINE c == Request("delete_org", "users", o, None, None)
      <3>1. c.op = "delete_org" /\ c.at = "users" /\ c.org = o
        BY DEF Request, Idle
      <3>2. OnlyRougher /\ RowsKept /\ Becomes(w, c) /\ o \in emptied'
        BY <2>6 DEF DeleteInvites, OnlyRougher
      <3> HIDE DEF c
      <3> QED BY <3>1, <3>2, OneCallAdmin DEF Changes
    <2>7. CASE DeleteUsers(w)
      <3> DEFINE calls == [call EXCEPT ![w] = Idle]
      <3>1. PICK gone : call' = Deleted(calls, gone)
        BY <2>7 DEF DeleteUsers
      <3>2. calls \in [Workers -> Calls]
        BY DEF Typed, CallFits, Idle, Calls, Ops, Steps, Somewhere, Someone, Roles
      <3>3. calls[w] = Idle /\ \A u \in Workers : u # w => calls[u] = call[u]
        BY DEF Typed
      <3> HIDE DEF calls
      <3>4. \A u \in Workers :
              /\ call'[u].op = calls[u].op /\ call'[u].org = calls[u].org
              /\ call'[u].p = calls[u].p /\ call'[u].role = calls[u].role
              /\ call'[u].at = calls[u].at /\ (~call'[u].gone => ~calls[u].gone)
        BY <3>1, <3>2, DeletedIs
      <3>5. NoNewChange
        BY <1>1, <3>3, <3>4 DEF NoNewChange, Changing, Changes
      <3>6. OnlyRougher /\ DeletingEmptied'
        BY <1>1, <2>7, <3>3, <3>4
          DEF DeleteUsers, history, OnlyRougher, DeletingEmptied, AdminInv
      <3>7. RowsKept
        BY <2>7 DEF DeleteUsers, history, RowsKept, Calm, Member, AdminInv, DeletingEmptied,
                    Typed, TablesTyped
      <3> QED BY <3>5, <3>6, <3>7, AdminFrame DEF AdminInv
    <2> QED BY <1>5, <2>1, <2>2, <2>3, <2>4, <2>5, <2>6, <2>7 DEF TeamStep
  <1>6. ASSUME NEW w \in Workers, InviteStep(w) PROVE AdminInv' /\ Kept
    BY <1>6, InviteAdmin
  <1>7. ASSUME NEW w \in Workers, Crash(w) PROVE AdminInv' /\ Kept
    BY <1>3, <1>7 DEF Crash, tables, OnlyRougher
  <1>8. CASE Tick
    BY <1>2, <1>8 DEF Tick, tables, history, OnlyRougher
  <1>9. CASE UNCHANGED mvars
    BY <1>2, <1>9 DEF mvars, tables, history, OnlyRougher
  <1> QED BY <1>4, <1>5, <1>6, <1>7, <1>8, <1>9 DEF MembershipNext

\* AdminRemains, for any number of people, organizations and workers.
THEOREM AdminsRemain == MembershipSpec => AdminRemains
  <1>1. MembershipInit => Typed /\ AdminInv
    BY InitTyped, InitAdmin
  <1>2. Typed /\ AdminInv /\ [MembershipNext]_mvars => (Typed /\ AdminInv)'
    BY StepTyped, StepAdmin
  <1>3. ASSUME Typed, AdminInv, [MembershipNext]_mvars
        PROVE  \A o \in Orgs :
                 Admins(o) # {} /\ o \notin disturbed' \cup emptied' => AdminsOf(users', o) # {}
    BY <1>3, StepAdmin DEF Kept, Calm
  <1> QED BY <1>1, <1>2, <1>3, PTL DEF MembershipSpec, AdminRemains


-----------------------------------------------------------------------------
(* One pending invite per email.                                            *)

\* w is between the first look of create_invite and its INSERT.
Inviting(w, p, o) ==
    call[w].op = "invite" /\ call[w].p = p /\ call[w].org = o /\ call[w].at # "audit"

\* Invitations of one person to one organization that never overlapped.
Apart(p, o) == o \in Orgs /\ p \in People /\ <<o, p>> \notin disturbed

OneInviting ==
    \A o \in Orgs, p \in People : Apart(p, o) =>
        \A u, w \in Workers : Inviting(u, p, o) /\ Inviting(w, p, o) => u = w

\* What is about to be inserted is still the first.
NothingPending ==
    \A o \in Orgs, p \in People : Apart(p, o) =>
        \A w \in Workers : Inviting(w, p, o) /\ call[w].at = "insert" =>
                             PendingFor(p, o) \subseteq resent

PendingInv == OneInviting /\ NothingPending /\ OnePending

\* Nothing is pending at first.
LEMMA InitPending == MembershipInit => PendingInv
  BY DEF MembershipInit, PendingInv, OneInviting, NothingPending, OnePending, Inviting, Idle,
         IsPending, NoInvite

\* What was not apart does not come apart; what becomes pending was resent.
OnlyFewerPending ==
    /\ disturbed \subseteq disturbed'
    /\ \A i \in Invites : IsPending(i)' /\ i \notin resent' =>
         /\ IsPending(i) /\ i \notin resent
         /\ invites'[i].org = invites[i].org /\ invites'[i].email = invites[i].email

\* Nobody starts or advances an invitation.
NoNewInviting ==
    \A w \in Workers, o \in Orgs, p \in People :
        Inviting(w, p, o)' => Inviting(w, p, o) /\ call'[w].at = call[w].at

\* Such steps keep one pending invite per email.
LEMMA PendingKept ==
  ASSUME Typed, OnePending, OnlyFewerPending
  PROVE  OnePending'
  <1> SUFFICES ASSUME NEW i \in Invites, NEW j \in Invites, i # j, IsPending(i)', IsPending(j)',
                      invites'[j].email = invites'[i].email, invites'[j].org = invites'[i].org,
                      i \notin resent', j \notin resent'
               PROVE  <<invites'[i].org, invites'[i].email>> \in disturbed'
    BY DEF OnePending, PendingFor
  <1> QED BY DEF OnlyFewerPending, OnePending, PendingFor

\* A step that makes nothing pending and advances no invitation keeps PendingInv.
LEMMA PendingFrame ==
  ASSUME Typed, PendingInv, OnlyFewerPending, NoNewInviting
  PROVE  PendingInv'
  <1>1. \A o \in Orgs, p \in People : Apart(p, o)' => Apart(p, o)
    BY DEF OnlyFewerPending, Apart
  <1>2. OneInviting'
    <2> SUFFICES ASSUME NEW o \in Orgs, NEW p \in People, Apart(p, o)', NEW u \in Workers,
                        NEW w \in Workers, Inviting(u, p, o)', Inviting(w, p, o)'
                 PROVE  u = w
      BY DEF OneInviting
    <2> QED BY <1>1 DEF NoNewInviting, PendingInv, OneInviting
  <1>3. NothingPending'
    <2> SUFFICES ASSUME NEW o \in Orgs, NEW p \in People, Apart(p, o)', NEW w \in Workers,
                        Inviting(w, p, o)', call'[w].at = "insert",
                        NEW i \in Invites, IsPending(i)', invites'[i].email = p,
                        invites'[i].org = o, i \notin resent'
                 PROVE  FALSE
      BY DEF NothingPending, PendingFor
    <2>1. PendingFor(p, o) \subseteq resent
      BY <1>1 DEF NoNewInviting, PendingInv, NothingPending
    <2> QED BY <2>1 DEF OnlyFewerPending, PendingFor
  <1> QED BY <1>2, <1>3, PendingKept DEF PendingInv

\* One call that is no invitation before its INSERT.
LEMMA OneCallPending ==
  ASSUME Typed, PendingInv, OnlyFewerPending, NEW w \in Workers, NEW c, Becomes(w, c),
         c.op = "invite" => c.at = "audit"
  PROVE  PendingInv'
  <1>1. call'[w] = c /\ \A u \in Workers : u # w => call'[u] = call[u]
    BY DEF Becomes, Typed
  <1>2. NoNewInviting
    BY <1>1 DEF NoNewInviting, Inviting
  <1> QED BY <1>2, PendingFrame

\* The first look: nobody else invites this person to this organization.
LEMMA StartInvitePending ==
  ASSUME Typed, PendingInv, NEW w \in Workers, NEW actor \in People, NEW p \in People,
         NEW role \in GivenRoles, StartInvite(w, actor, p, role)
  PROVE  PendingInv'
  <1> DEFINE o == Claims[actor].org
             c == [Request("invite", "pending", o, actor, p) EXCEPT !.role = role]
  <1>1. OnlyFewerPending
    BY DEF StartInvite, OnlyFewerPending, IsPending
  <1>2. CASE call' = call
    BY <1>1, <1>2, PendingFrame DEF NoNewInviting, Inviting
  <1>3. CASE Becomes(w, c) /\ disturbed' = IF InvitingTo(p, o) THEN disturbed \cup {<<o, p>>}
                                                               ELSE disturbed
    <2>1. c.op = "invite" /\ c.at = "pending" /\ c.p = p /\ c.org = o
      BY DEF Request, Idle
    <2> HIDE DEF c
    <2>2. call'[w] = c /\ \A u \in Workers : u # w => call'[u] = call[u]
      BY <1>3 DEF Becomes, Typed
    <2>3. Apart(p, o)' => \A u \in Workers : ~Inviting(u, p, o)
      BY <1>3 DEF Apart, Inviting, InvitingTo
    <2>4. \A y \in Orgs, x \in People : Apart(x, y)' => Apart(x, y)
      BY <1>1 DEF OnlyFewerPending, Apart
    <2>5. OneInviting'
      BY <2>1, <2>2, <2>3, <2>4 DEF PendingInv, OneInviting, Inviting
    <2>6. NothingPending'
      BY <2>1, <2>2, <2>4 DEF StartInvite, PendingInv, NothingPending, Inviting, PendingFor,
                              IsPending
    <2> QED BY <1>1, <2>5, <2>6, PendingKept DEF PendingInv
  <1> QED BY <1>2, <1>3 DEF StartInvite

\* The second look: nothing is pending.
LEMMA CheckPendingPending ==
  ASSUME Typed, PendingInv, NEW w \in Workers, CheckPending(w)
  PROVE  PendingInv'
  <1>1. OnlyFewerPending /\ UNCHANGED <<invites, disturbed, resent>>
    BY DEF CheckPending, tables, history, OnlyFewerPending, IsPending
  <1>2. CASE Becomes(w, Idle)
    BY <1>1, <1>2, OneCallPending DEF Idle
  <1>3. CASE Goes(w, "insert") /\ PendingFor(call[w].p, call[w].org) = {}
    <2>1. /\ call'[w].op = call[w].op /\ call'[w].p = call[w].p
          /\ call'[w].org = call[w].org /\ call'[w].at = "insert"
          /\ \A u \in Workers : u # w => call'[u] = call[u]
      BY <1>3 DEF Goes, Becomes, Typed, Calls
    <2>2. call[w].at # "audit"
      BY DEF CheckPending
    <2>3. OneInviting'
      BY <1>1, <2>1, <2>2 DEF PendingInv, OneInviting, Inviting, Apart
    <2>4. NothingPending'
      BY <1>1, <1>3, <2>1, <2>2 DEF PendingInv, NothingPending, Inviting, Apart, PendingFor,
                                    IsPending
    <2> QED BY <1>1, <2>3, <2>4, PendingKept DEF PendingInv
  <1> QED BY <1>2, <1>3 DEF CheckPending, AlreadyInvited

\* The INSERT: what is pending for this person was resent.
LEMMA InsertPending ==
  ASSUME Typed, PendingInv, NEW w \in Workers, NEW i \in Invites, InsertInvite(w, i)
  PROVE  PendingInv'
  <1> DEFINE o == call[w].org
             p == call[w].p
  <1>1. /\ Inviting(w, p, o) /\ call[w].at = "insert" /\ o \in Orgs /\ p \in People
    BY DEF InsertInvite, Inviting, Typed, CallFits
  <1>2. /\ call'[w].at = "audit" /\ \A u \in Workers : u # w => call'[u] = call[u]
        /\ disturbed' = disturbed /\ resent' = resent
    BY DEF InsertInvite, Goes, Becomes, Typed, Calls, history
  <1>3. /\ invites'[i].org = o /\ invites'[i].email = p
        /\ \A j \in Invites : j # i => invites'[j] = invites[j]
    BY DEF InsertInvite, Typed, TablesTyped
  <1>4. OneInviting'
    BY <1>2 DEF PendingInv, OneInviting, Inviting, Apart
  <1>5. NothingPending'
    <2> SUFFICES ASSUME NEW y \in Orgs, NEW x \in People, Apart(x, y), NEW u \in Workers,
                        u # w, Inviting(u, x, y), call[u].at = "insert",
                        NEW j \in Invites, IsPending(j)', invites'[j].email = x,
                        invites'[j].org = y
                 PROVE  j \in resent
      BY <1>2 DEF NothingPending, PendingFor, Inviting, Apart
    <2>1. j # i
      BY <1>1, <1>3 DEF PendingInv, OneInviting
    <2> QED BY <1>3, <2>1 DEF PendingInv, NothingPending, PendingFor, IsPending
  <1>6. OnePending'
    <2> SUFFICES ASSUME NEW j \in Invites, NEW k \in Invites, j # k, IsPending(j)', IsPending(k)',
                        invites'[k].email = invites'[j].email, invites'[k].org = invites'[j].org,
                        j \notin resent, k \notin resent,
                        <<invites'[j].org, invites'[j].email>> \notin disturbed
                 PROVE  FALSE
      BY <1>2 DEF OnePending, PendingFor
    <2>1. CASE j # i /\ k # i
      BY <1>3, <2>1 DEF PendingInv, OnePending, PendingFor, IsPending
    <2>2. CASE j = i \/ k = i
      <3>1. PICK m \in {j, k} : m # i
        BY <2>2
      <3>2. m \in PendingFor(p, o) /\ m \notin resent /\ Apart(p, o)
        BY <1>1, <1>3, <2>2, <3>1 DEF PendingFor, IsPending, Apart
      <3> QED BY <1>1, <3>2 DEF PendingInv, NothingPending
    <2> QED BY <2>1, <2>2
  <1> QED BY <1>4, <1>5, <1>6 DEF PendingInv


\* An update of invites makes nothing pending.
LEMMA MarkedPends ==
  ASSUME Typed, NEW S, NEW st, st # "pending", invites' = Marked(S, st),
         UNCHANGED <<disturbed, resent>>
  PROVE  OnlyFewerPending
  BY DEF Marked, OnlyFewerPending, IsPending, Typed, TablesTyped, InviteRows

\* Every step of a member change keeps one pending invite per email.
LEMMA TeamPending ==
  ASSUME Typed, PendingInv, NEW w \in Workers, TeamStep(w)
  PROVE  PendingInv'
  <1>0. CallFits(call[w]) /\ call \in [Workers -> Calls]
    BY DEF Typed
  <1>1. ASSUME disturbed \subseteq disturbed', UNCHANGED <<invites, resent>>
        PROVE  OnlyFewerPending
    BY <1>1 DEF OnlyFewerPending, IsPending
  <1>2. ASSUME NEW op \in Changes, NEW actor \in People, NEW p \in People,
               NEW role \in GivenRoles, StartChange(w, op, actor, p, role)
        PROVE  PendingInv'
    <2>1. PICK c : Becomes(w, c) /\ c.op = op
      <3> DEFINE a == [Request(op, "write", Claims[actor].org, actor, p) EXCEPT !.role = role]
      <3>1. a.op = op /\ [a EXCEPT !.at = "count"].op = op
        BY DEF Request, Idle
      <3> QED BY <1>2, <3>1 DEF StartChange
    <2>2. c.op # "invite"
      BY <2>1 DEF Changes
    <2> QED BY <1>1, <1>2, <2>1, <2>2, OneCallPending DEF StartChange, tables
  <1>3. CASE CountAdmins(w)
    <2>1. [call[w] EXCEPT !.at = "write"].op = call[w].op /\ call[w].op # "invite"
      BY <1>0, <1>3 DEF CountAdmins, CallFits, Calls, Changes
    <2> QED BY <1>1, <1>3, <2>1, OneCallPending DEF CountAdmins, Goes, Idle, tables, history
  <1>4. CASE WriteChange(w)
    <2> DEFINE c == [call[w] EXCEPT !.at = "audit"]
               calls == [call EXCEPT ![w] = c]
    <2>1. PICK gone : call' = Deleted(calls, gone)
      BY <1>4 DEF WriteChange
    <2>2. calls \in [Workers -> Calls] /\ c.at = "audit"
      BY <1>0 DEF Calls, Steps
    <2>3. calls[w] = c /\ \A u \in Workers : u # w => calls[u] = call[u]
      BY <1>0
    <2> HIDE DEF calls, c
    <2>4. \A u \in Workers :
            /\ call'[u].op = calls[u].op /\ call'[u].org = calls[u].org
            /\ call'[u].p = calls[u].p /\ call'[u].at = calls[u].at
      BY <2>1, <2>2, DeletedIs
    <2>5. NoNewInviting
      BY <2>2, <2>3, <2>4 DEF NoNewInviting, Inviting
    <2> QED BY <1>1, <1>4, <2>5, PendingFrame DEF WriteChange, history
  <1>5. CASE Audit(w)
    BY <1>1, <1>5, OneCallPending DEF Audit, Idle, history
  <1>6. ASSUME NEW actor \in People, NEW o \in Orgs, CreateOrg(w, actor, o) PROVE PendingInv'
    BY <1>1, <1>6, OneCallPending DEF CreateOrg, Request, Idle
  <1>7. ASSUME NEW o \in Orgs, DeleteInvites(w, o) PROVE PendingInv'
    <2>1. OnlyFewerPending
      <3> SUFFICES ASSUME NEW i \in Invites, IsPending(i)'
                   PROVE  invites'[i] = invites[i]
        BY <1>7 DEF DeleteInvites, OnlyFewerPending, IsPending
      <3>1. invites'[i] = IF invites[i].org = o THEN [invites[i] EXCEPT !.st = "deleted"]
                                                ELSE invites[i]
        BY <1>7 DEF DeleteInvites
      <3>2. invites[i].org # o
        BY <3>1 DEF IsPending, Typed, TablesTyped, InviteRows
      <3> QED BY <3>1, <3>2
    <2> QED BY <1>7, <2>1, OneCallPending DEF DeleteInvites, Request, Idle
  <1>8. CASE DeleteUsers(w)
    <2> DEFINE calls == [call EXCEPT ![w] = Idle]
    <2>1. PICK gone : call' = Deleted(calls, gone)
      BY <1>8 DEF DeleteUsers
    <2>2. calls \in [Workers -> Calls] /\ Idle.op = "none"
      BY <1>0, IdleFits DEF CallFits, Idle
    <2>3. calls[w] = Idle /\ \A u \in Workers : u # w => calls[u] = call[u]
      BY <1>0
    <2> HIDE DEF calls
    <2>4. \A u \in Workers :
            /\ call'[u].op = calls[u].op /\ call'[u].org = calls[u].org
            /\ call'[u].p = calls[u].p /\ call'[u].at = calls[u].at
      BY <2>1, <2>2, DeletedIs
    <2>5. NoNewInviting
      BY <2>2, <2>3, <2>4 DEF NoNewInviting, Inviting
    <2> QED BY <1>1, <1>8, <2>5, PendingFrame DEF DeleteUsers, history
  <1> QED BY <1>2, <1>3, <1>4, <1>5, <1>6, <1>7, <1>8 DEF TeamStep

\* Every step of an invite keeps one pending invite per email.
LEMMA InvitePending ==
  ASSUME Typed, PendingInv, NEW w \in Workers, InviteStep(w)
  PROVE  PendingInv'
  <1>0. CallFits(call[w]) /\ call \in [Workers -> Calls]
    BY DEF Typed
  <1>1. ASSUME disturbed \subseteq disturbed', UNCHANGED <<invites, resent>>
        PROVE  OnlyFewerPending
    BY <1>1 DEF OnlyFewerPending, IsPending
  <1>2. CASE \E actor, p \in People, role \in GivenRoles : StartInvite(w, actor, p, role)
    BY <1>2, StartInvitePending
  <1>3. CASE CheckPending(w)
    BY <1>3, CheckPendingPending
  <1>4. CASE \E i \in Invites : InsertInvite(w, i)
    BY <1>4, InsertPending
  <1>5. CASE InsertUser(w)
    <2>1. [call[w] EXCEPT !.at = "mark"].op = "accept"
      BY <1>0, <1>5 DEF InsertUser, Calls
    <2> QED BY <1>1, <1>5, <2>1, OneCallPending DEF InsertUser, Goes, Idle
  <1>6. CASE MarkAccepted(w)
    <2>1. [call[w] EXCEPT !.at = "audit"].at = "audit"
      BY <1>0 DEF Calls
    <2>2. OnlyFewerPending
      BY <1>6, MarkedPends DEF MarkAccepted, Accepted, history
    <2> QED BY <1>6, <2>1, <2>2, OneCallPending DEF MarkAccepted, Idle
  <1>7. CASE RevokeInvite(w)
    BY <1>7, MarkedPends, OneCallPending DEF RevokeInvite, Idle, history
  <1>8. ASSUME NEW i \in Invites, ExpireInvite(w, i) PROVE PendingInv'
    <2>1. [call[w] EXCEPT !.todo = @ \ {i}].op = call[w].op /\ call[w].op # "invite"
      BY <1>0, <1>8 DEF ExpireInvite, Calls, CallFits
    <2>2. OnlyFewerPending
      BY <1>8, MarkedPends DEF ExpireInvite, history
    <2> QED BY <1>8, <2>1, <2>2, OneCallPending DEF ExpireInvite, Idle
  <1>9. ASSUME NEW i \in Invites, NEW p \in People, StartAccept(w, i, p) PROVE PendingInv'
    <2>1. PICK step \in {"expire", "mark_only", "insert"} :
            Becomes(w, [Request("accept", step, invites[i].org, p, p)
                          EXCEPT !.todo = {i}, !.role = invites[i].role])
      BY <1>9 DEF StartAccept
    <2>2. [Request("accept", step, invites[i].org, p, p)
             EXCEPT !.todo = {i}, !.role = invites[i].role].op = "accept"
      BY DEF Request, Idle
    <2> QED BY <1>1, <1>9, <2>1, <2>2, OneCallPending DEF StartAccept, tables, Touched
  <1>10. ASSUME NEW i \in Invites, NEW p \in People, StartRevoke(w, i, p) PROVE PendingInv'
    <2>1. [Request("revoke", "revoke", invites[i].org, None, None) EXCEPT !.todo = {i}].op = "revoke"
      BY DEF Request, Idle
    <2> QED BY <1>1, <1>10, <2>1, OneCallPending DEF StartRevoke, tables, Touched
  <1>11. ASSUME NEW i \in Invites, NEW p \in People, Resend(w, i, p) PROVE PendingInv'
    <2>1. OnlyFewerPending
      BY <1>11 DEF Resend, OnlyFewerPending, IsPending, Typed, TablesTyped
    <2> QED BY <1>11, <2>1, PendingFrame DEF Resend, NoNewInviting, Inviting
  <1>12. ASSUME NEW p \in People, StartList(w, p) PROVE PendingInv'
    <2>1. PICK late \in SUBSET Invites :
            /\ Becomes(w, [Request("list", "expire", Claims[p].org, None, None)
                             EXCEPT !.todo = late])
            /\ Touched(late)
      BY <1>12 DEF StartList
    <2>2. [Request("list", "expire", Claims[p].org, None, None) EXCEPT !.todo = late].op = "list"
      BY DEF Request, Idle
    <2> QED BY <1>1, <1>12, <2>1, <2>2, OneCallPending DEF StartList, tables, Touched
  <1> QED BY <1>2, <1>3, <1>4, <1>5, <1>6, <1>7, <1>8, <1>9, <1>10, <1>11, <1>12
        DEF InviteStep

\* Every step keeps one pending invite per email.
LEMMA StepPending ==
  ASSUME Typed, PendingInv, [MembershipNext]_mvars
  PROVE  PendingInv'
  <1>1. ASSUME disturbed \subseteq disturbed', UNCHANGED <<invites, resent>>
        PROVE  OnlyFewerPending
    BY <1>1 DEF OnlyFewerPending, IsPending
  <1>2. ASSUME UNCHANGED <<invites, history, call>>
        PROVE  PendingInv'
    BY <1>1, <1>2, PendingFrame DEF history, NoNewInviting, Inviting
  <1>3. CASE \E p \in People : Login(p)
    BY <1>2, <1>3 DEF Login
  <1>4. ASSUME NEW w \in Workers, Crash(w) PROVE PendingInv'
    BY <1>1, <1>4, OneCallPending DEF Crash, tables, Idle
  <1>5. CASE Tick \/ UNCHANGED mvars
    BY <1>2, <1>5 DEF Tick, mvars, tables
  <1> QED BY <1>3, <1>4, <1>5, TeamPending, InvitePending DEF MembershipNext


-----------------------------------------------------------------------------
(* Whoever joined by an invite is on record.                                *)

\* The call of w holds invite i.
Holds(w, i) == i \in call[w].todo

\* An invite that never disturbed a call is held by one call at a time.
OneHolder ==
    \A i \in Invites : i \notin disturbed =>
        \A u, w \in Workers : Holds(u, i) /\ Holds(w, i) => u = w

\* An invite that is held, or was used, has been created.
HeldExists ==
    \A i \in Invites : i \in joined \/ (\E w \in Workers : Holds(w, i)) => invites[i].st # "none"

\* Who accepts knows what the invite says.
KnowsInvite ==
    \A w \in Workers, i \in Invites :
        call[w].op = "accept" /\ call[w].at \in {"insert", "mark", "audit"} /\ Holds(w, i) =>
            call[w].org = invites[i].org /\ call[w].p = invites[i].email

\* w still has to mark the invite it used, or to write its audit entry.
Owes(w, i) ==
    /\ call[w].op = "accept" /\ Holds(w, i)
    /\ \/ call[w].at = "mark"
       \/ call[w].at = "audit" /\ invites[i].st = "accepted"

Recorded(i) ==
    /\ invites[i].st = "accepted"
    /\ <<"accept", invites[i].org, invites[i].email>> \in trail
    /\ \A w \in Workers : ~Holds(w, i)

Clean(i) == i \in Invites /\ i \in joined /\ i \notin disturbed \cup resent /\ Exists(i)

JoinedOwed == \A i \in Invites : Clean(i) => Recorded(i) \/ \E w \in Workers : Owes(w, i)

JoinInv == OneHolder /\ HeldExists /\ KnowsInvite /\ JoinedOwed

\* Nobody has joined at first.
LEMMA InitJoin == MembershipInit => JoinInv
  BY DEF MembershipInit, JoinInv, OneHolder, HeldExists, KnowsInvite, JoinedOwed, Holds, Clean, Idle

\* An invite that nobody holds is not owed: whoever joined by it is on record.
LEMMA JoinSuffices == Typed /\ JoinInv => JoinedIsAccepted
  BY DEF JoinInv, JoinedOwed, JoinedIsAccepted, Clean, Recorded, Owes, Holds, InUse, Typed,
         TablesTyped

\* Histories and the audit trail only grow.
Grows == /\ disturbed \subseteq disturbed' /\ joined \subseteq joined'
         /\ resent \subseteq resent' /\ trail \subseteq trail'

\* Invites stay what they are; one may be resent, deleted or created.
InvitesStay ==
    \A i \in Invites :
        /\ invites[i].st # "none" =>
             /\ invites'[i].org = invites[i].org /\ invites'[i].email = invites[i].email
             /\ invites'[i].st # "none"
             /\ Exists(i)' /\ i \notin resent' => invites'[i].st = invites[i].st

\* Calls that hold an invite stay as they are.
HoldersStay ==
    \A w \in Workers :
        /\ call'[w].todo = call[w].todo
        /\ call[w].todo # {} =>
             /\ call'[w].op = call[w].op /\ call'[w].at = call[w].at
             /\ call'[w].org = call[w].org /\ call'[w].p = call[w].p

\* A step of somebody who holds no invite.
LEMMA JoinFrame ==
  ASSUME Typed, JoinInv, Grows, joined' = joined, InvitesStay, HoldersStay
  PROVE  JoinInv'
  <1>1. \A w \in Workers, i \in Invites : Holds(w, i)' <=> Holds(w, i)
    BY DEF HoldersStay, Holds
  <1>2. OneHolder'
    BY <1>1 DEF JoinInv, OneHolder, Grows
  <1>3. HeldExists'
    BY <1>1 DEF JoinInv, HeldExists, InvitesStay
  <1>4. KnowsInvite'
    <2> SUFFICES ASSUME NEW w \in Workers, NEW i \in Invites, Holds(w, i), call'[w].op = "accept",
                        call'[w].at \in {"insert", "mark", "audit"}
                 PROVE  call'[w].org = invites'[i].org /\ call'[w].p = invites'[i].email
      BY <1>1 DEF KnowsInvite
    <2>1. invites[i].st # "none"
      BY DEF JoinInv, HeldExists
    <2> QED BY <2>1 DEF HoldersStay, Holds, InvitesStay, JoinInv, KnowsInvite
  <1>5. JoinedOwed'
    <2> SUFFICES ASSUME NEW i \in Invites, Clean(i)'
                 PROVE  Recorded(i)' \/ \E w \in Workers : Owes(w, i)'
      BY DEF JoinedOwed
    <2>1. invites[i].st # "none"
      BY DEF Clean, JoinInv, HeldExists
    <2>2. /\ invites'[i].st = invites[i].st /\ invites'[i].org = invites[i].org
          /\ invites'[i].email = invites[i].email
      BY <2>1 DEF Clean, InvitesStay
    <2>3. Clean(i)
      BY <2>2 DEF Clean, Grows, Exists
    <2>4. CASE Recorded(i)
      BY <1>1, <2>2, <2>4 DEF Recorded, Grows
    <2>5. ASSUME NEW w \in Workers, Owes(w, i) PROVE Owes(w, i)'
      BY <1>1, <2>2, <2>5 DEF Owes, Holds, HoldersStay
    <2> QED BY <2>3, <2>4, <2>5 DEF JoinInv, JoinedOwed
  <1> QED BY <1>2, <1>3, <1>4, <1>5 DEF JoinInv

\* Only invites that w holds change, in their status.
OnHeld(w) ==
    \A i \in Invites : /\ ~Holds(w, i) => invites'[i] = invites[i]
                       /\ invites'[i].org = invites[i].org
                       /\ invites'[i].email = invites[i].email
                       /\ invites'[i].st # "none" \/ invites[i].st = "none"
                       /\ Exists(i)' => Exists(i)

\* What w owes, or takes on, is owed or on record after the step.
Settles(w) ==
    \A i \in Invites : Holds(w, i) /\ (i \notin joined \/ Owes(w, i)) /\ Clean(i)' =>
                         Owes(w, i)' \/ Recorded(i)'

\* A step of a call on the invites it holds, in which it may let go of them:
\* it only has to care for what it owes itself.
LEMMA OwnStep ==
  ASSUME Typed, JoinInv, Grows, resent' = resent, NEW w \in Workers, NEW c, Becomes(w, c),
         c.todo \subseteq call[w].todo, joined' \subseteq joined \cup call[w].todo,
         OnHeld(w),
         c.op = "accept" /\ c.at \in {"insert", "mark", "audit"} /\ c.todo # {} =>
             /\ call[w].op = "accept" /\ call[w].at \in {"insert", "mark", "audit"}
             /\ c.org = call[w].org /\ c.p = call[w].p,
         Settles(w)
  PROVE  JoinInv'
  <1>1. call'[w] = c /\ \A u \in Workers : u # w => call'[u] = call[u]
    BY DEF Becomes, Typed
  <1>2. \A u \in Workers, i \in Invites : Holds(u, i)' => Holds(u, i)
    BY <1>1 DEF Holds
  <1>3. OneHolder'
    BY <1>2 DEF JoinInv, OneHolder, Grows
  <1>4. HeldExists'
    BY <1>2 DEF JoinInv, HeldExists, Holds, OnHeld
  <1>5. KnowsInvite'
    <2> SUFFICES ASSUME NEW u \in Workers, NEW i \in Invites, Holds(u, i)', call'[u].op = "accept",
                        call'[u].at \in {"insert", "mark", "audit"}
                 PROVE  call'[u].org = invites'[i].org /\ call'[u].p = invites'[i].email
      BY DEF KnowsInvite
    <2>1. CASE u = w
      BY <1>1, <1>2, <2>1 DEF Holds, JoinInv, KnowsInvite, OnHeld
    <2>2. CASE u # w
      BY <1>1, <1>2, <2>2 DEF JoinInv, KnowsInvite, OnHeld
    <2> QED BY <2>1, <2>2
  <1>6. JoinedOwed'
    <2> SUFFICES ASSUME NEW i \in Invites, Clean(i)'
                 PROVE  Recorded(i)' \/ \E u \in Workers : Owes(u, i)'
      BY DEF JoinedOwed
    <2>1. i \notin disturbed \cup resent /\ Exists(i)
      BY DEF Clean, Grows, OnHeld
    <2>2. CASE Holds(w, i)
      <3>1. CASE i \notin joined \/ Owes(w, i)
        BY <2>2, <3>1 DEF Settles
      <3>2. CASE i \in joined /\ ~Owes(w, i)
        <4>1. ~Recorded(i)
          BY <2>2 DEF Recorded
        <4>2. PICK u \in Workers : Owes(u, i)
          BY <2>1, <3>2, <4>1 DEF JoinInv, JoinedOwed, Clean
        <4>3. u = w
          BY <2>1, <2>2, <4>2 DEF JoinInv, OneHolder, Owes
        <4> QED BY <3>2, <4>2, <4>3
      <3> QED BY <3>1, <3>2
    <2>3. CASE ~Holds(w, i)
      <3>1. i \in joined
        BY <2>3 DEF Clean, Holds
      <3>2. invites'[i] = invites[i]
        BY <2>3 DEF OnHeld
      <3>3. CASE Recorded(i)
        BY <1>2, <3>2, <3>3 DEF Recorded, Grows
      <3>4. ASSUME NEW u \in Workers, Owes(u, i) PROVE Owes(u, i)'
        <4>1. u # w
          BY <2>3, <3>4 DEF Owes
        <4> QED BY <1>1, <3>2, <3>4, <4>1 DEF Owes, Holds
      <3> QED BY <2>1, <3>1, <3>3, <3>4 DEF JoinInv, JoinedOwed, Clean
    <2> QED BY <2>2, <2>3
  <1> QED BY <1>3, <1>4, <1>5, <1>6 DEF JoinInv

\* A call takes pending invites: whose was used before is disturbed now, or
\* was resent.
LEMMA TakeStep ==
  ASSUME Typed, JoinInv, NEW w \in Workers, NEW c, IsIdle(w), Becomes(w, c),
         NEW S \in SUBSET Invites, c.todo = S, \A i \in S : IsPending(i), Touched(S),
         UNCHANGED <<tables, joined, resent>>,
         c.op = "accept" /\ c.at \in {"insert", "mark", "audit"} =>
             \A i \in S : c.org = invites[i].org /\ c.p = invites[i].email
  PROVE  JoinInv'
  <1>1. call'[w] = c /\ \A u \in Workers : u # w => call'[u] = call[u]
    BY DEF Becomes, Typed
  <1>2. \A i \in Invites : ~Holds(w, i)
    BY DEF IsIdle, Idle, Holds
  <1>3. \A u \in Workers, i \in Invites :
          /\ Holds(u, i) => Holds(u, i)' /\ u # w
          /\ Holds(u, i)' => Holds(u, i) \/ (u = w /\ i \in S)
    BY <1>1, <1>2 DEF Holds
  <1>4. /\ disturbed \subseteq disturbed'
        /\ \A i \in S : i \notin disturbed' => \A u \in Workers : ~Holds(u, i)
    BY DEF Touched, InUse, Holds
  <1>5. OneHolder'
    BY <1>3, <1>4 DEF JoinInv, OneHolder
  <1>6. HeldExists'
    BY <1>3 DEF tables, JoinInv, HeldExists, IsPending
  <1>7. KnowsInvite'
    BY <1>1, <1>3 DEF tables, JoinInv, KnowsInvite, Holds
  <1>8. JoinedOwed'
    <2> SUFFICES ASSUME NEW i \in Invites, Clean(i)'
                 PROVE  Recorded(i)' \/ \E u \in Workers : Owes(u, i)'
      BY DEF JoinedOwed
    <2>1. Clean(i)
      BY <1>4 DEF Clean, tables, Exists
    <2>2. CASE Recorded(i)
      <3>1. i \notin S
        BY <2>2 DEF Recorded, IsPending
      <3> QED BY <1>3, <2>2, <3>1 DEF Recorded, tables
    <2>3. ASSUME NEW u \in Workers, Owes(u, i) PROVE Owes(u, i)'
      BY <1>1, <1>3, <2>3 DEF Owes, tables
    <2> QED BY <2>1, <2>2, <2>3 DEF JoinInv, JoinedOwed
  <1> QED BY <1>5, <1>6, <1>7, <1>8 DEF JoinInv


\* A call ends that owed nothing, or what is on record now.
LEMMA EndStep ==
  ASSUME Typed, JoinInv, Grows, resent' = resent, joined' = joined, invites' = invites,
         NEW w \in Workers, Becomes(w, Idle),
         \A i \in Invites : Owes(w, i) => i \in disturbed' \/ Recorded(i)'
  PROVE  JoinInv'
  <1>1. Idle.todo = {} /\ Idle.op = "none"
    BY DEF Idle
  <1>2. Settles(w)
    BY DEF Settles, Clean
  <1>3. OnHeld(w)
    BY DEF OnHeld, Exists
  <1> QED BY <1>1, <1>2, <1>3, OwnStep

\* A call that holds nothing goes on holding nothing.
LEMMA EmptyHanded ==
  ASSUME Typed, JoinInv, Grows, joined' = joined, InvitesStay, NEW w \in Workers, NEW c,
         Becomes(w, c), call[w].todo = {}, c.todo = {}
  PROVE  JoinInv'
  <1>1. HoldersStay
    BY DEF HoldersStay, Becomes, Typed
  <1> QED BY <1>1, JoinFrame

\* Changes of members hold no invite; an audit entry settles what was owed.
LEMMA TeamJoin ==
  ASSUME Typed, JoinInv, NEW w \in Workers, TeamStep(w)
  PROVE  JoinInv'
  <1>0. CallFits(call[w]) /\ call \in [Workers -> Calls] /\ Idle.todo = {}
    BY DEF Typed, Idle
  <1>1. invites' = invites => InvitesStay
    BY DEF InvitesStay
  <1>2. ASSUME NEW op \in Changes, NEW actor \in People, NEW p \in People,
               NEW role \in GivenRoles, StartChange(w, op, actor, p, role)
        PROVE  JoinInv'
    <2>1. PICK c : Becomes(w, c) /\ c.todo = {}
      <3> DEFINE a == [Request(op, "write", Claims[actor].org, actor, p) EXCEPT !.role = role]
      <3>1. a.todo = {} /\ [a EXCEPT !.at = "count"].todo = {}
        BY DEF Request, Idle
      <3> QED BY <1>2, <3>1 DEF StartChange
    <2>2. Grows /\ joined' = joined /\ call[w].todo = {}
      BY <1>0, <1>2 DEF StartChange, Grows, tables, IsIdle
    <2> QED BY <1>1, <1>2, <2>1, <2>2, EmptyHanded DEF StartChange, tables
  <1>3. CASE CountAdmins(w)
    <2>1. call[w].todo = {} /\ [call[w] EXCEPT !.at = "write"].todo = {}
      BY <1>0, <1>3 DEF CountAdmins, CallFits, Calls, Changes
    <2>2. Grows /\ joined' = joined
      BY <1>3 DEF CountAdmins, Grows, tables, history
    <2> QED BY <1>0, <1>1, <1>3, <2>1, <2>2, EmptyHanded DEF CountAdmins, Goes, tables
  <1>4. CASE WriteChange(w)
    <2> DEFINE c == [call[w] EXCEPT !.at = "audit"]
               calls == [call EXCEPT ![w] = c]
    <2>1. PICK gone : call' = Deleted(calls, gone)
      BY <1>4 DEF WriteChange
    <2>2. calls \in [Workers -> Calls] /\ c.todo = call[w].todo /\ call[w].todo = {}
      BY <1>0, <1>4 DEF Calls, Steps, WriteChange, CallFits, Changes
    <2>3. calls[w] = c /\ \A u \in Workers : u # w => calls[u] = call[u]
      BY <1>0
    <2> HIDE DEF calls, c
    <2>4. \A u \in Workers :
            /\ call'[u].op = calls[u].op /\ call'[u].org = calls[u].org
            /\ call'[u].p = calls[u].p /\ call'[u].at = calls[u].at
            /\ call'[u].todo = calls[u].todo
      BY <2>1, <2>2, DeletedIs
    <2>5. HoldersStay
      BY <2>2, <2>3, <2>4 DEF HoldersStay
    <2>6. Grows /\ joined' = joined
      BY <1>4 DEF WriteChange, Grows, history
    <2> QED BY <1>1, <1>4, <2>5, <2>6, JoinFrame DEF WriteChange
  <1>5. CASE Audit(w)
    <2>1. Grows /\ joined' = joined /\ resent' = resent
      BY <1>5 DEF Audit, Grows, history
    <2>2. ASSUME NEW i \in Invites, Owes(w, i), i \notin disturbed PROVE Recorded(i)'
      <3>1. call[w].op = "accept" /\ invites[i].st = "accepted" /\ Holds(w, i)
        BY <1>5, <2>2 DEF Owes, Audit
      <3>2. <<"accept", invites[i].org, invites[i].email>> \in trail'
        BY <1>5, <2>2, <3>1 DEF Audit, JoinInv, KnowsInvite
      <3>3. \A u \in Workers : i \notin call'[u].todo
        BY <1>0, <1>5, <2>2, <3>1 DEF Audit, Becomes, JoinInv, OneHolder, Holds, Typed
      <3> QED BY <1>5, <3>1, <3>2, <3>3 DEF Recorded, Holds, Audit
    <2> QED BY <1>5, <2>1, <2>2, EndStep DEF Audit, Grows
  <1>6. ASSUME NEW actor \in People, NEW o \in Orgs, CreateOrg(w, actor, o) PROVE JoinInv'
    <2>1. Request("create_org", "audit", o, actor, actor).todo = {} /\ call[w].todo = {}
      BY <1>6 DEF CreateOrg, IsIdle, Request, Idle
    <2>2. Grows /\ joined' = joined
      BY <1>6 DEF CreateOrg, Grows
    <2> QED BY <1>1, <1>6, <2>1, <2>2, EmptyHanded DEF CreateOrg
  <1>7. ASSUME NEW o \in Orgs, DeleteInvites(w, o) PROVE JoinInv'
    <2>1. Request("delete_org", "users", o, None, None).todo = {} /\ call[w].todo = {}
      BY <1>7 DEF DeleteInvites, IsIdle, Request, Idle
    <2>2. Grows /\ joined' = joined
      BY <1>7 DEF DeleteInvites, Grows
    <2>3. InvitesStay
      <3> SUFFICES ASSUME NEW i \in Invites, invites[i].st # "none"
                   PROVE  /\ invites'[i].org = invites[i].org
                          /\ invites'[i].email = invites[i].email
                          /\ invites'[i].st # "none"
                          /\ Exists(i)' => invites'[i].st = invites[i].st
        BY DEF InvitesStay
      <3>1. invites'[i] = IF invites[i].org = o THEN [invites[i] EXCEPT !.st = "deleted"]
                                                ELSE invites[i]
        BY <1>7 DEF DeleteInvites
      <3>2. invites[i] \in InviteRows
        BY DEF Typed, TablesTyped
      <3> QED BY <3>1, <3>2 DEF InviteRows, Exists
    <2> QED BY <1>7, <2>1, <2>2, <2>3, EmptyHanded DEF DeleteInvites
  <1>8. CASE DeleteUsers(w)
    <2> DEFINE calls == [call EXCEPT ![w] = Idle]
    <2>1. PICK gone : call' = Deleted(calls, gone)
      BY <1>8 DEF DeleteUsers
    <2>2. calls \in [Workers -> Calls] /\ call[w].todo = {}
      BY <1>0, <1>8, IdleFits DEF CallFits, DeleteUsers, Changes, Idle
    <2>3. calls[w] = Idle /\ \A u \in Workers : u # w => calls[u] = call[u]
      BY <1>0
    <2> HIDE DEF calls
    <2>4. \A u \in Workers :
            /\ call'[u].op = calls[u].op /\ call'[u].org = calls[u].org
            /\ call'[u].p = calls[u].p /\ call'[u].at = calls[u].at
            /\ call'[u].todo = calls[u].todo
      BY <2>1, <2>2, DeletedIs
    <2>5. HoldersStay
      BY <1>0, <2>2, <2>3, <2>4 DEF HoldersStay
    <2>6. Grows /\ joined' = joined
      BY <1>8 DEF DeleteUsers, Grows, history
    <2> QED BY <1>1, <1>8, <2>5, <2>6, JoinFrame DEF DeleteUsers
  <1> QED BY <1>2, <1>3, <1>4, <1>5, <1>6, <1>7, <1>8 DEF TeamStep


\* Every step of an invite keeps JoinInv.
LEMMA InviteJoin ==
  ASSUME Typed, JoinInv, NEW w \in Workers, InviteStep(w)
  PROVE  JoinInv'
  <1>0. CallFits(call[w]) /\ call[w] \in Calls /\ Idle.todo = {} /\ Idle.op = "none"
    BY DEF Typed, Idle
  <1>1. invites' = invites => InvitesStay
    BY DEF InvitesStay
  <1>2. \A i \in Invites : Owes(w, i) => call[w].op = "accept" /\ call[w].at \in {"mark", "audit"}
    BY DEF Owes
  <1>3. ASSUME NEW actor \in People, NEW p \in People, NEW role \in GivenRoles,
               StartInvite(w, actor, p, role)
        PROVE  JoinInv'
    <2> DEFINE c == [Request("invite", "pending", Claims[actor].org, actor, p)
                       EXCEPT !.role = role]
    <2>1. c.todo = {} /\ call[w].todo = {}
      BY <1>0, <1>3 DEF StartInvite, IsIdle, Request, Idle
    <2>2. Grows /\ joined' = joined /\ InvitesStay
      BY <1>1, <1>3 DEF StartInvite, Grows
    <2>3. CASE Becomes(w, c)
      BY <2>1, <2>2, <2>3, EmptyHanded
    <2>4. CASE call' = call
      BY <2>2, <2>4, JoinFrame DEF HoldersStay
    <2> QED BY <1>3, <2>3, <2>4 DEF StartInvite
  <1>4. CASE CheckPending(w)
    <2>1. call[w].todo = {} /\ [call[w] EXCEPT !.at = "insert"].todo = {}
      BY <1>0, <1>4 DEF CheckPending, CallFits, Calls
    <2>2. Grows /\ joined' = joined
      BY <1>4 DEF CheckPending, Grows, tables, history
    <2> QED BY <1>0, <1>1, <1>4, <2>1, <2>2, EmptyHanded DEF CheckPending, Goes, tables
  <1>5. ASSUME NEW i \in Invites, InsertInvite(w, i) PROVE JoinInv'
    <2>1. call[w].todo = {} /\ [call[w] EXCEPT !.at = "audit"].todo = {}
      BY <1>0, <1>5 DEF InsertInvite, CallFits, Calls
    <2>2. Grows /\ joined' = joined
      BY <1>5 DEF InsertInvite, Grows, history
    <2>3. InvitesStay
      BY <1>5 DEF InsertInvite, NoInvite, InvitesStay, Typed, TablesTyped
    <2> QED BY <1>5, <2>1, <2>2, <2>3, EmptyHanded DEF InsertInvite, Goes
  <1>6. ASSUME NEW i \in Invites, NEW p \in People, Resend(w, i, p) PROVE JoinInv'
    <2>1. Grows /\ joined' = joined /\ HoldersStay
      BY <1>6 DEF Resend, Grows, HoldersStay
    <2>2. InvitesStay
      <3>1. \A j \in Invites : j # i => invites'[j] = invites[j]
        BY <1>6 DEF Resend, Typed, TablesTyped
      <3>2. /\ invites'[i].org = invites[i].org /\ invites'[i].email = invites[i].email
            /\ invites'[i].st = "pending" /\ i \in resent'
        BY <1>6 DEF Resend, Typed, TablesTyped, InviteRows
      <3> QED BY <3>1, <3>2 DEF InvitesStay
    <2> QED BY <2>1, <2>2, JoinFrame
  <1>7. CASE InsertUser(w)
    <2> DEFINE c == [call[w] EXCEPT !.at = "mark"]
    <2>1. /\ c.op = "accept" /\ c.at = "mark" /\ c.todo = call[w].todo /\ c.org = call[w].org
          /\ c.p = call[w].p
      BY <1>0, <1>7 DEF InsertUser, Calls
    <2> HIDE DEF c
    <2>2. CASE Becomes(w, c) /\ joined' = joined \cup call[w].todo
      <3>1. Grows /\ invites' = invites /\ resent' = resent
        BY <1>7, <2>2 DEF InsertUser, Grows
      <3>2. call'[w] = c
        BY <2>2 DEF Becomes, Typed
      <3>3. \A i \in Invites : Holds(w, i) => Owes(w, i)'
        BY <2>1, <3>2 DEF Owes, Holds
      <3>4. OnHeld(w) /\ Settles(w)
        BY <3>1, <3>3 DEF OnHeld, Settles, Exists
      <3> QED BY <1>7, <2>1, <2>2, <3>1, <3>4, OwnStep DEF InsertUser
    <2>3. CASE Becomes(w, Idle) /\ joined' = joined
      <3>1. Grows /\ invites' = invites /\ resent' = resent
        BY <1>7, <2>3 DEF InsertUser, Grows
      <3> QED BY <1>2, <1>7, <2>3, <3>1, EndStep DEF InsertUser
    <2> QED BY <1>7, <2>2, <2>3 DEF InsertUser, Goes, c
  <1>8. ASSUME NEW S, S \subseteq call[w].todo, NEW st, st \notin {"none", "deleted"},
               invites' = Marked(S, st)
        PROVE  OnHeld(w) /\ \A i \in S : i \in Invites /\ Exists(i) => invites'[i].st = st
    BY <1>8 DEF OnHeld, Marked, Holds, Exists, Typed, TablesTyped, InviteRows
  <1>9. CASE MarkAccepted(w)
    <2> DEFINE c == [call[w] EXCEPT !.at = "audit"]
    <2>1. /\ c.op = "accept" /\ c.at = "audit" /\ c.todo = call[w].todo /\ c.org = call[w].org
          /\ c.p = call[w].p /\ call[w].op = "accept"
      BY <1>0, <1>9 DEF MarkAccepted, Calls, CallFits
    <2> HIDE DEF c
    <2>2. Grows /\ joined' = joined /\ resent' = resent /\ invites' = Marked(call[w].todo, Accepted)
      BY <1>9 DEF MarkAccepted, Grows, history
    <2>3. OnHeld(w) /\ \A i \in Invites : Holds(w, i) /\ Exists(i) => invites'[i].st = "accepted"
      BY <1>8, <2>2 DEF Holds, Accepted
    <2>4. CASE call[w].at = "mark" /\ Becomes(w, c)
      <3>1. call'[w] = c
        BY <2>4 DEF Becomes, Typed
      <3>2. Settles(w)
        BY <2>1, <2>3, <3>1 DEF Settles, Owes, Holds, Clean, OnHeld
      <3> QED BY <2>1, <2>2, <2>3, <2>4, <3>2, OwnStep
    <2>5. CASE call[w].at = "mark_only" /\ Becomes(w, Idle)
      <3>1. Settles(w)
        BY <1>2, <2>2, <2>5 DEF Settles, Clean
      <3> QED BY <1>0, <2>2, <2>3, <2>5, <3>1, OwnStep
    <2> QED BY <1>9, <2>4, <2>5 DEF MarkAccepted, c
  <1>10. CASE RevokeInvite(w)
    <2>1. Grows /\ joined' = joined /\ resent' = resent
      BY <1>10 DEF RevokeInvite, Grows, history
    <2>2. Settles(w)
      BY <1>2, <1>10, <2>1 DEF Settles, Clean, RevokeInvite
    <2>3. OnHeld(w)
      BY <1>8, <1>10 DEF RevokeInvite
    <2> QED BY <1>0, <1>10, <2>1, <2>2, <2>3, OwnStep DEF RevokeInvite
  <1>11. ASSUME NEW i \in Invites, ExpireInvite(w, i) PROVE JoinInv'
    <2> DEFINE c == [call[w] EXCEPT !.todo = @ \ {i}]
    <2>1. c.todo \subseteq call[w].todo /\ c.at = "expire"
      BY <1>0, <1>11 DEF ExpireInvite, Calls
    <2> HIDE DEF c
    <2>2. Grows /\ joined' = joined /\ resent' = resent /\ {i} \subseteq call[w].todo
      BY <1>11 DEF ExpireInvite, Grows, history
    <2>3. Settles(w)
      BY <1>2, <1>11, <2>2 DEF Settles, Clean, ExpireInvite
    <2>4. OnHeld(w)
      BY <1>8, <1>11, <2>2 DEF ExpireInvite
    <2>5. CASE Becomes(w, c)
      BY <2>1, <2>2, <2>3, <2>4, <2>5, OwnStep
    <2>6. CASE Becomes(w, Idle)
      BY <1>0, <2>2, <2>3, <2>4, <2>6, OwnStep
    <2> QED BY <1>11, <2>5, <2>6 DEF ExpireInvite, c
  <1>12. ASSUME NEW i \in Invites, NEW p \in People, StartAccept(w, i, p) PROVE JoinInv'
    <2>1. PICK step \in {"expire", "mark_only", "insert"} :
            /\ Becomes(w, [Request("accept", step, invites[i].org, p, p)
                             EXCEPT !.todo = {i}, !.role = invites[i].role])
            /\ step = "insert" => ~PastExpiry(i)
      BY <1>12 DEF StartAccept
    <2> DEFINE c == [Request("accept", step, invites[i].org, p, p)
                       EXCEPT !.todo = {i}, !.role = invites[i].role]
    <2>2. c.todo = {i} /\ c.at = step /\ c.org = invites[i].org /\ c.p = p
      BY DEF Request, Idle
    <2> HIDE DEF c
    <2>3. step = "insert" => invites[i].email = p
      BY <1>12, <2>1 DEF StartAccept
    <2>4. Becomes(w, c)
      BY <2>1 DEF c
    <2> QED BY <1>12, <2>2, <2>3, <2>4, TakeStep DEF StartAccept
  <1>13. ASSUME NEW i \in Invites, NEW p \in People, StartRevoke(w, i, p) PROVE JoinInv'
    <2> DEFINE c == [Request("revoke", "revoke", invites[i].org, None, None) EXCEPT !.todo = {i}]
    <2>1. c.todo = {i} /\ c.op = "revoke"
      BY DEF Request, Idle
    <2>2. Becomes(w, c)
      BY <1>13 DEF StartRevoke
    <2> HIDE DEF c
    <2> QED BY <1>13, <2>1, <2>2, TakeStep DEF StartRevoke
  <1>14. ASSUME NEW p \in People, StartList(w, p) PROVE JoinInv'
    <2>1. PICK late \in SUBSET Invites :
            /\ Becomes(w, [Request("list", "expire", Claims[p].org, None, None)
                             EXCEPT !.todo = late])
            /\ Touched(late) /\ \A i \in late : IsPending(i)
      BY <1>14 DEF StartList
    <2> DEFINE c == [Request("list", "expire", Claims[p].org, None, None) EXCEPT !.todo = late]
    <2>2. c.todo = late /\ c.op = "list" /\ Becomes(w, c)
      BY <2>1 DEF Request, Idle
    <2> HIDE DEF c
    <2> QED BY <1>14, <2>1, <2>2, TakeStep DEF StartList
  <1> QED BY <1>3, <1>4, <1>5, <1>6, <1>7, <1>9, <1>10, <1>11, <1>12, <1>13, <1>14
        DEF InviteStep

\* Every step keeps JoinInv; a request that dies disturbs what it held.
LEMMA StepJoin ==
  ASSUME Typed, JoinInv, [MembershipNext]_mvars
  PROVE  JoinInv'
  <1>1. ASSUME UNCHANGED <<invites, history, call>>, trail' = trail PROVE JoinInv'
    BY <1>1, JoinFrame DEF history, Grows, InvitesStay, HoldersStay
  <1>2. CASE \E p \in People : Login(p)
    BY <1>1, <1>2 DEF Login
  <1>3. ASSUME NEW w \in Workers, Crash(w) PROVE JoinInv'
    <2>1. Grows /\ joined' = joined /\ resent' = resent /\ invites' = invites
      BY <1>3 DEF Crash, tables, Grows
    <2>2. \A i \in Invites : Owes(w, i) => i \in disturbed'
      BY <1>3 DEF Owes, Holds, Crash
    <2> QED BY <1>3, <2>1, <2>2, EndStep DEF Crash
  <1>4. CASE Tick \/ UNCHANGED mvars
    BY <1>1, <1>4 DEF Tick, mvars, tables
  <1> QED BY <1>2, <1>3, <1>4, TeamJoin, InviteJoin DEF MembershipNext

\* InvitesConsistent, for any number of invites, people and workers.
THEOREM InvitesStayConsistent == MembershipSpec => []InvitesConsistent
  <1>1. MembershipInit => Typed /\ PendingInv /\ JoinInv
    BY InitTyped, InitPending, InitJoin
  <1>2. Typed /\ PendingInv /\ JoinInv /\ [MembershipNext]_mvars
          => (Typed /\ PendingInv /\ JoinInv)'
    BY StepTyped, StepPending, StepJoin
  <1>3. Typed /\ PendingInv /\ JoinInv => InvitesConsistent
    BY JoinSuffices DEF PendingInv, InvitesConsistent
  <1> QED BY <1>1, <1>2, <1>3, PTL DEF MembershipSpec

-----------------------------------------------------------------------------
(* Whom a request is taken for.                                             *)

\* How many keys the provider took back under one kid.
Drawn(kid) == Cardinality({w \in withdrawn : w.kid = kid})

\* Material is numbered in the order of its publication, and the cache holds
\* what was published when it was filled.
KeysInv ==
    /\ \A kid \in KeyIds : published[kid] \in {0, Drawn(kid) + 1}
    /\ \A w \in withdrawn : w.mat <= Drawn(w.kid)
    /\ \A w \in withdrawn : w.mat = ring.keys[w.kid] => ring.at <= w.at
    /\ \A kid \in KeyIds : ring.keys[kid] \notin {0, published[kid]} =>
         \E w \in withdrawn : w.kid = kid /\ w.mat = ring.keys[kid]

TrustInv == KeysInv /\ TrustIsRecent /\ GoodTokensPass

\* A key that is published was never taken back.
LEMMA PublishedIsNew ==
  ASSUME AccessTypeOK, KeysInv, NEW w \in withdrawn
  PROVE  w.mat # published[w.kid]
<1>1. w.kid \in KeyIds /\ w.mat \in Nat \ {0}
  BY DEF AccessTypeOK
<1>2. Drawn(w.kid) \in Nat
  BY FS_Subset, FS_CardinalityType DEF AccessTypeOK, Drawn
<1>3. QED BY <1>1, <1>2 DEF KeysInv

\* The cache, filled or not, keeps to what the provider published.
LEMMA RingKeeps ==
  ASSUME AccessTypeOK, KeysInv, NEW kid \in KeyIds
  PROVE  /\ RingFor(kid) \in [keys : [KeyIds -> Nat], at : Int]
         /\ \A w \in withdrawn : w.mat = RingFor(kid).keys[w.kid] => RingFor(kid).at <= w.at
         /\ \A k \in KeyIds : RingFor(kid).keys[k] \notin {0, published[k]} =>
              \E w \in withdrawn : w.kid = k /\ w.mat = RingFor(kid).keys[k]
         /\ RingFor(kid).keys[kid] # 0 /\ ~down => hour - RingFor(kid).at <= CacheTtl
         /\ ~down /\ published[kid] # 0 => RingFor(kid).keys[kid] # 0
<1>1. /\ hour \in Nat /\ CacheTtl \in Nat /\ ring.at \in Int
      /\ published \in [KeyIds -> Nat] /\ ring \in [keys : [KeyIds -> Nat], at : Int]
  BY AccessAssumption DEF AccessTypeOK, Times
<1>2. CASE MustFetch(kid) /\ ~down
  <2> DEFINE new == [keys |-> published, at |-> hour]
  <2>1. RingFor(kid) = new
    BY <1>2 DEF RingFor
  <2>2. new.keys = published /\ new.at = hour /\ new \in [keys : [KeyIds -> Nat], at : Int]
    BY <1>1
  <2> HIDE DEF new
  <2>3. \A w \in withdrawn : w.mat # new.keys[w.kid]
    BY <2>2, PublishedIsNew
  <2>4. QED BY <1>1, <2>1, <2>2, <2>3
<1>3. CASE ~(MustFetch(kid) /\ ~down)
  <2>1. RingFor(kid) = ring
    BY <1>3 DEF RingFor
  <2>2. ~down => hour - ring.at <= CacheTtl /\ ring.keys[kid] # 0
    BY <1>1, <1>3 DEF MustFetch, IsStale
  <2>3. QED BY <1>1, <2>1, <2>2 DEF KeysInv
<1>4. QED BY <1>2, <1>3

\* The cache is of the right kind, and not from the future.
LEMMA RingType ==
  ASSUME AccessTypeOK, NEW kid \in KeyIds
  PROVE  RingFor(kid) \in [keys : [KeyIds -> Nat], at : Int] /\ RingFor(kid).at <= hour
<1>1. CASE MustFetch(kid) /\ ~down
  <2>1. RingFor(kid) = [keys |-> published, at |-> hour]
    BY <1>1 DEF RingFor
  <2>2. QED BY <2>1 DEF AccessTypeOK, Times
<1>2. CASE ~(MustFetch(kid) /\ ~down)
  BY <1>2 DEF RingFor, AccessTypeOK
<1>3. QED BY <1>1, <1>2

\* What a request with a token is taken for.
LEMMA VerdictIs ==
  ASSUME AccessTypeOK, NEW q \in Carried, q.tok # Nobody, GetCurrentUser(q)
  PROVE  /\ q.tok \in Bearers /\ q.tok.kid \in KeyIds /\ q.tok.mat \in Nat \ {0}
         /\ ring' = RingFor(q.tok.kid) /\ verdict'.tok = q.tok /\ verdict'.at = hour
         /\ verdict'.by = "oidc" <=> TokenFits(q.tok, RingFor(q.tok.kid))
         /\ verdict'.out <=> down
         /\ verdict'.current <=> published[q.tok.kid] = q.tok.mat
<1>1. q.tok \in Bearers /\ q.tok.kid \in KeyIds /\ q.tok.mat \in Nat \ {0}
  BY AccessAssumption DEF Carried
<1>2. /\ verdict' = [by |-> Method(q), tok |-> q.tok, at |-> hour, out |-> down,
                     current |-> published[q.tok.kid] = q.tok.mat]
      /\ ring' = RingFor(q.tok.kid)
  BY DEF GetCurrentUser, RingAfter
<1>3. Method(q) = "oidc" <=> TokenFits(q.tok, RingFor(q.tok.kid))
  BY DEF Method, RingAfter
<1>4. verdict'.by = Method(q) /\ verdict'.tok = q.tok /\ verdict'.at = hour
  BY <1>2
<1>5. verdict'.out = down /\ verdict'.current = (published[q.tok.kid] = q.tok.mat)
  BY Zenon, <1>2
<1>6. QED BY Zenon, <1>1, <1>2, <1>3, <1>4, <1>5

\* A request keeps the trust in tokens in order.
LEMMA UserKeepsTrust ==
  ASSUME AccessTypeOK, TrustInv, NEW q \in Carried, GetCurrentUser(q),
         UNCHANGED <<published, withdrawn>>
  PROVE  TrustInv'
<1>1. CASE q.tok = Nobody
  <2>1. ring' = ring /\ verdict' = NoVerdict
    BY <1>1 DEF GetCurrentUser, RingAfter
  <2>2. KeysInv'
    BY <2>1 DEF TrustInv, KeysInv, Drawn
  <2>3. verdict'.by # "oidc" /\ verdict'.tok = Nobody
    BY <2>1 DEF NoVerdict
  <2>4. QED BY <2>2, <2>3 DEF TrustInv, TrustIsRecent, GoodTokensPass
<1>2. CASE q.tok # Nobody
  <2> DEFINE kid == q.tok.kid
             r == RingFor(kid)
  <2>1. /\ kid \in KeyIds /\ q.tok.mat \in Nat \ {0}
        /\ ring' = r /\ verdict'.tok = q.tok /\ verdict'.at = hour
        /\ verdict'.by = "oidc" <=> TokenFits(q.tok, r)
        /\ verdict'.out <=> down
        /\ verdict'.current <=> published[kid] = q.tok.mat
    BY <1>2, VerdictIs
  <2>2. /\ \A w \in withdrawn : w.mat = r.keys[w.kid] => r.at <= w.at
        /\ \A k \in KeyIds : r.keys[k] \notin {0, published[k]} =>
             \E w \in withdrawn : w.kid = k /\ w.mat = r.keys[k]
        /\ r.keys[kid] # 0 /\ ~down => hour - r.at <= CacheTtl
        /\ ~down /\ published[kid] # 0 => r.keys[kid] # 0
        /\ r.at \in Int
    BY <2>1, RingKeeps DEF TrustInv
  <2> HIDE DEF r
  <2>3. KeysInv'
    BY <2>1, <2>2 DEF TrustInv, KeysInv, Drawn
  <2>4. TrustIsRecent'
    <3> SUFFICES ASSUME TokenFits(q.tok, r), ~down, NEW w \in withdrawn, w.kid = kid, w.mat = q.tok.mat
                 PROVE  hour - w.at <= CacheTtl
      BY <2>1 DEF TrustIsRecent
    <3>1. r.keys[kid] # 0 /\ q.tok.mat = r.keys[kid]
      BY DEF TokenFits
    <3>2. w.at \in Int /\ hour \in Int /\ CacheTtl \in Int
      BY AccessAssumption DEF AccessTypeOK, Times
    <3>3. QED BY <2>2, <3>1, <3>2
  <2>5. GoodTokensPass'
    <3> SUFFICES ASSUME published[kid] = q.tok.mat, q.tok.right, hour <= q.tok.until,
                        ~TokenFits(q.tok, r), ~down
                 PROVE  \E w \in withdrawn : w.kid = kid /\ w.at <= hour /\ hour - w.at <= CacheTtl
      BY <2>1 DEF GoodTokensPass
    <3>1. r.keys[kid] \notin {0, published[kid]}
      BY <2>1, <2>2 DEF TokenFits
    <3>2. PICK w \in withdrawn : w.kid = kid /\ w.mat = r.keys[kid]
      BY <2>1, <2>2, <3>1
    <3>3. w.at \in 0 .. hour /\ hour \in Int /\ CacheTtl \in Int
      BY AccessAssumption DEF AccessTypeOK, Times
    <3>4. r.at <= w.at /\ hour - r.at <= CacheTtl
      BY <2>1, <2>2, <3>1, <3>2
    <3>5. QED BY <2>2, <3>2, <3>3, <3>4
  <2>6. QED BY <2>3, <2>4, <2>5 DEF TrustInv
<1>3. QED BY <1>1, <1>2

\* A sign-in looks at the cache, and changes no verdict.
LEMMA SignInKeepsTrust ==
  ASSUME AccessTypeOK, TrustInv, NEW kid \in KeyIds, ring' = RingFor(kid),
         UNCHANGED <<published, withdrawn, verdict>>
  PROVE  TrustInv'
<1>1. KeysInv'
  BY RingKeeps DEF TrustInv, KeysInv, Drawn
<1>2. QED BY <1>1 DEF TrustInv, TrustIsRecent, GoodTokensPass

\* The provider takes a key back and publishes the next one, or none.
LEMMA RotateKeepsTrust ==
  ASSUME AccessTypeOK, TrustInv, NEW kid \in KeyIds, NEW again \in BOOLEAN, Rotate(kid, again)
  PROVE  TrustInv'
<1> DEFINE gone == [kid |-> kid, mat |-> published[kid], at |-> hour]
<1>1. /\ hour \in Nat /\ CacheTtl \in Nat /\ published \in [KeyIds -> Nat]
      /\ ring' = ring /\ verdict' = verdict /\ IsFiniteSet(withdrawn)
      /\ ring.at \in Int /\ verdict.at \in 0 .. hour /\ ring.keys \in [KeyIds -> Nat]
  BY AccessAssumption DEF AccessTypeOK, Times, Rotate
<1>2. /\ gone.kid = kid /\ gone.mat = published[kid] /\ gone.at = hour
      /\ withdrawn' = IF published[kid] = 0 THEN withdrawn ELSE withdrawn \cup {gone}
      /\ published' = [published EXCEPT ![kid] = IF again THEN Drawn(kid)' + 1 ELSE 0]
  BY DEF Rotate, NextMaterial, Drawn
<1> HIDE DEF gone
<1>3. \A k \in KeyIds : Drawn(k) \in Nat /\ published[k] \in {0, Drawn(k) + 1}
  BY <1>1, FS_Subset, FS_CardinalityType DEF Drawn, TrustInv, KeysInv
<1>4. \A k \in KeyIds : Drawn(k)' = Drawn(k) \/ (k = kid /\ published[kid] # 0)
  BY <1>2 DEF Drawn
<1>40. published[kid] # 0 => Drawn(kid)' = Drawn(kid) + 1
  <2> SUFFICES ASSUME published[kid] # 0 PROVE Drawn(kid)' = Drawn(kid) + 1
    OBVIOUS
  <2> DEFINE Of == {w \in withdrawn : w.kid = kid}
  <2>1. IsFiniteSet(Of) /\ gone \notin Of
    BY <1>1, <1>2, FS_Subset, PublishedIsNew DEF TrustInv
  <2>2. {w \in withdrawn' : w.kid = kid} = Of \cup {gone}
    BY <1>2
  <2>3. Cardinality(Of \cup {gone}) = Cardinality(Of) + 1
    BY <2>1, FS_AddElement
  <2>4. QED BY <2>2, <2>3 DEF Drawn
<1>41. \A k \in KeyIds : Drawn(k)' \in Nat /\ Drawn(k) <= Drawn(k)'
  BY <1>3, <1>4, <1>40
<1>5. \A k \in KeyIds : published'[k] \in {0, Drawn(k)' + 1}
  BY <1>1, <1>2, <1>3, <1>4, <1>40
<1>6. \A w \in withdrawn' : w.mat <= Drawn(w.kid)'
  <2> SUFFICES ASSUME NEW w \in withdrawn' PROVE w.mat <= Drawn(w.kid)'
    OBVIOUS
  <2>1. CASE w \in withdrawn
    <3>1. w.kid \in KeyIds /\ w.mat \in Nat /\ w.mat <= Drawn(w.kid)
      BY <2>1 DEF AccessTypeOK, TrustInv, KeysInv
    <3>2. QED BY <1>3, <1>41, <3>1
  <2>2. CASE w = gone /\ published[kid] # 0
    <3>1. published[kid] = Drawn(kid) + 1
      BY <1>3, <2>2
    <3>2. QED BY <1>2, <1>3, <1>40, <2>2, <3>1
  <2>3. QED BY <1>2, <2>1, <2>2
<1>7. ring.at <= hour
  BY DEF AccessTypeOK
<1>8. \A w \in withdrawn' : w.mat = ring.keys[w.kid] => ring.at <= w.at
  BY <1>2, <1>7 DEF TrustInv, KeysInv
<1>9. \A k \in KeyIds : ring.keys[k] \notin {0, published'[k]} =>
         \E w \in withdrawn' : w.kid = k /\ w.mat = ring.keys[k]
  <2> SUFFICES ASSUME NEW k \in KeyIds, ring.keys[k] \notin {0, published'[k]}
               PROVE  \E w \in withdrawn' : w.kid = k /\ w.mat = ring.keys[k]
    OBVIOUS
  <2>1. CASE ring.keys[k] # published[k]
    BY <1>2, <2>1 DEF TrustInv, KeysInv
  <2>2. CASE ring.keys[k] = published[k]
    <3>1. k = kid /\ published[kid] # 0
      BY <1>1, <1>2, <2>2
    <3>2. QED BY <1>2, <2>2, <3>1
  <2>3. QED BY <2>1, <2>2
<1>10. KeysInv'
  BY <1>1, <1>5, <1>6, <1>8, <1>9 DEF KeysInv
<1>11. TrustIsRecent'
  <2>1. \A w \in withdrawn' : w \in withdrawn \/ verdict.at - w.at <= CacheTtl
    <3>1. verdict.at - hour <= CacheTtl
      BY <1>1
    <3>2. QED BY <1>2, <3>1
  <2>2. QED BY <1>1, <2>1 DEF TrustInv, TrustIsRecent
<1>12. GoodTokensPass'
  BY <1>1, <1>2 DEF TrustInv, GoodTokensPass
<1>13. QED BY <1>10, <1>11, <1>12 DEF TrustInv

-----------------------------------------------------------------------------
(* How often an address may fail.                                           *)

\* The requests of an address that are under way.
Visiting(a) == Cardinality({v \in Visitors : visit[v] = a})
Tolerated == FailMax + Cardinality(Visitors) - 1

\* The list of an address is right for the times that still count, and of what
\* an address may fail in a window it has spent the refusals, and while the window
\* lasts the requests that are under way.
RateInv ==
    /\ \A a \in Addresses, t \in Times : hour - t < FailWindow => fails[a][t] = refused[a][t]
    /\ \A a \in Addresses, t \in Times : t > hour => refused[a][t] = 0
    /\ \A a \in Addresses, t \in 0 .. hour :
         /\ HowOften(refused[a], InWindow(t)) <= Tolerated
         /\ hour < t + FailWindow =>
              HowOften(refused[a], InWindow(t)) + Visiting(a) <= Tolerated

\* The counts are numbers.
LEMMA CountsAreNumbers ==
  ASSUME AccessTypeOK
  PROVE  /\ hour \in Nat /\ hour \in Times /\ LastHour \in Nat
         /\ FailWindow \in Nat \ {0} /\ FailMax \in Nat \ {0}
         /\ Cardinality(Visitors) \in Nat /\ Tolerated \in Nat /\ Tolerated >= Cardinality(Visitors)
         /\ \A a : Visiting(a) \in Nat /\ Visiting(a) <= Cardinality(Visitors)
         /\ IsFiniteSet(Times) /\ \A t : IsFiniteSet(InWindow(t)) /\ InWindow(t) \subseteq Times
         /\ \A counts \in [Times -> Nat] : \A t : HowOften(counts, InWindow(t)) \in Nat
<1>1. hour \in Nat /\ LastHour \in Nat /\ FailWindow \in Nat \ {0} /\ FailMax \in Nat \ {0}
  BY AccessAssumption DEF AccessTypeOK, Times
<1>2. \A a : IsFiniteSet({v \in Visitors : visit[v] = a})
             /\ Visiting(a) \in Nat /\ Visiting(a) <= Cardinality(Visitors)
  BY AccessAssumption, FS_Subset, FS_CardinalityType DEF Visiting
<1>3. Cardinality(Visitors) \in Nat
  BY AccessAssumption, FS_CardinalityType
<1>4. IsFiniteSet(Times) /\ \A t : IsFiniteSet(InWindow(t)) /\ InWindow(t) \subseteq Times
  <2>1. 0 \in Int /\ LastHour \in Int
    BY <1>1
  <2>2. IsFiniteSet(Times)
    BY <2>1, FS_Interval DEF Times
  <2>3. \A t : InWindow(t) \subseteq Times
    BY DEF InWindow
  <2>4. QED BY <2>2, <2>3, FS_Subset
<1>5. \A counts \in [Times -> Nat] : \A t : HowOften(counts, InWindow(t)) \in Nat
  BY <1>4, SumType DEF HowOften
<1>6. hour \in Times
  BY DEF AccessTypeOK
<1>7. Tolerated \in Nat /\ Tolerated >= Cardinality(Visitors)
  BY <1>1, <1>3 DEF Tolerated
<1>8. QED BY <1>1, <1>2, <1>3, <1>4, <1>5, <1>6, <1>7

\* A request is let in when the fresh failures leave room for it.
LEMMA EnterKeepsRate ==
  ASSUME AccessTypeOK, RateInv, NEW v \in Visitors, NEW a \in Addresses, Enter(v, a)
  PROVE  RateInv'
<1>1. /\ hour' = hour /\ refused' = refused /\ visit[v] = Nobody
      /\ fails' = [fails EXCEPT ![a] = FreshFails(fails[a])]
      /\ visit' = IF TooMany(fails[a]) THEN visit ELSE [visit EXCEPT ![v] = a]
      /\ fails \in [Addresses -> [Times -> Nat]] /\ refused \in [Addresses -> [Times -> Nat]]
      /\ visit \in [Visitors -> Addresses \cup {Nobody}] /\ hour \in Nat
  BY CountsAreNumbers DEF Enter, AccessTypeOK
<1>2. \A b \in Addresses, t \in Times : hour - t < FailWindow => fails'[b][t] = refused[b][t]
  <2>1. \A t \in Times : hour - t < FailWindow => FreshFails(fails[a])[t] = fails[a][t]
    BY DEF FreshFails
  <2>2. QED BY <1>1, <2>1 DEF RateInv
<1>3. \A b \in Addresses : b # a => Visiting(b)' = Visiting(b)
  <2>1. ASSUME NEW b \in Addresses, b # a
        PROVE  {w \in Visitors : visit'[w] = b} = {w \in Visitors : visit[w] = b}
    <3>1. b # Nobody
      BY AccessAssumption
    <3>2. \A w \in Visitors : visit'[w] = b <=> visit[w] = b
      BY <1>1, <2>1, <3>1
    <3>3. QED BY <3>2
  <2>2. QED BY <2>1 DEF Visiting
<1>4. TooMany(fails[a]) => Visiting(a)' = Visiting(a)
  BY <1>1 DEF Visiting
<1>5. ASSUME ~TooMany(fails[a]), NEW t \in 0 .. hour, hour < t + FailWindow
      PROVE  HowOften(refused[a], InWindow(t)) <= FailMax - 1
  <2> DEFINE fresh == FreshFails(fails[a])
  <2>1. fresh \in [Times -> Nat] /\ \A u \in InWindow(t) : fresh[u] = refused[a][u]
    <3>1. ASSUME NEW u \in InWindow(t) PROVE fresh[u] = refused[a][u]
      <4>1. u \in Times /\ u \in Int /\ t <= u
        BY CountsAreNumbers DEF InWindow, Times
      <4>2. hour - u < FailWindow
        BY <1>5, <4>1, CountsAreNumbers
      <4>3. QED BY <4>1, <4>2 DEF FreshFails, RateInv
    <3>2. QED BY <1>1, <3>1 DEF FreshFails
  <2>2. ~(HowOften(fresh, Times) >= FailMax)
    BY <1>5 DEF TooMany
  <2> HIDE DEF fresh
  <2>3. HowOften(fresh, InWindow(t)) = HowOften(refused[a], InWindow(t))
    BY <2>1, SumSame, CountsAreNumbers DEF HowOften
  <2>4. HowOften(fresh, InWindow(t)) <= HowOften(fresh, Times)
    BY <2>1, SumSubset, CountsAreNumbers DEF HowOften
  <2>5. HowOften(fresh, Times) \in Nat
    BY <2>1, SumType, CountsAreNumbers DEF HowOften
  <2>6. HowOften(refused[a], InWindow(t)) \in Nat
    BY <1>1, CountsAreNumbers
  <2>7. QED BY <2>2, <2>3, <2>4, <2>5, <2>6, CountsAreNumbers
<1>6. ASSUME NEW b \in Addresses, NEW t \in 0 .. hour, hour < t + FailWindow
      PROVE  HowOften(refused[b], InWindow(t)) + Visiting(b)' <= Tolerated
  <2>1. CASE b # a \/ TooMany(fails[a])
    BY <1>3, <1>4, <1>6, <2>1 DEF RateInv
  <2>2. CASE b = a /\ ~TooMany(fails[a])
    <3>1. Visiting(a)' \in Nat /\ Visiting(a)' <= Cardinality(Visitors)
      BY AccessAssumption, FS_Subset, FS_CardinalityType DEF Visiting
    <3>2. HowOften(refused[a], InWindow(t)) <= FailMax - 1
      BY <1>5, <1>6, <2>2
    <3>3. HowOften(refused[a], InWindow(t)) \in Nat
      BY <1>1, CountsAreNumbers
    <3>4. QED BY <2>2, <3>1, <3>2, <3>3, CountsAreNumbers DEF Tolerated
  <2>3. QED BY <2>1, <2>2
<1>7. \A b \in Addresses, t \in 0 .. hour : HowOften(refused[b], InWindow(t)) <= Tolerated
  BY DEF RateInv
<1>8. \A b \in Addresses, t \in Times : t > hour => refused[b][t] = 0
  BY DEF RateInv
<1> HIDE DEF Visiting
<1>9. QED BY <1>1, <1>2, <1>6, <1>7, <1>8 DEF RateInv, InWindow, Tolerated, HowOften

\* A request is over: a refusal takes the place of the request that was under way.
LEMMA LeaveKeepsRate ==
  ASSUME AccessTypeOK, RateInv, NEW v \in Visitors, NEW status, Leave(v, status), hour' = hour
  PROVE  RateInv'
<1>0. PICK a \in Addresses : visit[v] = a
  BY DEF Leave, AccessTypeOK
<1>1. /\ hour \in Times /\ hour \in Nat
      /\ visit' = [visit EXCEPT ![v] = Nobody]
      /\ fails \in [Addresses -> [Times -> Nat]] /\ refused \in [Addresses -> [Times -> Nat]]
      /\ visit \in [Visitors -> Addresses \cup {Nobody}]
  BY CountsAreNumbers DEF Leave, AccessTypeOK
<1>2. \A b \in Addresses : b # a => Visiting(b)' = Visiting(b)
  <2>1. ASSUME NEW b \in Addresses, b # a
        PROVE  {w \in Visitors : visit'[w] = b} = {w \in Visitors : visit[w] = b}
    <3>1. b # Nobody
      BY AccessAssumption
    <3>2. \A w \in Visitors : visit'[w] = b <=> visit[w] = b
      BY <1>0, <1>1, <2>1, <3>1
    <3>3. QED BY <3>2
  <2>2. QED BY <2>1 DEF Visiting
<1>3. Visiting(a)' + 1 = Visiting(a) /\ Visiting(a)' \in Nat
  <2> DEFINE here == {w \in Visitors : visit[w] = a}
  <2>1. IsFiniteSet(here) /\ v \in here
    BY <1>0, AccessAssumption, FS_Subset
  <2>2. {w \in Visitors : visit'[w] = a} = here \ {v}
    <3>1. a # Nobody
      BY AccessAssumption
    <3>2. \A w \in Visitors : visit'[w] = a <=> visit[w] = a /\ w # v
      BY <1>1, <3>1
    <3>3. QED BY <3>2
  <2>3. Cardinality(here \ {v}) = Cardinality(here) - 1 /\ Cardinality(here) \in Nat
        /\ Cardinality(here \ {v}) \in Nat
    BY <2>1, FS_RemoveElement, FS_Subset, FS_CardinalityType
  <2>4. Visiting(a) = Cardinality(here) /\ Visiting(a)' = Cardinality(here \ {v})
    BY <2>2 DEF Visiting
  <2> HIDE DEF Visiting
  <2>5. QED BY <2>3, <2>4
<1>4. \A b \in Addresses : Visiting(b) \in Nat /\ Visiting(b)' \in Nat /\ Visiting(b)' <= Visiting(b)
  BY <1>2, <1>3, CountsAreNumbers
<1>5. CASE status # 401
  <2>1. fails' = fails /\ refused' = refused
    BY <1>5 DEF Leave
  <2>2. ASSUME NEW b \in Addresses, NEW t \in 0 .. hour, hour < t + FailWindow
        PROVE  HowOften(refused[b], InWindow(t)) + Visiting(b)' <= Tolerated
    <3>1. /\ HowOften(refused[b], InWindow(t)) + Visiting(b) <= Tolerated
          /\ HowOften(refused[b], InWindow(t)) \in Nat
      BY <1>1, <2>2, CountsAreNumbers DEF RateInv
    <3>2. QED BY <1>4, <3>1, CountsAreNumbers
  <2> HIDE DEF Visiting
  <2>3. QED BY <2>1, <2>2 DEF RateInv, InWindow, Tolerated, HowOften
<1>6. CASE status = 401
  <2>1. /\ fails' = [fails EXCEPT ![a][hour] = @ + 1]
        /\ refused' = [refused EXCEPT ![a][hour] = @ + 1]
    BY <1>0, <1>6 DEF Leave
  <2>2. \A b \in Addresses, t \in Times : hour - t < FailWindow => fails'[b][t] = refused'[b][t]
    BY <1>1, <2>1 DEF RateInv
  <2>3. \A b \in Addresses, t \in Times : t > hour => refused'[b][t] = 0
    BY <1>1, <2>1 DEF RateInv
  <2>4. ASSUME NEW b \in Addresses, NEW t \in 0 .. hour, ~(b = a /\ hour < t + FailWindow)
        PROVE  HowOften(refused'[b], InWindow(t)) = HowOften(refused[b], InWindow(t))
    <3>1. \A u \in InWindow(t) : refused'[b][u] = refused[b][u]
      BY <1>1, <2>1, <2>4 DEF InWindow
    <3>2. QED BY <3>1, SumSame, CountsAreNumbers DEF HowOften
  <2>5. ASSUME NEW t \in 0 .. hour, hour < t + FailWindow
        PROVE  HowOften(refused'[a], InWindow(t)) = HowOften(refused[a], InWindow(t)) + 1
    <3> DEFINE f == refused[a]
               g == refused'[a]
               w == InWindow(t)
    <3>1. hour \in w /\ \A u \in w : u \in Times
      BY <1>1, <2>5 DEF InWindow
    <3>2. /\ \A u \in w : f[u] \in Int /\ g[u] \in Int
          /\ \A u \in w \ {hour} : f[u] = g[u]
          /\ g[hour] - f[hour] = 1
      BY <1>1, <2>1, <3>1
    <3>3. IsFiniteSet(w)
      BY CountsAreNumbers
    <3>30. HowOften(refused[a], InWindow(t)) = SumFunctionOnSet(f, w)
           /\ HowOften(refused'[a], InWindow(t)) = SumFunctionOnSet(g, w)
      BY DEF HowOften
    <3> HIDE DEF f, g, w
    <3>4. SumFunctionOnSet(g, w) = SumFunctionOnSet(f, w) + (g[hour] - f[hour])
      BY <3>1, <3>2, <3>3, SumChange
    <3>5. QED BY <3>2, <3>30, <3>4
  <2>6. ASSUME NEW b \in Addresses, NEW t \in 0 .. hour
        PROVE  /\ HowOften(refused'[b], InWindow(t)) <= Tolerated
               /\ hour < t + FailWindow =>
                    HowOften(refused'[b], InWindow(t)) + Visiting(b)' <= Tolerated
    <3>1. /\ HowOften(refused[b], InWindow(t)) <= Tolerated
          /\ hour < t + FailWindow => HowOften(refused[b], InWindow(t)) + Visiting(b) <= Tolerated
          /\ HowOften(refused[b], InWindow(t)) \in Nat
      BY <1>1, CountsAreNumbers DEF RateInv
    <3>2. CASE b = a /\ hour < t + FailWindow
      <4>1. HowOften(refused'[b], InWindow(t)) = HowOften(refused[b], InWindow(t)) + 1
        BY <2>5, <3>2
      <4>2. Visiting(b)' + 1 = Visiting(b) /\ Visiting(b)' \in Nat
        BY <1>3, <3>2
      <4> HIDE DEF Visiting
      <4>3. QED BY <3>1, <3>2, <4>1, <4>2, CountsAreNumbers
    <3>3. CASE ~(b = a /\ hour < t + FailWindow)
      <4>1. HowOften(refused'[b], InWindow(t)) = HowOften(refused[b], InWindow(t))
        BY <2>4, <3>3
      <4>2. Visiting(b) \in Nat /\ Visiting(b)' \in Nat /\ Visiting(b)' <= Visiting(b)
        BY <1>4
      <4>3. QED BY <3>1, <4>1, <4>2, CountsAreNumbers
    <3>4. QED BY <3>2, <3>3
  <2> HIDE DEF Visiting
  <2>7. QED BY <2>2, <2>3, <2>6 DEF RateInv, InWindow, Tolerated, HowOften
<1>7. QED BY <1>5, <1>6

\* An hour later the new window is empty.
LEMMA HourKeepsRate ==
  ASSUME AccessTypeOK, RateInv, HourPasses
  PROVE  RateInv'
<1>1. /\ hour' = hour + 1 /\ hour \in Nat
      /\ fails' = fails /\ refused' = refused /\ visit' = visit
  BY CountsAreNumbers DEF HourPasses, counting
<1>2. ASSUME NEW a \in Addresses, NEW t \in 0 .. hour'
      PROVE  /\ HowOften(refused[a], InWindow(t)) <= Tolerated
             /\ hour' < t + FailWindow =>
                  HowOften(refused[a], InWindow(t)) + Visiting(a) <= Tolerated
  <2>1. CASE t \in 0 .. hour
    BY <1>1, <2>1, CountsAreNumbers DEF RateInv
  <2>2. CASE t = hour + 1
    <3>1. \A u \in InWindow(t) : refused[a][u] = 0
      BY <1>1, <2>2 DEF InWindow, RateInv, Times
    <3>2. HowOften(refused[a], InWindow(t)) = 0
      BY <3>1, SumZero, CountsAreNumbers DEF HowOften
    <3>3. Visiting(a) \in Nat /\ Visiting(a) <= Cardinality(Visitors)
      BY CountsAreNumbers
    <3>4. QED BY <3>2, <3>3, CountsAreNumbers
  <2>3. QED BY <1>1, <2>1, <2>2
<1>3. \A a \in Addresses : Visiting(a)' = Visiting(a)
  BY <1>1 DEF Visiting
<1>4. \A a \in Addresses, t \in Times : hour' - t < FailWindow => fails[a][t] = refused[a][t]
  BY <1>1, CountsAreNumbers DEF RateInv, Times
<1>5. \A a \in Addresses, t \in Times : t > hour' => refused[a][t] = 0
  BY <1>1, CountsAreNumbers DEF RateInv, Times
<1> HIDE DEF Visiting
<1>6. QED BY <1>1, <1>2, <1>3, <1>4, <1>5 DEF RateInv, InWindow, Tolerated, HowOften

-----------------------------------------------------------------------------
(* Together.                                                                *)

AccessInv == AccessTypeOK /\ TrustInv /\ RateInv

\* A request leaves the cache and the verdict of the right kind.
LEMMA UserType ==
  ASSUME AccessTypeOK, NEW q \in Carried, GetCurrentUser(q), hour' = hour
  PROVE  /\ ring' \in [keys : [KeyIds -> Nat], at : Int] /\ ring'.at <= hour
         /\ verdict' \in [by : {"oidc", "api_key", "session", "refused"},
                          tok : Bearers \cup {Nobody}, at : 0 .. hour, current : BOOLEAN, out : BOOLEAN]
<1>1. hour \in 0 .. hour /\ down \in BOOLEAN /\ 0 \in 0 .. hour
  BY DEF AccessTypeOK, Times
<1>2. CASE q.tok = Nobody
  BY <1>1, <1>2 DEF GetCurrentUser, RingAfter, NoVerdict, AccessTypeOK
<1>3. CASE q.tok # Nobody
  <2>1. q.tok \in Bearers /\ q.tok.kid \in KeyIds
    BY <1>3, AccessAssumption DEF Carried
  <2>2. ring' = RingFor(q.tok.kid)
    BY <1>3 DEF GetCurrentUser, RingAfter
  <2>3. ring' \in [keys : [KeyIds -> Nat], at : Int] /\ ring'.at <= hour
    BY <2>1, <2>2, RingType
  <2>4. Method(q) \in {"oidc", "api_key", "session", "refused"}
    BY DEF Method
  <2>5. verdict' \in [by : {"oidc", "api_key", "session", "refused"},
                      tok : Bearers \cup {Nobody}, at : 0 .. hour, current : BOOLEAN, out : BOOLEAN]
    <3>1. (published[q.tok.kid] = q.tok.mat) \in BOOLEAN
      OBVIOUS
    <3>2. verdict' = [by |-> Method(q), tok |-> q.tok, at |-> hour, out |-> down,
                      current |-> published[q.tok.kid] = q.tok.mat]
      BY <1>3 DEF GetCurrentUser
    <3> HIDE DEF Method
    <3>3. QED BY <1>1, <2>1, <2>4, <3>1, <3>2, Zenon
  <2>6. QED BY <2>3, <2>5
<1>4. QED BY <1>2, <1>3

\* The end of a request leaves the lists of the right kind.
LEMMA LeaveType ==
  ASSUME AccessTypeOK, NEW v \in Visitors, NEW status, Leave(v, status)
  PROVE  /\ fails' \in [Addresses -> [Times -> Nat]] /\ refused' \in [Addresses -> [Times -> Nat]]
         /\ visit' \in [Visitors -> Addresses \cup {Nobody}]
<1>1. PICK a \in Addresses : visit[v] = a
  BY DEF Leave, AccessTypeOK
<1>2. hour \in Times /\ fails \in [Addresses -> [Times -> Nat]]
      /\ refused \in [Addresses -> [Times -> Nat]] /\ visit \in [Visitors -> Addresses \cup {Nobody}]
  BY DEF AccessTypeOK
<1>3. /\ visit' = [visit EXCEPT ![v] = Nobody]
      /\ \/ fails' = fails /\ refused' = refused
         \/ /\ fails' = [fails EXCEPT ![a][hour] = @ + 1]
            /\ refused' = [refused EXCEPT ![a][hour] = @ + 1]
  BY <1>1 DEF Leave
<1>4. CASE fails' = fails /\ refused' = refused
  BY <1>2, <1>3, <1>4
<1>5. CASE /\ fails' = [fails EXCEPT ![a][hour] = @ + 1]
           /\ refused' = [refused EXCEPT ![a][hour] = @ + 1]
  <2>1. fails[a][hour] + 1 \in Nat /\ refused[a][hour] + 1 \in Nat
    BY <1>2
  <2>2. fails' \in [Addresses -> [Times -> Nat]] /\ refused' \in [Addresses -> [Times -> Nat]]
    BY <1>2, <1>5, <2>1
  <2>3. QED BY <1>2, <1>3, <2>2
<1>6. QED BY <1>3, <1>4, <1>5

\* The end of a request, with what it did to the session and the cache.
LEMMA LeaveKeepsInv ==
  ASSUME AccessInv, NEW v \in Visitors, NEW status, Leave(v, status),
         UNCHANGED <<hour, provider>>, session' \in Int, TrustInv',
         ring' \in [keys : [KeyIds -> Nat], at : Int] /\ ring'.at <= hour,
         verdict' \in [by : {"oidc", "api_key", "session", "refused"},
                       tok : Bearers \cup {Nobody}, at : 0 .. hour, current : BOOLEAN, out : BOOLEAN]
  PROVE  AccessInv'
<1>1. RateInv'
  BY LeaveKeepsRate DEF AccessInv
<1>2. AccessTypeOK'
  BY LeaveType DEF AccessInv, AccessTypeOK, provider, Times
<1>3. QED BY <1>1, <1>2 DEF AccessInv

\* A sign-in through the provider.
LEMMA CallbackKeepsInv ==
  ASSUME AccessInv, NEW v \in Visitors, NEW tok \in Bearers, Callback(v, tok)
  PROVE  AccessInv'
<1>1. tok.kid \in KeyIds
  BY AccessAssumption
<1>2. PICK status : Leave(v, status)
  BY DEF Callback
<1>3. session' \in Int /\ UNCHANGED <<hour, provider>> /\ verdict' = verdict /\ ring' = RingFor(tok.kid)
  BY AccessAssumption, CountsAreNumbers DEF Callback, AccessInv, AccessTypeOK
<1>4. ring' \in [keys : [KeyIds -> Nat], at : Int] /\ ring'.at <= hour
  BY <1>1, <1>3, RingType DEF AccessInv
<1>5. TrustInv'
  BY <1>1, <1>3, SignInKeepsTrust DEF AccessInv, provider
<1>6. QED BY <1>2, <1>3, <1>4, <1>5, LeaveKeepsInv DEF AccessInv, AccessTypeOK

\* A request that leaves the cache and the verdict alone.
LEMMA OtherVisitKeepsInv ==
  ASSUME AccessInv, NEW v \in Visitors, Refresh(v) \/ SamlAcs(v) \/ Logout(v)
  PROVE  AccessInv'
<1>1. PICK status : Leave(v, status)
  BY DEF Refresh, SamlAcs, Logout
<1>2. session' \in Int /\ UNCHANGED <<hour, provider, ring, verdict>>
  BY AccessAssumption, CountsAreNumbers DEF Refresh, SamlAcs, Logout, AccessInv, AccessTypeOK
<1>3. TrustInv'
  BY <1>2 DEF AccessInv, TrustInv, KeysInv, Drawn, TrustIsRecent, GoodTokensPass, provider
<1>4. QED BY <1>1, <1>2, <1>3, LeaveKeepsInv DEF AccessInv, AccessTypeOK

\* A request is let in, or turned away.
LEMMA EnterKeepsInv ==
  ASSUME AccessInv, NEW v \in Visitors, NEW a \in Addresses, Enter(v, a)
  PROVE  AccessInv'
<1>1. RateInv'
  BY EnterKeepsRate DEF AccessInv
<1>2. TrustInv'
  BY DEF Enter, AccessInv, TrustInv, KeysInv, Drawn, TrustIsRecent, GoodTokensPass, provider
<1>3. AccessTypeOK'
  <2>1. FreshFails(fails[a]) \in [Times -> Nat]
    BY DEF FreshFails, AccessInv, AccessTypeOK
  <2>2. /\ fails' \in [Addresses -> [Times -> Nat]]
        /\ visit' \in [Visitors -> Addresses \cup {Nobody}]
    BY <2>1 DEF Enter, AccessInv, AccessTypeOK
  <2>3. UNCHANGED <<hour, provider, refused, ring, session, verdict>>
    BY DEF Enter
  <2>4. QED BY <2>2, <2>3 DEF AccessInv, AccessTypeOK, provider, Times
<1>4. QED BY <1>1, <1>2, <1>3 DEF AccessInv

\* The provider and the clock.
LEMMA OutsideKeepsInv ==
  ASSUME AccessInv, (\E kid \in KeyIds, again \in BOOLEAN : Rotate(kid, again)) \/ Outage \/ HourPasses
  PROVE  AccessInv'
<1>1. CASE \E kid \in KeyIds, again \in BOOLEAN : Rotate(kid, again)
  <2>1. PICK kid \in KeyIds, again \in BOOLEAN : Rotate(kid, again)
    BY <1>1
  <2>2. TrustInv'
    BY <2>1, RotateKeepsTrust DEF AccessInv
  <2>3. UNCHANGED <<hour, down, ring, counting, session, verdict>>
    BY <2>1 DEF Rotate
  <2>4. RateInv'
    BY <2>3 DEF AccessInv, RateInv, InWindow, Tolerated, HowOften, Visiting, counting
  <2>5. IsFiniteSet(withdrawn') /\ withdrawn' \subseteq [kid : KeyIds, mat : Nat \ {0}, at : 0 .. hour]
    <3> DEFINE gone == [kid |-> kid, mat |-> published[kid], at |-> hour]
    <3>1. withdrawn' = withdrawn \/ (published[kid] # 0 /\ withdrawn' = withdrawn \cup {gone})
      BY <2>1 DEF Rotate
    <3>2. IsFiniteSet(withdrawn) /\ withdrawn \subseteq [kid : KeyIds, mat : Nat \ {0}, at : 0 .. hour]
      BY DEF AccessInv, AccessTypeOK
    <3>3. published[kid] # 0 => gone \in [kid : KeyIds, mat : Nat \ {0}, at : 0 .. hour]
      BY CountsAreNumbers DEF AccessInv, AccessTypeOK
    <3> HIDE DEF gone
    <3>4. IsFiniteSet(withdrawn \cup {gone})
      BY <3>2, FS_AddElement
    <3>5. QED BY <3>1, <3>2, <3>3, <3>4
  <2>6. published' \in [KeyIds -> Nat]
    <3>1. NextMaterial(kid) \in Nat
      BY <2>5, FS_Subset, FS_CardinalityType DEF NextMaterial
    <3>2. published \in [KeyIds -> Nat]
          /\ published' = [published EXCEPT ![kid] = IF again THEN NextMaterial(kid) ELSE 0]
      BY <2>1 DEF Rotate, AccessInv, AccessTypeOK
    <3> HIDE DEF NextMaterial
    <3>3. QED BY <3>1, <3>2
  <2>7. QED BY <2>2, <2>3, <2>4, <2>5, <2>6 DEF AccessInv, AccessTypeOK, counting, Times
<1>2. CASE Outage
  <2>1. UNCHANGED <<hour, published, withdrawn, ring, counting, session, verdict>> /\ down' = ~down
    BY <1>2 DEF Outage
  <2>2. RateInv'
    BY <2>1 DEF AccessInv, RateInv, InWindow, Tolerated, HowOften, Visiting, counting
  <2>3. TrustInv'
    BY <2>1 DEF AccessInv, TrustInv, KeysInv, Drawn, TrustIsRecent, GoodTokensPass
  <2>4. QED BY <2>1, <2>2, <2>3 DEF AccessInv, AccessTypeOK, counting, Times
<1>3. CASE HourPasses
  <2>1. RateInv'
    BY <1>3, HourKeepsRate DEF AccessInv
  <2>2. UNCHANGED <<provider, ring, counting, session, verdict>> /\ hour' = hour + 1 /\ hour < LastHour
    BY <1>3 DEF HourPasses
  <2>3. TrustInv'
    BY <2>2 DEF AccessInv, TrustInv, KeysInv, Drawn, TrustIsRecent, GoodTokensPass, provider
  <2>4. AccessTypeOK'
    <3>1. hour' \in Times /\ 0 .. hour \subseteq 0 .. hour'
      BY <2>2, CountsAreNumbers DEF AccessInv, Times
    <3>2. ring'.at <= hour'
      BY <2>2, CountsAreNumbers DEF AccessInv, AccessTypeOK
    <3>3. withdrawn' \subseteq [kid : KeyIds, mat : Nat \ {0}, at : 0 .. hour']
      BY <2>2, <3>1 DEF AccessInv, AccessTypeOK, provider
    <3>4. verdict' \in [by : {"oidc", "api_key", "session", "refused"},
                        tok : Bearers \cup {Nobody}, at : 0 .. hour', current : BOOLEAN, out : BOOLEAN]
      BY <2>2, <3>1 DEF AccessInv, AccessTypeOK
    <3>5. QED BY <2>2, <3>1, <3>2, <3>3, <3>4 DEF AccessInv, AccessTypeOK, provider, counting, Times
  <2>5. QED BY <2>1, <2>3, <2>4 DEF AccessInv
<1>4. QED BY <1>1, <1>2, <1>3

\* The initial states are in order.
LEMMA AccessInitInv ==
  ASSUME AccessInit
  PROVE  AccessInv
<1> USE DEF AccessInit
<1>1. AccessTypeOK
  <2>1. hour \in Times /\ published \in [KeyIds -> Nat] /\ 0 \in 0 .. hour /\ session \in Int
    BY AccessAssumption DEF Times
  <2>2. IsFiniteSet(withdrawn) /\ withdrawn \subseteq [kid : KeyIds, mat : Nat \ {0}, at : 0 .. hour]
    BY FS_EmptySet
  <2>3. ring \in [keys : [KeyIds -> Nat], at : Int] /\ ring.at <= hour
    BY AccessAssumption
  <2>4. verdict \in [by : {"oidc", "api_key", "session", "refused"},
                     tok : Bearers \cup {Nobody}, at : 0 .. hour, current : BOOLEAN, out : BOOLEAN]
    BY <2>1 DEF NoVerdict
  <2>5. fails \in [Addresses -> [Times -> Nat]] /\ refused \in [Addresses -> [Times -> Nat]]
        /\ visit \in [Visitors -> Addresses \cup {Nobody}]
    BY DEF Never
  <2>6. QED BY <2>1, <2>2, <2>3, <2>4, <2>5 DEF AccessTypeOK
<1>2. TrustInv
  <2>1. \A kid \in KeyIds : Drawn(kid) = 0
    BY FS_EmptySet DEF Drawn
  <2>2. verdict.by # "oidc" /\ verdict.tok = Nobody
    BY DEF NoVerdict
  <2>3. QED BY <2>1, <2>2 DEF TrustInv, KeysInv, TrustIsRecent, GoodTokensPass
<1>3. RateInv
  <2>1. ASSUME NEW a \in Addresses, NEW t \in 0 .. hour
        PROVE  HowOften(refused[a], InWindow(t)) = 0
    <3>1. \A u \in InWindow(t) : refused[a][u] = 0
      BY DEF InWindow, Never
    <3>2. QED BY <1>1, <3>1, SumZero, CountsAreNumbers DEF HowOften
  <2>2. \A a \in Addresses, t \in Times : fails[a][t] = refused[a][t] /\ refused[a][t] = 0
    BY DEF Never
  <2>3. \A a : Visiting(a) \in Nat /\ Visiting(a) <= Tolerated
    BY <1>1, CountsAreNumbers
  <2> HIDE DEF AccessInit
  <2>4. QED BY <1>1, <2>1, <2>2, <2>3, CountsAreNumbers DEF RateInv
<1>4. QED BY <1>1, <1>2, <1>3 DEF AccessInv

\* Every step keeps the invariant.
LEMMA AccessStepInv ==
  ASSUME AccessInv, [AccessNext]_accessvars
  PROVE  AccessInv'
<1>1. ASSUME NEW q \in Carried, CallApi(q) PROVE AccessInv'
  <2>1. GetCurrentUser(q) /\ UNCHANGED <<hour, provider, counting, session>>
    BY <1>1 DEF CallApi
  <2>2. TrustInv'
    BY <2>1, UserKeepsTrust DEF AccessInv, provider
  <2>3. RateInv'
    BY <2>1 DEF AccessInv, RateInv, InWindow, Tolerated, HowOften, Visiting, counting
  <2>4. AccessTypeOK'
    BY <2>1, UserType DEF AccessInv, AccessTypeOK, provider, counting, Times
  <2>5. QED BY <2>2, <2>3, <2>4 DEF AccessInv
<1>2. ASSUME NEW q \in Carried, NEW v \in Visitors, Me(v, q) PROVE AccessInv'
  <2>1. GetCurrentUser(q) /\ UNCHANGED <<hour, provider, session>>
    BY <1>2 DEF Me
  <2>2. PICK status : Leave(v, status)
    BY <1>2 DEF Me
  <2>3. TrustInv'
    BY <2>1, UserKeepsTrust DEF AccessInv, provider
  <2>4. QED BY <2>1, <2>2, <2>3, UserType, LeaveKeepsInv DEF AccessInv, AccessTypeOK
<1>3. ASSUME UNCHANGED accessvars PROVE AccessInv'
  <2>1. UNCHANGED <<hour, published, down, withdrawn, ring, fails, visit, refused, session, verdict>>
    BY <1>3 DEF accessvars, provider, counting
  <2>2. TrustInv'
    BY <2>1 DEF AccessInv, TrustInv, KeysInv, Drawn, TrustIsRecent, GoodTokensPass
  <2>3. RateInv'
    BY <2>1 DEF AccessInv, RateInv, InWindow, Tolerated, HowOften, Visiting
  <2>4. AccessTypeOK'
    BY <2>1 DEF AccessInv, AccessTypeOK, Times
  <2>5. QED BY <2>2, <2>3, <2>4 DEF AccessInv
<1>4. QED
  BY <1>1, <1>2, <1>3, CallbackKeepsInv, OtherVisitKeepsInv, EnterKeepsInv, OutsideKeepsInv DEF AccessNext

\* A key the provider took back opens no door once the cache is old, a good token
\* is not turned away for longer than that, and no address fails more often in
\* a window than the limit and the requests under way allow.
THEOREM AccessIsSound == AccessSpec => []AccessSound
<1>1. AccessInv => AccessSound
  BY DEF AccessInv, TrustInv, RateInv, AccessSound, FailuresBounded, Tolerated
<1>2. QED BY <1>1, AccessInitInv, AccessStepInv, PTL DEF AccessSpec
===============================================================================
