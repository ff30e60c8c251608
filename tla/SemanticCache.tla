---------------------------- MODULE SemanticCache ----------------------------
(***************************************************************************)
(* SemanticCache (agentcost/gateway/semantic_cache.py): entries by exact    *)
(* key, and an index of keys per model that the similarity search walks.    *)
(* A prompt is a sequence of words; an entry's shingles are its words       *)
(* without stopwords and the pairs of neighbours among them.  A key is      *)
(* <<model, prompt, setting>>, so it tells in which model's list it is; of   *)
(* the lists the model keeps how often each key is in them, as their order   *)
(* only settles which of several equally similar entries is returned.       *)
(* Dense embeddings are not installed: similarity is Jaccard's.             *)
(***************************************************************************)
EXTENDS Naturals, Sequences, FiniteSets, SequencesExt

CONSTANTS SModels, Prompts, Settings,   \* Settings: temperature and tools
          Stopwords,
          ThNum, ThDen,       \* similarity_threshold as a fraction
          MaxEntries, Life,   \* max_entries, ttl
          MaxClock, MaxPuts,  \* bounds on the clock and on put
          Absent

ASSUME SemanticAssumption ==
    /\ {ThNum, ThDen, MaxEntries, Life, MaxClock, MaxPuts} \subseteq Nat
    /\ ThDen > 0 /\ ThNum > 0 /\ MaxEntries > 0
    /\ Absent \notin [n : Nat, t : Nat]

VARIABLES entries,   \* _entries: key -> [n, t] (which response, when), or Absent
          copies,    \* _model_index: how often a key is in its model's list
          found,     \* what the last get returned: [kind, key, got]
          puts,      \* number of responses stored so far
          clock

svars == <<entries, copies, found, puts, clock>>

EntryKeys == SModels \X Prompts \X Settings
NotFound == [kind |-> "miss", asked |-> Absent, got |-> Absent]

Keywords(words) == SelectSeq(words, LAMBDA x : x \notin Stopwords)
Pairs(s) == {<<s[n], s[n + 1]>> : n \in 1 .. Len(s) - 1}
Shingles(words) == LET s == Keywords(words) IN {<<x>> : x \in ToSet(s)} \cup Pairs(s)

\* Jaccard's similarity as <<numerator, denominator>>; 0 if either is empty.
Similarity(a, b) ==
    IF a = {} \/ b = {} THEN <<0, 1>> ELSE <<Cardinality(a \cap b), Cardinality(a \cup b)>>
Above(x, y) == x[1] * y[2] > y[1] * x[2]
ReachesThreshold(x) == x[1] * ThDen >= ThNum * x[2]

Found == [kind : {"exact", "semantic", "miss"}, asked : EntryKeys \cup {Absent},
          got : EntryKeys \cup {Absent}]

SemanticTypeOK ==
    /\ entries \in [EntryKeys -> [n : 1 .. MaxPuts, t : 0 .. MaxClock] \cup {Absent}]
    /\ copies \in [EntryKeys -> Nat]
    /\ found \in Found
    /\ puts \in 0 .. MaxPuts /\ clock \in 0 .. MaxClock

SemanticInit ==
    /\ entries = [k \in EntryKeys |-> Absent]
    /\ copies = [k \in EntryKeys |-> 0]
    /\ found = NotFound
    /\ puts = 0
    /\ clock = 0

Contents == [entries |-> entries, copies |-> copies]
Held(s) == {k \in EntryKeys : s.entries[k] # Absent}

\* _remove_entry of each of some keys: the entry goes, and one copy of its key.
Removed(s, gone) ==
    [entries |-> [k \in EntryKeys |-> IF k \in gone THEN Absent ELSE s.entries[k]],
     copies |-> [k \in EntryKeys |->
                   IF k \in gone \cap Held(s) /\ s.copies[k] > 0
                   THEN s.copies[k] - 1 ELSE s.copies[k]]]

Expired(k) == clock - entries[k].t >= Life
Alive(k) == entries[k] # Absent /\ ~Expired(k)
Text(k) == Shingles(k[2])

\* What the search meets in the model's list: the entries it removes, the others.
Met(s, m) == {k \in Held(s) : k[1] = m /\ s.copies[k] > 0}
Late(s, m) == {k \in Met(s, m) : Expired(k)}
Candidates(s, m) == Met(s, m) \ Late(s, m)
Best(keys, query) ==
    {k \in keys : /\ ReachesThreshold(Similarity(query, Text(k)))
                  /\ \A j \in keys : ~Above(Similarity(query, Text(j)),
                                            Similarity(query, Text(k)))}

\* get: an exact entry that is fresh; else, when the prompt has shingles, the
\* search, which removes the expired entries it meets.
Get(m, words, setting) ==
    LET key == <<m, words, setting>>
        query == Shingles(words)
        exact == IF entries[key] # Absent THEN Removed(Contents, {key}) ELSE Contents
        best == Best(Candidates(exact, m), query)
        Is(kind, got) == found' = [kind |-> kind, asked |-> key, got |-> got]
        Now(s) == entries' = s.entries /\ copies' = s.copies
    IN  /\ \/ /\ Alive(key)
              /\ Is("exact", key) /\ Now(Contents)
           \/ /\ ~Alive(key)
              /\ query = {}
              /\ Is("miss", Absent) /\ Now(exact)
           \/ /\ ~Alive(key)
              /\ query # {}
              /\ Now(Removed(exact, Late(exact, m)))
              /\ \/ best = {} /\ Is("miss", Absent)
                 \/ \E k \in best : Is("semantic", k)
        /\ UNCHANGED <<puts, clock>>

OldestKeys(s) == {k \in Held(s) : \A j \in Held(s) : s.entries[k].t <= s.entries[j].t}
MadeRoom(s) ==
    IF Cardinality(Held(s)) >= MaxEntries THEN {Removed(s, {k}) : k \in OldestKeys(s)} ELSE {s}

\* The key is appended to the list even if it is there already.
MutAppendNew(s, key) == IF entries[key] = Absent THEN [s.copies EXCEPT ![key] = @ + 1] ELSE s.copies
Appended(s, key) == [s.copies EXCEPT ![key] = @ + 1]

\* put: blank text is not stored; a full cache loses an oldest entry first.
Put(m, words, setting) ==
    LET key == <<m, words, setting>> IN
    /\ puts < MaxPuts
    /\ words # <<>>
    /\ \E s \in MadeRoom(Contents) :
         /\ entries' = [s.entries EXCEPT ![key] = [n |-> puts + 1, t |-> clock]]
         /\ copies' = Appended(s, key)
    /\ puts' = puts + 1
    /\ found' = NotFound
    /\ UNCHANGED clock

Clear ==
    /\ Held(Contents) # {}
    /\ entries' = [k \in EntryKeys |-> Absent]
    /\ copies' = [k \in EntryKeys |-> 0]
    /\ found' = NotFound
    /\ UNCHANGED <<puts, clock>>

Later ==
    /\ clock < MaxClock
    /\ clock' = clock + 1
    /\ found' = NotFound
    /\ UNCHANGED <<entries, copies, puts>>

SemanticNext ==
    \/ \E m \in SModels, words \in Prompts, setting \in Settings :
         Get(m, words, setting) \/ Put(m, words, setting)
    \/ Clear \/ Later

SemanticSpec == SemanticInit /\ [][SemanticNext]_svars

-----------------------------------------------------------------------------
\* Every entry can be found: its key is in the index of its model, although a
\* key that was stored twice is there twice and loses one copy per removal.
IndexComplete == \A k \in Held(Contents) : copies[k] > 0

\* The cache never holds more than max_entries.
EntriesBounded == Cardinality(Held(Contents)) <= MaxEntries

\* A hit is an entry of the model that was asked for, unexpired; an exact hit
\* is the key itself, and a semantic hit is at least as similar as every other
\* fresh entry of the model.  (Temperature and tools may differ: the search
\* does not look at them.)
HitsAreBest ==
    found.kind # "miss" =>
      /\ Alive(found.got)
      /\ found.got[1] = found.asked[1]
      /\ found.kind = "exact" => found.got = found.asked
      /\ found.kind = "semantic" =>
           \A k \in EntryKeys :
             k[1] = found.asked[1] /\ Alive(k) =>
               ~Above(Similarity(Shingles(found.asked[2]), Text(k)),
                      Similarity(Shingles(found.asked[2]), Text(found.got)))

SemanticSound == IndexComplete /\ EntriesBounded /\ HitsAreBest
===============================================================================
