---------------------------- MODULE PromptsProofs ----------------------------
(***************************************************************************)
(* Proofs about Prompts: for every number of workers, prompts, environments *)
(* and versions, whether workers may die or not.  And about how a model is   *)
(* chosen, in ModelRouter and Intelligence: for every fleet, request, price,  *)
(* number of reader threads, prompt and sequence of recorded calls.          *)
(***************************************************************************)
EXTENDS MCPrompts, Intelligence, FiniteSetTheorems, SequenceTheorems, SumLemmas, TLAPS

\* What a call in progress knows about the tables it read earlier.
Sound(c) ==
    /\ c.at # "idle" => c.p \in Ids /\ row[c.p] # "unborn"
    /\ c.at \in {"check", "undeploy", "redeploy", "read_deployment", "read_latest"}
         => c.e \in Envs
    /\ c.at = "insert_first" => c.v = 1
    /\ c.at = "insert_next" => c.v # 0
    /\ c.at = "insert_next" /\ c.p \notin purged => c.v \in 2 .. latest[c.p] + 1
    /\ c.at = "bump" /\ c.p \notin purged
         => c.v \in versions[c.p] /\ c.v = latest[c.p] + 1
    /\ c.at \in {"undeploy", "redeploy"} /\ c.p \notin purged
         => c.v \in versions[c.p]
    /\ c.at = "fetch" /\ c.p \notin purged => c.v = 1 \/ c.v \in versions[c.p]
    /\ c.at = "del_row" => c.p \in purged

CallsSound == \A w \in Workers : Sound(call[w])

\* Prompts that no delete has reached, and prompts not yet born.
RowsSound ==
    \A p \in Ids :
        /\ row[p] = "gone" => p \in purged
        /\ row[p] = "unborn" => versions[p] = {} /\ p \notin purged
        /\ Intact(p) => latest[p] >= 1

\* The UNIQUE constraint serialises create_version: of the calls on one
\* prompt at most one is between its INSERT and its UPDATE.
OneBump ==
    \A w1, w2 \in Workers :
        /\ At(w1, "bump") /\ At(w2, "bump")
        /\ call[w1].p = call[w2].p
        /\ call[w1].p \notin purged
        => w1 = w2

Inv ==
    /\ TypeOK
    /\ VersionsContiguous
    /\ DeployedExists
    /\ OneBump
    /\ CallsSound
    /\ RowsSound

\* The empty tables satisfy the invariant.
LEMMA InitInv == Init => Inv
  BY PromptsAssumption
  DEF Init, Inv, TypeOK, VersionsContiguous, Intact, DeployedExists, OneBump,
      CallsSound, Sound, RowsSound, At, Idle, Call, Calls, Steps

\* Idle is a sound call: it knows nothing.
LEMMA IdleSound == Idle \in Calls /\ Idle.at = "idle" /\ Sound(Idle)
  BY PromptsAssumption DEF Idle, Call, Calls, Steps, Sound

\* A worker that moves on leaves the other calls where they are.
LEMMA Moved ==
  ASSUME TypeOK, NEW w \in Workers, NEW x \in Calls,
         call' = [call EXCEPT ![w] = x]
  PROVE  /\ call' \in [Workers -> Calls]
         /\ call'[w] = x
         /\ \A u \in Workers : u # w => call'[u] = call[u]
  BY DEF TypeOK

\* No second call comes between INSERT and UPDATE unless this step does.
LEMMA OneBumpKept ==
  ASSUME OneBump, NEW w \in Workers, call'[w].at # "bump",
         \A u \in Workers : u # w => call'[u] = call[u],
         purged \subseteq purged'
  PROVE  OneBump'
  BY DEF OneBump, At

\* A step that only reads: the invariant holds if what it read is sound.
LEMMA ReadStep ==
  ASSUME Inv, NEW w \in Workers, NEW x \in Calls,
         call' = [call EXCEPT ![w] = x], UNCHANGED Tables,
         Sound(x), x.at # "bump"
  PROVE  Inv'
  <1>1. /\ call' \in [Workers -> Calls]
        /\ call'[w] = x
        /\ \A u \in Workers : u # w => call'[u] = call[u]
    BY Moved DEF Inv
  <1>2. TypeOK'
    BY <1>1 DEF Inv, TypeOK, Tables
  <1>3. VersionsContiguous' /\ DeployedExists' /\ RowsSound'
    BY DEF Inv, Tables, VersionsContiguous, DeployedExists, RowsSound, Intact
  <1>4. OneBump'
    BY <1>1, OneBumpKept DEF Inv, Tables
  <1>5. ASSUME NEW u \in Workers PROVE Sound(call[u])'
    <2>1. Sound(call'[u])
      BY <1>1 DEF Inv, CallsSound
    <2> QED BY <2>1 DEF Sound, Tables
  <1> QED BY <1>2, <1>3, <1>4, <1>5 DEF Inv, CallsSound

\* A step that changes a table: what is left to prove of it is about the
\* tables, the call it moves on to and the calls of the other workers.
LEMMA WriteStep ==
  ASSUME Inv, NEW w \in Workers, NEW x \in Calls,
         call' = [call EXCEPT ![w] = x],
         TypeOK', VersionsContiguous', DeployedExists', RowsSound', OneBump',
         \A d \in Calls : d = x => Sound(d)',
         \A u \in Workers, c \in Calls :
            u # w /\ c = call[u] /\ Sound(c) => Sound(c)'
  PROVE  Inv'
  <1>1. /\ call'[w] = x
        /\ \A u \in Workers : u # w => call'[u] = call[u]
    BY Moved DEF Inv
  <1>2. ASSUME NEW u \in Workers PROVE Sound(call[u])'
    <2>1. CASE u = w
      <3>1. call'[u] \in Calls /\ call'[u] = x
        BY <1>1, <2>1
      <3> QED BY <3>1 DEF Sound
    <2>2. CASE u # w
      <3>1. call[u] \in Calls /\ Sound(call[u])
        BY DEF Inv, TypeOK, CallsSound
      <3>2. \A c \in Calls : c = call[u] => Sound(c)'
        BY <2>2, <3>1
      <3>3. call'[u] \in Calls /\ call'[u] = call[u]
        BY <1>1, <2>2, <3>1
      <3> QED BY <3>2, <3>3 DEF Sound
    <2> QED BY <2>1, <2>2
  <1> QED BY <1>2 DEF Inv, CallsSound

\* The steps that only read the tables.
LEMMA ReadSteps ==
  ASSUME Inv, NEW w \in Workers
  PROVE  /\ \A p \in Ids : ReadForVersion(w, p) => Inv'
         /\ \A p \in Ids, v \in 1 .. MaxVersion, e \in Envs :
              StartDeploy(w, p, v, e) => Inv'
         /\ CheckVersion(w) => Inv'
         /\ \A p \in Ids, e \in Envs : StartResolve(w, p, e) => Inv'
         /\ ReadDeployment(w) => Inv'
         /\ ReadLatest(w) => Inv'
         /\ Fetch(w) => Inv'
         /\ \A p \in Ids : StartDelete(w, p) => Inv'
         /\ Crash(w) => Inv'
  <1> USE PromptsAssumption DEF At, Goto
  <1> DEFINE c == call[w]
  <1>0. c \in Calls /\ Sound(c) /\ TypeOK
    BY DEF Inv, TypeOK, CallsSound
  <1>1. ASSUME UNCHANGED Tables, Return(w) PROVE Inv'
    BY <1>1, IdleSound, ReadStep DEF Return
  <1>2. ASSUME NEW p \in Ids, ReadForVersion(w, p) PROVE Inv'
    <2> DEFINE x == Call("insert_next", p, latest[p] + 1, None)
    <2>1. x \in Calls /\ x.at # "bump" /\ Sound(x)
      <3>1. latest[p] \in Nat /\ latest[p] + 1 <= MaxVersion
        BY <1>0, <1>2 DEF ReadForVersion, NextNumber, TypeOK
      <3>2. p \notin purged => latest[p] >= 1
        BY <1>2 DEF ReadForVersion, Inv, RowsSound, Intact
      <3> QED BY <1>2, <3>1, <3>2 DEF ReadForVersion, Call, Calls, Steps, Sound
    <2> HIDE DEF x
    <2>2. call' = [call EXCEPT ![w] = x] /\ UNCHANGED Tables
      BY <1>2 DEF ReadForVersion, NextNumber, x
    <2> QED BY <2>1, <2>2, ReadStep
  <1>3. ASSUME NEW p \in Ids, NEW v \in 1 .. MaxVersion, NEW e \in Envs,
               StartDeploy(w, p, v, e)
        PROVE  Inv'
    <2> DEFINE x == Call("check", p, v, e)
    <2>1. x \in Calls /\ x.at # "bump" /\ Sound(x)
      BY <1>3 DEF StartDeploy, Call, Calls, Steps, Sound
    <2> HIDE DEF x
    <2> QED BY <1>3, <2>1, ReadStep DEF StartDeploy, x
  <1>4. ASSUME CheckVersion(w) PROVE Inv'
    <2> DEFINE x == Call("undeploy", c.p, c.v, c.e)
    <2>1. CASE VersionFound(c.p, c.v)
      <3>1. x \in Calls /\ x.at # "bump" /\ Sound(x)
        BY <1>0, <1>4, <2>1
        DEF CheckVersion, VersionFound, Call, Calls, Steps, Sound
      <3> HIDE DEF x
      <3> QED BY <1>4, <2>1, <3>1, ReadStep DEF CheckVersion, Next_at, x
    <2>2. CASE ~VersionFound(c.p, c.v)
      BY <1>1, <1>4, <2>2 DEF CheckVersion
    <2> QED BY <2>1, <2>2
  <1>5. ASSUME NEW p \in Ids, NEW e \in Envs, StartResolve(w, p, e) PROVE Inv'
    <2>1. CASE Goto(w, Call("read_deployment", p, 0, e))
      <3> DEFINE x == Call("read_deployment", p, 0, e)
      <3>1. x \in Calls /\ x.at # "bump" /\ Sound(x)
        BY <1>5 DEF StartResolve, Call, Calls, Steps, Sound
      <3> HIDE DEF x
      <3> QED BY <1>5, <2>1, <3>1, ReadStep DEF StartResolve, x
    <2>2. ASSUME NEW v \in 1 .. MaxVersion, Goto(w, Call("fetch_given", p, v, e))
          PROVE  Inv'
      <3> DEFINE x == Call("fetch_given", p, v, e)
      <3>1. x \in Calls /\ x.at # "bump" /\ Sound(x)
        BY <1>5 DEF StartResolve, Call, Calls, Steps, Sound
      <3> HIDE DEF x
      <3> QED BY <1>5, <2>2, <3>1, ReadStep DEF StartResolve, x
    <2> QED BY <1>5, <2>1, <2>2 DEF StartResolve
  <1>6. ASSUME ReadDeployment(w) PROVE Inv'
    <2>0. c.p \in Ids /\ c.e \in Envs /\ row[c.p] # "unborn"
      BY <1>0, <1>6 DEF ReadDeployment, NotDeployed, Sound
    <2>1. CASE deployed[c.p][c.e] # 0
      <3> DEFINE x == Call("fetch", c.p, deployed[c.p][c.e], c.e)
      <3>1. c.p \notin purged => deployed[c.p][c.e] \in versions[c.p]
        BY <2>0, <2>1 DEF Inv, DeployedExists
      <3>2. x \in Calls /\ x.at # "bump" /\ Sound(x)
        BY <1>0, <2>0, <3>1 DEF TypeOK, Call, Calls, Steps, Sound
      <3> HIDE DEF x
      <3> QED BY <1>6, <2>1, <3>2, ReadStep DEF ReadDeployment, NotDeployed, x
    <2>2. CASE deployed[c.p][c.e] = 0
      <3> DEFINE x == Call("read_latest", c.p, c.v, c.e)
      <3>1. x \in Calls /\ x.at # "bump" /\ Sound(x)
        BY <1>0, <2>0 DEF Call, Calls, Steps, Sound
      <3> HIDE DEF x
      <3> QED BY <1>6, <2>2, <3>1, ReadStep DEF ReadDeployment, NotDeployed, Next_at, x
    <2> QED BY <2>1, <2>2
  <1>7. ASSUME ReadLatest(w) PROVE Inv'
    <2>0. c.p \in Ids /\ c.e \in Envs
      BY <1>0, <1>7 DEF ReadLatest, Sound
    <2>1. CASE row[c.p] = "live"
      <3> DEFINE x == Call("fetch", c.p, latest[c.p], c.e)
      <3>1. latest[c.p] \in 0 .. MaxVersion
        BY <1>0, <2>0 DEF TypeOK
      <3>2. c.p \notin purged => latest[c.p] = 1 \/ latest[c.p] \in versions[c.p]
        <4>1. c.p \notin purged
                => latest[c.p] >= 1 /\ 2 .. latest[c.p] \subseteq versions[c.p]
          BY <2>0, <2>1 DEF Inv, VersionsContiguous, RowsSound, Intact
        <4> QED BY <3>1, <4>1
      <3>3. x \in Calls /\ x.at # "bump" /\ Sound(x)
        BY <2>0, <2>1, <3>1, <3>2 DEF Call, Calls, Steps, Sound
      <3> HIDE DEF x
      <3> QED BY <1>7, <2>1, <3>3, ReadStep DEF ReadLatest, x
    <2>2. CASE row[c.p] # "live"
      BY <1>1, <1>7, <2>2 DEF ReadLatest
    <2> QED BY <2>1, <2>2
  <1>8. ASSUME NEW p \in Ids, StartDelete(w, p) PROVE Inv'
    <2> DEFINE x == Call("del_deployments", p, 0, None)
    <2>1. x \in Calls /\ x.at # "bump" /\ Sound(x)
      BY <1>8 DEF StartDelete, Call, Calls, Steps, Sound
    <2> HIDE DEF x
    <2> QED BY <1>8, <2>1, ReadStep DEF StartDelete, x
  <1> QED BY <1>1, <1>2, <1>3, <1>4, <1>5, <1>6, <1>7, <1>8 DEF Fetch, Crash

\* create_prompt inserts the prompt: nobody knows its id yet.
LEMMA CreatePromptInv ==
  ASSUME Inv, NEW w \in Workers, NEW p \in Ids, NEW n \in Names,
         CreatePrompt(w, p, n)
  PROVE  Inv'
  <1> USE PromptsAssumption
  <1> DEFINE x == Call("insert_first", p, 1, None)
  <1>1. x \in Calls /\ x.at # "bump" /\ call' = [call EXCEPT ![w] = x]
    BY DEF CreatePrompt, FirstVersion, Goto, Call, Calls, Steps
  <1>2. TypeOK'
    BY <1>1 DEF CreatePrompt, FirstVersion, Inv, TypeOK
  <1>3. VersionsContiguous' /\ RowsSound'
    BY DEF CreatePrompt, FirstVersion, Inv, TypeOK, VersionsContiguous, RowsSound, Intact
  <1>4. DeployedExists'
    BY DEF CreatePrompt, Inv, DeployedExists
  <1>5. OneBump'
    BY <1>1, Moved, OneBumpKept DEF CreatePrompt, Inv
  <1>6. \A d \in Calls : d = x => Sound(d)'
    BY DEF CreatePrompt, Inv, TypeOK, Sound, Call
  <1>7. \A u \in Workers, c \in Calls :
           u # w /\ c = call[u] /\ Sound(c) => Sound(c)'
    BY DEF CreatePrompt, Inv, TypeOK, Sound, Calls, Steps
  <1> HIDE DEF x
  <1> QED BY <1>1, <1>2, <1>3, <1>4, <1>5, <1>6, <1>7, WriteStep

\* The INSERT of a version row: the number fills the only place that is left.
LEMMA InsertVersionInv ==
  ASSUME Inv, NEW w \in Workers, InsertVersion(w)
  PROVE  Inv'
  <1> USE PromptsAssumption
  <1> DEFINE c == call[w]
  <1>0. /\ c \in Calls /\ Sound(c) /\ TypeOK
        /\ c.p \in Ids /\ row[c.p] # "unborn"
        /\ c.at \in {"insert_first", "insert_next"}
    BY DEF InsertVersion, Inv, TypeOK, CallsSound, Sound
  <1>1. CASE ~NumberFree(c.p, c.v)
    BY <1>1, IdleSound, ReadStep DEF InsertVersion, Return, Goto, Tables
  <1>2. CASE NumberFree(c.p, c.v)
    <2>0. /\ versions' = [versions EXCEPT ![c.p] = @ \cup {c.v}]
          /\ UNCHANGED <<row, name, latest, deployed, purged, released>>
          /\ \/ c.at = "insert_first" /\ Return(w)
             \/ c.at = "insert_next" /\ Next_at(w, "bump")
      BY <1>0, <1>2 DEF InsertVersion
    <2>1. c.v \in 1 .. MaxVersion
      BY <1>0 DEF Sound, Calls
    <2>2. c.p \notin purged => c.v \in 1 .. latest[c.p] + 1 /\ latest[c.p] >= 1
      BY <1>0 DEF Inv, TypeOK, Sound, RowsSound, Intact
    <2>3. TypeOK' /\ RowsSound'
      <3>1. call' \in [Workers -> Calls]
        BY <1>0, <2>0, IdleSound DEF Inv, TypeOK, Return, Next_at, Goto, Call, Calls, Steps
      <3>2. versions' \in [Ids -> SUBSET (1 .. MaxVersion)]
        BY <1>0, <2>0, <2>1 DEF TypeOK
      <3> QED BY <1>0, <2>0, <3>1, <3>2 DEF Inv, TypeOK, RowsSound, Intact
    <2>4. VersionsContiguous' /\ DeployedExists'
      BY <1>0, <2>0, <2>2
      DEF Inv, TypeOK, VersionsContiguous, DeployedExists, Intact
    <2>5. ASSUME NEW d \in Calls, Sound(d) PROVE Sound(d)'
      <3>1. \A q \in Ids : versions[q] \subseteq versions'[q]
        BY <1>0, <2>0 DEF TypeOK
      <3> QED BY <2>0, <2>5, <3>1 DEF Sound, Calls, Steps
    <2>6. CASE c.at = "insert_first"
      <3>1. call' = [call EXCEPT ![w] = Idle] /\ Idle \in Calls
        BY <2>0, <2>5, <2>6, IdleSound DEF Return, Goto
      <3>2. OneBump'
        BY <2>0, <3>1, Moved, OneBumpKept, IdleSound DEF Inv
      <3> QED BY <2>3, <2>4, <2>5, <3>1, <3>2, IdleSound, WriteStep
    <2>7. CASE c.at = "insert_next"
      <3> DEFINE x == Call("bump", c.p, c.v, c.e)
      <3>1. x \in Calls /\ x.at = "bump" /\ x.p = c.p /\ x.v = c.v
        BY <1>0 DEF Call, Calls, Steps
      <3>2. call' = [call EXCEPT ![w] = x]
        BY <2>0, <2>7 DEF Next_at, Goto
      <3>3. c.p \notin purged => c.v = latest[c.p] + 1
        <4>1. c.p \notin purged => row[c.p] = "live"
          BY <1>0 DEF Inv, TypeOK, RowsSound
        <4>2. c.p \notin purged => 2 .. latest[c.p] \subseteq versions[c.p]
          BY <1>0, <4>1 DEF Inv, VersionsContiguous, Intact
        <4>3. c.p \notin purged => c.v \in 2 .. latest[c.p] + 1
          BY <1>0, <2>7 DEF Sound
        <4> QED BY <1>0, <1>2, <4>2, <4>3 DEF NumberFree, TypeOK
      <3>4. ASSUME NEW d \in Calls, d = x PROVE Sound(d)'
        <4> HIDE DEF x
        <4> QED BY <1>0, <2>0, <3>1, <3>3, <3>4 DEF Sound, TypeOK
      <3>5. OneBump'
        \* another bump on the same prompt would hold the number just inserted
        <4> HIDE DEF x
        <4>1. ASSUME NEW u \in Workers, u # w, At(u, "bump"),
                     call[u].p = c.p, c.p \notin purged
              PROVE  FALSE
          <5>1. call[u].v = latest[c.p] + 1 /\ call[u].v \in versions[c.p]
            BY <4>1 DEF Inv, CallsSound, Sound, At
          <5> QED BY <1>2, <3>3, <4>1, <5>1 DEF NumberFree
        <4>2. /\ call'[w] = x
              /\ \A u \in Workers : u # w => call'[u] = call[u]
          BY <3>1, <3>2, Moved, <1>0
        <4> QED BY <2>0, <3>1, <4>1, <4>2 DEF Inv, OneBump, At
      <3> HIDE DEF x
      <3> QED BY <2>3, <2>4, <2>5, <3>1, <3>2, <3>4, <3>5, WriteStep
    <2> QED BY <1>0, <2>6, <2>7
  <1> QED BY <1>1, <1>2

\* The UPDATE of latest_version: it takes in the one version past it.
LEMMA BumpLatestInv ==
  ASSUME Inv, NEW w \in Workers, BumpLatest(w)
  PROVE  Inv'
  <1> USE PromptsAssumption DEF At
  <1> DEFINE c == call[w]
  <1>0. /\ c \in Calls /\ Sound(c) /\ TypeOK /\ c.at = "bump"
        /\ c.p \in Ids /\ row[c.p] # "unborn"
    BY DEF BumpLatest, Inv, TypeOK, CallsSound, Sound
  <1>1. /\ call' = [call EXCEPT ![w] = Idle]
        /\ UNCHANGED <<row, name, versions, deployed, purged, released>>
    BY DEF BumpLatest, Return, Goto
  <1>2. /\ latest' \in [Ids -> 0 .. MaxVersion]
        /\ \A q \in Ids : q # c.p => latest'[q] = latest[q]
    BY <1>0 DEF BumpLatest, NewLatest, TypeOK, Calls
  <1>3. c.p \notin purged
          => /\ latest'[c.p] = latest[c.p] + 1
             /\ latest'[c.p] \in versions[c.p]
    <2>1. c.p \notin purged => row[c.p] = "live"
      BY <1>0 DEF Inv, TypeOK, RowsSound
    <2> QED BY <1>0, <2>1 DEF BumpLatest, NewLatest, TypeOK, Sound
  <1>4. TypeOK'
    BY <1>0, <1>1, <1>2, IdleSound DEF TypeOK
  <1>5. VersionsContiguous'
    <2> SUFFICES ASSUME NEW q \in Ids, Intact(q)'
                 PROVE  /\ 2 .. latest'[q] \subseteq versions[q]
                        /\ versions[q] \subseteq 1 .. latest'[q] + 1
      BY <1>1 DEF VersionsContiguous
    <2>1. /\ latest[q] \in Nat /\ q \notin purged
          /\ 2 .. latest[q] \subseteq versions[q]
          /\ versions[q] \subseteq 1 .. latest[q] + 1
      BY <1>0, <1>1 DEF Inv, TypeOK, VersionsContiguous, Intact
    <2>2. CASE q = c.p
      BY <1>3, <2>1, <2>2
    <2>3. CASE q # c.p
      BY <1>2, <2>1, <2>3
    <2> QED BY <2>2, <2>3
  <1>6. DeployedExists'
    BY <1>1 DEF Inv, DeployedExists
  <1>7. RowsSound'
    BY <1>0, <1>1, <1>2, <1>3 DEF Inv, RowsSound, Intact, TypeOK
  <1>8. OneBump'
    BY <1>0, <1>1, Moved, IdleSound, OneBumpKept DEF Inv
  <1>9. \A d \in Calls : d = Idle => Sound(d)'
    BY IdleSound DEF Sound
  <1>10. ASSUME NEW u \in Workers, NEW d \in Calls, u # w, d = call[u], Sound(d)
         PROVE  Sound(d)'
    <2>1. d.at = "bump" /\ d.p = c.p => c.p \in purged
      BY <1>0, <1>10 DEF Inv, OneBump
    <2>2. d.at = "insert_next" /\ d.p \notin purged => d.v \in 2 .. latest'[d.p] + 1
      <3>1. CASE d.at = "insert_next" /\ d.p \notin purged
        <4>1. d.p \in Ids /\ latest[d.p] \in Nat /\ d.v \in 2 .. latest[d.p] + 1
          BY <1>0, <1>10, <3>1 DEF Sound, TypeOK
        <4>2. latest'[d.p] \in {latest[d.p], latest[d.p] + 1}
          BY <1>2, <1>3, <3>1, <4>1
        <4> QED BY <4>1, <4>2
      <3> QED BY <3>1
    <2>3. d.at = "bump" /\ d.p \notin purged => latest'[d.p] = latest[d.p]
      BY <1>2, <1>10, <2>1 DEF Sound
    <2> QED BY <1>1, <1>10, <2>2, <2>3 DEF Sound
  <1> QED BY <1>1, <1>4, <1>5, <1>6, <1>7, <1>8, <1>9, <1>10, IdleSound, WriteStep

\* deploy's two writes: only the deployment of the version checked appears.
LEMMA DeployInv ==
  ASSUME Inv, NEW w \in Workers, Undeploy(w) \/ Redeploy(w)
  PROVE  Inv'
  <1> USE PromptsAssumption DEF At
  <1> DEFINE c == call[w]
             x == IF c.at = "undeploy" THEN Call("redeploy", c.p, c.v, c.e) ELSE Idle
  <1>0. /\ c \in Calls /\ Sound(c) /\ TypeOK /\ c.at \in {"undeploy", "redeploy"}
        /\ c.p \in Ids /\ c.e \in Envs /\ row[c.p] # "unborn"
        /\ c.p \notin purged => c.v \in versions[c.p]
    BY DEF Undeploy, Redeploy, Inv, TypeOK, CallsSound, Sound
  <1>1. /\ call' = [call EXCEPT ![w] = x]
        /\ UNCHANGED <<row, name, latest, versions, purged>>
    BY DEF Undeploy, Redeploy, Return, Next_at, Goto
  <1>2. x \in Calls /\ x.at # "bump" /\ Sound(x)
    BY <1>0, IdleSound DEF Call, Calls, Steps, Sound
  <1>3. /\ deployed' \in [Ids -> [Envs -> 0 .. MaxVersion]]
        /\ released' \subseteq Ids \X Envs
    BY <1>0 DEF Undeploy, Redeploy, TypeOK, Calls
  <1>4. DeployedExists'
    <2>1. \A p \in Ids, e \in Envs :
            \/ deployed'[p][e] \in {0, deployed[p][e]}
            \/ p = c.p /\ deployed'[p][e] = c.v
      <3>1. deployed' \in {deployed, [deployed EXCEPT ![c.p][c.e] = 0],
                           [deployed EXCEPT ![c.p][c.e] = c.v]}
        BY DEF Undeploy, Redeploy
      <3> QED BY <1>0, <3>1 DEF TypeOK
    <2> QED BY <1>0, <1>1, <2>1 DEF Inv, DeployedExists
  <1> HIDE DEF x
  <1>5. TypeOK'
    BY <1>0, <1>1, <1>2, <1>3 DEF TypeOK
  <1>6. VersionsContiguous' /\ RowsSound'
    BY <1>1 DEF Inv, VersionsContiguous, RowsSound, Intact
  <1>7. OneBump'
    BY <1>1, <1>2, Moved, OneBumpKept DEF Inv
  <1>8. \A d \in Calls : Sound(d) => Sound(d)'
    BY <1>1 DEF Sound
  <1> QED BY <1>1, <1>2, <1>4, <1>5, <1>6, <1>7, <1>8, WriteStep

\* delete_prompt: once its version rows are gone the prompt is purged, and
\* nothing is promised of it any more.
LEMMA DeleteInv ==
  ASSUME Inv, NEW w \in Workers,
         DeleteDeployments(w) \/ DeleteVersions(w) \/ DeleteRow(w)
  PROVE  Inv'
  <1> USE PromptsAssumption DEF At
  <1> DEFINE c == call[w]
             x == CASE c.at = "del_deployments" -> Call("del_versions", c.p, c.v, c.e)
                    [] c.at = "del_versions" -> Call("del_row", c.p, c.v, c.e)
                    [] OTHER -> Idle
  <1>0. /\ c \in Calls /\ Sound(c) /\ TypeOK
        /\ c.at \in {"del_deployments", "del_versions", "del_row"}
        /\ c.p \in Ids /\ row[c.p] # "unborn"
        /\ c.at = "del_row" => c.p \in purged
    BY DEF DeleteDeployments, DeleteVersions, DeleteRow, Inv, TypeOK, CallsSound, Sound
  <1>1. call' = [call EXCEPT ![w] = x]
    BY DEF DeleteDeployments, DeleteVersions, DeleteRow, Return, Next_at, Goto
  <1>2. x \in Calls /\ x.at # "bump"
    BY <1>0, IdleSound DEF Call, Calls, Steps
  <1>3. /\ purged' = IF c.at = "del_versions" THEN purged \cup {c.p} ELSE purged
        /\ row' = IF c.at = "del_row" THEN [row EXCEPT ![c.p] = "gone"] ELSE row
        /\ latest' = IF c.at = "del_row" THEN [latest EXCEPT ![c.p] = 0] ELSE latest
        /\ name' = IF c.at = "del_row" THEN [name EXCEPT ![c.p] = None] ELSE name
        /\ versions' = IF c.at = "del_versions" THEN [versions EXCEPT ![c.p] = {}]
                       ELSE versions
        /\ deployed' = IF c.at = "del_deployments"
                       THEN [deployed EXCEPT ![c.p] = [e \in Envs |-> 0]] ELSE deployed
        /\ released' \subseteq released
    BY DEF DeleteDeployments, DeleteVersions, DeleteRow
  <1>4. \A d \in Calls : d = x => Sound(d)'
    BY <1>0, <1>3, IdleSound DEF Sound, Call, TypeOK
  <1> HIDE DEF x
  <1>5. TypeOK'
    <2>1. call' \in [Workers -> Calls]
      BY <1>0, <1>1, <1>2 DEF TypeOK
    <2>2. deployed' \in [Ids -> [Envs -> 0 .. MaxVersion]]
      BY <1>0, <1>3 DEF TypeOK
    <2> QED BY <1>0, <1>3, <2>1, <2>2 DEF TypeOK
  <1>6. VersionsContiguous' /\ RowsSound'
    BY <1>0, <1>3 DEF Inv, TypeOK, VersionsContiguous, RowsSound, Intact
  <1>7. DeployedExists'
    BY <1>0, <1>3 DEF Inv, TypeOK, DeployedExists
  <1>8. OneBump'
    BY <1>1, <1>2, <1>3, Moved, OneBumpKept DEF Inv
  <1>9. \A d \in Calls : Sound(d) => Sound(d)'
    BY <1>0, <1>3 DEF Sound, TypeOK
  <1> QED BY <1>1, <1>2, <1>4, <1>5, <1>6, <1>7, <1>8, <1>9, WriteStep

-----------------------------------------------------------------------------

\* Every step of every worker keeps the invariant.
LEMMA StepInv == Inv /\ [Next]_vars => Inv'
  <1> SUFFICES ASSUME Inv, [Next]_vars PROVE Inv'
    OBVIOUS
  <1>1. CASE UNCHANGED vars
    BY <1>1 DEF vars, Inv, TypeOK, VersionsContiguous, DeployedExists, OneBump,
                CallsSound, Sound, RowsSound, Intact, At
  <1>2. ASSUME NEW w \in Workers,
               Writer(w) \/ Deployer(w) \/ Resolver(w) \/ Deleter(w) \/ Crash(w)
        PROVE  Inv'
    BY <1>2, ReadSteps, CreatePromptInv, InsertVersionInv, BumpLatestInv, DeployInv,
       DeleteInv
    DEF Writer, Deployer, Resolver, Deleter
  <1> QED BY <1>1, <1>2 DEF Next

\* The invariant is inductive, so it holds in every reachable state.
THEOREM Invariance == Spec => []Inv
  BY InitInv, StepInv, PTL DEF Spec

\* For every instance: whatever calls interleave and whichever of them die,
\* version numbers have no gap and at most one is ahead of latest_version.
THEOREM VersionsAreContiguous == Spec => []VersionsContiguous
  <1>1. Inv => VersionsContiguous
    BY DEF Inv
  <1> QED BY <1>1, Invariance, PTL

\* For every instance: a deployment points to a version that exists.
THEOREM DeployedVersionsExist == Spec => []DeployedExists
  <1>1. Inv => DeployedExists
    BY DEF Inv
  <1> QED BY <1>1, Invariance, PTL

\* For every instance: resolve() finds the version it read of.
THEOREM ResolveNeverDangles == Spec => []ResolveFindsVersion
  <1>1. Inv => ResolveFindsVersion
    BY DEF Inv, CallsSound, Sound, ResolveFindsVersion, At
  <1> QED BY <1>1, Invariance, PTL

\* For every instance: latest_version moves by one, forward only.
THEOREM LatestIsMonotonic == Spec => LatestOnlyGrows
  <1>1. Inv /\ [Next]_vars
          => [\A p \in Ids : Intact(p) => latest'[p] \in {latest[p], latest[p] + 1}]_vars
    <2> SUFFICES ASSUME Inv, [Next]_vars, NEW p \in Ids, Intact(p)
                 PROVE  latest'[p] \in {latest[p], latest[p] + 1}
      OBVIOUS
    <2>1. CASE UNCHANGED latest
      BY <2>1
    <2>2. ASSUME NEW w \in Workers, NEW q \in Ids, NEW n \in Names,
                 CreatePrompt(w, q, n)
          PROVE  latest'[p] = latest[p]
      BY <2>2 DEF CreatePrompt, Intact, Inv, TypeOK
    <2>3. ASSUME NEW w \in Workers, BumpLatest(w)
          PROVE  latest'[p] \in {latest[p], latest[p] + 1}
      BY <2>3 DEF BumpLatest, NewLatest, Intact, Inv, TypeOK, CallsSound, Sound, At
    <2>4. ASSUME NEW w \in Workers, DeleteRow(w)
          PROVE  latest'[p] = latest[p]
      BY <2>4 DEF DeleteRow, Intact, Inv, TypeOK, CallsSound, Sound, At
    <2> QED
      BY <2>1, <2>2, <2>3, <2>4
      DEF Next, Writer, Deployer, Resolver, Deleter, vars, Tables, ReadForVersion,
          InsertVersion, StartDeploy, CheckVersion, Undeploy, Redeploy, StartResolve,
          ReadDeployment, NotDeployed, ReadLatest, Fetch, StartDelete, DeleteDeployments,
          DeleteVersions, Crash
  <1> QED BY <1>1, Invariance, PTL DEF Spec, LatestOnlyGrows

-----------------------------------------------------------------------------
(* What holds until a worker dies: MCSpec is Spec with that history.         *)

\* A number ahead of latest_version is that of a call about to write it there.
BumpIsOwed ==
    ~died => \A p \in Ids : Intact(p) /\ latest[p] + 1 \in versions[p]
               => \E w \in Workers : At(w, "bump") /\ call[w].p = p

\* What was deployed is still so, or the call that replaces it is under way.
DeployIsOwed ==
    ~died => \A p \in Ids, e \in Envs : <<p, e>> \in released
               => \/ deployed[p][e] # 0
                  \/ \E w \in Workers :
                       At(w, "redeploy") /\ call[w].p = p /\ call[w].e = e

\* A deploy is of a version, and versions count from 1.
DeploysVersion ==
    \A w \in Workers : call[w].at \in {"check", "undeploy", "redeploy"} => call[w].v # 0

Owed == BumpIsOwed /\ DeployIsOwed /\ DeploysVersion

\* The history does not change what the service does.
LEMMA StepsOfSpec == [MCNext]_<<vars, died>> => [Next]_vars
  BY DEF MCNext, Next, vars

\* Inv holds with the history as well.
LEMMA HistoryInvariance == MCSpec => []Inv
  <1>1. MCInit => Inv
    BY InitInv DEF MCInit
  <1> QED BY <1>1, StepInv, StepsOfSpec, PTL DEF MCSpec

\* A worker that moves on leaves the other calls where they are.
LEMMA OthersStay ==
  ASSUME Inv, NEW w \in Workers, NEW x, Goto(w, x)
  PROVE  call'[w] = x /\ \A u \in Workers : u # w => call'[u] = call[u]
  BY DEF Goto, Inv, TypeOK

\* A step that changes neither versions nor deployments keeps what is owed, if
\* it is not that of a call that owes something.
LEMMA OwedKept ==
  ASSUME Inv, Owed, NEW w \in Workers, NEW x, Goto(w, x),
         ~At(w, "bump"), ~At(w, "redeploy"), UNCHANGED <<Tables, died>>,
         x.at \in {"check", "undeploy", "redeploy"} => x.v # 0
  PROVE  Owed'
  <1>1. call'[w] = x /\ \A u \in Workers : u # w => call'[u] = call[u]
    BY OthersStay
  <1>2. \A u \in Workers : At(u, "bump") \/ At(u, "redeploy") => call'[u] = call[u]
    BY <1>1
  <1>3. BumpIsOwed'
    BY <1>2 DEF Owed, BumpIsOwed, At, Intact, Tables
  <1>4. DeployIsOwed'
    BY <1>2 DEF Owed, DeployIsOwed, At, Tables
  <1>5. DeploysVersion'
    BY <1>1 DEF Owed, DeploysVersion
  <1> QED BY <1>3, <1>4, <1>5 DEF Owed

\* create_prompt and create_version keep what is owed.
LEMMA WriterOwed ==
  ASSUME Inv, Owed, NEW w \in Workers, Writer(w), UNCHANGED died
  PROVE  Owed'
  <1>1. ASSUME NEW p \in Ids, NEW n \in Names, CreatePrompt(w, p, n)
        PROVE  Owed'
    <2>1. call'[w] = Call("insert_first", p, FirstVersion, None)
          /\ \A u \in Workers : u # w => call'[u] = call[u]
      BY <1>1, OthersStay DEF CreatePrompt
    <2>2. At(w, "idle") /\ \A u \in Workers : ~At(u, "idle") => call'[u] = call[u]
      BY <1>1, <2>1 DEF CreatePrompt
    <2>3. versions[p] = {} /\ UNCHANGED <<versions, deployed, released, purged>>
          /\ \A q \in Ids : q # p => row'[q] = row[q] /\ latest'[q] = latest[q]
      BY <1>1 DEF CreatePrompt, Inv, RowsSound, TypeOK
    <2>4. BumpIsOwed'
      BY <2>2, <2>3 DEF Owed, BumpIsOwed, At, Intact
    <2>5. DeployIsOwed'
      BY <2>2, <2>3 DEF Owed, DeployIsOwed, At
    <2>6. DeploysVersion'
      BY <2>1 DEF Owed, DeploysVersion, Call
    <2> QED BY <2>4, <2>5, <2>6 DEF Owed
  <1>2. ASSUME NEW p \in Ids, ReadForVersion(w, p) PROVE Owed'
    BY <1>2, OwedKept DEF ReadForVersion, At, Call
  <1>3. ASSUME InsertVersion(w) PROVE Owed'
    <2> DEFINE c == call[w]
    <2>1. c.at \in {"insert_first", "insert_next"} /\ c.p \in Ids
      BY <1>3 DEF InsertVersion, Inv, CallsSound, Sound
    <2>2. UNCHANGED <<row, latest, deployed, purged, released>>
      BY <1>3 DEF InsertVersion
    <2>3. PICK x : /\ Goto(w, x) /\ x \in {Idle, Call("bump", c.p, c.v, c.e)}
                   /\ \/ versions' = versions
                      \/ /\ versions' = [versions EXCEPT ![c.p] = @ \cup {c.v}]
                         /\ x = IF c.at = "insert_first" THEN Idle
                                ELSE Call("bump", c.p, c.v, c.e)
      BY <1>3 DEF InsertVersion, Return, Next_at
    <2>4. call'[w] = x /\ \A u \in Workers : u # w => call'[u] = call[u]
      BY <2>3, OthersStay
    <2>5. \A u \in Workers : At(u, "bump") \/ At(u, "redeploy") => call'[u] = call[u]
      BY <2>1, <2>4 DEF At
    <2>6. BumpIsOwed'
      <3> SUFFICES ASSUME ~died, NEW p \in Ids, Intact(p),
                          latest[p] + 1 \in versions'[p]
                   PROVE  \E u \in Workers : call'[u].at = "bump" /\ call'[u].p = p
        BY <2>2 DEF BumpIsOwed, At, Intact
      <3>1. CASE latest[p] + 1 \in versions[p]
        BY <2>5, <3>1 DEF Owed, BumpIsOwed, At
      <3>2. CASE latest[p] + 1 \notin versions[p]
        <4>1. p = c.p /\ c.v = latest[p] + 1
              /\ x = IF c.at = "insert_first" THEN Idle ELSE Call("bump", c.p, c.v, c.e)
          BY <2>1, <2>3, <3>2 DEF Inv, TypeOK
        <4>2. c.at # "insert_first"
          BY <4>1 DEF Inv, CallsSound, Sound, RowsSound, TypeOK
        <4> QED BY <2>4, <4>1, <4>2 DEF Call
      <3> QED BY <3>1, <3>2
    <2>7. DeployIsOwed'
      BY <2>2, <2>5 DEF Owed, DeployIsOwed, At
    <2>8. DeploysVersion'
      BY <2>3, <2>4 DEF Owed, DeploysVersion, Call, Idle
    <2> QED BY <2>6, <2>7, <2>8 DEF Owed
  <1>4. ASSUME BumpLatest(w) PROVE Owed'
    <2> DEFINE c == call[w]
    <2>1. c.at = "bump" /\ c.p \in Ids /\ Goto(w, Idle)
          /\ UNCHANGED <<row, versions, deployed, purged, released>>
      BY <1>4 DEF BumpLatest, Return, At, Inv, CallsSound, Sound
    <2>2. call'[w] = Idle /\ \A u \in Workers : u # w => call'[u] = call[u]
      BY <2>1, OthersStay
    <2>3. BumpIsOwed'
      <3> SUFFICES ASSUME ~died, NEW p \in Ids, Intact(p),
                          latest'[p] + 1 \in versions[p]
                   PROVE  \E u \in Workers : call'[u].at = "bump" /\ call'[u].p = p
        BY <2>1 DEF BumpIsOwed, At, Intact
      <3>1. CASE p = c.p
        <4>1. latest'[p] = latest[p] + 1
          BY <1>4, <3>1 DEF BumpLatest, NewLatest, Intact, Inv, TypeOK, CallsSound,
                            Sound, At
        <4>2. latest'[p] + 1 \notin versions[p]
          BY <4>1 DEF Inv, VersionsContiguous, TypeOK
        <4> QED BY <4>2
      <3>2. CASE p # c.p
        <4>1. latest'[p] = latest[p]
          BY <1>4, <3>2 DEF BumpLatest, Inv, TypeOK
        <4>2. PICK u \in Workers : call[u].at = "bump" /\ call[u].p = p
          BY <4>1 DEF Owed, BumpIsOwed, At
        <4> QED BY <2>2, <3>2, <4>2
      <3> QED BY <3>1, <3>2
    <2>4. DeployIsOwed'
      BY <2>1, <2>2 DEF Owed, DeployIsOwed, At
    <2>5. DeploysVersion'
      BY <2>2 DEF Owed, DeploysVersion, Idle, Call
    <2> QED BY <2>3, <2>4, <2>5 DEF Owed
  <1> QED BY <1>1, <1>2, <1>3, <1>4 DEF Writer

\* deploy keeps what is owed: the row it deletes it inserts again.
LEMMA DeployerOwed ==
  ASSUME Inv, Owed, NEW w \in Workers, Deployer(w), UNCHANGED died
  PROVE  Owed'
  <1> DEFINE c == call[w]
  <1>1. ASSUME NEW p \in Ids, NEW v \in 1 .. MaxVersion, NEW e \in Envs,
               StartDeploy(w, p, v, e)
        PROVE  Owed'
    BY <1>1, OwedKept DEF StartDeploy, At, Call
  <1>2. ASSUME CheckVersion(w) PROVE Owed'
    <2>1. c.v # 0
      BY <1>2 DEF CheckVersion, At, Owed, DeploysVersion
    <2>2. Goto(w, Idle) \/ Goto(w, Call("undeploy", c.p, c.v, c.e))
      BY <1>2 DEF CheckVersion, Return, Next_at
    <2> QED BY <1>2, <2>1, <2>2, OwedKept DEF CheckVersion, At, Call, Idle
  <1>3. ASSUME Undeploy(w) PROVE Owed'
    <2>1. c.at = "undeploy" /\ c.p \in Ids /\ c.e \in Envs /\ c.v # 0
          /\ Goto(w, Call("redeploy", c.p, c.v, c.e))
          /\ UNCHANGED <<row, latest, versions, purged, released>>
      BY <1>3 DEF Undeploy, Next_at, At, Inv, CallsSound, Sound, Owed, DeploysVersion
    <2>2. /\ call'[w] = Call("redeploy", c.p, c.v, c.e)
          /\ \A u \in Workers : u # w => call'[u] = call[u]
      BY <2>1, OthersStay
    <2>3. \A u \in Workers : At(u, "bump") \/ At(u, "redeploy") => call'[u] = call[u]
      BY <2>1, <2>2 DEF At
    <2>4. BumpIsOwed'
      BY <2>1, <2>3 DEF Owed, BumpIsOwed, At, Intact
    <2>5. DeployIsOwed'
      <3> SUFFICES ASSUME ~died, NEW p \in Ids, NEW e \in Envs, <<p, e>> \in released,
                          deployed'[p][e] = 0
                   PROVE  \E u \in Workers : /\ call'[u].at = "redeploy"
                                             /\ call'[u].p = p /\ call'[u].e = e
        BY <2>1 DEF DeployIsOwed, At
      <3>1. CASE p = c.p /\ e = c.e
        BY <2>2, <3>1 DEF Call
      <3>2. CASE ~(p = c.p /\ e = c.e)
        <4>1. deployed[p][e] = 0
          BY <1>3, <3>2 DEF Undeploy, Inv, TypeOK
        <4> QED BY <2>3, <4>1 DEF Owed, DeployIsOwed, At
      <3> QED BY <3>1, <3>2
    <2>6. DeploysVersion'
      BY <2>1, <2>2 DEF Owed, DeploysVersion, Call
    <2> QED BY <2>4, <2>5, <2>6 DEF Owed
  <1>4. ASSUME Redeploy(w) PROVE Owed'
    <2>1. c.at = "redeploy" /\ c.p \in Ids /\ c.e \in Envs /\ c.v # 0 /\ Goto(w, Idle)
          /\ UNCHANGED <<row, latest, versions, purged>>
      BY <1>4 DEF Redeploy, Return, At, Inv, CallsSound, Sound, Owed, DeploysVersion
    <2>2. call'[w] = Idle /\ \A u \in Workers : u # w => call'[u] = call[u]
      BY <2>1, OthersStay
    <2>3. BumpIsOwed'
      <3>1. \A u \in Workers : At(u, "bump") => call'[u] = call[u]
        BY <2>1, <2>2 DEF At
      <3> QED BY <2>1, <3>1 DEF Owed, BumpIsOwed, At, Intact
    <2>4. DeployIsOwed'
      <3> SUFFICES ASSUME ~died, NEW p \in Ids, NEW e \in Envs, <<p, e>> \in released',
                          deployed'[p][e] = 0
                   PROVE  \E u \in Workers : /\ call'[u].at = "redeploy"
                                             /\ call'[u].p = p /\ call'[u].e = e
        BY DEF DeployIsOwed, At
      <3>1. ~(p = c.p /\ e = c.e)
        BY <1>4, <2>1 DEF Redeploy, Inv, TypeOK
      <3>2. deployed[p][e] = 0 /\ <<p, e>> \in released
        BY <1>4, <2>1, <3>1 DEF Redeploy, Inv, TypeOK
      <3>3. PICK u \in Workers : /\ call[u].at = "redeploy"
                                 /\ call[u].p = p /\ call[u].e = e
        BY <3>2 DEF Owed, DeployIsOwed, At
      <3> QED BY <2>2, <3>1, <3>3
    <2>5. DeploysVersion'
      BY <2>2 DEF Owed, DeploysVersion, Idle, Call
    <2> QED BY <2>3, <2>4, <2>5 DEF Owed
  <1> QED BY <1>1, <1>2, <1>3, <1>4 DEF Deployer

\* resolve owes nothing.
LEMMA ResolverOwed ==
  ASSUME Inv, Owed, NEW w \in Workers, Resolver(w), UNCHANGED died
  PROVE  Owed'
  <1>1. UNCHANGED Tables /\ ~At(w, "bump") /\ ~At(w, "redeploy")
    BY DEF Resolver, StartResolve, ReadDeployment, ReadLatest, Fetch, At
  <1>2. ASSUME NEW at \in {"read_deployment", "fetch_given", "fetch", "read_latest"},
               NEW p, NEW v, NEW e, Goto(w, Call(at, p, v, e))
        PROVE  Owed'
    <2>1. Call(at, p, v, e).at \notin {"check", "undeploy", "redeploy"}
      BY DEF Call
    <2> QED BY <1>1, <1>2, <2>1, OwedKept
  <1>3. ASSUME Goto(w, Idle) PROVE Owed'
    <2>1. Idle.at \notin {"check", "undeploy", "redeploy"}
      BY DEF Idle, Call
    <2> QED BY <1>1, <1>3, <2>1, OwedKept
  <1>4. ASSUME NEW p \in Ids, NEW e \in Envs, StartResolve(w, p, e) PROVE Owed'
    BY <1>2, <1>4 DEF StartResolve
  <1>5. CASE ReadDeployment(w)
    BY <1>2, <1>5 DEF ReadDeployment, Next_at
  <1>6. CASE ReadLatest(w)
    BY <1>2, <1>3, <1>6 DEF ReadLatest, Return
  <1>7. CASE Fetch(w)
    BY <1>3, <1>7 DEF Fetch, Return
  <1> QED BY <1>4, <1>5, <1>6, <1>7 DEF Resolver

\* delete_prompt takes away what was owed of the prompt.
LEMMA DeleterOwed ==
  ASSUME Inv, Owed, NEW w \in Workers, Deleter(w), UNCHANGED died
  PROVE  Owed'
  <1> DEFINE c == call[w]
  <1>1. ASSUME NEW p \in Ids, StartDelete(w, p) PROVE Owed'
    BY <1>1, OwedKept DEF StartDelete, At, Call
  <1>2. PICK x \in Calls : Goto(w, x) /\ x.at \notin {"check", "undeploy", "redeploy"}
    <2>1. Idle \in Calls /\ Idle.at \notin {"check", "undeploy", "redeploy"}
      BY IdleSound
    <2>2. ASSUME NEW at \in {"del_deployments", "del_versions", "del_row"},
                 NEW p \in Ids \cup {None}, NEW v \in 0 .. MaxVersion,
                 NEW e \in Envs \cup {None}
          PROVE  /\ Call(at, p, v, e) \in Calls
                 /\ Call(at, p, v, e).at \notin {"check", "undeploy", "redeploy"}
      BY DEF Call, Calls, Steps
    <2>3. c.p \in Ids \cup {None} /\ c.v \in 0 .. MaxVersion /\ c.e \in Envs \cup {None}
      BY DEF Inv, TypeOK, Calls
    <2>4. 0 \in 0 .. MaxVersion
      BY PromptsAssumption
    <2>5. CASE \E p \in Ids : StartDelete(w, p)
      BY <2>2, <2>4, <2>5 DEF StartDelete
    <2>6. CASE DeleteDeployments(w) \/ DeleteVersions(w)
      BY <2>2, <2>3, <2>6 DEF DeleteDeployments, DeleteVersions, Next_at
    <2>7. CASE DeleteRow(w)
      BY <2>1, <2>7 DEF DeleteRow, Return
    <2> QED BY <2>5, <2>6, <2>7 DEF Deleter
  <1>3. call'[w] = x /\ \A u \in Workers : u # w => call'[u] = call[u]
    BY <1>2, OthersStay
  <1>4. DeploysVersion'
    BY <1>2, <1>3 DEF Owed, DeploysVersion
  <1>5. ASSUME DeleteDeployments(w) PROVE Owed'
    <2>1. \A u \in Workers : At(u, "bump") \/ At(u, "redeploy") => call'[u] = call[u]
      BY <1>3, <1>5 DEF DeleteDeployments, At
    <2>2. c.p \in Ids
      BY <1>5 DEF DeleteDeployments, At, Inv, CallsSound, Sound
    <2>3. BumpIsOwed'
      BY <1>5, <2>1 DEF DeleteDeployments, Owed, BumpIsOwed, At, Intact
    <2>4. \A p \in Ids, e \in Envs : <<p, e>> \in released' =>
            p # c.p /\ <<p, e>> \in released /\ deployed'[p][e] = deployed[p][e]
      BY <1>5, <2>2 DEF DeleteDeployments, Inv, TypeOK
    <2>5. DeployIsOwed'
      BY <2>1, <2>4 DEF Owed, DeployIsOwed, At
    <2> QED BY <1>4, <2>3, <2>5 DEF Owed
  <1>6. ASSUME DeleteVersions(w) \/ DeleteRow(w) PROVE Owed'
    <2>1. \A u \in Workers : At(u, "bump") \/ At(u, "redeploy") => call'[u] = call[u]
      BY <1>3, <1>6 DEF DeleteVersions, DeleteRow, At
    <2>2. c.p \in Ids
      BY <1>6 DEF DeleteVersions, DeleteRow, At, Inv, CallsSound, Sound
    <2>3. UNCHANGED <<deployed, released>>
      BY <1>6 DEF DeleteVersions, DeleteRow
    <2>4. \A p \in Ids : Intact(p)' =>
            /\ Intact(p)
            /\ latest'[p] = latest[p] /\ versions'[p] = versions[p]
      BY <1>6, <2>2 DEF DeleteVersions, DeleteRow, Intact, Inv, TypeOK
    <2>5. BumpIsOwed'
      BY <2>1, <2>4 DEF Owed, BumpIsOwed, At
    <2>6. DeployIsOwed'
      BY <2>1, <2>3 DEF Owed, DeployIsOwed, At
    <2> QED BY <1>4, <2>5, <2>6 DEF Owed
  <1> QED BY <1>1, <1>5, <1>6 DEF Deleter

\* Until a worker dies, what is owed is being done.
LEMMA OwedInvariance == MCSpec => []Owed
  <1>1. MCInit => Owed
    BY DEF MCInit, Init, Owed, BumpIsOwed, DeployIsOwed, DeploysVersion, Intact, Idle,
           Call
  <1>2. Inv /\ Owed /\ [MCNext]_<<vars, died>> => Owed'
    <2> SUFFICES ASSUME Inv, Owed, [MCNext]_<<vars, died>> PROVE Owed'
      OBVIOUS
    <2>1. CASE UNCHANGED <<vars, died>>
      BY <2>1 DEF vars, Owed, BumpIsOwed, DeployIsOwed, DeploysVersion, Intact, At
    <2>2. ASSUME NEW w \in Workers, Crash(w), died' = TRUE PROVE Owed'
      <3>1. call'[w] = Idle /\ \A u \in Workers : u # w => call'[u] = call[u]
        BY <2>2, OthersStay DEF Crash, Return
      <3> QED BY <2>2, <3>1 DEF Owed, BumpIsOwed, DeployIsOwed, DeploysVersion, Idle, Call
    <2> QED BY <2>1, <2>2, WriterOwed, DeployerOwed, ResolverOwed, DeleterOwed DEF MCNext
  <1> QED BY <1>1, <1>2, HistoryInvariance, PTL DEF MCSpec

\* For every instance: races alone never block a prompt. Without a death, the
\* number create_version would use is free whenever no call is in progress.
THEOREM RacesBlockNothing == MCSpec => []FreeUnlessDied
  <1>1. Owed => FreeUnlessDied
    BY DEF Owed, BumpIsOwed, FreeUnlessDied, NextNumberFree, At
  <1> QED BY <1>1, OwedInvariance, PTL

\* For every instance: resolve() passes over a deployment only while a deploy
\* is between its DELETE and its INSERT.
THEOREM FallbackIsBrief == MCSpec => FallbackOnlyDuringDeploy
  <1>1. Inv /\ Owed /\ [MCNext]_<<vars, died>>
          => [\A w \in Workers :
                LET c == call[w] IN
                At(w, "read_deployment") /\ call'[w].at = "read_latest"
                  /\ <<c.p, c.e>> \in released /\ ~died =>
                    \E x \in Workers :
                      At(x, "redeploy") /\ call[x].p = c.p /\ call[x].e = c.e]_vars
    <2> SUFFICES ASSUME Inv, Owed, [MCNext]_<<vars, died>>, NEW w \in Workers,
                        At(w, "read_deployment"), call'[w].at = "read_latest",
                        <<call[w].p, call[w].e>> \in released, ~died
                 PROVE  \E x \in Workers : /\ At(x, "redeploy")
                                           /\ call[x].p = call[w].p
                                           /\ call[x].e = call[w].e
      OBVIOUS
    <2>1. call[w].p \in Ids /\ call[w].e \in Envs
      BY DEF Inv, CallsSound, Sound, At
    <2>2. deployed[call[w].p][call[w].e] = 0
      <3>1. call'[w] # call[w]
        BY DEF At
      <3>2. PICK u \in Workers : Writer(u) \/ Deployer(u) \/ Resolver(u) \/ Deleter(u)
                                 \/ Crash(u)
        BY <3>1 DEF MCNext, vars
      <3>3. \E x : Goto(u, x)
        BY <3>2 DEF Writer, Deployer, Resolver, Deleter, CreatePrompt, ReadForVersion,
                    InsertVersion, BumpLatest, StartDeploy, CheckVersion, Undeploy,
                    Redeploy, StartResolve, ReadDeployment, ReadLatest, Fetch,
                    StartDelete, DeleteDeployments, DeleteVersions, DeleteRow, Crash,
                    Return, Next_at
      <3>4. u = w
        BY <3>1, <3>3, OthersStay
      <3>5. ReadDeployment(w) \/ Crash(w)
        BY <3>2, <3>4
        DEF Writer, Deployer, Resolver, Deleter, CreatePrompt, ReadForVersion,
            InsertVersion, BumpLatest, StartDeploy, CheckVersion, Undeploy, Redeploy,
            StartResolve, ReadLatest, Fetch, StartDelete, DeleteDeployments,
            DeleteVersions, DeleteRow, At
      <3>6. CASE Crash(w)
        <4>1. call'[w] = Idle
          BY <3>6, OthersStay DEF Crash, Return
        <4> QED BY <4>1 DEF Idle, Call
      <3>7. CASE ReadDeployment(w)
        <4>1. ASSUME NEW v, Goto(w, Call("fetch", call[w].p, v, call[w].e))
              PROVE  FALSE
          <5>1. call'[w] = Call("fetch", call[w].p, v, call[w].e)
            BY <4>1, OthersStay
          <5> QED BY <5>1 DEF Call
        <4> QED BY <3>7, <4>1 DEF ReadDeployment, NotDeployed
      <3> QED BY <3>5, <3>6, <3>7
    <2> QED BY <2>1, <2>2 DEF Owed, DeployIsOwed
  <1> QED BY <1>1, HistoryInvariance, OwedInvariance, PTL
          DEF MCSpec, FallbackOnlyDuringDeploy

-----------------------------------------------------------------------------
(* The model router *)

\* The fleet is a dict: a name is in it once.
FleetRow == RModels \X AProfile
FleetOK == fleet \in Seq(FleetRow)
NamesDiffer == \A i, j \in DOMAIN fleet : fleet[i][1] = fleet[j][1] => i = j
RouterInv == FleetOK /\ NamesDiffer

LEMMA FleetIs ==
  ASSUME FleetOK
  PROVE  /\ Len(fleet) \in Nat /\ DOMAIN fleet = 1 .. Len(fleet)
         /\ fleet = [i \in 1 .. Len(fleet) |-> fleet[i]]
         /\ \A i \in DOMAIN fleet : /\ fleet[i][1] \in RModels /\ fleet[i][2] \in AProfile
                                    /\ fleet[i] \in FleetRow
<1>1. \A i \in 1 .. Len(fleet) : fleet[i] \in FleetRow
  BY DEF FleetOK
<1>2. Len(fleet) \in Nat /\ DOMAIN fleet = 1 .. Len(fleet)
  BY DEF FleetOK
<1>3. fleet = [i \in 1 .. Len(fleet) |-> fleet[i]]
  BY DEF FleetOK
<1>4. QED BY <1>1, <1>2, <1>3 DEF FleetRow

LEMMA ProfileIs ==
  ASSUME FleetOK, NEW m \in Registered
  PROVE  /\ Index(m) \in DOMAIN fleet /\ fleet[Index(m)][1] = m
         /\ Profile(m) = fleet[Index(m)][2] /\ Profile(m) \in AProfile /\ m \in RModels
<1>1. \E i \in DOMAIN fleet : fleet[i][1] = m
  BY DEF Registered
<1>2. Index(m) \in DOMAIN fleet /\ fleet[Index(m)][1] = m
  BY <1>1 DEF Index
<1>3. QED BY <1>2, FleetIs DEF Profile

\* An entry is put in the place of another of its name.
LEMMA ReplaceIs ==
  ASSUME RouterInv, NEW m \in Registered, NEW p \in AProfile, fleet' = [fleet EXCEPT ![Index(m)] = <<m, p>>]
  PROVE  RouterInv'
<1>1. PICK k \in DOMAIN fleet : k = Index(m) /\ fleet[k][1] = m /\ m \in RModels
  BY ProfileIs DEF RouterInv
<1>2. <<m, p>> \in FleetRow /\ <<m, p>>[1] = m
  BY <1>1 DEF FleetRow
<1>3. PICK entry : entry = <<m, p>>
  OBVIOUS
<1>4. fleet \in Seq(FleetRow)
  BY DEF RouterInv, FleetOK
<1>5. fleet' \in Seq(FleetRow) /\ Len(fleet') = Len(fleet)
  <2>1. fleet' = [fleet EXCEPT ![k] = entry]
    BY <1>1, <1>3
  <2>2. entry \in FleetRow
    BY <1>2, <1>3
  <2>3. QED BY <1>1, <1>4, <2>1, <2>2
<1>6. \A i \in DOMAIN fleet' : i \in DOMAIN fleet /\ fleet'[i][1] = fleet[i][1]
  <2>1. DOMAIN fleet' = DOMAIN fleet
    BY <1>4, <1>5
  <2>2. \A i \in DOMAIN fleet : fleet'[i] = IF i = k THEN entry ELSE fleet[i]
    BY <1>1, <1>3
  <2>3. entry[1] = m
    BY <1>2, <1>3
  <2>4. QED BY <1>1, <2>1, <2>2, <2>3
<1>7. QED BY <1>5, <1>6 DEF RouterInv, FleetOK, NamesDiffer

LEMMA AppendIs ==
  ASSUME RouterInv, NEW m \in RModels, m \notin Registered, NEW p \in AProfile, fleet' = Append(fleet, <<m, p>>)
  PROVE  RouterInv'
<1>1. <<m, p>> \in FleetRow /\ <<m, p>>[1] = m
  BY DEF FleetRow
<1>2. PICK entry : entry = <<m, p>>
  OBVIOUS
<1>3. fleet \in Seq(FleetRow) /\ entry \in FleetRow /\ entry[1] = m /\ fleet' = Append(fleet, entry)
  BY <1>1, <1>2 DEF RouterInv, FleetOK
<1>4. /\ fleet' \in Seq(FleetRow) /\ DOMAIN fleet' = 1 .. Len(fleet) + 1 /\ DOMAIN fleet = 1 .. Len(fleet)
      /\ Len(fleet) \in Nat
      /\ \A i \in 1 .. Len(fleet) : fleet'[i] = fleet[i]
      /\ fleet'[Len(fleet) + 1] = entry
  BY <1>3
<1>5. \A i \in 1 .. Len(fleet) : fleet[i][1] # m
  BY <1>4 DEF Registered
<1>6. ASSUME NEW i \in DOMAIN fleet', NEW j \in DOMAIN fleet', fleet'[i][1] = fleet'[j][1] PROVE i = j
  <2>1. CASE i \in 1 .. Len(fleet) /\ j \in 1 .. Len(fleet)
    BY <1>4, <1>6, <2>1 DEF RouterInv, NamesDiffer
  <2>2. CASE i = Len(fleet) + 1 /\ j \in 1 .. Len(fleet)
    BY <1>3, <1>4, <1>5, <1>6, <2>2
  <2>3. CASE j = Len(fleet) + 1 /\ i \in 1 .. Len(fleet)
    BY <1>3, <1>4, <1>5, <1>6, <2>3
  <2>4. CASE i = Len(fleet) + 1 /\ j = Len(fleet) + 1
    BY <2>4
  <2>5. QED BY <1>4, <2>1, <2>2, <2>3, <2>4
<1>7. QED BY <1>4, <1>6 DEF RouterInv, FleetOK, NamesDiffer

LEMMA RemoveIs ==
  ASSUME RouterInv, NEW m \in Registered, RemoveModel(m)
  PROVE  RouterInv'
<1> DEFINE n == Len(fleet) - 1
           k == Index(m)
           at(i) == IF i < k THEN i ELSE i + 1
<1>1. k \in DOMAIN fleet /\ DOMAIN fleet = 1 .. Len(fleet) /\ Len(fleet) \in Nat
  BY ProfileIs, FleetIs DEF RouterInv
<1>2. n \in Nat /\ k \in Int /\ \A i \in 1 .. n : at(i) \in DOMAIN fleet
  BY <1>1
<1>3. \A i, j \in 1 .. n : at(i) = at(j) => i = j
  BY <1>1
<1>4. fleet' = [i \in 1 .. n |-> fleet[at(i)]]
  BY DEF RemoveModel
<1> HIDE DEF n, k, at
<1>5. \A i \in 1 .. n : fleet[at(i)] \in FleetRow
  BY <1>2, FleetIs DEF RouterInv
<1>6. fleet' \in Seq(FleetRow) /\ DOMAIN fleet' = 1 .. n
  BY <1>2, <1>4, <1>5
<1>7. NamesDiffer'
  BY <1>2, <1>3, <1>4, <1>6 DEF RouterInv, NamesDiffer
<1>8. QED BY <1>6, <1>7 DEF RouterInv, FleetOK

LEMMA RouterInvStep == RouterInv /\ [RouterNext]_rvars => RouterInv'
<1> SUFFICES ASSUME RouterInv, [RouterNext]_rvars PROVE RouterInv'
  OBVIOUS
<1>1. \A p \in Profiles : p \in AProfile
  BY RouterAssumption
<1>2. ASSUME NEW m \in RModels, NEW p \in Profiles, AddModel(m, p) PROVE RouterInv'
  <2>1. CASE m \in Registered
    BY <1>1, <1>2, <2>1, ReplaceIs DEF AddModel
  <2>2. CASE m \notin Registered
    BY <1>1, <1>2, <2>2, AppendIs DEF AddModel
  <2>3. QED BY <2>1, <2>2
<1>3. ASSUME NEW m, NEW p \in AProfile, UpdateModel(m, p) PROVE RouterInv'
  BY <1>3, ReplaceIs DEF UpdateModel
<1>4. ASSUME NEW m \in Registered, NEW up \in BOOLEAN, SetAvailable(m, up) PROVE RouterInv'
  <2>1. Profile(m) \in AProfile
    BY ProfileIs DEF RouterInv
  <2>2. [Profile(m) EXCEPT !.up = up] \in AProfile
    BY <2>1 DEF AProfile
  <2>3. QED BY <1>3, <1>4, <2>2 DEF SetAvailable
<1>5. ASSUME UNCHANGED rvars PROVE RouterInv'
  BY <1>5 DEF rvars, RouterInv, FleetOK, NamesDiffer
<1>6. QED BY <1>1, <1>2, <1>3, <1>4, <1>5, RemoveIs DEF RouterNext
-----------------------------------------------------------------------------
(* The best of a set of places, the first of them among equals *)

\* Under[i] are the places i is better than: a strict weak order.
Ranking(S, Under) ==
    \A i, j, k \in S :
        /\ k \in Under[i] => i \notin Under[k]
        /\ k \in Under[i] => k \in Under[j] \/ j \in Under[i]
Unbeaten(S, Under, i) == i \in S /\ \A j \in S : i \notin Under[j]

LEMMA UnbeatenExists ==
  ASSUME NEW n \in Nat, NEW S \in SUBSET (1 .. n), S # {}, NEW Under, Ranking(S, Under)
  PROVE  \E i \in S : Unbeaten(S, Under, i)
<1> DEFINE T(k) == S \cap (1 .. k)
           Good(k) == T(k) # {} => \E i : Unbeaten(T(k), Under, i)
           Bad == {k \in 0 .. n : ~ Good(k)}
<1>1. SUFFICES Bad = {}
  <2>1. n \in 0 .. n
    OBVIOUS
  <2>2. S \cap (1 .. n) = S
    OBVIOUS
  <2>3. Good(n)
    BY <2>1
  <2>4. QED BY <2>2, <2>3 DEF Unbeaten
<1>2. SUFFICES ASSUME Bad # {} PROVE FALSE
  OBVIOUS
<1>3. PICK k \in Bad : \A j \in Bad : k <= j
  <2>1. Bad \in SUBSET Nat
    OBVIOUS
  <2> HIDE DEF Bad
  <2>2. QED BY <1>2, <2>1, SmallestExists
<1>4. k \in 1 .. n /\ k - 1 \in 0 .. n
  <2>1. T(0) = {}
    OBVIOUS
  <2>2. k # 0
    BY <2>1
  <2>3. QED BY <2>2
<1>5. Good(k - 1)
  <2>1. k - 1 \notin Bad
    <3> HIDE DEF Bad
    <3>1. QED BY <1>3, <1>4
  <2>2. QED BY <1>4, <2>1
<1>6. T(k) = T(k - 1) \/ (k \in S /\ T(k) = T(k - 1) \cup {k})
  BY <1>4
<1>7. T(k) \subseteq S /\ T(k - 1) \subseteq S
  OBVIOUS
<1>8. T(k) # {} /\ ~ (\E i : Unbeaten(T(k), Under, i))
  OBVIOUS
<1> HIDE DEF T, Bad
<1>9. CASE T(k) = T(k - 1)
  BY <1>5, <1>8, <1>9
<1>10. CASE k \in S /\ T(k) = T(k - 1) \cup {k}
  <2>1. CASE T(k - 1) = {}
    <3>1. T(k) = {k} /\ k \notin Under[k]
      BY <1>10, <2>1 DEF Ranking
    <3>2. QED BY <1>8, <3>1 DEF Unbeaten
  <2>2. CASE T(k - 1) # {}
    <3>1. PICK b : Unbeaten(T(k - 1), Under, b)
      BY <1>5, <2>2
    <3>2. b \in S
      BY <1>7, <3>1 DEF Unbeaten
    <3>3. CASE b \in Under[k]
      <4>1. ASSUME NEW j \in T(k - 1), k \in Under[j] PROVE FALSE
        <5>1. j \in S /\ b \notin Under[j]
          BY <1>7, <3>1 DEF Unbeaten
        <5>2. k \in Under[b] \/ b \in Under[j]
          BY <1>10, <3>2, <4>1, <5>1 DEF Ranking
        <5>3. QED BY <1>10, <3>2, <3>3, <5>1, <5>2 DEF Ranking
      <4>2. k \notin Under[k]
        BY <1>10 DEF Ranking
      <4>3. QED BY <1>8, <1>10, <4>1, <4>2 DEF Unbeaten
    <3>4. CASE b \notin Under[k]
      BY <1>8, <1>10, <3>1, <3>4 DEF Unbeaten
    <3>5. QED BY <3>3, <3>4
  <2>3. QED BY <2>1, <2>2
<1>11. QED BY <1>6, <1>9, <1>10

LEMMA BestExists ==
  ASSUME NEW n \in Nat, NEW S \in SUBSET (1 .. n), S # {}, NEW Under, Ranking(S, Under)
  PROVE  \E i \in S : \A j \in S : i \notin Under[j] /\ (j \in Under[i] \/ i <= j)
<1> DEFINE Tops == {i \in S : Unbeaten(S, Under, i)}
<1>1. PICK i \in Tops : \A j \in Tops : i <= j
  <2>1. Tops \in SUBSET Nat
    <3>1. Tops \subseteq S /\ \A i \in 1 .. n : i \in Nat
      OBVIOUS
    <3> HIDE DEF Tops
    <3>2. QED BY <3>1
  <2>2. Tops # {}
    BY UnbeatenExists
  <2> HIDE DEF Tops
  <2>3. QED BY <2>1, <2>2, SmallestExists
<1>2. ASSUME NEW j \in S, j \notin Under[i] PROVE i <= j
  <2>1. ASSUME NEW k \in S, j \in Under[k] PROVE FALSE
    <3>1. i \notin Under[k]
      BY <2>1 DEF Unbeaten
    <3>2. j \in Under[i] \/ i \in Under[k]
      BY <2>1 DEF Ranking
    <3>3. QED BY <1>2, <3>1, <3>2
  <2>2. j \in Tops
    BY <2>1 DEF Unbeaten
  <2> HIDE DEF Tops
  <2>3. QED BY <1>1, <2>2
<1>3. i \in S /\ \A j \in S : i \notin Under[j]
  BY DEF Unbeaten
<1>4. QED BY <1>2, <1>3

-----------------------------------------------------------------------------
\* Efficiency is compared across, so that a cost of 0 can be told apart.
LEMMA EfficiencyRanks ==
  ASSUME NEW p \in AProfile, NEW q \in AProfile, NEW r \in AProfile, MoreEfficient(p, r)
  PROVE  ~ MoreEfficient(r, p) /\ (MoreEfficient(q, r) \/ MoreEfficient(p, q))
<1>1. PICK pc \in Nat, pq \in Nat, qc \in Nat, qq \in Nat, rc \in Nat, rq \in Nat :
        pc = p.cost /\ pq = p.quality /\ qc = q.cost /\ qq = q.quality /\ rc = r.cost /\ rq = r.quality
  BY DEF AProfile
<1>2. pc > 0 /\ rc > 0 => pq * rc > rq * pc
  BY <1>1 DEF MoreEfficient
<1>3. ~ MoreEfficient(r, p)
  BY <1>1 DEF MoreEfficient
<1>4. CASE pc = 0 \/ qc = 0 \/ rc = 0
  BY <1>1, <1>4 DEF MoreEfficient
<1>5. CASE pc > 0 /\ qc > 0 /\ rc > 0
  <2>1. SUFFICES ASSUME pq * qc <= qq * pc, qq * rc <= rq * qc PROVE FALSE
    BY <1>1, <1>5 DEF MoreEfficient
  <2>2. (pq * qc) * rc <= (qq * pc) * rc
    BY <1>5, <2>1
  <2>3. (qq * rc) * pc <= (rq * qc) * pc
    BY <1>5, <2>1
  <2>4. (pq * rc) * qc > (rq * pc) * qc
    BY <1>2, <1>5
  <2>5. QED BY <2>2, <2>3, <2>4
<1>6. QED BY <1>3, <1>4, <1>5

LEMMA BetterRanks ==
  ASSUME NEW strategy \in Strategies, NEW p \in AProfile, NEW q \in AProfile, NEW r \in AProfile,
         Better(strategy, p, r)
  PROVE  ~ Better(strategy, r, p) /\ (Better(strategy, q, r) \/ Better(strategy, p, q))
<1>1. \A x \in {p, q, r} : x.cost \in Nat /\ x.quality \in Nat /\ x.latency \in Nat
  BY DEF AProfile
<1>2. CASE strategy = "balanced"
  BY <1>2, EfficiencyRanks DEF Better
<1>3. CASE strategy = "cheapest"
  BY <1>1, <1>3 DEF Better
<1>4. CASE strategy = "quality"
  BY <1>1, <1>4 DEF Better
<1>5. CASE strategy = "latency"
  BY <1>1, <1>5 DEF Better
<1>6. QED BY <1>2, <1>3, <1>4, <1>5 DEF Strategies

LEMMA SelectedIs ==
  ASSUME FleetOK, NEW strategy \in Strategies, NEW S \in SUBSET DOMAIN fleet, S # {}
  PROVE  \E i \in S : /\ Selected(strategy, S) = fleet[i]
                      /\ \A j \in S : ~ Better(strategy, fleet[j][2], fleet[i][2])
<1>1. PICK n \in Nat : n = Len(fleet) /\ DOMAIN fleet = 1 .. n
  BY FleetIs
<1> DEFINE Under == [i \in S |-> {j \in S : Better(strategy, fleet[i][2], fleet[j][2])}]
<1>2. Ranking(S, Under)
  <2>1. ASSUME NEW i \in S, NEW j \in S, NEW k \in S, Better(strategy, fleet[i][2], fleet[k][2])
        PROVE  /\ ~ Better(strategy, fleet[k][2], fleet[i][2])
               /\ Better(strategy, fleet[j][2], fleet[k][2]) \/ Better(strategy, fleet[i][2], fleet[j][2])
    <3>1. fleet[i][2] \in AProfile /\ fleet[j][2] \in AProfile /\ fleet[k][2] \in AProfile
      BY FleetIs
    <3>2. QED BY <2>1, <3>1, BetterRanks
  <2>2. QED BY <2>1 DEF Ranking
<1>3. \E i \in S : \A j \in S : i \notin Under[j] /\ (j \in Under[i] \/ i <= j)
  <2> HIDE DEF Under
  <2>1. QED BY <1>1, <1>2, BestExists
<1>4. \E i \in S : \A j \in S :
         /\ ~Better(strategy, fleet[j][2], fleet[i][2])
         /\ Better(strategy, fleet[i][2], fleet[j][2]) \/ i <= j
  BY <1>3
<1>5. QED BY <1>4 DEF Selected

\* An answer of the router, when some model meets the request.
LEMMA RouteIs ==
  ASSUME RouterInv, NEW strategy \in Strategies, NEW q, Candidates(q) # {}
  PROVE  \E i \in Candidates(q) :
           /\ Route(strategy, q) = fleet[i][1] /\ Route(strategy, q) \in Registered
           /\ Profile(Route(strategy, q)) = fleet[i][2]
           /\ \A j \in Candidates(q) : ~ Better(strategy, fleet[j][2], fleet[i][2])
<1>1. Candidates(q) \in SUBSET DOMAIN fleet
  BY DEF Candidates
<1>2. PICK i \in Candidates(q) : /\ Selected(strategy, Candidates(q)) = fleet[i]
                                /\ \A j \in Candidates(q) : ~ Better(strategy, fleet[j][2], fleet[i][2])
  BY <1>1, SelectedIs DEF RouterInv
<1>3. PICK m : m = fleet[i][1] /\ m = Route(strategy, q)
  BY <1>2 DEF Route
<1>4. m \in Registered
  BY <1>1, <1>3 DEF Registered
<1>5. Index(m) = i
  BY <1>1, <1>3, <1>4, ProfileIs DEF RouterInv, NamesDiffer
<1>6. QED BY <1>2, <1>3, <1>4, <1>5 DEF Profile

LEMMA LooserIs ==
  ASSUME RouterInv, NEW q \in Asks
  PROVE  Candidates(q) \subseteq Candidates(Looser(q))
<1>1. q \in AnAsk
  BY RouterAssumption
<1>2. /\ Looser(q).quality = 0 /\ Looser(q).latency = NoLimit
      /\ Looser(q).cost = NoLimit /\ Looser(q).tags = {}
  BY <1>1 DEF Looser, AnAsk
<1>3. ASSUME NEW i \in DOMAIN fleet, Meets(fleet[i][2], q) PROVE Meets(fleet[i][2], Looser(q))
  <2>1. fleet[i][2] \in AProfile
    BY FleetIs DEF RouterInv
  <2>2. QED BY <1>2, <1>3, <2>1 DEF Meets, AProfile
<1>4. QED BY <1>3 DEF Candidates

LEMMA DivWithin ==
  ASSUME NEW a \in Nat, NEW b \in Nat, a < b
  PROVE  (a * 100) \div b \in 0 .. 100
<1>1. PICK d \in Int : d = (a * 100) \div b
  OBVIOUS
<1>2. b * d <= a * 100 /\ a * 100 < b * (d + 1)
  BY <1>1
<1>3. d >= 0
  <2>1. SUFFICES ASSUME d + 1 <= 0 PROVE FALSE
    BY <1>1
  <2>2. b * (d + 1) <= 0
    BY <2>1
  <2>3. QED BY <1>2, <2>2
<1>4. d <= 100
  <2>1. SUFFICES ASSUME d >= 101 PROVE FALSE
    BY <1>1
  <2>2. b * d >= b * 101
    BY <2>1
  <2>3. QED BY <1>2, <2>2
<1>5. QED BY <1>1, <1>3, <1>4

LEMMA SavingsIs ==
  ASSUME RouterInv, DOMAIN fleet # {}, NEW p \in AProfile
  PROVE  Savings(p) \in 0 .. 100
<1>1. PICK i \in DOMAIN fleet : BestQuality = fleet[i][2]
  BY SelectedIs DEF BestQuality, Strategies, RouterInv
<1>2. PICK b \in Nat, c \in Nat : b = BestQuality.cost /\ c = p.cost
  BY <1>1, FleetIs DEF RouterInv, AProfile
<1>3. CASE b = 0 \/ c >= b
  BY <1>2, <1>3 DEF Savings
<1>4. CASE ~ (b = 0 \/ c >= b)
  <2>1. (c * 100) \div b \in 0 .. 100
    BY <1>4, DivWithin
  <2>2. Savings(p) = 100 - (c * 100) \div b
    BY <1>2, <1>4 DEF Savings
  <2>3. QED BY <2>1, <2>2
<1>5. QED BY <1>3, <1>4

LEMMA RoutesWell == RouterInv => RoutedWell
<1> SUFFICES ASSUME RouterInv, NEW strategy \in Strategies, NEW q \in Asks
             PROVE  LET m == Route(strategy, q)
                        n == Route(strategy, Looser(q)) IN
                    IF Candidates(q) # {}
                    THEN /\ m \in Registered /\ Profile(m).up
                         /\ Profile(m).quality >= q.quality
                         /\ q.cost # NoLimit => Profile(m).cost <= q.cost
                         /\ ~Better(strategy, Profile(m), Profile(n))
                         /\ Savings(Profile(m)) \in 0 .. 100
                    ELSE m \in {q.fallback, NoLimit}
  BY DEF RoutedWell
<1>1. CASE Candidates(q) = {}
  BY <1>1 DEF Route
<1>2. CASE Candidates(q) # {}
  <2>1. PICK i \in Candidates(q) :
           /\ Route(strategy, q) = fleet[i][1] /\ Route(strategy, q) \in Registered
           /\ Profile(Route(strategy, q)) = fleet[i][2]
           /\ \A j \in Candidates(q) : ~ Better(strategy, fleet[j][2], fleet[i][2])
    BY <1>2, RouteIs
  <2>2. Candidates(Looser(q)) # {} /\ i \in Candidates(Looser(q))
    BY <2>1, LooserIs
  <2>3. PICK k \in Candidates(Looser(q)) :
           /\ Profile(Route(strategy, Looser(q))) = fleet[k][2]
           /\ \A j \in Candidates(Looser(q)) : ~ Better(strategy, fleet[j][2], fleet[k][2])
    BY <2>2, RouteIs
  <2>4. i \in DOMAIN fleet /\ Meets(fleet[i][2], q)
    BY <2>1 DEF Candidates
  <2>5. Savings(fleet[i][2]) \in 0 .. 100
    <3>1. fleet[i][2] \in AProfile
      BY <2>4, FleetIs DEF RouterInv
    <3>2. QED BY <2>4, <3>1, SavingsIs
  <2>6. QED BY <1>2, <2>1, <2>2, <2>3, <2>4, <2>5 DEF Meets
<1>3. QED BY <1>1, <1>2

\* Whoever is advised to switch goes to a cheaper model.
LEMMA AdviceIsCheaper ==
  ASSUME RouterInv, NEW a \in Registered, NEW b \in Registered, Advised(a, b)
  PROVE  Profile(b).cost < Profile(a).cost
<1>1. Profile(a) \in AProfile /\ Profile(b) \in AProfile
  BY ProfileIs DEF RouterInv
<1>2. Profile(a).cost \in Nat /\ Profile(b).cost \in Nat
  BY <1>1 DEF AProfile
<1>3. QED BY <1>2 DEF Advised, MutualSwitch, FreeSwitch

LEMMA RouterIsSound == RouterSpec => []RouterSound
<1>1. RouterInit => RouterInv
  <2> SUFFICES ASSUME RouterInit PROVE RouterInv
    OBVIOUS
  <2>1. fleet = <<>>
    BY DEF RouterInit
  <2>2. QED BY <2>1 DEF RouterInv, FleetOK, NamesDiffer
<1>2. RouterInv => RouterSound
  <2> SUFFICES ASSUME RouterInv PROVE AdviceEnds
    BY RoutesWell DEF RouterSound
  <2> SUFFICES ASSUME NEW a \in Registered, NEW b \in Registered, NEW c \in Registered
               PROVE  /\ ~ (Advised(a, b) /\ Advised(b, a))
                      /\ ~ (Advised(a, b) /\ Advised(b, c) /\ Advised(c, a))
    BY DEF AdviceEnds
  <2>1. \A x \in {a, b, c} : Profile(x).cost \in Nat
    <3>1. \A x \in Registered : Profile(x) \in AProfile
      BY ProfileIs DEF RouterInv
    <3>2. QED BY <3>1 DEF AProfile
  <2>2. \A x, y \in {a, b, c} : Advised(x, y) => Profile(y).cost < Profile(x).cost
    BY AdviceIsCheaper
  <2>3. QED BY <2>1, <2>2
<1>3. QED BY RouterInvStep, <1>1, <1>2, PTL DEF RouterSpec

-----------------------------------------------------------------------------
(* The tier registry *)

Tiers == TierNames \cup {Uncached}
Reading == [busy : BOOLEAN, todo : SUBSET Loadable, model : TModels \cup {Uncached}, tier : Tiers]
TierTypeOK ==
    /\ tierOf \in [TModels -> Tiers] /\ loaded \in BOOLEAN /\ bounds \in Thresholds
    /\ override \in [TModels -> Tiers \cup {"invalid"}]
    /\ reader \in [Readers -> Reading] /\ raced \in BOOLEAN

\* The tier of a model is what its price says today, or an override was refused.
Right(m, tier) == tier = ByPrice(m, PriceOf[m]) \/ override[m] = "invalid"

\* Unless a change fell into a load: tiers in the cache and in the readers' hands are
\* right, only loadable models are cached, what a reader has passed is in the cache,
\* and everything is once the registry is loaded.
CacheRight == \A m \in TModels : tierOf[m] # Uncached => m \in Loadable /\ Right(m, tierOf[m])
ReaderRight(r) ==
    /\ reader[r].model # Uncached => reader[r].busy /\ reader[r].model \in Loadable
                                     /\ reader[r].tier \in TierNames
                                     /\ Right(reader[r].model, reader[r].tier)
    /\ reader[r].busy => \A m \in Loadable : m \in reader[r].todo \cup {reader[r].model} \/ tierOf[m] # Uncached
CacheFull == loaded => \A m \in Loadable : tierOf[m] # Uncached
TierInv == TierTypeOK /\ (~raced => CacheRight /\ CacheFull /\ \A r \in Readers : ReaderRight(r))

LEMMA ByPriceIs ==
  ASSUME NEW m \in TModels
  PROVE  ByPrice(m, PriceOf[m]) \in TierNames
  BY DEF ByPrice, TierNames

LEMMA ReaderIs ==
  ASSUME TierTypeOK, NEW r \in Readers, NEW x \in Reading, reader' = [reader EXCEPT ![r] = x]
  PROVE  reader' \in [Readers -> Reading] /\ reader'[r] = x /\ \A s \in Readers \ {r} : reader'[s] = reader[s]
  BY DEF TierTypeOK

LEMMA TierInvInit == TiersInit => TierInv
<1> SUFFICES ASSUME TiersInit PROVE TierInv
  OBVIOUS
<1>1. NotLoading \in Reading /\ ~ NotLoading.busy /\ NotLoading.model = Uncached
  BY DEF NotLoading, Reading, Tiers
<1>2. TierTypeOK
  BY <1>1 DEF TiersInit, TierTypeOK, Tiers
<1>3. CacheRight /\ CacheFull /\ \A r \in Readers : ReaderRight(r)
  BY <1>1 DEF TiersInit, CacheRight, CacheFull, ReaderRight
<1>4. QED BY <1>2, <1>3 DEF TierInv


LEMMA ReaderStep ==
  ASSUME TierInv, NEW r \in Readers,
         StartLoad(r) \/ StoreTier(r) \/ EndLoad(r) \/ \E m \in TModels : ClassifyNext(r, m)
  PROVE  TierInv'
<1>1. TierTypeOK /\ UNCHANGED <<override, bounds, raced>>
  BY DEF TierInv, StartLoad, StoreTier, EndLoad, ClassifyNext
<1>2. reader[r] \in Reading /\ reader = [s \in Readers |-> reader[s]]
  BY <1>1 DEF TierTypeOK
<1>4. NotLoading \in Reading /\ ~ NotLoading.busy /\ NotLoading.model = Uncached
  BY DEF NotLoading, Reading, Tiers
<1>5. Loadable \subseteq TModels /\ Uncached \notin Loadable
  BY TierAssumption DEF Loadable
<1>6. CASE StartLoad(r)
  <2>1. PICK x \in Reading : /\ x.busy /\ x.todo = Loadable /\ x.model = Uncached
                             /\ reader' = [reader EXCEPT ![r] = x]
    <3>1. [NotLoading EXCEPT !.busy = TRUE, !.todo = Loadable] \in Reading
      BY DEF NotLoading, Reading, Tiers
    <3>2. QED BY <3>1, <1>6 DEF StartLoad, NotLoading
  <2>2. reader' \in [Readers -> Reading] /\ reader'[r] = x /\ \A s \in Readers \ {r} : reader'[s] = reader[s]
    BY <1>1, <2>1, ReaderIs
  <2>3. UNCHANGED <<tierOf, loaded>>
    BY <1>6 DEF StartLoad
  <2>4. TierTypeOK'
    BY <1>1, <2>2, <2>3 DEF TierTypeOK
  <2>5. ASSUME ~ raced PROVE (CacheRight /\ CacheFull)' /\ \A s \in Readers : ReaderRight(s)'
    <3>1. CacheRight /\ CacheFull /\ \A s \in Readers : ReaderRight(s)
      BY <2>5 DEF TierInv
    <3>2. (CacheRight /\ CacheFull)'
      BY <1>1, <2>3, <3>1 DEF CacheRight, CacheFull, Right, ByPrice
    <3>3. ASSUME NEW s \in Readers PROVE ReaderRight(s)'
      <4>1. CASE s = r
        BY <2>1, <2>2, <4>1 DEF ReaderRight
      <4>2. CASE s # r
        BY <1>1, <2>2, <2>3, <3>1, <4>2 DEF ReaderRight, Right, ByPrice
      <4>3. QED BY <4>1, <4>2
    <3>4. QED BY <3>2, <3>3
  <2>6. QED BY <1>1, <2>4, <2>5 DEF TierInv
<1>7. CASE \E m \in TModels : ClassifyNext(r, m)
  <2>1. PICK m \in TModels : ClassifyNext(r, m)
    BY <1>7
  <2>2. PICK x \in Reading : /\ x.busy /\ x.todo = reader[r].todo \ {m} /\ x.model = m
                             /\ x.tier = ByPrice(m, PriceOf[m])
                             /\ reader' = [reader EXCEPT ![r] = x]
    <3>1. PICK old \in Reading : old = reader[r] /\ old.busy
      BY <1>2, <2>1 DEF ClassifyNext
    <3>2. PICK t \in Tiers : t = ByPrice(m, PriceOf[m])
      BY ByPriceIs DEF Tiers
    <3>3. PICK x : x = [old EXCEPT !.todo = old.todo \ {m}, !.model = m, !.tier = t]
      OBVIOUS
    <3>4. x \in Reading /\ x.busy /\ x.todo = old.todo \ {m} /\ x.model = m /\ x.tier = t
      BY <3>1, <3>3 DEF Reading
    <3>5. reader' = [reader EXCEPT ![r] = x]
      BY <1>2, <2>1, <3>1, <3>2, <3>3 DEF ClassifyNext
    <3>6. QED BY <3>1, <3>2, <3>4, <3>5
  <2>3. reader' \in [Readers -> Reading] /\ reader'[r] = x /\ \A s \in Readers \ {r} : reader'[s] = reader[s]
    BY <1>1, <2>2, ReaderIs
  <2>4. UNCHANGED <<tierOf, loaded>> /\ m \in reader[r].todo /\ reader[r].busy /\ reader[r].model = Uncached
    BY <2>1 DEF ClassifyNext
  <2>5. TierTypeOK'
    BY <1>1, <2>3, <2>4 DEF TierTypeOK
  <2>6. ASSUME ~ raced PROVE (CacheRight /\ CacheFull)' /\ \A s \in Readers : ReaderRight(s)'
    <3>1. CacheRight /\ CacheFull /\ \A s \in Readers : ReaderRight(s)
      BY <2>6 DEF TierInv
    <3>2. (CacheRight /\ CacheFull)'
      BY <1>1, <2>4, <3>1 DEF CacheRight, CacheFull, Right, ByPrice
    <3>3. ASSUME NEW s \in Readers PROVE ReaderRight(s)'
      <4>1. CASE s = r
        <5>1. m \in Loadable
          BY <1>2, <2>4 DEF Reading
        <5>2. x.tier \in TierNames /\ Right(x.model, x.tier)'
          BY <1>1, <2>2, ByPriceIs DEF Right, ByPrice
        <5>3. \A k \in Loadable : k \in x.todo \cup {m} \/ tierOf[k] # Uncached
          BY <1>5, <2>2, <2>4, <3>1 DEF ReaderRight
        <5>4. QED BY <2>2, <2>3, <2>4, <4>1, <5>1, <5>2, <5>3 DEF ReaderRight
      <4>2. CASE s # r
        BY <1>1, <2>3, <2>4, <3>1, <4>2 DEF ReaderRight, Right, ByPrice
      <4>3. QED BY <4>1, <4>2
    <3>4. QED BY <3>2, <3>3
  <2>7. QED BY <1>1, <2>5, <2>6 DEF TierInv
<1>8. CASE StoreTier(r)
  <2>1. PICK x \in Reading : /\ x.busy = reader[r].busy /\ x.todo = reader[r].todo /\ x.model = Uncached
                             /\ reader' = [reader EXCEPT ![r] = x]
    <3>1. PICK old \in Reading : old = reader[r]
      BY <1>2
    <3>2. PICK x : x = [old EXCEPT !.model = Uncached, !.tier = Uncached]
      OBVIOUS
    <3>3. x \in Reading /\ x.busy = old.busy /\ x.todo = old.todo /\ x.model = Uncached
      BY <3>2 DEF Reading, Tiers
    <3>4. reader' = [reader EXCEPT ![r] = x]
      BY <1>2, <1>8, <3>1, <3>2 DEF StoreTier
    <3>5. QED BY <3>1, <3>3, <3>4
  <2>2. reader' \in [Readers -> Reading] /\ reader'[r] = x /\ \A s \in Readers \ {r} : reader'[s] = reader[s]
    BY <1>1, <2>1, ReaderIs
  <2>3. PICK m \in TModels, tier \in Tiers :
           /\ m = reader[r].model /\ tier = reader[r].tier /\ loaded' = loaded
           /\ tierOf' = [tierOf EXCEPT ![m] = tier] /\ m # Uncached
    BY <1>2, <1>8 DEF StoreTier, Reading
  <2>4. /\ tierOf' \in [TModels -> Tiers] /\ tierOf'[m] = tier
        /\ \A k \in TModels \ {m} : tierOf'[k] = tierOf[k]
    BY <1>1, <2>3 DEF TierTypeOK
  <2>5. TierTypeOK'
    BY <1>1, <2>2, <2>3, <2>4 DEF TierTypeOK
  <2>6. ASSUME ~ raced PROVE (CacheRight /\ CacheFull)' /\ \A s \in Readers : ReaderRight(s)'
    <3>1. CacheRight /\ CacheFull /\ \A s \in Readers : ReaderRight(s)
      BY <2>6 DEF TierInv
    <3>2. m \in Loadable /\ tier \in TierNames /\ Right(m, tier) /\ tier # Uncached /\ reader[r].busy
      BY <2>3, <3>1, TierAssumption DEF ReaderRight
    <3>3. \A k \in TModels : tierOf[k] # Uncached => tierOf'[k] # Uncached
      BY <2>4, <3>2
    <3>4. CacheRight'
      <4>1. ASSUME NEW k \in TModels, tierOf'[k] # Uncached PROVE k \in Loadable /\ Right(k, tierOf'[k])
        BY <2>4, <3>1, <3>2, <4>1 DEF CacheRight
      <4>2. \A k \in TModels : Right(k, tierOf[k])' <=> Right(k, tierOf'[k])
        BY <1>1 DEF Right, ByPrice
      <4>3. QED BY <4>1, <4>2 DEF CacheRight
    <3>5. CacheFull'
      BY <1>5, <2>3, <3>1, <3>3 DEF CacheFull
    <3>6. ASSUME NEW s \in Readers PROVE ReaderRight(s)'
      <4>1. CASE s = r
        <5>1. \A k \in Loadable : k \in x.todo \cup {x.model} \/ tierOf'[k] # Uncached
          BY <1>5, <2>1, <2>3, <2>4, <3>1, <3>2 DEF ReaderRight
        <5>2. QED BY <2>1, <2>2, <4>1, <5>1 DEF ReaderRight
      <4>2. CASE s # r
        <5>1. ReaderRight(s) /\ reader'[s] = reader[s]
          BY <2>2, <3>1, <4>2
        <5>2. QED BY <1>1, <1>5, <3>3, <5>1 DEF ReaderRight, Right, ByPrice
      <4>3. QED BY <4>1, <4>2
    <3>7. QED BY <3>4, <3>5, <3>6
  <2>7. QED BY <1>1, <2>5, <2>6 DEF TierInv
<1>9. CASE EndLoad(r)
  <2>1. reader' \in [Readers -> Reading] /\ reader'[r] = NotLoading /\ \A s \in Readers \ {r} : reader'[s] = reader[s]
    BY <1>1, <1>4, <1>9, ReaderIs DEF EndLoad
  <2>2. tierOf' = tierOf /\ loaded' = TRUE /\ reader[r].busy /\ reader[r].todo = {} /\ reader[r].model = Uncached
    BY <1>9 DEF EndLoad
  <2>3. TierTypeOK'
    BY <1>1, <2>1, <2>2 DEF TierTypeOK
  <2>4. ASSUME ~ raced PROVE (CacheRight /\ CacheFull)' /\ \A s \in Readers : ReaderRight(s)'
    <3>1. CacheRight /\ CacheFull /\ \A s \in Readers : ReaderRight(s)
      BY <2>4 DEF TierInv
    <3>2. CacheRight'
      BY <1>1, <2>2, <3>1 DEF CacheRight, Right, ByPrice
    <3>3. CacheFull'
      BY <1>5, <2>2, <3>1 DEF CacheFull, ReaderRight
    <3>4. ASSUME NEW s \in Readers PROVE ReaderRight(s)'
      <4>1. CASE s = r
        BY <1>4, <2>1, <4>1 DEF ReaderRight
      <4>2. CASE s # r
        BY <1>1, <2>1, <2>2, <3>1, <4>2 DEF ReaderRight, Right, ByPrice
      <4>3. QED BY <4>1, <4>2
    <3>5. QED BY <3>2, <3>3, <3>4
  <2>5. QED BY <1>1, <2>3, <2>4 DEF TierInv
<1>10. QED BY <1>6, <1>7, <1>8, <1>9
\* Settings change while nobody loads, or a change fell into a load.
LEMMA SettingsStep ==
  ASSUME TierInv,
         \/ \E b \in Thresholds : SetThresholds(b)
         \/ \E m \in TModels, tier \in TierNames \cup {"invalid"} : SetOverride(m, tier)
  PROVE  TierInv'
<1>1. TierTypeOK /\ reader' = reader
  BY DEF TierInv, SetThresholds, SetOverride
<1>2. Loadable \subseteq TModels /\ Uncached \notin Loadable
  BY TierAssumption DEF Loadable
<1>3. ~ raced' => /\ ~ raced /\ \A r \in Readers : ~ reader[r].busy
                  /\ CacheRight /\ CacheFull /\ \A r \in Readers : ReaderRight(r)
  <2>1. raced' = (raced \/ Loading)
    BY DEF SetThresholds, SetOverride
  <2>2. QED BY <2>1 DEF TierInv, Loading
<1>4. ~ raced' => \A r \in Readers : ReaderRight(r)'
  BY <1>1, <1>3 DEF ReaderRight
<1>5. raced' \in BOOLEAN
  BY <1>1 DEF TierTypeOK, SetThresholds, SetOverride, Loading
<1>6. ASSUME NEW b \in Thresholds, SetThresholds(b) PROVE TierInv'
  <2>1. tierOf' = [m \in TModels |-> Uncached] /\ loaded' = FALSE /\ bounds' = b /\ override' = override
    BY <1>6 DEF SetThresholds
  <2>2. TierTypeOK'
    BY <1>1, <1>5, <2>1 DEF TierTypeOK, Tiers
  <2>3. CacheRight' /\ CacheFull'
    BY <2>1 DEF CacheRight, CacheFull
  <2>4. QED BY <1>4, <2>2, <2>3 DEF TierInv
<1>7. ASSUME NEW m \in TModels, NEW tier \in TierNames \cup {"invalid"}, SetOverride(m, tier) PROVE TierInv'
  <2>1. /\ override' = [override EXCEPT ![m] = tier] /\ bounds' = bounds /\ loaded' = loaded
        /\ tierOf' = IF tierOf[m] # Uncached /\ tier \in TierNames THEN [tierOf EXCEPT ![m] = tier] ELSE tierOf
    BY <1>7 DEF SetOverride, Overridden
  <2>2. /\ override' \in [TModels -> Tiers \cup {"invalid"}] /\ override'[m] = tier
        /\ \A k \in TModels \ {m} : override'[k] = override[k]
    BY <1>1, <2>1 DEF TierTypeOK, Tiers
  <2>3. /\ tierOf' \in [TModels -> Tiers]
        /\ \A k \in TModels \ {m} : tierOf'[k] = tierOf[k]
        /\ tierOf'[m] = IF tierOf[m] # Uncached /\ tier \in TierNames THEN tier ELSE tierOf[m]
    BY <1>1, <2>1 DEF TierTypeOK, Tiers
  <2>4. TierTypeOK'
    BY <1>1, <1>5, <2>1, <2>2, <2>3 DEF TierTypeOK
  <2>5. tier # Uncached /\ "invalid" \notin TierNames
    BY TierAssumption DEF TierNames
  <2>6. ASSUME ~ raced' PROVE CacheRight' /\ CacheFull'
    <3>1. CacheRight /\ CacheFull
      BY <1>3, <2>6
    <3>2. ASSUME NEW k \in TModels, tierOf'[k] # Uncached PROVE k \in Loadable /\ Right(k, tierOf[k])'
      <4>1. CASE k = m
        <5>1. tierOf[m] # Uncached
          BY <2>3, <3>2, <4>1
        <5>2. m \in Loadable
          BY <3>1, <5>1 DEF CacheRight
        <5>3. CASE tier \in TierNames
          BY <2>2, <2>3, <4>1, <5>1, <5>2, <5>3 DEF Right, ByPrice
        <5>4. CASE tier = "invalid"
          BY <2>2, <4>1, <5>2, <5>4 DEF Right
        <5>5. QED BY <5>3, <5>4
      <4>2. CASE k # m
        BY <2>1, <2>2, <2>3, <3>1, <3>2, <4>2 DEF CacheRight, Right, ByPrice
      <4>3. QED BY <4>1, <4>2
    <3>3. CacheFull'
      <4>1. \A k \in TModels : tierOf[k] # Uncached => tierOf'[k] # Uncached
        BY <2>3, TierAssumption
      <4>2. QED BY <1>2, <2>1, <3>1, <4>1 DEF CacheFull
    <3>4. QED BY <3>2, <3>3 DEF CacheRight
  <2>7. QED BY <1>4, <2>4, <2>6 DEF TierInv
<1>8. QED BY <1>6, <1>7

LEMMA TierInvStep == TierInv /\ [TiersNext]_tiervars => TierInv'
<1> SUFFICES ASSUME TierInv, [TiersNext]_tiervars PROVE TierInv'
  OBVIOUS
<1>1. CASE UNCHANGED tiervars
  BY <1>1 DEF TierInv, TierTypeOK, CacheRight, CacheFull, ReaderRight, Right, ByPrice, tiervars
<1>2. QED BY <1>1, ReaderStep, SettingsStep DEF TiersNext

\* What is offered instead of a refused model is in a granted tier.
LEMMA CheapestIs ==
  ASSUME TierTypeOK, NEW tier, NEW maker, NEW fit \in SUBSET TModels,
         fit = {m \in InTier(tier) : maker = Uncached \/ MakerOf[m] = maker},
         CheapestInTier(tier, maker, 0) # Uncached
  PROVE  CheapestInTier(tier, maker, 0) \in fit
<1> DEFINE all == {m \in InTier(tier) : /\ maker = Uncached \/ MakerOf[m] = maker
                                        /\ 0 = 0 \/ ContextOf[m] >= 0}
           prices == {PriceOf[m] : m \in fit}
<1>1. all = fit
  OBVIOUS
<1>2. fit # {}
  BY <1>1 DEF CheapestInTier
<1>3. prices \in SUBSET Nat /\ prices # {}
  BY <1>2, TierAssumption
<1>4. PICK c \in prices : \A d \in prices : c <= d
  <2> HIDE DEF prices
  <2>1. QED BY <1>3, SmallestExists
<1>5. \E m \in fit : \A n \in fit : PriceOf[m] <= PriceOf[n]
  BY <1>4
<1>6. CheapestInTier(tier, maker, 0) = CHOOSE m \in fit : \A n \in fit : PriceOf[m] <= PriceOf[n]
  BY <1>1, <1>2 DEF CheapestInTier
<1>7. QED BY <1>5, <1>6

LEMMA OffersAreAllowed ==
  ASSUME TierTypeOK, NEW m \in TModels, NEW granted, NEW c,
         c = TierCheck(m, granted, 0, 0), c.alternative # Uncached
  PROVE  /\ TierCheck(c.alternative, granted, 0, 0).allowed
         /\ tierOf[m] # Uncached => MakerOf[c.alternative] = MakerOf[m]
<1> DEFINE alt == Alternative(m, granted)
           maker == IF tierOf[m] = Uncached THEN Uncached ELSE MakerOf[m]
           usable == {i \in DOMAIN Fallbacks : Fallbacks[i] \in granted}
           first == CHOOSE i \in usable : \A j \in usable : i <= j
           tier == Fallbacks[first]
           fit == {k \in InTier(tier) : maker = Uncached \/ MakerOf[k] = maker}
<1>1. c.alternative = alt /\ granted # {} /\ alt # Uncached
  <2>1. CASE granted # {} /\ Classify(m) \notin granted
    <3>1. c = [allowed |-> FALSE, alternative |-> Alternative(m, granted)]
      BY <2>1 DEF TierCheck
    <3>2. c.alternative = Alternative(m, granted)
      BY <3>1
    <3>3. QED BY <2>1, <3>2
  <2>2. CASE ~ (granted # {} /\ Classify(m) \notin granted)
    <3>1. c.alternative = Uncached
      BY <2>2 DEF TierCheck
    <3>2. QED BY <3>1
  <2>3. QED BY <2>1, <2>2
<1>2. usable # {} /\ alt = CheapestInTier(tier, maker, 0)
  BY <1>1 DEF Alternative
<1>3. first \in usable
  <2>1. usable \in SUBSET Nat
    BY DEF Fallbacks
  <2> HIDE DEF usable
  <2>2. \E i \in usable : \A j \in usable : i <= j
    BY <1>2, <2>1, SmallestExists
  <2>3. QED BY <2>2
<1>4. tier \in granted /\ tier \in TierNames
  <2>1. \A i \in DOMAIN Fallbacks : Fallbacks[i] \in TierNames
    BY DEF Fallbacks, TierNames
  <2> HIDE DEF first
  <2>2. QED BY <1>3, <2>1
<1> HIDE DEF tier, usable, first, alt
<1>5. alt \in fit
  <2>1. fit \in SUBSET TModels
    BY DEF InTier
  <2> HIDE DEF fit, maker
  <2>2. QED BY <1>1, <1>2, <2>1, CheapestIs DEF fit
<1>6. tierOf[alt] = tier /\ (maker = Uncached \/ MakerOf[alt] = maker)
  BY <1>5 DEF InTier
<1>7. Classify(alt) \in granted
  BY <1>4, <1>6, TierAssumption DEF Classify
<1>8. TierCheck(alt, granted, 0, 0).allowed
  <2> DEFINE within == ~(0 > 0 /\ 0 > 0 /\ tierOf[alt] # Uncached /\ PriceOf[alt] * 0 > 0)
  <2>1. TierCheck(alt, granted, 0, 0) = [allowed |-> within, alternative |-> Uncached]
    BY <1>7 DEF TierCheck
  <2>2. within
    OBVIOUS
  <2> HIDE DEF within
  <2>3. QED BY <2>1, <2>2
<1>9. MakerOf[m] # Uncached
  BY TierAssumption
<1>10. QED BY <1>1, <1>6, <1>8, <1>9

LEMMA TiersAreSound == TiersSpec => []TiersSound
<1>1. TierInv => TiersSound
  <2> SUFFICES ASSUME TierInv, loaded, ~ raced PROVE TiersSound
    BY DEF TiersSound, TiersCurrent, TiersOrdered
  <2>1. TierTypeOK /\ CacheRight /\ CacheFull
    BY DEF TierInv
  <2>2. Loadable \subseteq TModels
    BY DEF Loadable
  <2>3. TiersCurrent
    BY <2>1, <2>2 DEF TiersCurrent, CacheRight, CacheFull, Right
  <2>4. ASSUME NEW m \in TModels, NEW n \in TModels, override[m] = Uncached, override[n] = Uncached,
               PriceOf[m] < PriceOf[n], tierOf[m] = "premium", tierOf[n] \in {"economy", "standard", "free"}
        PROVE  FALSE
    <3>1. Uncached \notin TierNames /\ Uncached # "invalid"
      BY TierAssumption
    <3>2. \A k \in {m, n} : tierOf[k] # Uncached => tierOf[k] = ByPrice(k, PriceOf[k])
      BY <2>1, <2>4, <3>1 DEF CacheRight, Right
    <3>3. tierOf[m] # Uncached /\ tierOf[n] # Uncached
      BY <2>4, <3>1 DEF TierNames
    <3>4. PriceOf[m] \in Nat /\ PriceOf[n] \in Nat /\ bounds.economy \in Nat /\ bounds.standard \in Nat
      BY <2>1, TierAssumption DEF TierTypeOK
    <3>5. tierOf[m] = IF PriceOf[m] = 0 THEN "free" ELSE IF PriceOf[m] < bounds.economy THEN "economy"
                      ELSE IF PriceOf[m] <= bounds.standard THEN "standard" ELSE "premium"
      BY <2>4, <3>1, <3>2, <3>3 DEF ByPrice
    <3>6. tierOf[n] = IF PriceOf[n] = 0 THEN "free" ELSE IF PriceOf[n] < bounds.economy THEN "economy"
                      ELSE IF PriceOf[n] <= bounds.standard THEN "standard" ELSE "premium"
      BY <2>4, <3>1, <3>2, <3>3 DEF ByPrice
    <3>7. PriceOf[m] >= bounds.economy /\ PriceOf[m] > bounds.standard
      BY <2>4, <3>4, <3>5
    <3>8. tierOf[n] = "premium"
      BY <2>4, <3>4, <3>6, <3>7
    <3>9. QED BY <2>4, <3>8
  <2>5. TiersOrdered
    BY <2>1, <2>4, OffersAreAllowed DEF TiersOrdered
  <2>6. QED BY <2>3, <2>5 DEF TiersSound
<1>2. QED BY TierInvInit, TierInvStep, <1>1, PTL DEF TiersSpec

-----------------------------------------------------------------------------
(* The complexity router and the token analyzer *)

APrompt == [reasoning : Nat, complex : Nat, simple : Nat, length : 1 .. 4, fences : Nat,
            structured : BOOLEAN, talk : Nat]
ScoresInv == prompt \in APrompt /\ recorded \in Seq(Recordable) /\ Len(recorded) <= MaxRecorded

LEMMA KeptIs ==
  ASSUME NEW s \in Seq(Recordable)
  PROVE  Kept(s) \in Seq(Recordable) /\ Len(Kept(s)) <= MaxRecorded
<1>1. Len(s) \in Nat /\ MaxRecorded \in Nat
  BY ScoresAssumption
<1>2. CASE Len(s) > MaxRecorded
  <2>1. PICK k \in 1 .. Len(s) + 1 : k = Len(s) - MaxRecorded + 1
    BY <1>1, <1>2
  <2>2. SubSeq(s, k, Len(s)) \in Seq(Recordable) /\ Len(SubSeq(s, k, Len(s))) = Len(s) - k + 1
    BY <1>1, <2>1, SubSeqProperties
  <2>3. QED BY <1>1, <1>2, <2>1, <2>2 DEF Kept
<1>3. QED BY <1>1, <1>2 DEF Kept

LEMMA ScoresInvInit == ScoresInit => ScoresInv
<1> SUFFICES ASSUME ScoresInit PROVE ScoresInv
  OBVIOUS
<1>1. PICK t \in Nat : prompt = [Blank EXCEPT !.talk = t]
  BY ScoresAssumption DEF ScoresInit
<1>2. prompt \in APrompt
  <2>1. Blank \in APrompt
    BY DEF Blank, APrompt
  <2>2. QED BY <1>1, <2>1 DEF APrompt
<1>3. recorded = <<>> /\ 0 <= MaxRecorded
  BY ScoresAssumption DEF ScoresInit
<1>4. QED BY <1>2, <1>3 DEF ScoresInv

LEMMA ScoresInvStep == ScoresInv /\ [PromptNext \/ AnalyzerNext]_scorevars => ScoresInv'
<1> SUFFICES ASSUME ScoresInv, [PromptNext \/ AnalyzerNext]_scorevars PROVE ScoresInv'
  OBVIOUS
<1>1. ASSUME NEW kind \in {"reasoning", "complex", "simple", "fences"}, Grow(kind) PROVE ScoresInv'
  <2>1. prompt' = [prompt EXCEPT ![kind] = prompt[kind] + 1] /\ recorded' = recorded
    BY <1>1 DEF Grow
  <2>2. prompt[kind] + 1 \in Nat
    BY DEF ScoresInv, APrompt
  <2>3. prompt' \in APrompt
    BY <2>1, <2>2 DEF ScoresInv, APrompt
  <2>4. QED BY <2>1, <2>3 DEF ScoresInv
<1>2. CASE Lengthen
  <2>1. prompt' = [prompt EXCEPT !.length = prompt.length + 1] /\ recorded' = recorded /\ prompt.length < 4
    BY <1>2 DEF Lengthen
  <2>2. prompt.length + 1 \in 1 .. 4
    BY <2>1 DEF ScoresInv, APrompt
  <2>3. prompt' \in APrompt
    BY <2>1, <2>2 DEF ScoresInv, APrompt
  <2>4. QED BY <2>1, <2>3 DEF ScoresInv
<1>3. CASE Structure
  <2>1. prompt' = [prompt EXCEPT !.structured = TRUE] /\ recorded' = recorded
    BY <1>3 DEF Structure
  <2>2. prompt' \in APrompt
    BY <2>1 DEF ScoresInv, APrompt
  <2>3. QED BY <2>1, <2>2 DEF ScoresInv
<1>4. ASSUME NEW c \in Recordable, RecordCall(c) PROVE ScoresInv'
  <2>1. Append(recorded, c) \in Seq(Recordable)
    BY DEF ScoresInv
  <2>2. recorded' = Kept(Append(recorded, c)) /\ prompt' = prompt
    BY <1>4 DEF RecordCall
  <2>3. QED BY <2>1, <2>2, KeptIs DEF ScoresInv
<1>5. CASE UNCHANGED scorevars
  BY <1>5 DEF scorevars, ScoresInv
<1>6. QED BY <1>1, <1>2, <1>3, <1>4, <1>5 DEF PromptNext, AnalyzerNext

-----------------------------------------------------------------------------
(* Reports *)

\* The score of how full contexts are falls as more of them are.
LEMMA RoomIs ==
  ASSUME NEW c \in Nat, NEW n \in Nat, c <= n, n > 0
  PROVE  /\ ScoreRoom(c, n) \in 0 .. 20
         /\ ScoreRoom(c + 1, n + 1) <= ScoreRoom(c, n)
         /\ 5 * c > n => ScoreRoom(c, n) < 20
<1>1. PICK q \in Int, r \in Int : q = (40 * c) \div n /\ r = (40 * (c + 1)) \div (n + 1)
  OBVIOUS
<1>2. q \in 0 .. 40 /\ r \in Nat /\ q <= r
  BY <1>1, ShareGrows
<1>3. ScoreRoom(c, n) = Least0(20 - q) /\ ScoreRoom(c + 1, n + 1) = Least0(20 - r)
  BY <1>1 DEF ScoreRoom
<1>4. ASSUME 5 * c > n PROVE q >= 1
  <2>1. 40 * c < n * (q + 1)
    BY <1>1
  <2>2. SUFFICES ASSUME q = 0 PROVE FALSE
    BY <1>2
  <2>3. QED BY <1>4, <2>1, <2>2
<1>5. QED BY <1>2, <1>3, <1>4 DEF Least0

LEMMA PctIs ==
  ASSUME NEW a \in Nat, NEW b \in Nat
  PROVE  Pct(a, b) \in Nat
<1>1. CASE b <= 0 \/ a > b
  BY <1>1 DEF Pct
<1>2. CASE ~ (b <= 0 \/ a > b)
  <2>1. (100 * a) \div b \in 0 .. 100
    <3>1. a <= b /\ b > 0 /\ 100 \in Nat /\ 0 \in Nat
      BY <1>2
    <3>2. QED BY <3>1, ShareGrows
  <2>2. Pct(a, b) = (100 * a) \div b
    BY <1>2 DEF Pct
  <2>3. QED BY <2>1, <2>2
<1>3. QED BY <1>1, <1>2

LEMMA MeanIs ==
  ASSUME NEW S, IsFiniteSet(S), S # {}, NEW ratios, \A i \in S : ratios[i] \in Nat
  PROVE  Mean(ratios, S) \in Nat
<1>1. SumFunctionOnSet(ratios, S) \in Nat
  BY SumType
<1>2. PICK n \in Nat : n = Cardinality(S) /\ n > 0
  BY FS_CardinalityType, FS_EmptySet
<1>3. PICK t \in Nat : t = SumFunctionOnSet(ratios, S)
  BY <1>1
<1>4. PICK q \in Int : q = t \div n
  BY <1>2
<1>5. t < n * (q + 1)
  BY <1>2, <1>4
<1>6. q >= 0
  <2>1. SUFFICES ASSUME q + 1 <= 0 PROVE FALSE
    BY <1>4
  <2>2. n * (q + 1) <= 0
    BY <1>2, <2>1
  <2>3. QED BY <1>5, <2>2
<1>7. QED BY <1>2, <1>3, <1>4, <1>6 DEF Mean

LEMMA PartsOfScore ==
  ASSUME NEW avg \in Nat
  PROVE  ScoreContext(avg) \in 0 .. 40 /\ ScoreSystem(avg) \in 0 .. 20 /\ ScoreOutput(avg) \in 0 .. 20
<1>1. ScoreContext(avg) \in 0 .. 40
  <2>1. CASE avg < 10
    BY <2>1 DEF ScoreContext
  <2>2. CASE avg \in 10 .. 70
    BY <2>2 DEF ScoreContext
  <2>3. CASE avg > 70
    <3>1. PICK q \in Nat : q = (40 * (avg - 70)) \div 30
      BY <2>3
    <3>2. ScoreContext(avg) = Least0(40 - q)
      BY <2>3, <3>1 DEF ScoreContext
    <3>3. QED BY <3>2 DEF Least0
  <2>4. QED BY <2>1, <2>2, <2>3
<1>2. ScoreSystem(avg) \in 0 .. 20
  <2>1. CASE avg <= 30
    BY <2>1 DEF ScoreSystem
  <2>2. CASE avg > 30
    <3>1. PICK q \in Nat : q = (20 * (avg - 30)) \div 70
      BY <2>2
    <3>2. ScoreSystem(avg) = Least0(20 - q)
      BY <2>2, <3>1 DEF ScoreSystem
    <3>3. QED BY <3>2 DEF Least0
  <2>3. QED BY <2>1, <2>2
<1>3. ScoreOutput(avg) \in 0 .. 20
  <2>1. CASE avg < 2
    BY <2>1 DEF ScoreOutput
  <2>2. CASE avg \in 2 .. 50
    BY <2>2 DEF ScoreOutput
  <2>3. CASE avg > 50
    <3>1. PICK q \in Nat : q = (20 * (avg - 50)) \div 50
      BY <2>3
    <3>2. ScoreOutput(avg) = Least0(20 - q)
      BY <2>3, <3>1 DEF ScoreOutput
    <3>3. QED BY <3>2 DEF Least0
  <2>4. QED BY <2>1, <2>2, <2>3
<1>4. QED BY <1>1, <1>2, <1>3

LEMMA ReportsAreSound == ScoresInv => ReportsSound
<1> SUFFICES ASSUME ScoresInv, NEW scope, NEW S, S = Of(scope), NEW n, n = Cardinality(S)
             PROVE  /\ Analysis(S).score \in 0 .. 100
                    /\ S # {} => ScoreRoom(Crowded(S) + 1, n + 1) <= ScoreRoom(Crowded(S), n)
                    /\ "crowded" \in Analysis(S).warnings => Analysis(S).score < 100
  BY DEF ReportsSound, ScoresInv
<1>1. S \subseteq DOMAIN recorded /\ IsFiniteSet(S)
  <2>1. DOMAIN recorded = 1 .. Len(recorded) /\ Len(recorded) \in Nat
    BY DEF ScoresInv
  <2>2. S \subseteq DOMAIN recorded
    BY DEF Of
  <2>3. IsFiniteSet(DOMAIN recorded)
    BY <2>1, FS_Interval
  <2>4. QED BY <2>2, <2>3, FS_Subset
<1>2. CASE S = {}
  <2>1. Analysis(S) = [calls |-> 0, score |-> 0, warnings |-> {"empty"}]
    BY <1>2 DEF Analysis
  <2>2. QED BY <1>2, <2>1
<1>3. CASE S # {}
  <2>1. \A i \in S : Utilizations[i] \in Nat /\ SystemRatios[i] \in Nat /\ OutputRatios[i] \in Nat
    <3>1. ASSUME NEW i \in S
          PROVE  Utilizations[i] \in Nat /\ SystemRatios[i] \in Nat /\ OutputRatios[i] \in Nat
      <4>1. i \in DOMAIN recorded /\ recorded[i] \in ACall
        <5>1. i \in DOMAIN recorded /\ recorded \in Seq(Recordable)
          BY <1>1 DEF ScoresInv
        <5>2. recorded[i] \in Recordable
          BY <5>1
        <5>3. QED BY <5>1, <5>2, ScoresAssumption
      <4>2. PICK a \in Nat, b \in Nat, x \in Nat, y \in Nat :
               /\ a = recorded[i].input /\ b = recorded[i].output
               /\ x = recorded[i].system /\ y = recorded[i].context
        BY <4>1 DEF ACall
      <4>3. /\ Utilization(recorded[i]) \in Nat /\ SystemRatio(recorded[i]) \in Nat
            /\ OutputRatio(recorded[i]) \in Nat
        <5>1. a + b \in Nat
          OBVIOUS
        <5>2. Pct(a, y) \in Nat /\ Pct(x, a) \in Nat /\ Pct(b, a + b) \in Nat
          BY <5>1, PctIs
        <5>3. QED BY <4>2, <5>2 DEF Utilization, SystemRatio, OutputRatio
      <4>4. QED BY <4>1, <4>3 DEF Utilizations, SystemRatios, OutputRatios
    <3>2. QED BY <3>1
  <2>2. PICK u \in Nat, y \in Nat, o \in Nat :
           u = Mean(Utilizations, S) /\ y = Mean(SystemRatios, S) /\ o = Mean(OutputRatios, S)
    BY <1>1, <1>3, <2>1, MeanIs
  <2>3. PICK c \in Nat : c = Crowded(S) /\ c <= n
    <3>1. {i \in S : Utilizations[i] > 90} \subseteq S
      OBVIOUS
    <3>2. QED BY <1>1, <3>1, FS_Subset, FS_CardinalityType DEF Crowded
  <2>4. n \in Nat /\ n > 0
    BY <1>1, <1>3, FS_CardinalityType, FS_EmptySet
  <2>5. PICK room \in 0 .. 20 : /\ room = ScoreRoom(c, n) /\ ScoreRoom(c + 1, n + 1) <= room
                                /\ 5 * c > n => room < 20
    BY <2>3, <2>4, RoomIs
  <2>6. PICK x \in 0 .. 40, v \in 0 .. 20, w \in 0 .. 20 :
           x = ScoreContext(u) /\ v = ScoreSystem(y) /\ w = ScoreOutput(o)
    BY <2>2, PartsOfScore
  <2>7. /\ Analysis(S).score = x + v + w + room
        /\ "crowded" \in Analysis(S).warnings => 5 * c > n
    <3> DEFINE full == x + v + w + room
               warned ==
                 (IF Mean(SystemRatios, S) > 30 THEN {"system"} ELSE {})
                 \cup (IF Mean(Utilizations, S) < 5 /\ Counted(S, "input") THEN {"idle"} ELSE {})
                 \cup (IF 5 * c > n THEN {"crowded"} ELSE {})
                 \cup (IF Mean(OutputRatios, S) < 2 /\ Counted(S, "output") THEN {"silent"} ELSE {})
    <3>1. Analysis(S) = [calls |-> n, score |-> full, warnings |-> warned]
      BY <1>3, <2>2, <2>3, <2>5, <2>6 DEF Analysis
    <3>2. "crowded" \in warned => 5 * c > n
      OBVIOUS
    <3> HIDE DEF full, warned
    <3>3. Analysis(S).score = full /\ Analysis(S).warnings = warned
      BY <3>1
    <3>4. QED BY <3>2, <3>3 DEF full
  <2>8. QED BY <2>3, <2>5, <2>7
<1>4. QED BY <1>2, <1>3

-----------------------------------------------------------------------------
(* Levels *)

AScore == [simple : Nat, medium : Nat, complex : Nat, reasoning : Nat]

\* The level is the first of the largest scores.
LEMMA LevelIs ==
  ASSUME NEW p, NEW s \in AScore, s = Score(p)
  PROVE  /\ Level(p) \in {"simple", "medium", "complex", "reasoning"}
         /\ Level(p) = "simple" <=> s.simple >= s.medium /\ s.simple >= s.complex /\ s.simple >= s.reasoning
         /\ Level(p) = "medium" <=> s.medium > s.simple /\ s.medium >= s.complex /\ s.medium >= s.reasoning
         /\ Level(p) = "complex" <=> s.complex > s.simple /\ s.complex > s.medium /\ s.complex >= s.reasoning
         /\ Level(p) = "reasoning" <=> s.reasoning > s.simple /\ s.reasoning > s.medium /\ s.reasoning > s.complex
<1> DEFINE v == <<s.simple, s.medium, s.complex, s.reasoning>>
           First(i) == \A j \in 1 .. 4 : v[i] >= v[j] /\ (j < i => v[i] > v[j])
           place == CHOOSE i \in 1 .. 4 : First(i)
<1>1. s.simple \in Nat /\ s.medium \in Nat /\ s.complex \in Nat /\ s.reasoning \in Nat
  BY DEF AScore
<1>2. v[1] = s.simple /\ v[2] = s.medium /\ v[3] = s.complex /\ v[4] = s.reasoning
  OBVIOUS
<1>3. \A i \in 1 .. 4 : s[Levels[i]] = v[i]
  BY <1>2 DEF Levels
<1>4. Level(p) = Levels[place]
  <2> HIDE DEF v
  <2>1. \A i \in 1 .. 4 :
          (\A j \in 1 .. 4 : /\ s[Levels[i]] >= s[Levels[j]]
                             /\ j < i => s[Levels[i]] > s[Levels[j]]) <=> First(i)
    BY <1>3
  <2>2. (CHOOSE i \in 1 .. 4 : \A j \in 1 .. 4 :
            /\ s[Levels[i]] >= s[Levels[j]]
            /\ j < i => s[Levels[i]] > s[Levels[j]]) = place
    BY <2>1
  <2>3. QED BY <2>2 DEF Level
<1> HIDE DEF v
<1>5. \A i \in 1 .. 4 : v[i] \in Nat
  BY <1>1, <1>2
<1>6. \E i \in 1 .. 4 : First(i)
  <2> DEFINE a == v[1]
             b == v[2]
             c == v[3]
             d == v[4]
  <2>1. a \in Nat /\ b \in Nat /\ c \in Nat /\ d \in Nat
    BY <1>5
  <2>2. \/ a >= b /\ a >= c /\ a >= d
        \/ b > a /\ b >= c /\ b >= d
        \/ c > a /\ c > b /\ c >= d
        \/ d > a /\ d > b /\ d > c
    BY <2>1
  <2>3. \A i \in 1 .. 4 : i = 1 \/ i = 2 \/ i = 3 \/ i = 4
    OBVIOUS
  <2>4. QED BY <1>5, <2>2, <2>3
<1>7. place \in 1 .. 4 /\ First(place)
  BY <1>6
<1>8. \A i \in 1 .. 4 : First(i) => i = place
  BY <1>5, <1>7
<1> HIDE DEF place
<1>9. /\ place = 1 <=> s.simple >= s.medium /\ s.simple >= s.complex /\ s.simple >= s.reasoning
      /\ place = 2 <=> s.medium > s.simple /\ s.medium >= s.complex /\ s.medium >= s.reasoning
      /\ place = 3 <=> s.complex > s.simple /\ s.complex > s.medium /\ s.complex >= s.reasoning
      /\ place = 4 <=> s.reasoning > s.simple /\ s.reasoning > s.medium /\ s.reasoning > s.complex
  <2>1. /\ v[place] >= v[1] /\ v[place] >= v[2] /\ v[place] >= v[3] /\ v[place] >= v[4]
        /\ 1 < place => v[place] > v[1]
        /\ 2 < place => v[place] > v[2]
        /\ 3 < place => v[place] > v[3]
    BY <1>7
  <2>2. place = 1 \/ place = 2 \/ place = 3 \/ place = 4
    BY <1>7
  <2>3. QED BY <1>1, <1>2, <2>1, <2>2
<1>10. /\ Levels[1] = "simple" /\ Levels[2] = "medium" /\ Levels[3] = "complex" /\ Levels[4] = "reasoning"
  BY DEF Levels
<1>11. place = 1 \/ place = 2 \/ place = 3 \/ place = 4
  BY <1>7
<1>12. QED BY <1>4, <1>9, <1>10, <1>11

\* A score, its four numbers apart: a prompt with few signs counts as medium.
LEMMA ScoreIs ==
  ASSUME NEW p \in APrompt
  PROVE  /\ Score(p) \in AScore /\ Raw(p) \in AScore
         /\ Raw(p).simple = 3 * p.simple + (IF p.length = 1 THEN 2 ELSE 0)
         /\ Raw(p).medium = (IF p.length = 2 THEN 2 ELSE 0) + (IF p.structured THEN 1 ELSE 0)
         /\ Raw(p).complex = 3 * p.complex + (IF p.length = 3 THEN 1 ELSE IF p.length = 4 THEN 2 ELSE 0)
                              + (IF p.fences >= 2 THEN 2 ELSE 0) + (IF p.talk > 5 THEN 1 ELSE 0)
         /\ Raw(p).reasoning = 4 * p.reasoning + (IF p.length = 4 THEN 1 ELSE 0)
         /\ Score(p).simple = Raw(p).simple /\ Score(p).complex = Raw(p).complex
         /\ Score(p).reasoning = Raw(p).reasoning
         /\ Score(p).medium = IF Sum4(Raw(p)) < 2 THEN Raw(p).medium + 2 ELSE Raw(p).medium
         /\ Sum4(Raw(p)) >= 2 => Score(p) = Raw(p)
<1>1. PICK a \in Nat : a = 3 * p.simple + (IF p.length = 1 THEN 2 ELSE 0)
  BY DEF APrompt
<1>2. PICK b \in Nat : b = (IF p.length = 2 THEN 2 ELSE 0) + (IF p.structured THEN 1 ELSE 0)
  BY DEF APrompt
<1>3. PICK c \in Nat : c = 3 * p.complex + (IF p.length = 3 THEN 1 ELSE IF p.length = 4 THEN 2 ELSE 0)
                           + (IF p.fences >= 2 THEN 2 ELSE 0) + (IF p.talk > 5 THEN 1 ELSE 0)
  BY DEF APrompt
<1>4. PICK d \in Nat : d = 4 * p.reasoning + (IF p.length = 4 THEN 1 ELSE 0)
  BY DEF APrompt
<1>5. PICK raw : raw = Raw(p) /\ raw = [simple |-> a, medium |-> b, complex |-> c, reasoning |-> d]
  BY <1>1, <1>2, <1>3, <1>4 DEF Raw
<1>6. raw \in AScore /\ raw.simple = a /\ raw.medium = b /\ raw.complex = c /\ raw.reasoning = d
  BY <1>5 DEF AScore
<1>7. CASE Sum4(raw) < 2
  <2>1. Score(p) = [raw EXCEPT !.medium = raw.medium + 2]
    BY <1>5, <1>7 DEF Score
  <2>2. PICK s : s = Score(p) /\ s = [raw EXCEPT !.medium = b + 2]
    BY <1>6, <2>1
  <2>3. s \in AScore /\ s.simple = a /\ s.medium = b + 2 /\ s.complex = c /\ s.reasoning = d
    BY <1>6, <2>2 DEF AScore
  <2>4. ~ (Sum4(raw) >= 2)
    BY <1>6, <1>7 DEF Sum4
  <2>5. QED BY <1>1, <1>2, <1>3, <1>4, <1>5, <1>6, <1>7, <2>2, <2>3, <2>4
<1>8. CASE ~ (Sum4(raw) < 2)
  <2>1. Score(p) = raw
    BY <1>5, <1>8 DEF Score
  <2>2. QED BY <1>1, <1>2, <1>3, <1>4, <1>5, <1>6, <1>8, <2>1
<1>9. QED BY <1>7, <1>8

\* What leads is not few signs.
LEMMA LeaderIs ==
  ASSUME NEW p \in APrompt, Level(p) \in {"simple", "complex", "reasoning"}
  PROVE  Score(p) = Raw(p) /\ Sum4(Raw(p)) >= 2
<1>1. PICK s \in AScore, r \in AScore : s = Score(p) /\ r = Raw(p)
  BY ScoreIs
<1>2. /\ s.simple = r.simple /\ s.complex = r.complex /\ s.reasoning = r.reasoning
      /\ s.medium = IF Sum4(r) < 2 THEN r.medium + 2 ELSE r.medium
      /\ Sum4(r) >= 2 => s = r
  BY <1>1, ScoreIs
<1>3. s.simple >= s.medium \/ s.complex > s.medium \/ s.reasoning > s.medium
  BY <1>1, LevelIs
<1>4. Sum4(r) = r.simple + r.medium + r.complex + r.reasoning
  BY DEF Sum4
<1>5. Sum4(r) >= 2
  BY <1>2, <1>3, <1>4 DEF AScore
<1>6. QED BY <1>1, <1>2, <1>5

\* Another sign of the leading kind.
LEMMA SignAdds ==
  ASSUME NEW p \in APrompt, NEW kind \in {"reasoning", "complex", "simple"}, Level(p) = kind,
         NEW more, more = [p EXCEPT ![kind] = p[kind] + 1]
  PROVE  Level(more) = kind /\ Confidence(more) >= Confidence(p)
<1>1. p[kind] \in Nat
  BY DEF APrompt
<1>2. more \in APrompt /\ more[kind] = p[kind] + 1
  BY <1>1 DEF APrompt
<1>3. /\ more.length = p.length /\ more.structured = p.structured
      /\ more.fences = p.fences /\ more.talk = p.talk
      /\ more.simple = IF kind = "simple" THEN p.simple + 1 ELSE p.simple
      /\ more.complex = IF kind = "complex" THEN p.complex + 1 ELSE p.complex
      /\ more.reasoning = IF kind = "reasoning" THEN p.reasoning + 1 ELSE p.reasoning
  BY DEF APrompt
<1>4. PICK r \in AScore, q \in AScore : r = Raw(p) /\ q = Raw(more)
  BY <1>2, ScoreIs
<1>5. p.simple \in Nat /\ p.complex \in Nat /\ p.reasoning \in Nat
  BY DEF APrompt
<1>6. PICK d \in Nat : d = IF kind = "reasoning" THEN 4 ELSE 3
  OBVIOUS
<1>7. /\ q.medium = r.medium
      /\ q.simple = IF kind = "simple" THEN r.simple + d ELSE r.simple
      /\ q.complex = IF kind = "complex" THEN r.complex + d ELSE r.complex
      /\ q.reasoning = IF kind = "reasoning" THEN r.reasoning + d ELSE r.reasoning
  <2>1. q.medium = r.medium
    BY <1>2, <1>3, <1>4, ScoreIs
  <2>2. PICK u \in Nat : /\ r.simple = 3 * p.simple + u /\ q.simple = 3 * more.simple + u
                         /\ u = IF p.length = 1 THEN 2 ELSE 0
    <3>1. r.simple = 3 * p.simple + (IF p.length = 1 THEN 2 ELSE 0)
      BY <1>4, ScoreIs
    <3>2. q.simple = 3 * more.simple + (IF more.length = 1 THEN 2 ELSE 0)
      BY <1>2, <1>4, ScoreIs
    <3>3. QED BY <1>3, <3>1, <3>2
  <2>3. PICK w \in Nat : r.complex = 3 * p.complex + w /\ q.complex = 3 * more.complex + w
    <3>1. PICK y \in Nat : y = (IF p.length = 3 THEN 1 ELSE IF p.length = 4 THEN 2 ELSE 0)
                               + (IF p.fences >= 2 THEN 2 ELSE 0) + (IF p.talk > 5 THEN 1 ELSE 0)
      OBVIOUS
    <3>2. r.complex = 3 * p.complex + (IF p.length = 3 THEN 1 ELSE IF p.length = 4 THEN 2 ELSE 0)
                        + (IF p.fences >= 2 THEN 2 ELSE 0) + (IF p.talk > 5 THEN 1 ELSE 0)
      BY <1>4, ScoreIs
    <3>3. q.complex = 3 * more.complex + (IF more.length = 3 THEN 1 ELSE IF more.length = 4 THEN 2 ELSE 0)
                        + (IF more.fences >= 2 THEN 2 ELSE 0) + (IF more.talk > 5 THEN 1 ELSE 0)
      BY <1>2, <1>4, ScoreIs
    <3>4. r.complex = 3 * p.complex + y
      BY <1>5, <3>1, <3>2
    <3>5. more.complex \in Nat
      BY <1>2 DEF APrompt
    <3>6. q.complex = 3 * more.complex + y
      BY <1>3, <3>1, <3>3, <3>5
    <3>7. QED BY <3>4, <3>6
  <2>4. PICK z \in Nat : r.reasoning = 4 * p.reasoning + z /\ q.reasoning = 4 * more.reasoning + z
    <3>1. r.reasoning = 4 * p.reasoning + (IF p.length = 4 THEN 1 ELSE 0)
      BY <1>4, ScoreIs
    <3>2. q.reasoning = 4 * more.reasoning + (IF more.length = 4 THEN 1 ELSE 0)
      BY <1>2, <1>4, ScoreIs
    <3>3. QED BY <1>3, <3>1, <3>2
  <2>5. CASE kind = "simple"
    BY <1>3, <1>5, <1>6, <2>1, <2>2, <2>3, <2>4, <2>5
  <2>6. CASE kind = "complex"
    BY <1>3, <1>5, <1>6, <2>1, <2>2, <2>3, <2>4, <2>6
  <2>7. CASE kind = "reasoning"
    BY <1>3, <1>5, <1>6, <2>1, <2>2, <2>3, <2>4, <2>7
  <2>8. QED BY <2>5, <2>6, <2>7
<1>8. PICK a \in Nat, b \in Nat, c \in Nat, e \in Nat :
         a = r.simple /\ b = r.medium /\ c = r.complex /\ e = r.reasoning
  BY DEF AScore
<1>9. Sum4(r) = a + b + c + e /\ Sum4(q) = a + b + c + e + d
  BY <1>7, <1>8 DEF Sum4
<1>10. Score(p) = r /\ Sum4(r) >= 2
  BY <1>4, LeaderIs
<1>11. Score(more) = q
  BY <1>2, <1>4, <1>9, <1>10, ScoreIs
<1>12. Level(more) = kind
  <2>1. /\ kind = "simple" => r.simple >= r.medium /\ r.simple >= r.complex /\ r.simple >= r.reasoning
        /\ kind = "complex" => r.complex > r.simple /\ r.complex > r.medium /\ r.complex >= r.reasoning
        /\ kind = "reasoning" =>
              r.reasoning > r.simple /\ r.reasoning > r.medium /\ r.reasoning > r.complex
    <3>1. r = Score(p)
      BY <1>10
    <3>2. QED BY <3>1, LevelIs
  <2>2. /\ q.simple >= q.medium /\ q.simple >= q.complex /\ q.simple >= q.reasoning => Level(more) = "simple"
        /\ q.complex > q.simple /\ q.complex > q.medium /\ q.complex >= q.reasoning => Level(more) = "complex"
        /\ q.reasoning > q.simple /\ q.reasoning > q.medium /\ q.reasoning > q.complex
              => Level(more) = "reasoning"
    <3>1. q = Score(more)
      BY <1>11
    <3>2. QED BY <3>1, LevelIs
  <2>3. CASE kind = "simple"
    BY <1>7, <1>8, <2>1, <2>2, <2>3
  <2>4. CASE kind = "complex"
    BY <1>7, <1>8, <2>1, <2>2, <2>4
  <2>5. CASE kind = "reasoning"
    BY <1>7, <1>8, <2>1, <2>2, <2>5
  <2>6. QED BY <2>3, <2>4, <2>5
<1>13. PICK x \in Nat, s \in Nat : /\ x = r[kind] /\ s = Sum4(r) /\ x <= s /\ s > 0
                                   /\ q[kind] = x + d /\ Sum4(q) = s + d
  <2>1. \/ kind = "simple" /\ r[kind] = a /\ q[kind] = a + d
        \/ kind = "complex" /\ r[kind] = c /\ q[kind] = c + d
        \/ kind = "reasoning" /\ r[kind] = e /\ q[kind] = e + d
    BY <1>7, <1>8
  <2>2. QED BY <1>9, <1>10, <2>1
<1>14. Confidence(p) = (100 * x) \div s /\ Confidence(more) = (100 * (x + d)) \div (s + d)
  BY <1>10, <1>11, <1>12, <1>13 DEF Confidence
<1>15. (100 * x) \div s \in 0 .. 100 /\ (100 * (x + d)) \div (s + d) \in Nat
       /\ (100 * x) \div s <= (100 * (x + d)) \div (s + d)
  BY <1>13, ShareGrows
<1>16. QED BY <1>12, <1>14, <1>15

LEMMA ReasoningLeads ==
  ASSUME NEW p \in APrompt, p.reasoning > p.complex + p.simple + 1
  PROVE  Tier(p) = "premium"
<1>1. PICK s \in AScore, r \in AScore : s = Score(p) /\ r = Raw(p)
  BY ScoreIs
<1>2. PICK x \in Nat, y \in Nat, z \in Nat : x = p.reasoning /\ y = p.complex /\ z = p.simple /\ x >= y + z + 2
  BY DEF APrompt
<1>3. s.simple <= 3 * z + 2
  BY <1>1, <1>2, ScoreIs
<1>4. s.complex <= 3 * y + 5
  BY <1>1, <1>2, ScoreIs
<1>5. r.medium <= 3 /\ r.medium \in Nat
  BY <1>1, ScoreIs DEF AScore
<1>6. s.reasoning >= 4 * x
  BY <1>1, <1>2, ScoreIs
<1>7. s.medium <= 5
  BY <1>1, <1>5, ScoreIs
<1>8. Level(p) = "reasoning"
  BY <1>1, <1>2, <1>3, <1>4, <1>6, <1>7, LevelIs DEF AScore
<1>9. QED BY <1>8 DEF Tier

LEMMA TalkGoesOn ==
  ASSUME NEW p \in APrompt, NEW t \in Nat, t > p.talk, Level(p) \in {"complex", "reasoning"},
         NEW more, more = [p EXCEPT !.talk = t]
  PROVE  Level(more) \in {"complex", "reasoning"}
<1>1. /\ more \in APrompt /\ more.talk = t /\ more.length = p.length /\ more.structured = p.structured
      /\ more.fences = p.fences /\ more.simple = p.simple /\ more.complex = p.complex
      /\ more.reasoning = p.reasoning
  BY DEF APrompt
<1>2. PICK r \in AScore, q \in AScore : r = Raw(p) /\ q = Raw(more)
  BY <1>1, ScoreIs
<1>3. PICK d \in {0, 1} : q.complex = r.complex + d
  <2>1. p.talk \in Nat /\ p.complex \in Nat
    BY DEF APrompt
  <2>2. PICK u \in Nat : u = 3 * p.complex + (IF p.length = 3 THEN 1 ELSE IF p.length = 4 THEN 2 ELSE 0)
                              + (IF p.fences >= 2 THEN 2 ELSE 0)
    BY <2>1
  <2>3. r.complex = 3 * p.complex + (IF p.length = 3 THEN 1 ELSE IF p.length = 4 THEN 2 ELSE 0)
                      + (IF p.fences >= 2 THEN 2 ELSE 0) + (IF p.talk > 5 THEN 1 ELSE 0)
    BY <1>2, ScoreIs
  <2>4. q.complex = 3 * more.complex + (IF more.length = 3 THEN 1 ELSE IF more.length = 4 THEN 2 ELSE 0)
                      + (IF more.fences >= 2 THEN 2 ELSE 0) + (IF more.talk > 5 THEN 1 ELSE 0)
    BY <1>1, <1>2, ScoreIs
  <2>5. r.complex = u + (IF p.talk > 5 THEN 1 ELSE 0)
    BY <2>2, <2>3
  <2>6. q.complex = u + (IF t > 5 THEN 1 ELSE 0)
    BY <1>1, <2>2, <2>4
  <2>7. QED BY <2>1, <2>5, <2>6
<1>4. q.simple = r.simple /\ q.medium = r.medium /\ q.reasoning = r.reasoning
  <2>1. q.simple = r.simple
    <3>1. r.simple = 3 * p.simple + (IF p.length = 1 THEN 2 ELSE 0)
      BY <1>2, ScoreIs
    <3>2. q.simple = 3 * more.simple + (IF more.length = 1 THEN 2 ELSE 0)
      BY <1>1, <1>2, ScoreIs
    <3>3. QED BY <1>1, <3>1, <3>2
  <2>2. q.medium = r.medium
    BY <1>1, <1>2, ScoreIs
  <2>3. q.reasoning = r.reasoning
    <3>1. r.reasoning = 4 * p.reasoning + (IF p.length = 4 THEN 1 ELSE 0)
      BY <1>2, ScoreIs
    <3>2. q.reasoning = 4 * more.reasoning + (IF more.length = 4 THEN 1 ELSE 0)
      BY <1>1, <1>2, ScoreIs
    <3>3. QED BY <1>1, <3>1, <3>2
  <2>4. QED BY <2>1, <2>2, <2>3
<1>5. Score(p) = r /\ Sum4(r) >= 2
  BY <1>2, LeaderIs
<1>6. PICK a \in Nat, b \in Nat, c \in Nat, e \in Nat :
         a = r.simple /\ b = r.medium /\ c = r.complex /\ e = r.reasoning
  BY DEF AScore
<1>7. Sum4(q) >= 2
  BY <1>3, <1>4, <1>5, <1>6 DEF Sum4
<1>8. Score(more) = q
  BY <1>1, <1>2, <1>7, ScoreIs
<1>9. (c > a /\ c > b) \/ (e > a /\ e > b)
  BY <1>5, <1>6, LevelIs
<1>10. /\ q.complex > q.simple /\ q.complex > q.medium /\ q.complex >= q.reasoning => Level(more) = "complex"
       /\ q.reasoning > q.simple /\ q.reasoning > q.medium /\ q.reasoning > q.complex
             => Level(more) = "reasoning"
  <2>1. q = Score(more)
    BY <1>8
  <2>2. QED BY <2>1, LevelIs
<1>11. QED BY <1>3, <1>4, <1>6, <1>9, <1>10

LEMMA SignsAreCounted == ScoresInv => SignsCount
<1> SUFFICES ASSUME ScoresInv PROVE SignsCount
  OBVIOUS
<1>1. prompt \in APrompt
  BY DEF ScoresInv
<1>2. ASSUME NEW kind \in {"reasoning", "complex", "simple"}, Level(prompt) = kind
      PROVE  LET more == [prompt EXCEPT ![kind] = @ + 1] IN
             Level(more) = kind /\ Confidence(more) >= Confidence(prompt)
  <2>1. PICK more : more = [prompt EXCEPT ![kind] = prompt[kind] + 1]
    OBVIOUS
  <2>2. Level(more) = kind /\ Confidence(more) >= Confidence(prompt)
    BY <1>1, <1>2, <2>1, SignAdds
  <2>3. QED BY <2>1, <2>2
<1>3. prompt.reasoning > prompt.complex + prompt.simple + 1 => Tier(prompt) = "premium"
  BY <1>1, ReasoningLeads
<1>4. \A t \in Talks : t > prompt.talk /\ Level(prompt) \in {"complex", "reasoning"} =>
         Level([prompt EXCEPT !.talk = t]) \in {"complex", "reasoning"}
  BY <1>1, TalkGoesOn, ScoresAssumption
<1>5. \A v \in Providers : RouteTo(prompt, v) \in UNION {{ModelOf[l][x] : x \in DOMAIN ModelOf[l]} :
                                                           l \in {"simple", "medium", "complex", "reasoning"}}
  <2>1. PICK l \in {"simple", "medium", "complex", "reasoning"} : l = Level(prompt)
    <3>1. Score(prompt) \in AScore
      BY <1>1, ScoreIs
    <3>2. QED BY <3>1, LevelIs
  <2>2. "default" \in DOMAIN ModelOf[l]
    <3>1. \E i \in DOMAIN Levels : Levels[i] = l
      <4>1. DOMAIN Levels = 1 .. 4
        BY DEF Levels
      <4>2. QED BY <4>1 DEF Levels
    <3>2. QED BY <3>1, ScoresAssumption
  <2>3. ASSUME NEW v \in Providers PROVE \E x \in DOMAIN ModelOf[l] : RouteTo(prompt, v) = ModelOf[l][x]
    BY <2>1, <2>2 DEF RouteTo
  <2>4. QED BY <2>3
<1>6. QED BY <1>2, <1>3, <1>4, <1>5 DEF SignsCount

LEMMA ScoresAreSound == ScoresSpec => []ScoresSound
<1>1. ScoresInv => ScoresSound
  BY SignsAreCounted, ReportsAreSound DEF ScoresSound
<1>2. QED BY ScoresInvInit, ScoresInvStep, <1>1, PTL DEF ScoresSpec

-----------------------------------------------------------------------------
\* A model is chosen well whatever the fleet, the prices, the threads that load the
\* registry and the prompt: the router stays within the constraints of the request
\* and is beaten by no other candidate, a loaded registry is current and offers only
\* what is allowed, and neither a further sign nor a longer talk lowers the level of
\* a prompt.
THEOREM ModelsAreChosenWell == RouterSpec /\ TiersSpec /\ ScoresSpec => []ModelChoiceSound
<1>1. RouterSound /\ TiersSound /\ ScoresSound => ModelChoiceSound
  BY DEF ModelChoiceSound
<1>2. QED BY RouterIsSound, TiersAreSound, ScoresAreSound, <1>1, PTL
=============================================================================
