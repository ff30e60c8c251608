--------------------------- MODULE ApprovalsProofs ---------------------------
(***************************************************************************)
(* Proofs about the policy package and the cost calculator: Approvals, for   *)
(* every set of requests and every clock bound, Policies, for any drafts,    *)
(* contexts and workers, and Pricing, for any price files and models.        *)
(***************************************************************************)
EXTENDS MCApprovals, Policies, Pricing, SumLemmas, TLAPS

\* The variables start with their types,
LEMMA InitTypeOK == Init => TypeOK
  BY ApprovalsAssumption DEF Init, TypeOK, Calls, Decisions, Idle

\* and every step keeps them.
LEMMA StepTypeOK == TypeOK /\ [Next]_vars => TypeOK'
  <1> USE ApprovalsAssumption DEF TypeOK, Calls, Decisions, Idle
  <1> SUFFICES ASSUME TypeOK, [Next]_vars PROVE TypeOK'
    OBVIOUS
  <1>1. CASE UNCHANGED vars
    BY <1>1 DEF vars
  <1>2. CASE Tick
    BY <1>2 DEF Tick
  <1>3. ASSUME NEW w \in Workers, WorkerStep(w) \/ Crash(w) PROVE TypeOK'
    <2>1. ASSUME NEW r \in Requests, NEW ttl \in Ttls, Create(w, r, ttl)
          PROVE  TypeOK'
      BY <2>1 DEF Create
    <2>2. ASSUME NEW r \in Requests, NEW d \in Decisions, ReadPending(w, r, d)
          PROVE  TypeOK'
      BY <2>2 DEF ReadPending, AfterRead
    <2>3. CASE WriteDecision(w)
      BY <2>3 DEF WriteDecision
    <2>4. CASE Audit(w)
      BY <2>4 DEF Audit, Logged
    <2>5. CASE List(w)
      BY <2>5 DEF List
    <2>6. CASE Crash(w)
      BY <2>6 DEF Crash
    <2> QED BY <1>3, <2>1, <2>2, <2>3, <2>4, <2>5, <2>6 DEF WorkerStep
  <1> QED BY <1>1, <1>2, <1>3 DEF Next

\* The variables keep their types.
LEMMA Typing == Spec => []TypeOK
  BY InitTypeOK, StepTypeOK, PTL DEF Spec

\* A request is expired only once its time is up, for every TTL and clock.
THEOREM ExpiryIsLate == Spec => []ExpiredOnlyLate
  <1>1. Init => ExpiredOnlyLate
    BY DEF Init, ExpiredOnlyLate
  <1>2. TypeOK /\ ExpiredOnlyLate /\ [Next]_vars => ExpiredOnlyLate'
    BY ApprovalsAssumption
    DEF TypeOK, ExpiredOnlyLate, Next, Tick, WorkerStep, Create, ReadPending,
        AfterRead, WriteDecision, Audit, List, Stale, Crash, vars, Calls, Idle, Decisions
  <1> QED BY <1>1, <1>2, Typing, PTL DEF Spec

\* With any number of workers, a settled request changes only under a call
\* that saw it pending and is still in progress.
THEOREM SettledStaysSettled == Spec => SettledIsFinal
  <1>1. TypeOK /\ [Next]_vars
          => [\A r \in Requests :
                status[r] \in Final /\ ~InFlight(r) => status'[r] = status[r]]_vars
    <2> SUFFICES ASSUME TypeOK, [Next]_vars, NEW r \in Requests,
                        status[r] \in Final, ~InFlight(r)
                 PROVE  status'[r] = status[r]
      OBVIOUS
    <2> USE DEF TypeOK, Final, Decisions
    <2>1. CASE UNCHANGED status
      BY <2>1
    <2>2. ASSUME NEW w \in Workers, NEW q \in Requests, NEW ttl \in Ttls,
                 Create(w, q, ttl)
          PROVE  status'[r] = status[r]
      BY <2>2 DEF Create
    <2>3. ASSUME NEW w \in Workers, WriteDecision(w) PROVE status'[r] = status[r]
      BY <2>3 DEF WriteDecision, InFlight
    <2>4. ASSUME NEW w \in Workers, List(w) PROVE status'[r] = status[r]
      BY <2>4 DEF List, Stale
    <2> QED BY <2>1, <2>2, <2>3, <2>4
            DEF Next, WorkerStep, vars, Tick, ReadPending, Audit, Crash
  <1> QED BY <1>1, Typing, PTL DEF Spec, SettledIsFinal

\* A call that has come to the audit log has settled its request.
AuditingIsSettled ==
    \A w \in Workers : call[w].at = "audit" => status[call[w].r] \in Final

\* However calls race and die, a decision in the audit trail is about a
\* request that is settled, and stays so.
THEOREM TrailIsSettled == Spec => []AuditedIsSettled
  <1> USE DEF AuditedIsSettled, AuditingIsSettled
  <1>1. Init => AuditedIsSettled /\ AuditingIsSettled
    BY DEF Init, Idle
  <1>2. TypeOK /\ AuditedIsSettled /\ AuditingIsSettled /\ [Next]_vars
          => AuditedIsSettled' /\ AuditingIsSettled'
    <2> SUFFICES ASSUME TypeOK, AuditedIsSettled, AuditingIsSettled, [Next]_vars
                 PROVE  AuditedIsSettled' /\ AuditingIsSettled'
      OBVIOUS
    <2> USE ApprovalsAssumption DEF TypeOK, Calls, Decisions, Idle, Final
    <2>1. CASE UNCHANGED vars \/ Tick
      BY <2>1 DEF vars, Tick
    <2>2. ASSUME NEW w \in Workers, WorkerStep(w) \/ Crash(w)
          PROVE  AuditedIsSettled' /\ AuditingIsSettled'
      <3>1. \A r \in Requests : status[r] \in Final => status'[r] \in Final
        BY <2>2 DEF WorkerStep, Create, ReadPending, WriteDecision, Audit, List,
                    Stale, Crash
      <3>2. CASE WriteDecision(w)
        BY <3>1, <3>2 DEF WriteDecision
      <3>3. CASE Audit(w)
        BY <3>1, <3>3 DEF Audit, Logged
      <3>4. CASE ~(WriteDecision(w) \/ Audit(w))
        BY <2>2, <3>1, <3>4
        DEF WorkerStep, Create, ReadPending, AfterRead, List, Crash
      <3> QED BY <3>2, <3>3, <3>4
    <2> QED BY <2>1, <2>2 DEF Next
  <1> QED BY <1>1, <1>2, Typing, PTL DEF Spec

-----------------------------------------------------------------------------
\* What a single worker read is still so when it writes: nobody else moves.
ReadStillHolds ==
    \A w \in Workers : call[w].at = "write" => status[call[w].r] = "pending"

\* A single process keeps the lifecycle the service documents: Approvals with
\* one worker implements ApprovalLifecycle, workers that die included.
THEOREM OneWorkerKeepsPromise ==
  ASSUME \A u, v \in Workers : u = v
  PROVE  Spec => Promise
  <1>1. Init => ReadStillHolds /\ Lifecycle!Init
    BY DEF Init, ReadStillHolds, Idle, Lifecycle!Init
  <1>2. TypeOK /\ ReadStillHolds /\ [Next]_vars
          => ReadStillHolds' /\ [Lifecycle!Next]_status
    <2> SUFFICES ASSUME TypeOK, ReadStillHolds, [Next]_vars
                 PROVE  ReadStillHolds' /\ [Lifecycle!Next]_status
      OBVIOUS
    <2> USE ApprovalsAssumption DEF TypeOK, ReadStillHolds, Calls, Decisions, Idle
    <2>1. CASE UNCHANGED vars \/ Tick
      BY <2>1 DEF vars, Tick
    <2>2. ASSUME NEW w \in Workers, WorkerStep(w) \/ Crash(w)
          PROVE  ReadStillHolds' /\ [Lifecycle!Next]_status
      <3>1. ASSUME NEW r \in Requests, NEW ttl \in Ttls, Create(w, r, ttl)
            PROVE  ReadStillHolds' /\ Lifecycle!Create(r)
        BY <3>1 DEF Create, IsIdle, Lifecycle!Create
      <3>2. ASSUME NEW r \in Requests, NEW d \in Decisions, ReadPending(w, r, d)
            PROVE  ReadStillHolds' /\ UNCHANGED status
        BY <3>2 DEF ReadPending, MayDecide, AfterRead
      <3>3. ASSUME WriteDecision(w)
            PROVE  ReadStillHolds' /\ \E r \in Requests : Lifecycle!Decide(r)
        <4> DEFINE c == call[w]
        <4>1. c.r \in Requests /\ c.d \in Decisions /\ status[c.r] = "pending"
          BY <3>3 DEF WriteDecision
        <4>2. Lifecycle!Decide(c.r)
          BY <3>3, <4>1 DEF WriteDecision, Lifecycle!Decide
        <4>3. \A u \in Workers : call'[u].at = "audit"
          BY <3>3 DEF WriteDecision
        <4> QED BY <4>1, <4>2, <4>3
      <3>4. CASE Audit(w)
        BY <3>4 DEF Audit
      <3>5. ASSUME List(w) PROVE ReadStillHolds' /\ Lifecycle!Expire
        <4> DEFINE R == {r \in Requests : Stale(r)}
        <4>1. /\ R \in SUBSET {r \in Requests : status[r] = "pending"}
              /\ status' = [r \in Requests |-> IF r \in R THEN "expired" ELSE status[r]]
          BY <3>5 DEF List, Stale
        <4>2. Lifecycle!Expire
          BY <4>1 DEF Lifecycle!Expire
        <4> QED BY <3>5, <4>2 DEF List, IsIdle
      <3>6. CASE Crash(w)
        BY <3>6 DEF Crash
      <3> QED BY <2>2, <3>1, <3>2, <3>3, <3>4, <3>5, <3>6
              DEF WorkerStep, Lifecycle!Next
    <2> QED BY <2>1, <2>2 DEF Next
  <1>3. QED
    BY <1>1, <1>2, Typing, PTL DEF Spec, Promise, Lifecycle!Spec

-----------------------------------------------------------------------------
(* What holds until a worker dies, and while one process serves: MCSpec is   *)
(* Spec with that history.                                                   *)

\* A decision that stands is in the trail, or the call that made it is about to
\* put it there.
TrailIsOwed ==
    ~died => \A r \in Requests : status[r] \in Decisions =>
               \/ status[r] \in trail[r]
               \/ \E w \in Workers : /\ call[w].at = "audit" /\ call[w].r = r
                                     /\ call[w].d = status[r]

\* The handlers of one process run one at a time, and what one read is still so.
Solo ==
    solo => \A w \in Workers : ~IsIdle(w) =>
              /\ \A u \in Workers : ~IsIdle(u) => u = w
              /\ call[w].at = "write" => status[call[w].r] = "pending"

\* The history does not change what the service does.
LEMMA StepsOfSpec == [MCNext]_<<vars, died, solo>> => [Next]_vars
  BY DEF MCNext, Next, vars

\* Values keep their types with the history as well.
LEMMA HistoryTyping == MCSpec => []TypeOK
  <1>1. MCInit => TypeOK
    BY InitTypeOK DEF MCInit
  <1> QED BY <1>1, StepTypeOK, StepsOfSpec, PTL DEF MCSpec

\* Until a worker dies, what is owed to the trail is on its way.
LEMMA TrailInvariance == MCSpec => []TrailIsOwed
  <1>1. MCInit => TrailIsOwed
    BY DEF MCInit, Init, TrailIsOwed, Decisions
  <1>2. TypeOK /\ TrailIsOwed /\ [MCNext]_<<vars, died, solo>> => TrailIsOwed'
    <2> SUFFICES ASSUME TypeOK, TrailIsOwed, [MCNext]_<<vars, died, solo>>, ~died',
                        NEW r \in Requests, status'[r] \in Decisions
                 PROVE  \/ status'[r] \in trail'[r]
                        \/ \E w \in Workers : /\ call'[w].at = "audit" /\ call'[w].r = r
                                              /\ call'[w].d = status'[r]
      BY DEF TrailIsOwed
    <2>1. ~died
      BY DEF MCNext
    <2> USE <2>1, ApprovalsAssumption DEF TypeOK, TrailIsOwed, Calls, Decisions, Idle
    <2>2. CASE UNCHANGED vars \/ Tick
      BY <2>2 DEF vars, Tick
    <2>3. ASSUME NEW w \in Workers, WorkerStep(w)
          PROVE  \/ status'[r] \in trail'[r]
                 \/ \E u \in Workers : /\ call'[u].at = "audit" /\ call'[u].r = r
                                       /\ call'[u].d = status'[r]
      <3>1. CASE \E q \in Requests, ttl \in Ttls : Create(w, q, ttl)
        BY <3>1 DEF Create
      <3>2. CASE \E q \in Requests, d \in Decisions : ReadPending(w, q, d)
        <4>1. IsIdle(w) /\ UNCHANGED <<status, trail>>
              /\ \A u \in Workers : u # w => call'[u] = call[u]
          BY <3>2 DEF ReadPending
        <4> QED BY <4>1 DEF IsIdle
      <3>3. CASE WriteDecision(w)
        <4>1. /\ call[w].at = "write" /\ UNCHANGED trail
              /\ status' = [status EXCEPT ![call[w].r] = call[w].d]
              /\ call'[w] = [call[w] EXCEPT !.at = "audit"]
              /\ \A u \in Workers : u # w => call'[u] = call[u]
          BY <3>3 DEF WriteDecision
        <4>2. CASE r = call[w].r
          BY <4>1, <4>2
        <4>3. CASE r # call[w].r
          BY <4>1, <4>3
        <4> QED BY <4>2, <4>3
      <3>4. CASE Audit(w)
        <4>1. /\ call[w].at = "audit" /\ UNCHANGED status
              /\ trail' = [trail EXCEPT ![call[w].r] = @ \cup {call[w].d}]
              /\ \A u \in Workers : u # w => call'[u] = call[u]
          BY <3>4 DEF Audit, Logged
        <4>2. trail[r] \subseteq trail'[r]
          BY <4>1
        <4>3. CASE status[r] \in trail[r]
          BY <4>1, <4>2, <4>3
        <4>4. CASE status[r] \notin trail[r]
          <5>1. PICK u \in Workers : /\ call[u].at = "audit" /\ call[u].r = r
                                     /\ call[u].d = status[r]
            BY <4>1, <4>4
          <5>2. CASE u = w
            BY <4>1, <5>1, <5>2
          <5>3. CASE u # w
            BY <4>1, <5>1, <5>3
          <5> QED BY <5>2, <5>3
        <4> QED BY <4>3, <4>4
      <3>5. CASE List(w)
        BY <3>5 DEF List, Stale
      <3> QED BY <2>3, <3>1, <3>2, <3>3, <3>4, <3>5 DEF WorkerStep
    <2> QED BY <2>2, <2>3 DEF MCNext
  <1> QED BY <1>1, <1>2, HistoryTyping, PTL DEF MCSpec

\* For every instance: as long as no worker died, every decision that stands is
\* in the audit trail once the calls on its request have ended.
THEOREM DecisionsAreAudited == MCSpec => []AuditedUnlessDied
  <1>1. TrailIsOwed => AuditedUnlessDied
    BY DEF TrailIsOwed, AuditedUnlessDied, StandingDecisionAudited, InFlight
  <1> QED BY <1>1, TrailInvariance, PTL

\* For every instance: a single process keeps the lifecycle, however many
\* handlers it serves, whichever of them die.
THEOREM SingleProcessKeepsPromise == MCSpec => KeptBySingleProcess
  <1>1. MCInit => Solo /\ Lifecycle!Init
    BY DEF MCInit, Init, Solo, IsIdle, Lifecycle!Init
  <1>2. TypeOK /\ Solo /\ [MCNext]_<<vars, died, solo>>
          => Solo' /\ [solo => [Lifecycle!Next]_status]_<<status, solo>>
    <2> SUFFICES ASSUME TypeOK, Solo, [MCNext]_<<vars, died, solo>>
                 PROVE  Solo' /\ (solo => [Lifecycle!Next]_status)
      OBVIOUS
    <2>1. solo' = solo
      BY DEF MCNext
    <2> SUFFICES ASSUME solo PROVE Solo' /\ [Lifecycle!Next]_status
      BY <2>1 DEF Solo
    <2> USE <2>1, ApprovalsAssumption DEF TypeOK, Solo, Calls, Decisions, Idle, IsIdle
    <2>2. CASE UNCHANGED vars \/ Tick
      BY <2>2 DEF vars, Tick
    <2>3. ASSUME NEW w \in Workers, Crash(w)
          PROVE  Solo' /\ [Lifecycle!Next]_status
      BY <2>3 DEF Crash
    <2>4. ASSUME NEW w \in Workers, OthersIdle(w), WorkerStep(w)
          PROVE  Solo' /\ [Lifecycle!Next]_status
      <3>0. \A u \in Workers : u # w => call[u] = Idle
        BY <2>4 DEF OthersIdle
      <3>1. ASSUME NEW r \in Requests, NEW ttl \in Ttls, Create(w, r, ttl)
            PROVE  Solo' /\ Lifecycle!Create(r)
        BY <3>0, <3>1 DEF Create, Lifecycle!Create
      <3>2. ASSUME NEW r \in Requests, NEW d \in Decisions, ReadPending(w, r, d)
            PROVE  Solo' /\ UNCHANGED status
        BY <3>0, <3>2 DEF ReadPending, MayDecide, AfterRead
      <3>3. ASSUME WriteDecision(w)
            PROVE  Solo' /\ \E r \in Requests : Lifecycle!Decide(r)
        <4> DEFINE c == call[w]
        <4>1. c.r \in Requests /\ c.d \in Decisions /\ status[c.r] = "pending"
          BY <3>3 DEF WriteDecision
        <4>2. Lifecycle!Decide(c.r)
          BY <3>3, <4>1 DEF WriteDecision, Lifecycle!Decide
        <4>3. call'[w].at = "audit" /\ \A u \in Workers : u # w => call'[u] = Idle
          BY <3>0, <3>3 DEF WriteDecision
        <4> QED BY <4>1, <4>2, <4>3
      <3>4. CASE Audit(w)
        BY <3>0, <3>4 DEF Audit
      <3>5. ASSUME List(w) PROVE Solo' /\ Lifecycle!Expire
        <4> DEFINE R == {r \in Requests : Stale(r)}
        <4>1. /\ R \in SUBSET {r \in Requests : status[r] = "pending"}
              /\ status' = [r \in Requests |-> IF r \in R THEN "expired" ELSE status[r]]
          BY <3>5 DEF List, Stale
        <4>2. Lifecycle!Expire
          BY <4>1 DEF Lifecycle!Expire
        <4> QED BY <3>0, <3>5, <4>2 DEF List
      <3> QED BY <2>4, <3>1, <3>2, <3>3, <3>4, <3>5 DEF WorkerStep, Lifecycle!Next
    <2> QED BY <2>2, <2>3, <2>4 DEF MCNext
  <1> QED BY <1>1, <1>2, HistoryTyping, PTL DEF MCSpec, KeptBySingleProcess

-----------------------------------------------------------------------------
(* Policies.                                                                *)

\* A draft whose action is one is a policy.
LEMMA DraftIsPolicy ==
  ASSUME NEW d \in Drafts, d.action \in Actions
  PROVE  [conds |-> d.conds, action |-> d.action, there |-> TRUE,
          priority |-> d.priority, enabled |-> d.enabled] \in PolicySet
<1>1. d.priority \in Int /\ d.enabled \in BOOLEAN /\ d.conds \in {e.conds : e \in Drafts}
  BY PoliciesAssumption
<1>2. QED BY <1>1 DEF PolicySet

\* A policy with some fields of a draft is a policy.
LEMMA FieldsOfAPolicy ==
  ASSUME NEW p \in PolicySet, NEW d \in Drafts
  PROVE  /\ [p EXCEPT !.priority = d.priority] \in PolicySet
         /\ [p EXCEPT !.enabled = d.enabled] \in PolicySet
         /\ [p EXCEPT !.there = FALSE] \in PolicySet
         /\ [p EXCEPT !.enabled = ~@] \in PolicySet
         /\ d.action \in Actions
              => [p EXCEPT !.conds = d.conds, !.action = d.action] \in PolicySet
<1>1. d.priority \in Int /\ d.enabled \in BOOLEAN /\ d.conds \in {e.conds : e \in Drafts}
  BY PoliciesAssumption
<1>2. QED BY <1>1 DEF PolicySet

\* What a route leaves behind that writes policy i and goes on to log it.
LEMMA WriteType ==
  ASSUME PoliciesTypeOK, NEW w \in Admins, NEW i \in 1 .. MaxPolicies, Write(w, i),
         Len(policies') \in Nat, Len(policies) <= Len(policies'), i <= Len(policies')
  PROVE  /\ admin' \in [Admins -> 0 .. Len(policies')]
         /\ logged' \in [1 .. MaxPolicies -> Nat] /\ changed' \in [1 .. MaxPolicies -> Nat]
         /\ lost' \in BOOLEAN /\ writes' \in 0 .. MaxWrites
<1>1. Len(policies) \in Nat /\ 0 .. Len(policies) \subseteq 0 .. Len(policies')
  BY DEF PoliciesTypeOK
<1>2. writes' \in 0 .. MaxWrites
  BY PoliciesAssumption DEF PoliciesTypeOK, Write
<1>3. admin' \in [Admins -> 0 .. Len(policies')]
  BY <1>1 DEF PoliciesTypeOK, Write
<1>4. changed' \in [1 .. MaxPolicies -> Nat]
  BY DEF PoliciesTypeOK, Write
<1>5. QED BY <1>2, <1>3, <1>4 DEF PoliciesTypeOK, Write

\* Replacing a policy keeps the table a table of as many policies.
LEMMA ReplacePolicy ==
  ASSUME PoliciesTypeOK, NEW i \in DOMAIN policies, NEW p \in PolicySet,
         policies' = [policies EXCEPT ![i] = p]
  PROVE  policies' \in Seq(PolicySet) /\ Len(policies') = Len(policies)
  BY DEF PoliciesTypeOK

\* The state of the policies stays well formed.
LEMMA PoliciesTypeStep == PoliciesTypeOK /\ [PoliciesNext]_pvars => PoliciesTypeOK'
<1> SUFFICES ASSUME PoliciesTypeOK, [PoliciesNext]_pvars PROVE PoliciesTypeOK'
  OBVIOUS
<1>1. /\ MaxPolicies \in Nat /\ MaxWrites \in Nat /\ Len(policies) \in Nat
      /\ Len(policies) <= MaxPolicies /\ DOMAIN policies = 1 .. Len(policies)
      /\ \A i \in DOMAIN policies : policies[i] \in PolicySet
  BY PoliciesAssumption DEF PoliciesTypeOK
<1>2. ASSUME NEW w \in Admins, NEW d \in Drafts, CreatePolicy(w, d) PROVE PoliciesTypeOK'
  <2> DEFINE p == [conds |-> d.conds, action |-> d.action, there |-> TRUE,
                   priority |-> d.priority, enabled |-> d.enabled]
  <2>1. /\ policies' = Append(policies, p) /\ Write(w, Len(policies) + 1)
        /\ Len(policies) < MaxPolicies /\ d.action \in Actions
    BY <1>2 DEF CreatePolicy
  <2>2. Len(policies) + 1 \in 1 .. MaxPolicies
    BY <1>1, <2>1
  <2>3. p \in PolicySet
    BY <2>1, DraftIsPolicy
  <2> HIDE DEF p
  <2>4. policies' \in Seq(PolicySet) /\ Len(policies') = Len(policies) + 1
    BY <2>1, <2>3 DEF PoliciesTypeOK
  <2>5. Len(policies') \in Nat /\ Len(policies) <= Len(policies') /\ Len(policies') <= MaxPolicies
        /\ Len(policies) + 1 <= Len(policies')
    BY <1>1, <2>2, <2>4
  <2>6. /\ admin' \in [Admins -> 0 .. Len(policies')]
        /\ logged' \in [1 .. MaxPolicies -> Nat] /\ changed' \in [1 .. MaxPolicies -> Nat]
        /\ lost' \in BOOLEAN /\ writes' \in 0 .. MaxWrites
    BY <2>1, <2>2, <2>5, WriteType
  <2>7. QED BY <2>4, <2>5, <2>6 DEF PoliciesTypeOK
<1>3. ASSUME NEW w \in Admins, NEW i \in DOMAIN policies, NEW p \in PolicySet,
             policies' = [policies EXCEPT ![i] = p], Write(w, i)
      PROVE  PoliciesTypeOK'
  <2>1. policies' \in Seq(PolicySet) /\ Len(policies') = Len(policies)
    BY <1>3, ReplacePolicy
  <2>2. QED BY <1>1, <1>3, <2>1, WriteType DEF PoliciesTypeOK
<1>4. ASSUME NEW w \in Admins, NEW i \in DOMAIN policies, NEW d \in Drafts,
             \/ UpdatePolicy(w, i, [policies[i] EXCEPT !.priority = d.priority])
             \/ UpdatePolicy(w, i, [policies[i] EXCEPT !.enabled = d.enabled])
             \/ UpdatePolicy(w, i, [policies[i] EXCEPT !.conds = d.conds, !.action = d.action])
      PROVE  PoliciesTypeOK'
  <2>1. CASE UpdatePolicy(w, i, [policies[i] EXCEPT !.priority = d.priority])
    BY <1>1, <1>3, <2>1, FieldsOfAPolicy DEF UpdatePolicy
  <2>2. CASE UpdatePolicy(w, i, [policies[i] EXCEPT !.enabled = d.enabled])
    BY <1>1, <1>3, <2>2, FieldsOfAPolicy DEF UpdatePolicy
  <2>3. CASE UpdatePolicy(w, i, [policies[i] EXCEPT !.conds = d.conds, !.action = d.action])
    <3>1. policies[i] \in PolicySet
      BY <1>1
    <3>2. d.action \in Actions
      BY <2>3, <3>1 DEF UpdatePolicy, PolicySet
    <3>3. [policies[i] EXCEPT !.conds = d.conds, !.action = d.action] \in PolicySet
      BY <3>1, <3>2, FieldsOfAPolicy
    <3>4. QED BY <1>3, <2>3, <3>3 DEF UpdatePolicy
  <2>4. QED BY <1>4, <2>1, <2>2, <2>3
<1>5. ASSUME NEW w \in Admins, NEW i \in DOMAIN policies, DeletePolicy(w, i) PROVE PoliciesTypeOK'
  <2>1. [policies[i] EXCEPT !.there = FALSE] \in PolicySet
    BY <1>1 DEF PolicySet
  <2>2. policies' = [policies EXCEPT ![i] = [policies[i] EXCEPT !.there = FALSE]] /\ Write(w, i)
    BY <1>5 DEF DeletePolicy
  <2>3. QED BY <1>3, <2>1, <2>2
<1>6. ASSUME NEW w \in Admins, LogChange(w) \/ AdminDies(w) PROVE PoliciesTypeOK'
  <2>1. admin[w] \in 1 .. MaxPolicies /\ 0 \in 0 .. Len(policies)
    BY <1>1, <1>6 DEF LogChange, AdminDies, PoliciesTypeOK
  <2>2. admin' \in [Admins -> 0 .. Len(policies)] /\ UNCHANGED <<policies, changed, writes>>
    BY <1>6, <2>1 DEF LogChange, AdminDies, PoliciesTypeOK
  <2>3. logged' \in [1 .. MaxPolicies -> Nat] /\ lost' \in BOOLEAN
    <3>1. CASE LogChange(w)
      <4>1. logged' = [logged EXCEPT ![admin[w]] = logged[admin[w]] + 1] /\ lost' = lost
        BY <3>1 DEF LogChange
      <4>2. logged[admin[w]] + 1 \in Nat
        BY <2>1 DEF PoliciesTypeOK
      <4>3. QED BY <4>1, <4>2 DEF PoliciesTypeOK
    <3>2. CASE AdminDies(w)
      BY <3>2 DEF AdminDies, PoliciesTypeOK
    <3>3. QED BY <1>6, <3>1, <3>2
  <2>4. QED BY <2>2, <2>3 DEF PoliciesTypeOK
<1>7. ASSUME NEW i \in DOMAIN policies, TogglePolicy(i) PROVE PoliciesTypeOK'
  <2>1. [policies[i] EXCEPT !.enabled = ~@] \in PolicySet
    BY <1>1 DEF PolicySet
  <2>2. policies' = [policies EXCEPT ![i] = [policies[i] EXCEPT !.enabled = ~@]]
    BY <1>7 DEF TogglePolicy
  <2>3. policies' \in Seq(PolicySet) /\ Len(policies') = Len(policies)
    BY <2>1, <2>2, ReplacePolicy
  <2>4. writes' \in 0 .. MaxWrites /\ UNCHANGED <<admin, logged, changed, lost>>
    BY <1>1, <1>7 DEF TogglePolicy, PoliciesTypeOK
  <2>5. QED BY <2>3, <2>4 DEF PoliciesTypeOK
<1>8. CASE UNCHANGED pvars
  BY <1>8 DEF pvars, PoliciesTypeOK
<1>9. QED BY <1>2, <1>4, <1>5, <1>6, <1>7, <1>8 DEF PoliciesNext

\* What stands at a place of the table.
LEMMA PolicyIs ==
  ASSUME PoliciesTypeOK, NEW i \in DOMAIN policies
  PROVE  i \in Nat /\ i # 0 /\ policies[i].priority \in Int
<1>1. policies[i] \in PolicySet /\ i \in 1 .. Len(policies) /\ Len(policies) \in Nat
  BY DEF PoliciesTypeOK
<1>2. QED BY <1>1 DEF PolicySet

\* The first of a set of policies is before all others: every set of policies has one.
LEMMA FirstIsFirst ==
  ASSUME PoliciesTypeOK, NEW hits \in SUBSET DOMAIN policies, hits # {}
  PROVE  /\ FirstOf(hits) \in hits
         /\ \A j \in hits \ {FirstOf(hits)} : Before(FirstOf(hits), j)
<1> DEFINE Led == {T \in SUBSET hits : T = {} \/ \E i \in T : \A j \in T \ {i} : Before(i, j)}
<1>1. \A i \in DOMAIN policies : policies[i].priority \in Int /\ i \in Int
  BY PolicyIs
<1>2. IsFiniteSet(hits)
  <2>1. DOMAIN policies = 1 .. Len(policies) /\ Len(policies) \in Int /\ 1 \in Int
    BY DEF PoliciesTypeOK
  <2>2. IsFiniteSet(DOMAIN policies)
    BY <2>1, FS_Interval
  <2>3. QED BY <2>2, FS_Subset
<1>3. ASSUME NEW T \in SUBSET hits, \A U \in SUBSET T : U # T => U \in Led PROVE T \in Led
  <2>1. CASE T = {}
    BY <2>1
  <2>2. CASE T # {}
    <3>1. PICK k \in T : TRUE
      BY <2>2
    <3>2. T \ {k} \in Led
      BY <1>3, <3>1
    <3>3. CASE T \ {k} = {}
      BY <3>1, <3>3
    <3>4. CASE \E i \in T \ {k} : \A j \in (T \ {k}) \ {i} : Before(i, j)
      <4>1. PICK i \in T \ {k} : \A j \in (T \ {k}) \ {i} : Before(i, j)
        BY <3>4
      <4>2. Before(i, k) \/ Before(k, i)
        BY <1>1, <3>1, <4>1 DEF Before
      <4>3. CASE Before(i, k)
        BY <4>1, <4>3
      <4>4. CASE Before(k, i)
        <5>1. \A j \in T \ {k} : Before(k, j)
          BY <1>1, <3>1, <4>1, <4>4 DEF Before
        <5>2. QED BY <3>1, <5>1
      <4>5. QED BY <4>2, <4>3, <4>4
    <3>5. QED BY <3>2, <3>3, <3>4
  <2>3. QED BY <2>1, <2>2
<1>4. hits \in Led
  <2> HIDE DEF Led
  <2>1. QED BY <1>2, <1>3, SubsetInduction
<1>5. \E i \in hits : \A j \in hits \ {i} : Before(i, j)
  BY <1>4
<1>6. QED BY <1>5 DEF FirstOf

\* A request is decided by the oldest of the matching policies of least priority.
LEMMA FirstDecides ==
  ASSUME PoliciesTypeOK, NEW ctx \in Contexts
  PROVE  LET hits == Hits(ctx)
             least == {i \in hits : \A j \in hits : policies[i].priority <= policies[j].priority}
         IN  IF hits = {} THEN Evaluate(ctx) = "allow"
             ELSE \E i \in least : /\ Evaluate(ctx) = policies[i].action
                                   /\ \A j \in least : i <= j
<1> DEFINE hits == Hits(ctx)
           least == {i \in hits : \A j \in hits : policies[i].priority <= policies[j].priority}
           first == Winner(ctx)
<1>1. CASE hits = {}
  BY <1>1 DEF Evaluate, Winner, FirstOf
<1>2. CASE hits # {}
  <2>1. hits \in SUBSET DOMAIN policies
    BY DEF Hits, Enabled
  <2>2. first \in hits /\ \A j \in hits \ {first} : Before(first, j)
    BY <1>2, <2>1, FirstIsFirst DEF Winner
  <2>3. \A i \in hits : policies[i].priority \in Int /\ i \in Nat /\ i # 0
    BY <2>1, PolicyIs
  <2>4. Evaluate(ctx) = policies[first].action
    BY <2>2, <2>3 DEF Evaluate
  <2> HIDE DEF first, hits
  <2>5. first \in least /\ \A j \in least : first <= j
    BY <2>2, <2>3 DEF Before
  <2>6. QED BY <1>2, <2>4, <2>5 DEF hits
<1>3. QED BY <1>1, <1>2

\* Where the dry run's winner has conditions, it is the engine's winner.
LEMMA DryRunFollows ==
  ASSUME PoliciesTypeOK, NEW ctx \in Contexts, DryRun(ctx) # Evaluate(ctx)
  PROVE  DryWinner(ctx) # 0 /\ policies[DryWinner(ctx)].conds = <<>>
<1> DEFINE dry == DryWinner(ctx)
<1>1. /\ Hits(ctx) \in SUBSET DryHits(ctx) /\ DryHits(ctx) \in SUBSET DOMAIN policies
      /\ \A i \in DryHits(ctx) : policies[i].conds # <<>> => i \in Hits(ctx)
      /\ \A i \in DOMAIN policies : i \in Nat /\ i # 0 /\ policies[i].priority \in Int
  BY PolicyIs DEF Hits, DryHits, Enabled, MatchAll, MatchDetailed
<1>2. CASE DryHits(ctx) = {}
  <2>1. Hits(ctx) = {}
    BY <1>1, <1>2
  <2>2. QED BY <1>2, <2>1 DEF DryRun, Evaluate, DryWinner, Winner, FirstOf
<1>3. CASE DryHits(ctx) # {}
  <2>1. dry \in DryHits(ctx) /\ \A j \in DryHits(ctx) \ {dry} : Before(dry, j)
    BY <1>1, <1>3, FirstIsFirst DEF DryWinner
  <2>2. ASSUME policies[dry].conds # <<>> PROVE FALSE
    <3>1. dry \in Hits(ctx)
      BY <1>1, <2>1, <2>2
    <3>2. Winner(ctx) \in Hits(ctx) /\ \A j \in Hits(ctx) \ {Winner(ctx)} : Before(Winner(ctx), j)
      BY <1>1, <3>1, FirstIsFirst DEF Winner
    <3>3. \A i, j \in DOMAIN policies : ~ (Before(i, j) /\ Before(j, i))
      BY <1>1 DEF Before
    <3>4. Winner(ctx) = dry
      BY <1>1, <2>1, <3>1, <3>2, <3>3
    <3>5. QED BY <3>4 DEF DryRun, Evaluate
  <2>3. QED BY <1>1, <2>1, <2>2
<1>4. QED BY <1>2, <1>3

\* The workers that still owe the audit entry of a change of policy i.
OwedFor(i) == {w \in Admins : admin[w] = i}

\* Taking up or giving up one debt changes the debts of one policy by one.
LEMMA DebtsMove ==
  ASSUME PoliciesTypeOK, NEW w \in Admins, NEW k, admin' = [admin EXCEPT ![w] = k], NEW i
  PROVE  /\ Cardinality(OwedFor(i)) \in Nat
         /\ admin[w] # i /\ k = i => Cardinality(OwedFor(i)') = Cardinality(OwedFor(i)) + 1
         /\ admin[w] = i /\ k # i => Cardinality(OwedFor(i)') = Cardinality(OwedFor(i)) - 1
         /\ admin[w] # i /\ k # i => Cardinality(OwedFor(i)') = Cardinality(OwedFor(i))
<1>1. IsFiniteSet(OwedFor(i))
  BY PoliciesAssumption, FS_Subset DEF OwedFor
<1>2. ASSUME admin[w] # i, k = i PROVE OwedFor(i)' = OwedFor(i) \cup {w} /\ w \notin OwedFor(i)
  BY <1>2 DEF OwedFor, PoliciesTypeOK
<1>3. ASSUME admin[w] = i, k # i PROVE OwedFor(i)' = OwedFor(i) \ {w} /\ w \in OwedFor(i)
  BY <1>3 DEF OwedFor, PoliciesTypeOK
<1>4. ASSUME admin[w] # i, k # i PROVE OwedFor(i)' = OwedFor(i)
  BY <1>4 DEF OwedFor, PoliciesTypeOK
<1>5. QED BY <1>1, <1>2, <1>3, <1>4, FS_AddElement, FS_RemoveElement, FS_CardinalityType

\* Every change is logged or owed; what was not created yet was not changed.
PoliciesInv ==
    /\ PoliciesTypeOK
    /\ \A i \in 1 .. MaxPolicies : ~lost => logged[i] + Cardinality(OwedFor(i)) = changed[i]

LEMMA PoliciesInvStep == PoliciesInv /\ [PoliciesNext]_pvars => PoliciesInv'
<1> SUFFICES ASSUME PoliciesInv, [PoliciesNext]_pvars PROVE PoliciesInv'
  OBVIOUS
<1>1. PoliciesTypeOK /\ PoliciesTypeOK'
  BY PoliciesTypeStep DEF PoliciesInv
<1> SUFFICES ASSUME NEW i \in 1 .. MaxPolicies, ~lost'
             PROVE  logged'[i] + Cardinality(OwedFor(i)') = changed'[i]
  BY <1>1 DEF PoliciesInv
<1>2. ~lost => logged[i] + Cardinality(OwedFor(i)) = changed[i]
  BY DEF PoliciesInv
<1>3. logged[i] \in Nat /\ changed[i] \in Nat /\ i # 0 /\ Len(policies) \in Nat
  BY <1>1, PoliciesAssumption DEF PoliciesTypeOK
<1>4. ASSUME NEW w \in Admins, NEW k \in 1 .. MaxPolicies, Write(w, k)
      PROVE  logged'[i] + Cardinality(OwedFor(i)') = changed'[i]
  <2>1. /\ admin' = [admin EXCEPT ![w] = k] /\ admin[w] = 0 /\ lost' = lost /\ logged' = logged
        /\ (k = i => changed'[i] = changed[i] + 1) /\ (k # i => changed'[i] = changed[i])
    BY <1>1, <1>4 DEF Write, PoliciesTypeOK
  <2>2. /\ Cardinality(OwedFor(i)) \in Nat
        /\ k = i => Cardinality(OwedFor(i)') = Cardinality(OwedFor(i)) + 1
        /\ k # i => Cardinality(OwedFor(i)') = Cardinality(OwedFor(i))
    BY <1>1, <1>3, <2>1, DebtsMove
  <2>3. QED BY <1>2, <1>3, <2>1, <2>2
<1>5. ASSUME NEW w \in Admins, LogChange(w)
      PROVE  logged'[i] + Cardinality(OwedFor(i)') = changed'[i]
  <2>1. /\ admin' = [admin EXCEPT ![w] = 0] /\ admin[w] # 0 /\ lost' = lost /\ changed' = changed
        /\ (admin[w] = i => logged'[i] = logged[i] + 1) /\ (admin[w] # i => logged'[i] = logged[i])
    BY <1>1, <1>5 DEF LogChange, PoliciesTypeOK
  <2>2. /\ Cardinality(OwedFor(i)) \in Nat
        /\ admin[w] = i => Cardinality(OwedFor(i)') = Cardinality(OwedFor(i)) - 1
        /\ admin[w] # i => Cardinality(OwedFor(i)') = Cardinality(OwedFor(i))
    BY <1>1, <1>3, <2>1, DebtsMove
  <2>3. QED BY <1>2, <1>3, <2>1, <2>2
<1>6. ASSUME NEW w \in Admins, AdminDies(w)
      PROVE  logged'[i] + Cardinality(OwedFor(i)') = changed'[i]
  BY <1>6 DEF AdminDies
<1>7. ASSUME UNCHANGED <<admin, logged, changed, lost>>
      PROVE  logged'[i] + Cardinality(OwedFor(i)') = changed'[i]
  BY <1>2, <1>7 DEF OwedFor
<1>8. DOMAIN policies \subseteq 1 .. MaxPolicies
  BY <1>1, PoliciesAssumption DEF PoliciesTypeOK
<1>9. ASSUME NEW w \in Admins, NEW d \in Drafts, CreatePolicy(w, d)
      PROVE  logged'[i] + Cardinality(OwedFor(i)') = changed'[i]
  <2>1. Len(policies) + 1 \in 1 .. MaxPolicies
    BY <1>3, <1>9, PoliciesAssumption DEF CreatePolicy
  <2>2. QED BY <1>4, <1>9, <2>1 DEF CreatePolicy
<1>10. ASSUME NEW w \in Admins, NEW k \in DOMAIN policies, NEW p, UpdatePolicy(w, k, p)
       PROVE  logged'[i] + Cardinality(OwedFor(i)') = changed'[i]
  BY <1>4, <1>8, <1>10 DEF UpdatePolicy
<1>11. ASSUME NEW w \in Admins, NEW k \in DOMAIN policies, DeletePolicy(w, k)
       PROVE  logged'[i] + Cardinality(OwedFor(i)') = changed'[i]
  BY <1>4, <1>8, <1>11 DEF DeletePolicy
<1>12. ASSUME NEW k \in DOMAIN policies, TogglePolicy(k)
       PROVE  logged'[i] + Cardinality(OwedFor(i)') = changed'[i]
  BY <1>7, <1>12 DEF TogglePolicy
<1>13. CASE UNCHANGED pvars
  BY <1>7, <1>13 DEF pvars
<1>14. QED BY <1>5, <1>6, <1>9, <1>10, <1>11, <1>12, <1>13 DEF PoliciesNext

\* Policies decide in the order of their priority and age whatever was done to them,
\* a dry run agrees but for policies without conditions, and changes are audited.
THEOREM PoliciesAreSound == PoliciesSpec => []PoliciesSound
<1>1. PoliciesInit => PoliciesInv
  <2> SUFFICES ASSUME PoliciesInit PROVE PoliciesInv
    OBVIOUS
  <2>1. PoliciesTypeOK
    <3>1. policies \in Seq(PolicySet) /\ Len(policies) = 0
      BY DEF PoliciesInit
    <3>2. admin \in [Admins -> 0 .. Len(policies)]
      BY <3>1 DEF PoliciesInit
    <3>3. /\ logged \in [1 .. MaxPolicies -> Nat] /\ changed \in [1 .. MaxPolicies -> Nat]
          /\ lost \in BOOLEAN
      BY DEF PoliciesInit
    <3>4. writes \in 0 .. MaxWrites /\ Len(policies) <= MaxPolicies
      BY <3>1, PoliciesAssumption DEF PoliciesInit
    <3>5. QED BY <3>1, <3>2, <3>3, <3>4 DEF PoliciesTypeOK
  <2>2. ASSUME NEW i \in 1 .. MaxPolicies
        PROVE  logged[i] + Cardinality(OwedFor(i)) = changed[i]
    <3>1. OwedFor(i) = {} /\ logged[i] = 0 /\ changed[i] = 0
      BY <2>2, PoliciesAssumption DEF PoliciesInit, OwedFor
    <3>2. Cardinality(OwedFor(i)) = 0
      BY <3>1, FS_EmptySet
    <3>3. QED BY <3>1, <3>2
  <2>3. QED BY <2>1, <2>2 DEF PoliciesInv
<1>2. PoliciesInv => PoliciesSound
  <2> SUFFICES ASSUME PoliciesInv PROVE PoliciesSound
    OBVIOUS
  <2>1. PoliciesTypeOK
    BY DEF PoliciesInv
  <2>2. FirstMatchDecides
    BY <2>1, FirstDecides DEF FirstMatchDecides
  <2>3. DryRunAgrees
    BY <2>1, DryRunFollows DEF DryRunAgrees
  <2>4. ChangesAudited
    <3>1. DOMAIN policies \subseteq 1 .. MaxPolicies
      BY <2>1, PoliciesAssumption DEF PoliciesTypeOK
    <3>2. QED BY <3>1 DEF PoliciesInv, ChangesAudited, OwedFor
  <2>5. QED BY <2>2, <2>3, <2>4 DEF PoliciesSound
<1>3. PoliciesInv /\ [PoliciesNext]_pvars => PoliciesInv'
  BY PoliciesInvStep
<1>4. QED BY <1>1, <1>2, <1>3, PTL DEF PoliciesSpec

-----------------------------------------------------------------------------
(* Prices *)

\* What is loaded, on its way, or in the file is a table of prices.
PricingTypeOK ==
    /\ Table(costMap) /\ Table(overrides) /\ Table(runtime)
    /\ Table(file) /\ (half # Unpriced => Table(half))
    /\ \A t \in Loaders : loader[t] # Unpriced => Table(loader[t])
    /\ loader = [t \in Loaders |-> loader[t]]
    /\ mapLoaded \in BOOLEAN /\ stale \in BOOLEAN

\* While nothing changed the file since, whoever is loading holds what the file
\* says, and so does the map once it is loaded.
FreshMap ==
    ~stale => /\ \A t \in Loaders : loader[t] # Unpriced => loader[t] = file
              /\ mapLoaded => costMap = file

PricingInv == PricingTypeOK /\ FreshMap

LEMMA PricingInvInit == PricingInit => PricingInv
<1> SUFFICES ASSUME PricingInit PROVE PricingInv
  OBVIOUS
<1>1. Table(Empty)
  BY DEF Table, Empty
<1>2. Table(file)
  BY PricingAssumption DEF PricingInit, Table
<1>3. PricingTypeOK
  BY <1>1, <1>2 DEF PricingInit, PricingTypeOK
<1>4. FreshMap
  BY DEF PricingInit, FreshMap
<1>5. QED BY <1>3, <1>4 DEF PricingInv

LEMMA RegisteredTable ==
  ASSUME NEW f, Table(f), NEW m \in Models, NEW p \in Price
  PROVE  Table(Put(f, m, p))
<1>1. p \in Costs
  BY PricingAssumption
<1>2. QED BY <1>1 DEF Table, Put

LEMMA PricingInvStep == PricingInv /\ [PricingNext]_pricevars => PricingInv'
<1> SUFFICES ASSUME PricingInv, [PricingNext]_pricevars PROVE PricingInv'
  OBVIOUS
<1> USE DEF PricingInv, PricingTypeOK, FreshMap
<1>1. ASSUME NEW t \in Loaders, ReadFile(t) PROVE PricingInv'
  BY <1>1 DEF ReadFile
<1>2. ASSUME NEW t \in Loaders, EndLoading(t) PROVE PricingInv'
  <2>1. Table(FileOverrides)
    BY PricingAssumption DEF Table
  <2>2. QED BY <1>2, <2>1 DEF EndLoading
<1>3. ASSUME NEW t \in Loaders, Reload(t) PROVE PricingInv'
  <2>1. Table(Empty)
    BY DEF Table, Empty
  <2>2. QED BY <1>3, <2>1 DEF Reload
<1>4. ASSUME NEW m \in Models, NEW p \in Price, Register(m, p) PROVE PricingInv'
  <2>1. Table(Put(runtime, m, p))
    BY RegisteredTable
  <2>2. QED BY <1>4, <2>1 DEF Register
<1>5. ASSUME NEW table \in Tables, StartSync(table) PROVE PricingInv'
  <2>1. Table(Empty)
    BY DEF Table, Empty
  <2>2. Table(table)
    BY PricingAssumption DEF Table
  <2>3. QED BY <1>5, <2>1, <2>2 DEF StartSync
<1>6. CASE EndSync
  BY <1>6 DEF EndSync
<1>7. CASE SyncDies
  BY <1>7 DEF SyncDies
<1>8. CASE UNCHANGED pricevars
  BY <1>8 DEF pricevars
<1>9. QED BY <1>1, <1>2, <1>3, <1>4, <1>5, <1>6, <1>7, <1>8 DEF PricingNext

\* A listed key that is looked for has a first one.
LEMMA FirstKeyListed ==
  ASSUME PricingTypeOK, NEW m, Starts(m) # {}
  PROVE  FirstKey(m) \in DOMAIN costMap
<1> DEFINE places == {Rank[k] : k \in Starts(m)}
<1>1. Starts(m) \subseteq Models /\ Starts(m) \subseteq DOMAIN costMap
  BY DEF PricingTypeOK, Table, Starts
<1>2. Rank \in [Models -> Nat]
  BY PricingAssumption DEF Injection
<1>3. places \in SUBSET Nat /\ places # {}
  BY <1>1, <1>2
<1>4. PICK n \in places : \A x \in places : n <= x
  BY <1>3, SmallestExists
<1>5. PICK k \in Starts(m) : n = Rank[k]
  BY <1>4
<1>6. \A j \in Starts(m) : Rank[k] <= Rank[j]
  BY <1>4, <1>5
<1>7. FirstKey(m) \in Starts(m)
  BY <1>5, <1>6 DEF FirstKey
<1>8. QED BY <1>1, <1>7

\* What a name resolves to is a price, or it has none.
LEMMA ResolvesToPrice ==
  ASSUME PricingTypeOK, NEW m, Resolve(m) # Unpriced
  PROVE  Resolve(m) \in Costs
<1>1. ASSUME NEW x PROVE Exact(x) = Unpriced \/ Exact(x) \in Costs
  <2>1. CASE x \in DOMAIN runtime
    BY <2>1 DEF PricingTypeOK, Table, Exact
  <2>2. CASE x \notin DOMAIN runtime /\ x \in DOMAIN overrides
    BY <2>2 DEF PricingTypeOK, Table, Exact
  <2>3. CASE x \notin DOMAIN runtime /\ x \notin DOMAIN overrides
    BY <2>3 DEF PricingTypeOK, Table, Exact
  <2>4. QED BY <2>1, <2>2, <2>3
<1>2. \A x \in DOMAIN costMap : costMap[x] \in Costs
  BY DEF PricingTypeOK, Table
<1>3. Starts(m) # {} => costMap[FirstKey(m)] \in Costs
  BY <1>2, FirstKeyListed
<1>4. QED BY <1>1, <1>2, <1>3 DEF Resolve

\* A price with a saving splits the full price into what is charged and saved.
LEMMA BillAdds ==
  ASSUME NEW p \in Costs, NEW prompt \in 0 .. 2, NEW cached \in 0 .. 2, cached <= prompt
  PROVE  IF p.read # Unpriced /\ p.read > p.input THEN CachedSaving(p, cached) = 0
         ELSE InputCost(p, prompt, cached) + CachedSaving(p, cached) = prompt * p.input
<1>1. p.input \in Nat /\ p.read \in Nat \cup {Unpriced}
  BY DEF Costs
<1> DEFINE rate == IF p.read \in {Unpriced, 0} THEN p.input ELSE p.read
<1>2. rate \in Nat
  BY <1>1
<1>3. InputCost(p, prompt, cached) = p.input * Most(0, prompt - cached) + cached * rate
  BY DEF InputCost
<1>4. CachedSaving(p, cached) = Most(0, cached * (p.input - rate))
  BY DEF CachedSaving
<1>5. CASE p.read # Unpriced /\ p.read > p.input
  <2>1. rate = p.read /\ rate > p.input
    BY <1>1, <1>5
  <2> HIDE DEF rate
  <2>2. cached * (p.input - rate) <= 0
    <3>1. cached = 0 \/ cached = 1 \/ cached = 2
      OBVIOUS
    <3>2. QED BY <1>1, <1>2, <2>1, <3>1
  <2>3. QED BY <1>1, <1>2, <1>4, <1>5, <2>2 DEF Most
<1>6. CASE ~ (p.read # Unpriced /\ p.read > p.input)
  <2>1. rate <= p.input
    BY <1>1, <1>6
  <2> HIDE DEF rate
  <2>2. prompt - cached >= 0
    OBVIOUS
  <2>3. <<prompt, cached>> \in {<<0, 0>>, <<1, 0>>, <<2, 0>>, <<1, 1>>, <<2, 1>>, <<2, 2>>}
    <3>1. prompt = 0 \/ prompt = 1 \/ prompt = 2
      OBVIOUS
    <3>2. cached = 0 \/ cached = 1 \/ cached = 2
      OBVIOUS
    <3>3. QED BY <3>1, <3>2
  <2>4. p.input * Most(0, prompt - cached) + cached * rate + Most(0, cached * (p.input - rate))
          = prompt * p.input
    BY <1>1, <1>2, <2>1, <2>2, <2>3 DEF Most
  <2>5. QED BY <1>3, <1>4, <1>6, <2>4
<1>7. QED BY <1>5, <1>6

LEMMA BillsAdd == PricingTypeOK => BillsAddUp
<1> SUFFICES ASSUME PricingTypeOK,
                    NEW m \in Models, NEW prompt \in 0 .. 2, NEW cached \in 0 .. 2, cached <= prompt
             PROVE  LET p == IF Resolve(m) = Unpriced THEN Free ELSE Resolve(m)
                        c == CostPerToken(m, prompt, 1, cached)
                    IN  IF p.read # Unpriced /\ p.read > p.input THEN c.saved = 0
                        ELSE c.input + c.saved = prompt * p.input
  BY DEF BillsAddUp
<1> DEFINE p == IF Resolve(m) = Unpriced THEN Free ELSE Resolve(m)
<1>1. p \in Costs
  BY ResolvesToPrice DEF Free, Costs
<1>2. CostPerToken(m, prompt, 1, cached).input = InputCost(p, prompt, cached)
  BY DEF CostPerToken
<1>3. CostPerToken(m, prompt, 1, cached).saved = CachedSaving(p, cached)
  BY DEF CostPerToken
<1> HIDE DEF p
<1>4. IF p.read # Unpriced /\ p.read > p.input THEN CachedSaving(p, cached) = 0
      ELSE InputCost(p, prompt, cached) + CachedSaving(p, cached) = prompt * p.input
  BY <1>1, BillAdds
<1>5. QED BY <1>2, <1>3, <1>4 DEF p

\* Who stands before another in the list has fewer before it: no two models of a
\* list have the same place.
LEMMA PlacesDiffer ==
  ASSUME PricingTypeOK, NEW S \in SUBSET DOMAIN costMap
  PROVE  /\ IsFiniteSet(S)
         /\ \A m \in S : Cardinality(Ahead(S, m)) \in 0 .. Cardinality(S) - 1
         /\ \A m, n \in S : Cardinality(Ahead(S, m)) = Cardinality(Ahead(S, n)) => m = n
<1>1. IsFiniteSet(S)
  <2>1. S \subseteq Models
    BY DEF PricingTypeOK, Table
  <2>2. QED BY <2>1, PricingAssumption, FS_Subset
<1>2. \A m \in S : Rank[m] \in Nat /\ costMap[m].input \in Nat
  <2>1. S \subseteq Models /\ \A m \in S : costMap[m] \in Costs
    BY DEF PricingTypeOK, Table
  <2>2. QED BY <2>1, PricingAssumption DEF Injection, Costs
<1>3. \A m, n \in S : Rank[m] = Rank[n] => m = n
  <2>1. S \subseteq Models
    BY DEF PricingTypeOK, Table
  <2>2. QED BY <2>1, PricingAssumption DEF Injection, IsInjective
<1>4. \A m \in S : Ahead(S, m) \in SUBSET S /\ m \notin Ahead(S, m)
  BY <1>2 DEF Ahead
<1>5. ASSUME NEW m \in S, NEW n \in S, n \in Ahead(S, m)
      PROVE  Cardinality(Ahead(S, n)) < Cardinality(Ahead(S, m))
  <2>1. Ahead(S, n) \subseteq Ahead(S, m)
    BY <1>2, <1>5 DEF Ahead
  <2>2. IsFiniteSet(Ahead(S, m)) /\ Ahead(S, n) # Ahead(S, m)
    BY <1>1, <1>4, <1>5, FS_Subset
  <2>3. Cardinality(Ahead(S, n)) \in Nat /\ Cardinality(Ahead(S, m)) \in Nat
    BY <1>1, <1>4, FS_Subset, FS_CardinalityType
  <2>4. QED BY <2>1, <2>2, <2>3, FS_Subset
<1>6. ASSUME NEW m \in S PROVE Cardinality(Ahead(S, m)) \in 0 .. Cardinality(S) - 1
  <2>1. Ahead(S, m) \in SUBSET S /\ Ahead(S, m) # S
    BY <1>4
  <2>2. Cardinality(S) \in Nat /\ Cardinality(Ahead(S, m)) \in Nat
    BY <1>1, <2>1, FS_Subset, FS_CardinalityType
  <2>3. Cardinality(Ahead(S, m)) <= Cardinality(S) /\ Cardinality(Ahead(S, m)) # Cardinality(S)
    BY <1>1, <2>1, FS_Subset
  <2>4. QED BY <2>2, <2>3
<1>7. ASSUME NEW m \in S, NEW n \in S, Cardinality(Ahead(S, m)) = Cardinality(Ahead(S, n))
      PROVE  m = n
  <2>1. n \notin Ahead(S, m) /\ m \notin Ahead(S, n)
    <3>1. Cardinality(Ahead(S, m)) \in Nat /\ Cardinality(Ahead(S, n)) \in Nat
      BY <1>1, <1>4, FS_Subset, FS_CardinalityType
    <3>2. QED BY <1>5, <1>7, <3>1
  <2>2. Rank[m] = Rank[n]
    BY <1>2, <2>1 DEF Ahead
  <2>3. QED BY <1>3, <2>2
<1>8. QED BY <1>1, <1>6, <1>7

LEMMA PagesShow == PricingTypeOK => PagesShowAll
<1> SUFFICES ASSUME PricingTypeOK,
                    NEW S \in {Registry({}), Registry({"balanced"}), Search(Models, 2, Unpriced)}
             PROVE  /\ \A m \in S : \E i \in 0 .. Cardinality(S) - 1 : Page(S, 1, i) = {m}
                    /\ Page(S, 1, 0) \cup Page(S, Cardinality(S), 1) = S
                    /\ Page(S, 1, 0) \cap Page(S, Cardinality(S), 1) = {}
  BY DEF PagesShowAll
<1>1. S \in SUBSET DOMAIN costMap
  BY DEF Registry, Search
<1>2. /\ IsFiniteSet(S)
      /\ \A m \in S : Cardinality(Ahead(S, m)) \in 0 .. Cardinality(S) - 1
      /\ \A m, n \in S : Cardinality(Ahead(S, m)) = Cardinality(Ahead(S, n)) => m = n
  BY <1>1, PlacesDiffer
<1>3. Cardinality(S) \in Nat
  BY <1>2, FS_CardinalityType
<1>4. ASSUME NEW m \in S PROVE \E i \in 0 .. Cardinality(S) - 1 : Page(S, 1, i) = {m}
  <2>1. Page(S, 1, Cardinality(Ahead(S, m))) = {m}
    BY <1>2, <1>3 DEF Page
  <2>2. QED BY <1>2, <2>1
<1>5. Page(S, 1, 0) \cup Page(S, Cardinality(S), 1) = S
  BY <1>2, <1>3 DEF Page
<1>6. Page(S, 1, 0) \cap Page(S, Cardinality(S), 1) = {}
  BY <1>2, <1>3 DEF Page
<1>7. QED BY <1>4, <1>5, <1>6

\* PricesSound: a loaded map is the file's while no sync came between, charges and
\* savings make the full price, and the pages of the registry show every model once.
THEOREM PricesAreSound == PricingSpec => []PricesSound
<1>1. PricingInv => PricesSound
  <2>1. PricingInv => MapsAreRead
    BY DEF PricingInv, FreshMap, MapsAreRead
  <2>2. QED BY <2>1, BillsAdd, PagesShow DEF PricingInv, PricesSound
<1>2. QED BY PricingInvInit, PricingInvStep, <1>1, PTL DEF PricingSpec
=============================================================================
