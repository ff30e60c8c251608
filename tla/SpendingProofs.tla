----------------------------- MODULE SpendingProofs -----------------------------
(***************************************************************************)
(* Proofs about the parts of the system that count spend: the budgets of    *)
(* organizations, the budget gate, the cycles of agents, goals, the SDK cost *)
(* tracker and the chargeback of cost centers, for any number of threads,    *)
(* any prices, limits, rules and traces.                                     *)
(***************************************************************************)
EXTENDS Budgets, BudgetGate, Heartbeat, CostTracker, Chargeback, Goals, SumLemmas, SequenceTheorems

-----------------------------------------------------------------------------
(* Enterprise budgets.                                                      *)

\* What a desk that is free and one that takes up a call look like.
LEMMA DeskTakes ==
  ASSUME BudgetsTypeOK, NEW w \in Desks, NEW call \in DeskCalls, call.o \in Org,
         call.p \in Project, Takes(w, call)
  PROVE  /\ desk' \in [Desks -> DeskCalls]
         /\ \A v \in Desks : desk'[v].at # "rest" => desk'[v].o \in Org /\ desk'[v].p \in Project
         /\ bcalls' \in 0 .. MaxCalls
  BY BudgetsAssumption DEF BudgetsTypeOK, Takes

\* What a desk that is done with its call looks like.
LEMMA DeskLeaves ==
  ASSUME BudgetsTypeOK, NEW w \in Desks, Leaves(w)
  PROVE  /\ desk' \in [Desks -> DeskCalls]
         /\ \A v \in Desks : desk'[v].at # "rest" => desk'[v].o \in Org /\ desk'[v].p \in Project
<1>1. DeskFree \in DeskCalls /\ DeskFree.at = "rest"
  BY DEF DeskFree, DeskCalls
<1>2. QED BY <1>1 DEF BudgetsTypeOK, Leaves

\* The state of the budgets stays well formed.
LEMMA BudgetsTypeStep == BudgetsTypeOK /\ [BudgetsNext]_bvars => BudgetsTypeOK'
<1> SUFFICES ASSUME BudgetsTypeOK, [BudgetsNext]_bvars PROVE BudgetsTypeOK'
  OBVIOUS
<1>1. /\ day \in 0 .. LastDay /\ LastDay \in Nat /\ bcalls \in 0 .. MaxCalls /\ MaxCalls \in Nat
      /\ row \in [Project -> Rows] /\ desk \in [Desks -> DeskCalls]
  BY BudgetsAssumption DEF BudgetsTypeOK
<1>2. Absent \in Rows /\ \A p \in Project : row[p].limit \in BudgetLimits \cup {Zero}
  BY <1>1 DEF Absent, Rows
<1>3. \A p \in Project, o \in Org : Mine(p, o) \in BOOLEAN
  BY DEF Mine
<1>4. ASSUME NEW w \in Desks, NEW o \in Org, NEW p \in Project, NEW lim \in BudgetLimits,
             FindBudget(w, o, p, lim)
      PROVE  BudgetsTypeOK'
  <2> DEFINE call == [DeskFree EXCEPT !.at = "write", !.o = o, !.p = p, !.limit = lim,
                                      !.found = Mine(p, o)]
  <2>1. call \in DeskCalls /\ call.o \in Org /\ call.p \in Project
    BY <1>3 DEF DeskFree, DeskCalls
  <2>2. Takes(w, call) /\ UNCHANGED <<row, cost, day>>
    BY <1>4 DEF FindBudget
  <2> HIDE DEF call
  <2>3. QED BY <2>1, <2>2, DeskTakes DEF BudgetsTypeOK
<1>5. ASSUME NEW w \in Desks, NEW o \in Org, NEW p \in Project, NEW est \in Estimates,
             ReadBudget(w, o, p, est)
      PROVE  BudgetsTypeOK'
  <2> DEFINE call == [DeskFree EXCEPT !.at = "check", !.o = o, !.p = p, !.est = est,
                                      !.found = Mine(p, o), !.limit = row[p].limit]
  <2>1. call \in DeskCalls /\ call.o \in Org /\ call.p \in Project
    BY <1>2, <1>3, BudgetsAssumption DEF DeskFree, DeskCalls
  <2>2. Takes(w, call) /\ UNCHANGED <<row, cost, day>>
    BY <1>5 DEF ReadBudget
  <2> HIDE DEF call
  <2>3. QED BY <2>1, <2>2, DeskTakes DEF BudgetsTypeOK
<1>6. ASSUME NEW w \in Desks, WriteBudget(w) PROVE BudgetsTypeOK'
  <2> DEFINE k == desk[w]
  <2>1. k \in DeskCalls /\ k.o \in Org /\ k.p \in Project
    BY <1>6 DEF BudgetsTypeOK, WriteBudget
  <2>2. [org |-> k.o, limit |-> k.limit, by |-> k.o, there |-> TRUE] \in Rows
    BY <2>1 DEF DeskCalls, Rows
  <2>3. [row[k.p] EXCEPT !.limit = k.limit, !.by = k.o] \in Rows
    <3>1. row[k.p] \in Rows /\ k.limit \in BudgetLimits \cup {Zero}
      BY <1>1, <2>1 DEF DeskCalls
    <3>2. QED BY <2>1, <3>1 DEF Rows
  <2>4. row' \in [Project -> Rows]
    BY <1>1, <1>6, <2>1, <2>2, <2>3 DEF WriteBudget
  <2>5. QED BY <1>6, <2>4, DeskLeaves DEF BudgetsTypeOK, WriteBudget
<1>7. ASSUME NEW w \in Desks, CheckProceed(w) PROVE BudgetsTypeOK'
  <2>1. desk[w] \in DeskCalls /\ desk[w].at # "rest" /\ UNCHANGED <<row, cost, day, bcalls>>
    BY <1>1, <1>7 DEF CheckProceed
  <2>2. CASE Leaves(w)
    BY <2>1, <2>2, DeskLeaves DEF BudgetsTypeOK
  <2>3. CASE ~Leaves(w)
    <3> DEFINE over == desk[w].found /\ Exceeds(TrueSpend(desk[w].p), desk[w].limit, desk[w].est)
    <3>1. desk' = [desk EXCEPT ![w].at = "call", ![w].over = over] /\ over \in BOOLEAN
      BY <1>7, <2>3 DEF CheckProceed
    <3> HIDE DEF over
    <3>2. QED BY <1>1, <2>1, <3>1 DEF BudgetsTypeOK, DeskCalls
  <2>4. QED BY <2>2, <2>3
<1>8. ASSUME NEW w \in Desks, LogTrace(w) PROVE BudgetsTypeOK'
  <2> DEFINE k == desk[w]
  <2>1. k \in DeskCalls /\ k.p \in Project /\ k.est \in Nat
    BY <1>1, <1>8 DEF BudgetsTypeOK, LogTrace, DeskCalls
  <2>2. cost' \in [Org \cup {NoOrg} -> [Project -> [0 .. LastDay -> Nat]]]
    BY <1>1, <1>8, <2>1 DEF BudgetsTypeOK, LogTrace, TraceOrg
  <2>3. QED BY <1>8, <2>2, DeskLeaves DEF BudgetsTypeOK, LogTrace
<1>9. ASSUME NEW p \in Project, NEW lim \in BudgetLimits, StoreBudget(p, lim)
      PROVE  BudgetsTypeOK'
  <2>1. [org |-> IF row[p].there THEN row[p].org ELSE NoOrg,
         limit |-> lim, by |-> NoOrg, there |-> TRUE] \in Rows
    BY <1>1 DEF Rows
  <2>2. row' \in [Project -> Rows]
    BY <1>1, <1>9, <2>1 DEF StoreBudget
  <2>3. QED BY <1>1, <1>9, <2>2 DEF StoreBudget, BudgetsTypeOK
<1>10. ASSUME NEW p \in Project, NEW o \in Org, DeleteBudget(o, p) PROVE BudgetsTypeOK'
  BY <1>1, <1>2, <1>10 DEF DeleteBudget, BudgetsTypeOK
<1>11. CASE NextDay
  BY <1>1, <1>11 DEF NextDay, BudgetsTypeOK
<1>12. CASE UNCHANGED bvars
  BY <1>12 DEF bvars, BudgetsTypeOK
<1>13. QED
  BY <1>4, <1>5, <1>6, <1>7, <1>8, <1>9, <1>10, <1>11, <1>12 DEF BudgetsNext

\* No organization's limits are ever written by another organization, however
\* the calls of two organizations that budget a project of one name interleave.
THEOREM TenantsStayApart == BudgetsSpec => []TenantsApart
<1>1. BudgetsInit => BudgetsTypeOK /\ TenantsApart
  <2>1. DeskFree \in DeskCalls /\ DeskFree.at = "rest" /\ Absent \in Rows /\ ~Absent.there
    BY DEF DeskFree, DeskCalls, Absent, Rows
  <2>2. QED BY <2>1, BudgetsAssumption DEF BudgetsInit, BudgetsTypeOK, TenantsApart
<1>2. BudgetsTypeOK /\ TenantsApart /\ [BudgetsNext]_bvars => TenantsApart'
  <2> SUFFICES ASSUME BudgetsTypeOK, TenantsApart, [BudgetsNext]_bvars, NEW p \in Project,
                      row'[p].there
               PROVE  row'[p].by \in {row'[p].org, NoOrg}
    BY DEF TenantsApart
  <2>1. row \in [Project -> Rows] /\ (row[p].there => row[p].by \in {row[p].org, NoOrg})
    BY DEF BudgetsTypeOK, TenantsApart
  <2>2. ASSUME row'[p] = row[p] PROVE row'[p].by \in {row'[p].org, NoOrg}
    BY <2>1, <2>2
  <2>3. ASSUME NEW w \in Desks, WriteBudget(w) PROVE row'[p].by \in {row'[p].org, NoOrg}
    <3> DEFINE k == desk[w]
    <3>1. CASE k.found /\ Mine(k.p, k.o) /\ k.p = p
      <4>1. row'[p] = [row[p] EXCEPT !.limit = k.limit, !.by = k.o] /\ row[p].org = k.o
        BY <2>1, <2>3, <3>1 DEF WriteBudget, Mine
      <4>2. QED BY <2>1, <4>1 DEF Rows
    <3>2. CASE ~k.found /\ ~row[k.p].there /\ k.p = p
      BY <2>1, <2>3, <3>2 DEF WriteBudget
    <3>3. CASE row'[p] = row[p]
      BY <2>2, <3>3
    <3>4. QED BY <2>1, <2>3, <3>1, <3>2, <3>3 DEF WriteBudget
  <2>4. ASSUME NEW q \in Project, NEW lim \in BudgetLimits, StoreBudget(q, lim)
        PROVE  row'[p].by \in {row'[p].org, NoOrg}
    BY <2>1, <2>2, <2>4 DEF StoreBudget
  <2>5. ASSUME NEW q \in Project, NEW o \in Org, DeleteBudget(o, q)
        PROVE  row'[p].by \in {row'[p].org, NoOrg}
    BY <2>1, <2>2, <2>5 DEF DeleteBudget, Absent
  <2>6. CASE UNCHANGED row
    BY <2>2, <2>6
  <2>7. QED
    BY <2>3, <2>4, <2>5, <2>6
       DEF BudgetsNext, FindBudget, ReadBudget, CheckProceed, LogTrace, NextDay, bvars
<1>3. QED BY <1>1, <1>2, BudgetsTypeStep, PTL DEF BudgetsSpec

-----------------------------------------------------------------------------
(* The budget gate.                                                         *)

\* No call costs more than the dearest.
LEMMA DearestCall ==
  /\ MaxCost \in Nat
  /\ \A m \in GateModels : CallCost[m] \in 0 .. MaxCost
<1> DEFINE S == {CallCost[m] : m \in GateModels}
           priceOf == [m \in GateModels |-> CallCost[m]]
<1>1. S \in SUBSET Nat /\ S # {}
  BY GateAssumption
<1>2. priceOf \in Surjection(GateModels, S)
  BY DEF Surjection
<1>3. IsFiniteSet(S)
  BY <1>2, FS_Surjection, GateAssumption
<1> HIDE DEF priceOf
<1>4. MaxCost \in S /\ \A x \in S : MaxCost >= x
  <2>1. \E m \in S : \A x \in S : m >= x
    <3> HIDE DEF S
    <3>1. QED BY <1>1, <1>3, LargestExists
  <2>2. QED BY <2>1 DEF MaxCost, Max
<1>5. QED BY <1>1, <1>4, GateAssumption

\* What follows a model in a chain is a model, and stands further on.
LEMMA NextIsFurther ==
  ASSUME NEW m \in GateModels, NEW p \in 0 .. Len(Chains)
  PROVE  LET alt == NextInChain(ChainOf(p, m), m)
         IN  /\ alt \in GateModels
             /\ alt # m => \E q \in DOMAIN Chains : \E i, j \in DOMAIN Chains[q] :
                              i < j /\ Chains[q][i] = m /\ Chains[q][j] = alt
<1> DEFINE c == ChainOf(p, m)
           alt == NextInChain(c, m)
           naming == {i \in DOMAIN Chains : Place(Chains[i], m) # {}}
<1>1. \A S \in SUBSET Nat : S # {} => FirstOf(S) \in S
  BY SmallestExists DEF FirstOf
<1>2. Chains \in Seq(Seq(GateModels)) /\ Len(Chains) \in Nat /\ DOMAIN Chains = 1 .. Len(Chains)
  <2>1. Chains \in Seq(Seq(GateModels))
    BY GateAssumption
  <2>2. QED BY <2>1
<1>3. \A q \in DOMAIN Chains : Chains[q] \in Seq(GateModels) /\ DOMAIN Chains[q] = 1 .. Len(Chains[q])
                               /\ Len(Chains[q]) \in Nat
  BY <1>2
<1>4. c = <<>> \/ \E q \in DOMAIN Chains : c = Chains[q]
  <2>1. p # 0 => p \in DOMAIN Chains
    BY <1>2
  <2>2. naming # {} => FirstOf(naming) \in DOMAIN Chains
    <3>1. naming \in SUBSET Nat /\ naming \subseteq DOMAIN Chains
      BY <1>2
    <3> HIDE DEF naming
    <3>2. QED BY <1>1, <3>1
  <2>3. QED BY <2>1, <2>2 DEF ChainOf
<1> HIDE DEF c
<1>5. ASSUME alt # m
      PROVE  alt \in GateModels /\ \E q \in DOMAIN Chains : \E i, j \in DOMAIN Chains[q] :
                                      i < j /\ Chains[q][i] = m /\ Chains[q][j] = alt
  <2> DEFINE i == FirstOf(Place(c, m))
  <2>1. Place(c, m) # {} /\ i < Len(c) /\ alt = c[i + 1]
    BY <1>5 DEF NextInChain
  <2>2. PICK q \in DOMAIN Chains : c = Chains[q]
    BY <1>4, <2>1 DEF Place
  <2>3. Place(c, m) \in SUBSET Nat
    BY <1>3, <2>2 DEF Place
  <2>4. i \in DOMAIN c /\ c[i] = m
    BY <1>1, <2>1, <2>3 DEF Place
  <2>5. i + 1 \in DOMAIN c /\ i < i + 1
    BY <1>3, <2>1, <2>2, <2>4
  <2>6. alt \in GateModels
    BY <1>3, <2>1, <2>2, <2>5
  <2> HIDE DEF i, alt
  <2>7. QED BY <2>1, <2>2, <2>4, <2>5, <2>6
<1>6. QED BY <1>5 DEF c

\* What the calls under way will cost.
UnderWay == SumFunctionOnSet([n \in Nodes |-> CallCost[node[n].model]], Running)

\* A downgrade is to a later model of some chain.
Descends(d) ==
    d.action = "downgrade" =>
      \E q \in DOMAIN Chains : \E i, j \in DOMAIN Chains[q] :
          i < j /\ Chains[q][i] = d.asked /\ Chains[q][j] = d.model

GateInv ==
    /\ GateTypeOK
    /\ OvershootBounded
    /\ \A n \in Nodes : Descends(node[n])

Decisions == [action : {"block", "none", "downgrade", "warn", "allow"},
              asked : GateModels, model : GateModels]

\* A decision that lets a call through is about models, descends, and is taken
\* below the block line only.
LEMMA DecisionIsSound ==
  ASSUME GateTypeOK, BlockAt <= 100, NEW m \in GateModels, NEW tokens, NEW p \in 0 .. Len(Chains)
  PROVE  LET d == Decision(m, tokens, p)
         IN  /\ d \in Decisions /\ d.action # "none" /\ Descends(d)
             /\ d.action # "block" => gone <= Line - 1
<1> DEFINE d == Decision(m, tokens, p)
           alt == NextInChain(ChainOf(p, m), m)
<1>1. alt \in GateModels
  BY NextIsFurther
<1>2. \A a \in {"block", "none", "downgrade", "warn", "allow"}, n \in GateModels :
        [action |-> a, asked |-> m, model |-> n] \in Decisions
  BY DEF Decisions
<1>3. \/ d = [action |-> "block", asked |-> m, model |-> m] 
      \/ /\ d = [action |-> "downgrade", asked |-> m, model |-> alt] /\ alt # m
         /\ ~UsedAtLeast(BlockAt)
      \/ /\ d \in {[action |-> "warn", asked |-> m, model |-> m],
                   [action |-> "allow", asked |-> m, model |-> m]}
         /\ ~UsedAtLeast(BlockAt)
  BY DEF Decision
<1>4. ~UsedAtLeast(BlockAt) => gone <= Line - 1
  <2> DEFINE used == BlockAt * allowance
  <2>1. BlockAt \in Nat /\ allowance \in Nat /\ gone \in Nat
    BY GateAssumption DEF GateTypeOK
  <2>2. used \in Nat
    BY <2>1
  <2>3. ~UsedAtLeast(BlockAt) => gone * 100 < used
    BY <2>1 DEF UsedAtLeast
  <2> HIDE DEF used
  <2>4. gone * 100 < used => gone <= ((used + 99) \div 100) - 1
    BY <2>1, <2>2
  <2>5. QED BY <2>3, <2>4 DEF Line, used
<1>5. d \in Decisions /\ d.action # "none" /\ (d.action # "block" => ~UsedAtLeast(BlockAt))
  <2> HIDE DEF alt
  <2>1. QED BY <1>1, <1>2, <1>3
<1>6. Descends(d)
  <2>1. CASE d = [action |-> "downgrade", asked |-> m, model |-> alt] /\ alt # m
    <3>1. \E q \in DOMAIN Chains : \E i, j \in DOMAIN Chains[q] :
             i < j /\ Chains[q][i] = m /\ Chains[q][j] = alt
      BY <2>1, NextIsFurther
    <3> HIDE DEF alt, d
    <3>2. QED BY <2>1, <3>1 DEF Descends
  <2>2. CASE d.action # "downgrade"
    BY <2>2 DEF Descends
  <2> HIDE DEF alt, d
  <2>3. QED BY <1>3, <2>1, <2>2
<1>7. QED BY <1>4, <1>5, <1>6

\* A larger factor, a larger product.
LEMMA TimesGrows ==
  ASSUME NEW a \in Nat, NEW b \in Nat, NEW c \in Nat, a <= b
  PROVE  c * a <= c * b
  OBVIOUS

\* The calls under way cost what the dearest call costs each, at most.
LEMMA UnderWayBound ==
  ASSUME GateTypeOK
  PROVE  UnderWay \in Nat /\ UnderWay <= Cardinality(Nodes) * MaxCost
<1> DEFINE price == [n \in Nodes |-> CallCost[node[n].model]]
<1>1. \A n \in Nodes : price[n] \in 0 .. MaxCost
  BY DearestCall DEF GateTypeOK
<1>2. Running \in SUBSET Nodes /\ IsFiniteSet(Nodes)
  BY GateAssumption DEF Running
<1>3. /\ IsFiniteSet(Running) /\ Cardinality(Running) \in Nat /\ Cardinality(Nodes) \in Nat
      /\ Cardinality(Running) <= Cardinality(Nodes)
  BY <1>2, FS_Subset, FS_CardinalityType
<1>4. MaxCost \in Nat
  BY DearestCall
<1>5. UnderWay = SumFunctionOnSet(price, Running)
  BY DEF UnderWay
<1> HIDE DEF price
<1>6. UnderWay <= MaxCost * Cardinality(Running)
  BY <1>1, <1>2, <1>3, <1>4, <1>5, SumBound
<1>7. \A n \in Running : price[n] \in Nat
  BY <1>1, <1>2, <1>4
<1>8. UnderWay \in Nat
  BY <1>3, <1>5, <1>7, SumType
<1>9. MaxCost * Cardinality(Running) <= Cardinality(Nodes) * MaxCost
  BY <1>3, <1>4, TimesGrows
<1>10. MaxCost * Cardinality(Running) \in Nat /\ Cardinality(Nodes) * MaxCost \in Nat
  BY <1>3, <1>4
<1>11. QED BY <1>6, <1>8, <1>9, <1>10

\* The calls under way do not change with a node that does not run before and
\* after, and lose the cost of a call that ends.
LEMMA UnderWayEnds ==
  ASSUME GateTypeOK, NEW n \in Nodes, node' = [node EXCEPT ![n] = Quiet]
  PROVE  /\ n \notin Running => UnderWay' = UnderWay
         /\ n \in Running => UnderWay = UnderWay' + CallCost[node[n].model]
<1> DEFINE price == [m \in Nodes |-> CallCost[node[m].model]]
           after == [m \in Nodes |-> CallCost[node'[m].model]]
<1>1. /\ node'[n] = Quiet /\ \A m \in Nodes \ {n} : node'[m] = node[m]
  BY DEF GateTypeOK
<1>2. Running' = Running \ {n} /\ Running \subseteq Nodes
  BY <1>1 DEF Running, Quiet
<1>3. IsFiniteSet(Running) /\ IsFiniteSet(Running')
  BY <1>2, FS_Subset, GateAssumption DEF Running
<1>4. \A m \in Running : price[m] \in Int
  BY DearestCall DEF GateTypeOK, Running
<1>5. \A m \in Running' : price[m] = after[m]
  BY <1>1, <1>2
<1>6. UnderWay = SumFunctionOnSet(price, Running) /\ UnderWay' = SumFunctionOnSet(after, Running')
      /\ price[n] = CallCost[node[n].model]
  BY DEF UnderWay
<1> HIDE DEF price, after
<1>7. UnderWay' = SumFunctionOnSet(price, Running')
  BY <1>3, <1>5, <1>6, SumSame
<1>8. n \notin Running => Running' = Running
  BY <1>2
<1>9. n \in Running => SumFunctionOnSet(price, Running) = price[n] + SumFunctionOnSet(price, Running')
  BY <1>2, <1>3, <1>4, SumRemove DEF Removable
<1>10. SumFunctionOnSet(price, Running') \in Int /\ (n \in Running => price[n] \in Int)
  BY <1>2, <1>3, <1>4, SumType
<1>11. QED BY <1>6, <1>7, <1>8, <1>9, <1>10

\* Spend and the calls under way stay within the block line and one call of the
\* dearest model for each node, whatever the gate decides and however the nodes
\* interleave; and a downgrade is to a later model of a chain.  The hypothesis
\* is needed: a gate that blocks past 100 percent never blocks an empty budget,
\* of which 100 percent are always used.
THEOREM GateIsHeld ==
  ASSUME BlockAt <= 100
  PROVE  GateSpec => []GateHolds
<1> DEFINE Below == IF Line = 0 THEN 0 ELSE Line - 1
<1>1. \A q \in Allowances : allowance = q => Below \in Nat /\ Line \in Nat
  <2> SUFFICES ASSUME allowance \in Allowances PROVE Below \in Nat /\ Line \in Nat
    OBVIOUS
  <2> DEFINE used == BlockAt * allowance
  <2>1. used \in Nat
    BY GateAssumption
  <2>2. (used + 99) \div 100 \in Nat
    <3> HIDE DEF used
    <3>1. QED BY <2>1
  <2>3. Line \in Nat
    BY <2>2 DEF Line
  <2>4. QED BY <2>3
<1>2. Quiet \in [action : {"none", "downgrade", "warn", "allow"}, asked : GateModels, model : GateModels]
      /\ Descends(Quiet)
  BY GateAssumption DEF Quiet, AnyModel, Descends
<1>3. Cardinality(Nodes) * MaxCost \in Nat
  BY DearestCall, FS_CardinalityType, GateAssumption
<1>4. GateTypeOK => (OvershootBounded <=> gone + UnderWay <= Below + Cardinality(Nodes) * MaxCost)
  BY DEF OvershootBounded, UnderWay
<1>5. GateInit => GateInv
  <2> SUFFICES ASSUME GateInit PROVE GateInv
    OBVIOUS
  <2>1. GateTypeOK /\ \A n \in Nodes : Descends(node[n])
    BY <1>2, GateAssumption DEF GateInit, GateTypeOK
  <2>2. UnderWay \in Nat /\ UnderWay <= Cardinality(Nodes) * MaxCost /\ gone = 0 /\ Below \in Nat
    BY <1>1, <2>1, UnderWayBound DEF GateInit
  <2> HIDE DEF Below
  <2>3. gone + UnderWay <= Below + Cardinality(Nodes) * MaxCost
    BY <1>3, <2>2
  <2>4. QED BY <1>4, <2>1, <2>3 DEF GateInv, Below
<1>6. ASSUME GateInv, [GateNext]_gatevars PROVE GateInv'
  <2> USE DEF GateInv
  <2>1. /\ gone \in Nat /\ UnderWay \in Nat /\ Below \in Nat /\ Line \in Nat
        /\ gone + UnderWay <= Below + Cardinality(Nodes) * MaxCost
    BY <1>1, <1>4, <1>6, UnderWayBound DEF GateTypeOK
  <2>2. ASSUME GateTypeOK', gone' + UnderWay' <= Below' + Cardinality(Nodes) * MaxCost
        PROVE  OvershootBounded'
    BY <1>4, <2>2 DEF OvershootBounded, UnderWay
  <2>3. ASSUME NEW n \in Nodes, NEW m \in GateModels, NEW tokens \in {0, 1},
               NEW p \in 0 .. Len(Chains), Ask(n, m, tokens, p)
        PROVE  GateInv'
    <3> DEFINE d == Decision(m, tokens, p)
    <3>1. /\ d \in Decisions /\ d.action # "none" /\ Descends(d)
          /\ d.action # "block" => gone <= Line - 1
      BY <1>6, DecisionIsSound
    <3>2. /\ node' = [node EXCEPT ![n] = IF d.action = "block" THEN Quiet ELSE d]
          /\ asks' = asks + 1 /\ asks < MaxAsks /\ node[n].action = "none"
          /\ UNCHANGED <<allowance, gone>>
      BY <2>3 DEF Ask
    <3> HIDE DEF d
    <3>3. (IF d.action = "block" THEN Quiet ELSE d)
            \in [action : {"none", "downgrade", "warn", "allow"}, asked : GateModels, model : GateModels]
      BY <1>2, <3>1 DEF Decisions
    <3>4. GateTypeOK'
      BY <1>6, <3>2, <3>3, GateAssumption DEF GateTypeOK
    <3>5. \A k \in Nodes : Descends(node'[k])
      BY <1>2, <1>6, <3>1, <3>2 DEF GateTypeOK
    <3>6. gone' + UnderWay' <= Below' + Cardinality(Nodes) * MaxCost
      <4>1. Below' = Below
        BY <3>2 DEF Line
      <4>2. CASE d.action = "block"
        <5>1. UnderWay' = UnderWay
          BY <1>6, <3>2, <4>2, UnderWayEnds DEF Running
        <5>2. QED BY <2>1, <3>2, <4>1, <5>1
      <4>3. CASE d.action # "block"
        <5>1. UnderWay' \in Nat /\ UnderWay' <= Cardinality(Nodes) * MaxCost
          <6>1. (UnderWay \in Nat /\ UnderWay <= Cardinality(Nodes) * MaxCost)'
            BY <3>4, UnderWayBound, PTL
          <6>2. MaxCost' = MaxCost
            BY DEF MaxCost
          <6>3. QED BY <6>1
        <5>2. gone <= Below
          BY <2>1, <3>1, <4>3
        <5> HIDE DEF Below
        <5>3. QED BY <1>3, <2>1, <3>2, <4>1, <5>1, <5>2
      <4>4. QED BY <4>2, <4>3
    <3>7. QED BY <2>2, <3>4, <3>5, <3>6
  <2>4. ASSUME NEW n \in Nodes, RecordSpend(n) PROVE GateInv'
    <3>1. /\ n \in Running /\ node' = [node EXCEPT ![n] = Quiet]
          /\ gone' = gone + CallCost[node[n].model] /\ UNCHANGED <<allowance, asks>>
      BY <2>4 DEF RecordSpend, Running
    <3>2. CallCost[node[n].model] \in Nat
      BY <1>6, GateAssumption DEF GateTypeOK
    <3>3. GateTypeOK'
      BY <1>2, <1>6, <3>1, <3>2 DEF GateTypeOK
    <3>4. \A k \in Nodes : Descends(node'[k])
      BY <1>2, <1>6, <3>1 DEF GateTypeOK
    <3>5. UnderWay = UnderWay' + CallCost[node[n].model]
      BY <1>6, <3>1, UnderWayEnds
    <3>6. Below' = Below
      BY <3>1 DEF Line
    <3>7. UnderWay' \in Nat
      <4>1. (UnderWay \in Nat /\ UnderWay <= Cardinality(Nodes) * MaxCost)'
        BY <3>3, UnderWayBound, PTL
      <4>2. QED BY <4>1
    <3> HIDE DEF Below
    <3>8. gone' + UnderWay' <= Below' + Cardinality(Nodes) * MaxCost
      BY <2>1, <3>1, <3>2, <3>5, <3>6, <3>7
    <3>9. QED BY <2>2, <3>3, <3>4, <3>8 DEF Below
  <2>5. ASSUME NEW new \in Allowances, ResetGate(new) PROVE GateInv'
    <3>1. gone' = 0 /\ allowance' = new /\ UNCHANGED <<node, asks>>
      BY <2>5 DEF ResetGate
    <3>2. GateTypeOK'
      BY <1>6, <3>1 DEF GateTypeOK
    <3>3. UnderWay' = UnderWay
      BY <3>1 DEF UnderWay, Running
    <3>4. UnderWay <= Cardinality(Nodes) * MaxCost
      BY <1>6, UnderWayBound
    <3>5. Below' \in Nat
      <4>1. (\A q \in Allowances : allowance = q => Below \in Nat /\ Line \in Nat)'
        BY <1>1, PTL
      <4>2. QED BY <3>1, <4>1
    <3> HIDE DEF Below
    <3>6. gone' + UnderWay' <= Below' + Cardinality(Nodes) * MaxCost
      BY <1>3, <2>1, <3>1, <3>3, <3>4, <3>5
    <3>7. QED BY <1>6, <2>2, <3>1, <3>2, <3>6 DEF Below
  <2>6. CASE UNCHANGED gatevars
    BY <1>6, <2>6 DEF gatevars, GateTypeOK, OvershootBounded, Running, Line
  <2>7. QED BY <1>6, <2>3, <2>4, <2>5, <2>6 DEF GateNext
<1>7. GateInv => GateHolds
  BY DEF GateInv, GateHolds, DowngradesDescend, Running, Descends
<1>8. QED BY <1>5, <1>6, <1>7, PTL DEF GateSpec

-----------------------------------------------------------------------------
(* The cycles and the spend of agents.                                      *)

\* The cost of a list of cycles is a sum over its indices.
CostAt(s) == [i \in DOMAIN s |-> s[i].cost]

\* The cost of a list of cycles, counted by a recursive function, is the sum over its
\* positions.
LEMMA SumCostIsSum ==
  ASSUME NEW s \in Seq(CycleRows)
  PROVE  /\ SumCost(s) = SumFunctionOnSet(CostAt(s), 1 .. Len(s))
         /\ SumCost(s) \in Nat /\ Len(s) \in Nat /\ DOMAIN s = 1 .. Len(s)
         /\ IsFiniteSet(1 .. Len(s))
         /\ \A i \in 1 .. Len(s) : CostAt(s)[i] = s[i].cost /\ s[i].cost \in Nat /\ s[i] \in CycleRows
<1>1. Len(s) \in Nat /\ DOMAIN s = 1 .. Len(s)
  OBVIOUS
<1>2. \A i \in 1 .. Len(s) : s[i] \in CycleRows /\ s[i].cost \in Nat /\ CostAt(s)[i] = s[i].cost
  <2>1. \A i \in 1 .. Len(s) : s[i] \in CycleRows
    BY <1>1
  <2>2. QED BY <1>1, <2>1 DEF CycleRows, CostAt
<1>3. IsFiniteSet(1 .. Len(s))
  BY <1>1, FS_Interval
<1>4. SumCost(s) = SumFunctionOnSet(CostAt(s), 1 .. Len(s))
  BY <1>1 DEF SumCost, SumFunction, CostAt
<1>5. SumFunctionOnSet(CostAt(s), 1 .. Len(s)) \in Nat
  BY <1>2, <1>3, SumType
<1>6. QED BY <1>1, <1>2, <1>3, <1>4, <1>5

\* A new cycle has cost nothing yet.
LEMMA SumCostAppend ==
  ASSUME NEW s \in Seq(CycleRows)
  PROVE  LET t == Append(s, [cost |-> 0, st |-> "active"])
         IN  /\ t \in Seq(CycleRows) /\ Len(t) = Len(s) + 1
             /\ t[Len(s) + 1].cost = 0 /\ \A i \in 1 .. Len(s) : t[i] = s[i]
             /\ SumCost(t) = SumCost(s)
<1> DEFINE new == [cost |-> 0, st |-> "active"]
           t == Append(s, new)
           n == Len(s) + 1
<1>1. new \in CycleRows /\ new.cost = 0
  BY DEF CycleRows
<1> HIDE DEF new
<1>2. t \in Seq(CycleRows) /\ Len(t) = n /\ t[n] = new /\ \A i \in 1 .. Len(s) : t[i] = s[i]
  BY <1>1
<1> HIDE DEF t
<1>3. 1 .. Len(t) = (1 .. Len(s)) \cup {n} /\ n \notin 1 .. Len(s)
  BY <1>2
<1>4. \A i \in (1 .. Len(s)) \cup {n} : CostAt(t)[i] \in Int
  BY <1>2, <1>3, SumCostIsSum
<1>5. SumCost(t) = CostAt(t)[n] + SumFunctionOnSet(CostAt(t), 1 .. Len(s))
  BY <1>2, <1>3, <1>4, SumCostIsSum, SumAdd
<1>6. \A i \in 1 .. Len(s) : CostAt(t)[i] = CostAt(s)[i]
  <2>1. \A i \in 1 .. Len(s) : CostAt(t)[i] = t[i].cost
    BY <1>2, <1>3, SumCostIsSum
  <2>2. QED BY <1>2, <2>1, SumCostIsSum
<1>7. SumFunctionOnSet(CostAt(t), 1 .. Len(s)) = SumCost(s)
  BY <1>6, SumCostIsSum, SumSame
<1>8. CostAt(t)[n] = 0
  BY <1>1, <1>2, <1>3, SumCostIsSum
<1>9. SumCost(s) \in Nat
  BY SumCostIsSum
<1>10. QED BY <1>1, <1>2, <1>5, <1>7, <1>8, <1>9 DEF new, t

\* Writing a cycle changes the sum by what its cost changes.
LEMMA SumCostWrite ==
  ASSUME NEW s \in Seq(CycleRows), NEW i \in 1 .. Len(s), NEW x \in CycleRows
  PROVE  LET t == [s EXCEPT ![i] = x]
         IN  /\ t \in Seq(CycleRows) /\ Len(t) = Len(s) /\ t[i] = x
             /\ SumCost(t) = SumCost(s) + (x.cost - s[i].cost)
<1> DEFINE t == [s EXCEPT ![i] = x]
<1>1. t \in Seq(CycleRows) /\ Len(t) = Len(s) /\ t[i] = x /\ \A j \in (1 .. Len(s)) \ {i} : t[j] = s[j]
  OBVIOUS
<1> HIDE DEF t
<1>2. \A j \in 1 .. Len(s) : CostAt(s)[j] \in Int /\ CostAt(t)[j] \in Int
  BY <1>1, SumCostIsSum
<1>3. \A j \in (1 .. Len(s)) \ {i} : CostAt(s)[j] = CostAt(t)[j]
  <2>1. \A j \in 1 .. Len(s) : CostAt(t)[j] = t[j].cost /\ CostAt(s)[j] = s[j].cost
    BY <1>1, SumCostIsSum
  <2>2. QED BY <1>1, <2>1
<1>4. SumCost(t) = SumCost(s) + (CostAt(t)[i] - CostAt(s)[i])
  <2>1. /\ SumCost(s) = SumFunctionOnSet(CostAt(s), 1 .. Len(s))
        /\ SumCost(t) = SumFunctionOnSet(CostAt(t), 1 .. Len(s))
        /\ IsFiniteSet(1 .. Len(s))
    BY <1>1, SumCostIsSum
  <2>2. SumFunctionOnSet(CostAt(t), 1 .. Len(s))
          = SumFunctionOnSet(CostAt(s), 1 .. Len(s)) + (CostAt(t)[i] - CostAt(s)[i])
    BY <1>2, <1>3, <2>1, SumChange
  <2>3. QED BY <2>1, <2>2
<1>5. CostAt(t)[i] = x.cost /\ CostAt(s)[i] = s[i].cost
  BY <1>1, SumCostIsSum
<1>6. QED BY <1>1, <1>4, <1>5 DEF t

\* No cycles cost nothing.
LEMMA SumCostEmpty == SumCost(<<>>) = 0 /\ <<>> \in Seq(CycleRows) /\ Len(<<>>) = 0
<1>1. <<>> \in Seq(CycleRows) /\ 1 .. Len(<<>>) = {}
  OBVIOUS
<1>2. SumCost(<<>>) = SumFunctionOnSet(CostAt(<<>>), {})
  BY <1>1, SumCostIsSum
<1>3. QED BY <1>1, <1>2, SumEmpty

\* Overwriting an entry of a list, if there is one at that place, leaves a list.
LEMMA OverwriteType ==
  ASSUME NEW R, NEW s \in Seq(R), NEW i \in Nat, NEW x, i \in 1 .. Len(s) => x \in R
  PROVE  [s EXCEPT ![i] = x] \in Seq(R) /\ Len([s EXCEPT ![i] = x]) = Len(s)
<1>1. CASE i \in 1 .. Len(s)
  BY <1>1
<1>2. CASE i \notin 1 .. Len(s)
  <2>1. DOMAIN s = 1 .. Len(s) /\ s = [j \in DOMAIN s |-> s[j]]
    OBVIOUS
  <2>2. [s EXCEPT ![i] = x] = s
    BY <1>2, <2>1
  <2>3. QED BY <2>2
<1>3. QED BY <1>1, <1>2

\* A caller that takes up, moves on in or leaves a call.
CallersOK == /\ caller \in [Callers -> AgentCalls]
             /\ \A c \in Callers : caller[c].a = Nobody <=> caller[c].at = "free"

\* A caller goes on to the next step of its own call.
LEMMA CallerMoves ==
  ASSUME HeartbeatTypeOK, NEW c \in Callers, NEW call \in AgentCalls,
         call.a = Nobody <=> call.at = "free", caller' = [caller EXCEPT ![c] = call]
  PROVE  CallersOK' /\ caller'[c] = call /\ \A d \in Callers \ {c} : caller'[d] = caller[d]
  BY DEF HeartbeatTypeOK, CallersOK

\* A caller with nothing to do is of the right kind.
LEMMA FreeCaller ==
  Free \in AgentCalls /\ Free.a = Nobody /\ Free.at = "free" /\ Free.cycle.id = 0
  BY DEF Free, AgentCalls, NoCycle, CycleRefs

\* What a caller holds of the cycle it works on.
LEMMA CallIs ==
  ASSUME HeartbeatTypeOK, NEW c \in Callers
  PROVE  /\ caller[c] \in AgentCalls /\ caller[c].cycle \in CycleRefs
         /\ caller[c].cycle.id \in Nat /\ caller[c].cycle.cost \in Nat /\ caller[c].amount \in Nat
         /\ caller[c].at # "free" => caller[c].a \in Agents
  BY DEF HeartbeatTypeOK, AgentCalls, CycleRefs

\* A cycle that is opened.
LEMMA OpenedType ==
  ASSUME HeartbeatTypeOK, NEW a \in Agents, Opened(a)
  PROVE  /\ active' \in [Agents -> CycleRefs] /\ cycles' \in [Agents -> Seq(CycleRows)]
         /\ \A b \in Agents \ {a} : active'[b] = active[b] /\ cycles'[b] = cycles[b]
         /\ active'[a].id = Len(cycles[a]) + 1 /\ active'[a].cost = 0
         /\ cycles'[a] = Append(cycles[a], [cost |-> 0, st |-> "active"])
<1>1. Len(cycles[a]) \in Nat /\ Append(cycles[a], [cost |-> 0, st |-> "active"]) \in Seq(CycleRows)
  <2>1. cycles[a] \in Seq(CycleRows)
    BY DEF HeartbeatTypeOK
  <2>2. QED BY <2>1, SumCostAppend, SumCostIsSum
<1>2. [id |-> Len(cycles[a]) + 1, cost |-> 0] \in CycleRefs
  BY <1>1 DEF CycleRefs
<1>3. QED BY <1>1, <1>2 DEF HeartbeatTypeOK, Opened

\* Calls that begin.
LEMMA BeginType ==
  ASSUME HeartbeatTypeOK, NEW c \in Callers, NEW a \in Agents,
         \/ \E amount \in Spends : FindCycle(c, a, amount)
         \/ StartCycle(c, a)
         \/ \E again \in BOOLEAN : PopCycle(c, a, again)
  PROVE  HeartbeatTypeOK'
<1>1. a # Nobody /\ active[a] \in CycleRefs /\ NoCycle \in CycleRefs
  BY HeartbeatAssumption DEF HeartbeatTypeOK, NoCycle, CycleRefs
<1>2. ASSUME NEW amount \in Spends, FindCycle(c, a, amount) PROVE HeartbeatTypeOK'
  <2> DEFINE call == [Free EXCEPT !.at = "add", !.a = a, !.cycle = active[a], !.amount = amount]
  <2>1. call \in AgentCalls /\ call.a # Nobody /\ call.at # "free" /\ call.a = a
    BY <1>1, HeartbeatAssumption DEF Free, AgentCalls
  <2>2. Enters(c, call) /\ records < MaxSpends /\ records' = records + 1
        /\ UNCHANGED <<active, paused, cycles, budget, Past, touches>>
    BY <1>2 DEF FindCycle
  <2> HIDE DEF call
  <2>3. CallersOK' /\ tangled' \subseteq Agents
    BY <2>1, <2>2, CallerMoves DEF Enters, HeartbeatTypeOK
  <2>4. QED BY <2>2, <2>3, HeartbeatAssumption DEF HeartbeatTypeOK, CallersOK, Past
<1>3. CASE StartCycle(c, a)
  BY <1>3, OpenedType DEF StartCycle, HeartbeatTypeOK, Past, Counts
<1>4. ASSUME NEW again \in BOOLEAN, PopCycle(c, a, again) PROVE HeartbeatTypeOK'
  <2> DEFINE call == [Free EXCEPT !.at = "persist", !.a = a, !.cycle = active[a], !.again = again]
  <2>1. call \in AgentCalls /\ call.a # Nobody /\ call.at # "free" /\ call.a = a
    BY <1>1 DEF Free, AgentCalls
  <2>2. Enters(c, call) /\ active' = [active EXCEPT ![a] = NoCycle]
        /\ UNCHANGED <<paused, cycles, budget, Past, Counts>>
    BY <1>4 DEF PopCycle
  <2> HIDE DEF call
  <2>3. CallersOK' /\ tangled' \subseteq Agents
    BY <2>1, <2>2, CallerMoves DEF Enters, HeartbeatTypeOK
  <2>4. QED BY <1>1, <2>2, <2>3 DEF HeartbeatTypeOK, CallersOK, Past, Counts
<1>5. QED BY <1>2, <1>3, <1>4

\* Calls that go on or end.
LEMMA GoOnType ==
  ASSUME HeartbeatTypeOK, NEW c \in Callers,
         AddSpend(c) \/ WriteSpend(c) \/ PersistCycle(c) \/ CheckAgentBudget(c)
  PROVE  HeartbeatTypeOK'
<1> DEFINE k == caller[c]
           a == k.a
           i == k.cycle.id
<1>1. /\ k \in AgentCalls /\ k.cycle \in CycleRefs /\ i \in Nat /\ k.cycle.cost \in Nat
      /\ k.amount \in Nat /\ a \in Agents /\ a # Nobody /\ k.at # "free"
  BY CallIs, HeartbeatAssumption DEF AddSpend, WriteSpend, PersistCycle, CheckAgentBudget
<1>2. active[a] \in CycleRefs /\ cycles[a] \in Seq(CycleRows)
  BY <1>1 DEF HeartbeatTypeOK
<1>3. CASE AddSpend(c)
  <2> DEFINE live == active[a].id = i
             sum == (IF live THEN active[a].cost ELSE k.cycle.cost) + k.amount
             call == [k EXCEPT !.at = "write", !.cycle.cost = sum]
  <2>1. sum \in Nat
    BY <1>1, <1>2 DEF CycleRefs
  <2>2. /\ active' = IF live THEN [active EXCEPT ![a].cost = sum] ELSE active
        /\ spent' = [spent EXCEPT ![a] = @ + k.amount]
        /\ caller' = [caller EXCEPT ![c] = call]
        /\ UNCHANGED <<paused, cycles, budget, exceeded, excused, tangled, Counts>>
    BY <1>3 DEF AddSpend, Moves
  <2> HIDE DEF sum
  <2>3. call \in AgentCalls /\ call.a = a /\ call.at = "write"
    BY <1>1, <2>1 DEF AgentCalls, CycleRefs
  <2>4. active' \in [Agents -> CycleRefs]
    <3>1. [active[a] EXCEPT !.cost = sum] \in CycleRefs
      BY <1>2, <2>1 DEF CycleRefs
    <3>2. QED BY <1>1, <2>2, <3>1 DEF HeartbeatTypeOK
  <2>5. spent' \in [Agents -> Int]
    BY <1>1, <2>2 DEF HeartbeatTypeOK
  <2> HIDE DEF call
  <2>6. CallersOK'
    BY <1>1, <2>2, <2>3, CallerMoves
  <2>7. QED BY <2>2, <2>4, <2>5, <2>6 DEF HeartbeatTypeOK, CallersOK, Counts
<1>4. CASE WriteSpend(c)
  <2> DEFINE entry == [cycles[a][i] EXCEPT !.cost = k.cycle.cost]
  <2>1. /\ cycles' = [cycles EXCEPT ![a] = [cycles[a] EXCEPT ![i] = entry]]
        /\ caller' = [caller EXCEPT ![c] = Free]
        /\ UNCHANGED <<active, paused, budget, Past, tangled, Counts>>
    BY <1>4 DEF WriteSpend, WrittenCost, Moves
  <2>2. i \in 1 .. Len(cycles[a]) => entry \in CycleRows
    <3>1. i \in 1 .. Len(cycles[a]) => cycles[a][i] \in CycleRows
      BY <1>2, SumCostIsSum
    <3>2. QED BY <1>1, <3>1 DEF CycleRows
  <2> HIDE DEF entry
  <2>3. [cycles[a] EXCEPT ![i] = entry] \in Seq(CycleRows)
    BY <1>1, <1>2, <2>2, OverwriteType
  <2>4. CallersOK'
    BY <2>1, FreeCaller, CallerMoves
  <2>5. QED BY <1>1, <2>1, <2>3, <2>4 DEF HeartbeatTypeOK, CallersOK, Past, Counts
<1>5. CASE PersistCycle(c)
  <2> DEFINE entry == [cost |-> k.cycle.cost, st |-> EndStatus(a, k.cycle.cost)]
             call == [k EXCEPT !.at = "budget"]
  <2>1. /\ cycles' = [cycles EXCEPT ![a] = [cycles[a] EXCEPT ![i] = entry]]
        /\ caller' = [caller EXCEPT ![c] = call]
        /\ UNCHANGED <<active, paused, budget, Past, tangled, Counts>>
    BY <1>5 DEF PersistCycle, Moves
  <2>2. entry \in CycleRows
    BY <1>1 DEF CycleRows, EndStatus
  <2>3. call \in AgentCalls /\ call.a = a /\ call.at = "budget"
    BY <1>1 DEF AgentCalls
  <2> HIDE DEF entry, call
  <2>4. [cycles[a] EXCEPT ![i] = entry] \in Seq(CycleRows)
    BY <1>1, <1>2, <2>2, OverwriteType
  <2>5. CallersOK'
    BY <1>1, <2>1, <2>3, CallerMoves
  <2>6. QED BY <1>1, <2>1, <2>4, <2>5 DEF HeartbeatTypeOK, CallersOK, Past, Counts
<1>6. CASE CheckAgentBudget(c)
  <2>1. /\ caller' = [caller EXCEPT ![c] = Free]
        /\ UNCHANGED <<budget, spent, excused, tangled, Counts>>
        /\ Opened(a) \/ UNCHANGED <<active, cycles>>
    BY <1>6 DEF CheckAgentBudget, Moves
  <2>2. paused' \subseteq Agents /\ exceeded' \in [Agents -> Nat]
    <3>1. /\ paused' = paused \/ paused' = paused \cup {a}
          /\ exceeded' = exceeded \/ exceeded' = [exceeded EXCEPT ![a] = @ + 1]
      BY <1>6 DEF CheckAgentBudget
    <3>2. QED BY <1>1, <3>1 DEF HeartbeatTypeOK
  <2>3. CallersOK'
    BY <2>1, FreeCaller, CallerMoves
  <2>4. QED BY <1>1, <2>1, <2>2, <2>3, OpenedType DEF HeartbeatTypeOK, CallersOK, Counts
<1>7. QED BY <1>3, <1>4, <1>5, <1>6

\* Operators and restarts.
LEMMA TouchType ==
  ASSUME HeartbeatTypeOK,
         \/ \E a \in Agents : \/ \E b \in AgentBudgets : SetAgentBudget(a, b)
                              \/ PauseAgent(a) \/ ResumeAgent(a) \/ ResetAgent(a)
         \/ Restart
  PROVE  HeartbeatTypeOK'
<1>1. touches \in 0 .. MaxTouches /\ MaxTouches \in Nat
  BY HeartbeatAssumption DEF HeartbeatTypeOK
<1>2. Touch => touches' \in 0 .. MaxTouches
  BY <1>1 DEF Touch
<1>3. NoCycle \in CycleRefs /\ <<>> \in Seq(CycleRows)
  BY SumCostEmpty DEF NoCycle, CycleRefs
<1>4. ASSUME NEW a \in Agents, NEW b \in AgentBudgets, SetAgentBudget(a, b) PROVE HeartbeatTypeOK'
  BY <1>2, <1>4, HeartbeatAssumption DEF SetAgentBudget, HeartbeatTypeOK, Past
<1>5. ASSUME NEW a \in Agents, PauseAgent(a) \/ ResumeAgent(a) PROVE HeartbeatTypeOK'
  <2>1. CASE PauseAgent(a)
    BY <1>2, <2>1 DEF PauseAgent, HeartbeatTypeOK, Past
  <2>2. CASE ResumeAgent(a)
    BY <1>2, <2>2 DEF ResumeAgent, HeartbeatTypeOK
  <2>3. QED BY <1>5, <2>1, <2>2
<1>6. ASSUME NEW a \in Agents, ResetAgent(a) PROVE HeartbeatTypeOK'
  BY <1>2, <1>3, <1>6 DEF ResetAgent, HeartbeatTypeOK
<1>7. CASE Restart
  <2>1. \A a \in Agents : Unwritten(a) \in Int
    <3> SUFFICES ASSUME NEW a \in Agents PROVE Unwritten(a) \in Int
      OBVIOUS
    <3> DEFINE pending == {c \in Callers : caller[c].a = a /\ caller[c].at = "write"}
               amount == [c \in Callers |-> caller[c].amount]
    <3>1. IsFiniteSet(pending) /\ pending \subseteq Callers
      BY FS_Subset, HeartbeatAssumption
    <3>2. \A c \in pending : amount[c] \in Int
      BY CallIs
    <3>3. Unwritten(a) = SumFunctionOnSet(amount, pending)
      BY DEF Unwritten
    <3> HIDE DEF pending, amount
    <3>4. QED BY <3>1, <3>2, <3>3, SumType
  <2>2. \A a \in Agents : spent[a] - Unwritten(a) \in Int /\ excused[a] + 1 \in Nat
    BY <2>1 DEF HeartbeatTypeOK
  <2>3. spent' \in [Agents -> Int] /\ excused' \in [Agents -> Nat]
    BY <1>7, <2>2 DEF Restart
  <2>4. caller' \in [Callers -> AgentCalls] /\ \A c \in Callers : caller'[c] = Free
    BY <1>7, FreeCaller DEF Restart
  <2>5. active' \in [Agents -> CycleRefs] /\ paused' \subseteq Agents /\ touches' \in 0 .. MaxTouches
    BY <1>2, <1>3, <1>7 DEF Restart
  <2>6. QED BY <1>7, <2>3, <2>4, <2>5, FreeCaller DEF Restart, HeartbeatTypeOK
<1>8. QED BY <1>4, <1>5, <1>6, <1>7

\* What is recorded of the agents stays well formed.
LEMMA HeartbeatTypeStep == HeartbeatTypeOK /\ [HeartbeatNext]_hvars => HeartbeatTypeOK'
<1> SUFFICES ASSUME HeartbeatTypeOK, [HeartbeatNext]_hvars PROVE HeartbeatTypeOK'
  OBVIOUS
<1>1. CASE UNCHANGED hvars
  BY <1>1 DEF hvars, HeartbeatTypeOK
<1>2. CASE HeartbeatNext
  BY <1>2, BeginType, GoOnType, TouchType DEF HeartbeatNext
<1>3. QED BY <1>1, <1>2

\* What a call in progress knows of the cycle of its agent: where the sum of
\* the cycles stands, and what is still to be written.
CallOK(c, a) ==
    LET k == caller[c]
        s == cycles[a]
        i == k.cycle.id IN
    \/ /\ k.at = "add" /\ SumCost(s) = spent[a] /\ i \in 1 .. Len(s)
       /\ active[a] = k.cycle /\ k.cycle.cost = s[i].cost
    \/ /\ k.at = "write" /\ SumCost(s) + k.amount = spent[a] /\ i \in 1 .. Len(s)
       /\ active[a] = k.cycle /\ k.cycle.cost = s[i].cost + k.amount
    \/ /\ k.at = "persist" /\ SumCost(s) = spent[a] /\ i \in 1 .. Len(s)
       /\ active[a].id = 0 /\ k.cycle.cost = s[i].cost
    \/ k.at = "budget" /\ SumCost(s) = spent[a] /\ active[a].id = 0

\* An agent that is in no call: its sum is written, and so is its cycle.
IdleOK(a) ==
    /\ SumCost(cycles[a]) = spent[a]
    /\ active[a].id # 0 => /\ active[a].id \in 1 .. Len(cycles[a])
                           /\ active[a].cost = cycles[a][active[a].id].cost

\* An agent that never had two calls at once.
AgentOK(a) ==
    \/ ~InCall(a) /\ IdleOK(a)
    \/ \E c \in Callers : /\ caller[c].a = a /\ \A d \in Callers \ {c} : caller[d].a # a
                          /\ CallOK(c, a)

SpendInv == \A a \in Agents \ tangled : AgentOK(a)

\* A step for one agent leaves the others as they are.
LEMMA OtherAgents ==
  ASSUME HeartbeatTypeOK, SpendInv, NEW a \in Agents, NEW c \in Callers, tangled \subseteq tangled',
         \A b \in Agents \ {a} : active'[b] = active[b] /\ cycles'[b] = cycles[b] /\ spent'[b] = spent[b],
         caller[c].a \in {a, Nobody}, caller'[c].a \in {a, Nobody},
         \A d \in Callers \ {c} : caller'[d] = caller[d],
         a \notin tangled' => AgentOK(a)'
  PROVE  SpendInv'
<1> SUFFICES ASSUME NEW b \in Agents, b \notin tangled' PROVE AgentOK(b)'
  BY DEF SpendInv
<1>1. CASE b = a
  BY <1>1
<1>2. CASE b # a
  <2>1. b # Nobody /\ b \notin tangled /\ AgentOK(b)
    BY HeartbeatAssumption DEF SpendInv
  <2>2. caller[c].a # b /\ caller'[c].a # b
    BY <1>2, <2>1
  <2>3. InCall(b)' <=> InCall(b)
    BY <2>2 DEF InCall
  <2>4. IdleOK(b) => IdleOK(b)'
    BY <1>2 DEF IdleOK
  <2>5. \A d \in Callers : caller[d].a = b /\ CallOK(d, b) => CallOK(d, b)'
    BY <1>2, <2>2 DEF CallOK
  <2>6. QED BY <2>1, <2>2, <2>3, <2>4, <2>5 DEF AgentOK
<1>3. QED BY <1>1, <1>2

\* Calls that begin.
LEMMA BeginKeeps ==
  ASSUME HeartbeatTypeOK, SpendInv, NEW c \in Callers, NEW a \in Agents,
         \/ \E amount \in Spends : FindCycle(c, a, amount)
         \/ StartCycle(c, a)
         \/ \E again \in BOOLEAN : PopCycle(c, a, again)
  PROVE  SpendInv'
<1>1. a # Nobody /\ active[a] \in CycleRefs /\ cycles[a] \in Seq(CycleRows) /\ caller[c] = Free
      /\ caller[c].a = Nobody
  BY HeartbeatAssumption, FreeCaller
     DEF HeartbeatTypeOK, FindCycle, StartCycle, PopCycle, Enters
<1>2. tangled \subseteq tangled' /\ (a \notin tangled' => a \notin tangled /\ ~InCall(a))
  BY <1>1 DEF FindCycle, StartCycle, PopCycle, Enters, Free
<1>3. a \notin tangled' => IdleOK(a) /\ \A d \in Callers : caller[d].a # a
  BY <1>2 DEF SpendInv, AgentOK, InCall
<1>4. ASSUME NEW amount \in Spends, FindCycle(c, a, amount) PROVE SpendInv'
  <2> DEFINE call == [Free EXCEPT !.at = "add", !.a = a, !.cycle = active[a], !.amount = amount]
  <2>1. call \in AgentCalls /\ call.a = a /\ call.at = "add" /\ call.cycle = active[a]
    BY <1>1, HeartbeatAssumption DEF Free, AgentCalls
  <2>2. caller' = [caller EXCEPT ![c] = call] /\ active[a].id # 0
        /\ UNCHANGED <<active, cycles, spent>>
    BY <1>4 DEF FindCycle, Enters, Past
  <2> HIDE DEF call
  <2>3. caller'[c] = call /\ \A d \in Callers \ {c} : caller'[d] = caller[d]
    BY <1>1, <2>1, <2>2, CallerMoves
  <2>4. a \notin tangled' => AgentOK(a)'
    <3> SUFFICES ASSUME a \notin tangled' PROVE AgentOK(a)'
      OBVIOUS
    <3>1. CallOK(c, a)'
      BY <1>3, <2>1, <2>2, <2>3 DEF CallOK, IdleOK
    <3>2. QED BY <1>3, <2>1, <2>3, <3>1 DEF AgentOK
  <2>5. QED BY <1>1, <1>2, <2>1, <2>2, <2>3, <2>4, OtherAgents
<1>5. CASE StartCycle(c, a)
  <2>1. Opened(a) /\ UNCHANGED <<caller, spent>>
    BY <1>5 DEF StartCycle, Past
  <2>2. /\ \A b \in Agents \ {a} : active'[b] = active[b] /\ cycles'[b] = cycles[b]
        /\ active'[a].id = Len(cycles[a]) + 1 /\ active'[a].cost = 0
        /\ cycles'[a] = Append(cycles[a], [cost |-> 0, st |-> "active"])
    BY <2>1, OpenedType
  <2>3. /\ SumCost(cycles'[a]) = SumCost(cycles[a]) /\ Len(cycles'[a]) = Len(cycles[a]) + 1
        /\ cycles'[a][Len(cycles[a]) + 1].cost = 0 /\ Len(cycles[a]) \in Nat
    BY <1>1, <2>2, SumCostAppend, SumCostIsSum
  <2>4. a \notin tangled' => AgentOK(a)'
    BY <1>2, <1>3, <2>1, <2>2, <2>3 DEF AgentOK, InCall, IdleOK
  <2>5. QED BY <1>1, <1>2, <2>1, <2>2, <2>4, OtherAgents
<1>6. ASSUME NEW again \in BOOLEAN, PopCycle(c, a, again) PROVE SpendInv'
  <2> DEFINE call == [Free EXCEPT !.at = "persist", !.a = a, !.cycle = active[a], !.again = again]
  <2>1. call \in AgentCalls /\ call.a = a /\ call.at = "persist" /\ call.cycle = active[a]
    BY <1>1 DEF Free, AgentCalls
  <2>2. /\ caller' = [caller EXCEPT ![c] = call] /\ active[a].id # 0
        /\ active' = [active EXCEPT ![a] = NoCycle] /\ UNCHANGED <<cycles, spent>>
    BY <1>6 DEF PopCycle, Enters, Past
  <2> HIDE DEF call
  <2>3. caller'[c] = call /\ \A d \in Callers \ {c} : caller'[d] = caller[d]
    BY <1>1, <2>1, <2>2, CallerMoves
  <2>4. active'[a].id = 0 /\ \A b \in Agents \ {a} : active'[b] = active[b]
    BY <2>2 DEF HeartbeatTypeOK, NoCycle
  <2>5. a \notin tangled' => AgentOK(a)'
    <3> SUFFICES ASSUME a \notin tangled' PROVE AgentOK(a)'
      OBVIOUS
    <3>1. CallOK(c, a)'
      BY <1>3, <2>1, <2>2, <2>3, <2>4 DEF CallOK, IdleOK
    <3>2. QED BY <1>3, <2>1, <2>3, <3>1 DEF AgentOK
  <2>6. QED BY <1>1, <1>2, <2>1, <2>2, <2>3, <2>4, <2>5, OtherAgents
<1>7. QED BY <1>4, <1>5, <1>6

\* Calls that go on or end.
LEMMA GoOnKeeps ==
  ASSUME HeartbeatTypeOK, SpendInv, NEW c \in Callers,
         AddSpend(c) \/ WriteSpend(c) \/ PersistCycle(c) \/ CheckAgentBudget(c)
  PROVE  SpendInv'
<1> PICK a \in Agents : a = caller[c].a
  BY CallIs DEF AddSpend, WriteSpend, PersistCycle, CheckAgentBudget
<1> DEFINE k == caller[c]
           i == k.cycle.id
           s == cycles[a]
<1>1. /\ k \in AgentCalls /\ k.cycle \in CycleRefs /\ i \in Nat /\ k.cycle.cost \in Nat
      /\ k.amount \in Nat /\ k.a = a /\ a # Nobody /\ k.at # "free"
  BY CallIs, HeartbeatAssumption DEF AddSpend, WriteSpend, PersistCycle, CheckAgentBudget
<1>2. active[a] \in CycleRefs /\ s \in Seq(CycleRows) /\ spent[a] \in Int /\ SumCost(s) \in Nat
  BY <1>1, SumCostIsSum DEF HeartbeatTypeOK
<1>3. tangled' = tangled
  BY DEF AddSpend, WriteSpend, PersistCycle, CheckAgentBudget
<1>4. a \notin tangled => CallOK(c, a) /\ \A d \in Callers \ {c} : caller[d].a # a
  BY <1>1 DEF SpendInv, AgentOK, InCall
<1>5. CASE AddSpend(c)
  <2> DEFINE live == active[a].id = i
             sum == (IF live THEN active[a].cost ELSE k.cycle.cost) + k.amount
             call == [k EXCEPT !.at = "write", !.cycle.cost = sum]
  <2>1. /\ active' = IF live THEN [active EXCEPT ![a].cost = sum] ELSE active
        /\ spent' = [spent EXCEPT ![a] = @ + k.amount]
        /\ caller' = [caller EXCEPT ![c] = call] /\ cycles' = cycles /\ k.at = "add"
    BY <1>5 DEF AddSpend, Moves
  <2>2. sum \in Nat
    <3>1. active[a].cost \in Nat
      BY <1>2 DEF CycleRefs
    <3>2. QED BY <1>1, <3>1
  <2>3. /\ call \in AgentCalls /\ call.a = a /\ call.at = "write" /\ call.amount = k.amount
        /\ call.cycle = [k.cycle EXCEPT !.cost = sum]
    <3> HIDE DEF sum
    <3>1. QED BY <1>1, <2>2 DEF AgentCalls, CycleRefs
  <2>4. a \notin tangled => live /\ sum = k.cycle.cost + k.amount
    BY <1>4, <2>1 DEF CallOK
  <2>5. live => active'[a] = [active[a] EXCEPT !.cost = sum]
    BY <1>1, <2>1 DEF HeartbeatTypeOK
  <2>6. \A b \in Agents \ {a} : active'[b] = active[b] /\ spent'[b] = spent[b]
    BY <1>1, <2>1 DEF HeartbeatTypeOK
  <2>7. spent'[a] = spent[a] + k.amount
    BY <1>1, <2>1 DEF HeartbeatTypeOK
  <2> HIDE DEF call
  <2>8. caller'[c] = call /\ \A d \in Callers \ {c} : caller'[d] = caller[d]
    BY <1>1, <2>1, <2>3, CallerMoves
  <2>9. a \notin tangled' => AgentOK(a)'
    <3> SUFFICES ASSUME a \notin tangled' PROVE AgentOK(a)'
      OBVIOUS
    <3>1. /\ SumCost(s) = spent[a] /\ i \in 1 .. Len(s) /\ active[a] = k.cycle
          /\ k.cycle.cost = s[i].cost
      BY <1>3, <1>4, <2>1 DEF CallOK
    <3>2. call.cycle.id = i /\ call.cycle.cost = sum /\ active'[a] = call.cycle
      BY <1>1, <1>3, <2>3, <2>4, <2>5, <3>1 DEF CycleRefs
    <3>3. CallOK(c, a)'
      <4>1. SumCost(s) + k.amount = spent'[a] /\ sum = s[i].cost + k.amount
        BY <1>1, <1>2, <1>3, <2>4, <2>7, <3>1
      <4> HIDE DEF sum
      <4>2. QED BY <2>1, <2>3, <2>8, <3>1, <3>2, <4>1 DEF CallOK
    <3>4. QED BY <1>3, <1>4, <2>3, <2>8, <3>3 DEF AgentOK
  <2>10. QED BY <1>1, <1>3, <2>1, <2>3, <2>6, <2>8, <2>9, OtherAgents
<1>6. CASE WriteSpend(c)
  <2> DEFINE entry == [s[i] EXCEPT !.cost = k.cycle.cost]
             t == [s EXCEPT ![i] = entry]
  <2>1. /\ cycles' = [cycles EXCEPT ![a] = t] /\ k.at = "write"
        /\ caller' = [caller EXCEPT ![c] = Free] /\ UNCHANGED <<active, spent>>
    BY <1>6 DEF WriteSpend, WrittenCost, Moves, Past
  <2>2. caller'[c] = Free /\ \A d \in Callers \ {c} : caller'[d] = caller[d]
    BY <2>1, FreeCaller, CallerMoves
  <2>3. i \in 1 .. Len(s) => entry \in CycleRows /\ entry.cost = k.cycle.cost
    <3>1. i \in 1 .. Len(s) => s[i] \in CycleRows
      BY <1>2, SumCostIsSum
    <3>2. QED BY <1>1, <3>1 DEF CycleRows
  <2> HIDE DEF entry
  <2>4. cycles'[a] = t /\ \A b \in Agents \ {a} : cycles'[b] = cycles[b]
    BY <1>1, <2>1 DEF HeartbeatTypeOK
  <2>5. i \in 1 .. Len(s) => Len(t) = Len(s) /\ t[i] = entry
                            /\ SumCost(t) = SumCost(s) + (k.cycle.cost - s[i].cost)
    BY <1>2, <2>3, SumCostWrite
  <2> HIDE DEF t
  <2>6. a \notin tangled' => AgentOK(a)'
    <3> SUFFICES ASSUME a \notin tangled' PROVE AgentOK(a)'
      OBVIOUS
    <3>1. /\ SumCost(s) + k.amount = spent[a] /\ i \in 1 .. Len(s) /\ active[a] = k.cycle
          /\ k.cycle.cost = s[i].cost + k.amount /\ s[i].cost \in Nat
      BY <1>2, <1>3, <1>4, <2>1, SumCostIsSum DEF CallOK
    <3>2. SumCost(t) = spent[a] /\ Len(t) = Len(s) /\ t[i].cost = k.cycle.cost
      <4>1. /\ Len(t) = Len(s) /\ t[i].cost = k.cycle.cost
            /\ SumCost(t) = SumCost(s) + (k.cycle.cost - s[i].cost)
        BY <2>3, <2>5, <3>1
      <4>2. SumCost(s) + (k.cycle.cost - s[i].cost) = spent[a]
        BY <1>1, <1>2, <3>1
      <4>3. QED BY <4>1, <4>2
    <3>3. IdleOK(a)'
      BY <2>1, <2>4, <3>1, <3>2 DEF IdleOK
    <3>4. ~InCall(a)'
      BY <1>1, <1>3, <1>4, <2>2, FreeCaller DEF InCall
    <3>5. QED BY <3>3, <3>4 DEF AgentOK
  <2>7. QED BY <1>1, <1>3, <2>1, <2>2, <2>4, <2>6, OtherAgents, FreeCaller
<1>7. CASE PersistCycle(c)
  <2> DEFINE entry == [cost |-> k.cycle.cost, st |-> EndStatus(a, k.cycle.cost)]
             call == [k EXCEPT !.at = "budget"]
             t == [s EXCEPT ![i] = entry]
  <2>1. /\ cycles' = [cycles EXCEPT ![a] = t] /\ k.at = "persist"
        /\ caller' = [caller EXCEPT ![c] = call] /\ UNCHANGED <<active, spent>>
    BY <1>7 DEF PersistCycle, Moves, Past
  <2>2. entry \in CycleRows /\ entry.cost = k.cycle.cost
    BY <1>1 DEF CycleRows, EndStatus
  <2>3. call \in AgentCalls /\ call.a = a /\ call.at = "budget"
    BY <1>1 DEF AgentCalls
  <2> HIDE DEF entry, call
  <2>4. caller'[c] = call /\ \A d \in Callers \ {c} : caller'[d] = caller[d]
    BY <1>1, <2>1, <2>3, CallerMoves
  <2>5. cycles'[a] = t /\ \A b \in Agents \ {a} : cycles'[b] = cycles[b]
    BY <1>1, <2>1 DEF HeartbeatTypeOK
  <2>6. i \in 1 .. Len(s) => SumCost(t) = SumCost(s) + (k.cycle.cost - s[i].cost)
    BY <1>2, <2>2, SumCostWrite
  <2> HIDE DEF t
  <2>7. a \notin tangled' => AgentOK(a)'
    <3> SUFFICES ASSUME a \notin tangled' PROVE AgentOK(a)'
      OBVIOUS
    <3>1. /\ SumCost(s) = spent[a] /\ i \in 1 .. Len(s) /\ active[a].id = 0
          /\ k.cycle.cost = s[i].cost
      BY <1>3, <1>4, <2>1 DEF CallOK
    <3>2. SumCost(t) = spent[a]
      BY <1>1, <1>2, <2>6, <3>1
    <3>3. CallOK(c, a)'
      BY <2>1, <2>3, <2>4, <2>5, <3>1, <3>2 DEF CallOK
    <3>4. QED BY <1>3, <1>4, <2>3, <2>4, <3>3 DEF AgentOK
  <2>8. QED BY <1>1, <1>3, <2>1, <2>3, <2>4, <2>5, <2>7, OtherAgents
<1>8. CASE CheckAgentBudget(c)
  <2>1. /\ caller' = [caller EXCEPT ![c] = Free] /\ k.at = "budget" /\ spent' = spent
        /\ Opened(a) \/ UNCHANGED <<active, cycles>>
    BY <1>8 DEF CheckAgentBudget, Moves
  <2>2. caller'[c] = Free /\ \A d \in Callers \ {c} : caller'[d] = caller[d]
    BY <2>1, FreeCaller, CallerMoves
  <2>3. Opened(a) => /\ \A b \in Agents \ {a} : active'[b] = active[b] /\ cycles'[b] = cycles[b]
                     /\ active'[a].id = Len(s) + 1 /\ active'[a].cost = 0
                     /\ cycles'[a] = Append(s, [cost |-> 0, st |-> "active"])
    BY <1>1, OpenedType
  <2>4. Opened(a) => /\ SumCost(cycles'[a]) = SumCost(s) /\ Len(cycles'[a]) = Len(s) + 1
                     /\ cycles'[a][Len(s) + 1].cost = 0 /\ Len(s) \in Nat
    BY <1>2, <2>3, SumCostAppend, SumCostIsSum
  <2>5. a \notin tangled' => AgentOK(a)'
    <3> SUFFICES ASSUME a \notin tangled' PROVE AgentOK(a)'
      OBVIOUS
    <3>1. SumCost(s) = spent[a] /\ active[a].id = 0
      BY <1>3, <1>4, <2>1 DEF CallOK
    <3>2. IdleOK(a)'
      BY <2>1, <2>3, <2>4, <3>1 DEF IdleOK
    <3>3. ~InCall(a)'
      BY <1>1, <1>3, <1>4, <2>2, FreeCaller DEF InCall
    <3>4. QED BY <3>2, <3>3 DEF AgentOK
  <2>6. QED BY <1>1, <1>3, <2>1, <2>2, <2>3, <2>5, OtherAgents, FreeCaller
<1>9. QED BY <1>5, <1>6, <1>7, <1>8

\* What a restart loses of an agent is what its call had still to write.
LEMMA UnwrittenIs ==
  ASSUME HeartbeatTypeOK, NEW a \in Agents
  PROVE  /\ ~InCall(a) => Unwritten(a) = 0
         /\ \A c \in Callers : /\ caller[c].a = a
                               /\ \A d \in Callers \ {c} : caller[d].a # a
            => Unwritten(a) = IF caller[c].at = "write" THEN caller[c].amount ELSE 0
<1> DEFINE amount == [c \in Callers |-> caller[c].amount]
           pending == {c \in Callers : caller[c].a = a /\ caller[c].at = "write"}
<1>1. Unwritten(a) = SumFunctionOnSet(amount, pending)
  BY DEF Unwritten
<1>2. pending = {} => Unwritten(a) = 0
  BY <1>1, SumEmpty
<1>3. ~InCall(a) => pending = {}
  BY DEF InCall
<1>4. ASSUME NEW c \in Callers, caller[c].a = a, \A d \in Callers \ {c} : caller[d].a # a
      PROVE  Unwritten(a) = IF caller[c].at = "write" THEN caller[c].amount ELSE 0
  <2>1. caller[c].at # "write" => pending = {}
    BY <1>4
  <2>2. caller[c].at = "write" => pending = {} \cup {c}
    BY <1>4
  <2>3. amount[c] = caller[c].amount /\ amount[c] \in Int
    BY CallIs
  <2> HIDE DEF amount, pending
  <2>4. SumFunctionOnSet(amount, {} \cup {c}) = amount[c] + SumFunctionOnSet(amount, {})
    BY <2>3, SumAdd, FS_EmptySet
  <2>5. SumFunctionOnSet(amount, {} \cup {c}) = amount[c]
    BY <2>3, <2>4, SumEmpty
  <2>6. QED BY <1>1, <1>2, <2>1, <2>2, <2>3, <2>5
<1>5. QED BY <1>2, <1>3, <1>4

\* Calls of an operator, and restarts.
LEMMA TouchKeeps ==
  ASSUME HeartbeatTypeOK, SpendInv,
         \/ \E a \in Agents : \/ \E b \in AgentBudgets : SetAgentBudget(a, b)
                              \/ PauseAgent(a) \/ ResumeAgent(a) \/ ResetAgent(a)
         \/ Restart
  PROVE  SpendInv'
<1>1. CASE UNCHANGED <<active, cycles, caller, spent, tangled>>
  BY <1>1 DEF SpendInv, AgentOK, InCall, IdleOK, CallOK
<1>2. ASSUME NEW a \in Agents, ResetAgent(a) PROVE SpendInv'
  <2> SUFFICES ASSUME NEW b \in Agents, b \notin tangled PROVE AgentOK(b)'
    BY <1>2 DEF ResetAgent, SpendInv
  <2>1. AgentOK(b) /\ InCall(b)' = InCall(b) /\ caller' = caller
    BY <1>2 DEF SpendInv, ResetAgent, InCall
  <2>2. CASE b = a
    <3>1. ~InCall(a) /\ active'[a] = NoCycle /\ cycles'[a] = <<>> /\ spent'[a] = 0
      BY <1>2 DEF ResetAgent, HeartbeatTypeOK
    <3>2. QED BY <2>1, <2>2, <3>1, SumCostEmpty DEF AgentOK, IdleOK, NoCycle
  <2>3. CASE b # a
    <3>1. active'[b] = active[b] /\ cycles'[b] = cycles[b] /\ spent'[b] = spent[b]
      BY <1>2, <2>3 DEF ResetAgent, HeartbeatTypeOK
    <3>2. QED BY <2>1, <3>1 DEF AgentOK, InCall, IdleOK, CallOK
  <2>4. QED BY <2>2, <2>3
<1>3. CASE Restart
  <2> SUFFICES ASSUME NEW b \in Agents, b \notin tangled PROVE AgentOK(b)'
    BY <1>3 DEF Restart, SpendInv
  <2>1. b # Nobody /\ AgentOK(b) /\ SumCost(cycles[b]) \in Nat /\ spent[b] \in Int
    BY HeartbeatAssumption, SumCostIsSum DEF SpendInv, HeartbeatTypeOK
  <2>2. /\ ~InCall(b)' /\ active'[b] = NoCycle /\ cycles'[b] = cycles[b]
        /\ spent'[b] = spent[b] - Unwritten(b)
    BY <1>3, <2>1, FreeCaller DEF Restart, InCall
  <2>3. SumCost(cycles[b]) = spent[b] - Unwritten(b)
    <3>1. CASE ~InCall(b) /\ IdleOK(b)
      BY <2>1, <3>1, UnwrittenIs DEF IdleOK
    <3>2. ASSUME NEW c \in Callers, caller[c].a = b, \A d \in Callers \ {c} : caller[d].a # b,
                 CallOK(c, b)
          PROVE  SumCost(cycles[b]) = spent[b] - Unwritten(b)
      <4>1. Unwritten(b) = IF caller[c].at = "write" THEN caller[c].amount ELSE 0
        BY <3>2, UnwrittenIs
      <4>2. \/ caller[c].at = "write" /\ SumCost(cycles[b]) + caller[c].amount = spent[b]
            \/ caller[c].at # "write" /\ SumCost(cycles[b]) = spent[b]
        BY <3>2 DEF CallOK
      <4>3. caller[c].amount \in Nat
        BY CallIs
      <4>4. QED BY <2>1, <4>1, <4>2, <4>3
    <3>3. QED BY <2>1, <3>1, <3>2 DEF AgentOK
  <2>4. QED BY <2>2, <2>3 DEF AgentOK, IdleOK, NoCycle
<1>4. (\E a \in Agents : \/ \E b \in AgentBudgets : SetAgentBudget(a, b)
                         \/ PauseAgent(a) \/ ResumeAgent(a))
      => UNCHANGED <<active, cycles, caller, spent, tangled>>
  BY DEF SetAgentBudget, PauseAgent, ResumeAgent, Past
<1>5. QED BY <1>1, <1>2, <1>3, <1>4

\* Every pause that followed an event is over, or was lifted since.
PauseInv == \A a \in Agents : exceeded[a] <= excused[a] + (IF a \in paused THEN 1 ELSE 0)

\* Every budget that was exceeded left its agent paused, but for the excuses.
LEMMA PauseStep == HeartbeatTypeOK /\ PauseInv /\ [HeartbeatNext]_hvars => PauseInv'
<1> SUFFICES ASSUME HeartbeatTypeOK, PauseInv, [HeartbeatNext]_hvars, NEW a \in Agents
             PROVE  exceeded'[a] <= excused'[a] + (IF a \in paused' THEN 1 ELSE 0)
  BY DEF PauseInv
<1>1. /\ exceeded[a] \in Nat /\ excused[a] \in Nat
      /\ exceeded[a] <= excused[a] + (IF a \in paused THEN 1 ELSE 0)
  BY DEF HeartbeatTypeOK, PauseInv
<1>2. CASE UNCHANGED <<paused, exceeded, excused>>
  BY <1>1, <1>2
<1>3. ASSUME NEW c \in Callers, CheckAgentBudget(c)
      PROVE  exceeded'[a] <= excused'[a] + (IF a \in paused' THEN 1 ELSE 0)
  <2>1. excused' = excused
    BY <1>3 DEF CheckAgentBudget
  <2>2. CASE MustPause(caller[c].a) /\ a = caller[c].a
    <3>1. exceeded'[a] = exceeded[a] + 1 /\ a \in paused' /\ a \notin paused
      BY <1>3, <2>2 DEF CheckAgentBudget, MustPause, HeartbeatTypeOK
    <3>2. QED BY <1>1, <2>1, <3>1
  <2>3. CASE ~(MustPause(caller[c].a) /\ a = caller[c].a)
    <3>1. exceeded'[a] = exceeded[a] /\ (a \in paused' <=> a \in paused)
      BY <1>3, <2>3 DEF CheckAgentBudget, HeartbeatTypeOK
    <3>2. QED BY <1>1, <2>1, <3>1
  <2>4. QED BY <2>2, <2>3
<1>4. ASSUME NEW b \in Agents, PauseAgent(b)
      PROVE  exceeded'[a] <= excused'[a] + (IF a \in paused' THEN 1 ELSE 0)
  <2>1. UNCHANGED <<exceeded, excused>> /\ (a \in paused => a \in paused')
    BY <1>4 DEF PauseAgent, Past
  <2>2. QED BY <1>1, <2>1
<1>5. ASSUME NEW b \in Agents, ResumeAgent(b) \/ ResetAgent(b)
      PROVE  exceeded'[a] <= excused'[a] + (IF a \in paused' THEN 1 ELSE 0)
  <2>1. /\ exceeded' = exceeded
        /\ IF a = b THEN excused'[a] = excused[a] + 1
           ELSE excused'[a] = excused[a] /\ (a \in paused' <=> a \in paused)
    BY <1>5 DEF ResumeAgent, ResetAgent, HeartbeatTypeOK
  <2>2. QED BY <1>1, <2>1
<1>6. CASE Restart
  <2>1. exceeded' = exceeded /\ excused'[a] = excused[a] + 1
    BY <1>6 DEF Restart
  <2>2. QED BY <1>1, <2>1
<1>7. \/ UNCHANGED <<paused, exceeded, excused>>
      \/ \E c \in Callers : CheckAgentBudget(c)
      \/ \E b \in Agents : PauseAgent(b) \/ ResumeAgent(b) \/ ResetAgent(b)
      \/ Restart
  <2>1. CASE HeartbeatNext
    BY <2>1 DEF HeartbeatNext, FindCycle, StartCycle, PopCycle, AddSpend, WriteSpend, PersistCycle,
                SetAgentBudget, Past
  <2>2. CASE UNCHANGED hvars
    BY <2>2 DEF hvars
  <2>3. QED BY <2>1, <2>2
<1>8. QED BY <1>2, <1>3, <1>4, <1>5, <1>6, <1>7

\* What record_spend added reaches the database by the end of the call, and a
\* budget is reported as exceeded at most once per pause: for any number of
\* callers, agents and restarts.
THEOREM HeartbeatIsSound == HeartbeatSpec => []HeartbeatSound
<1> DEFINE Inv == HeartbeatTypeOK /\ SpendInv /\ PauseInv
<1>1. HeartbeatInit => Inv
  <2> SUFFICES ASSUME HeartbeatInit PROVE Inv
    OBVIOUS
  <2>1. HeartbeatTypeOK
    BY SumCostEmpty, FreeCaller, HeartbeatAssumption
       DEF HeartbeatInit, HeartbeatTypeOK, NoCycle, CycleRefs
  <2>2. SpendInv
    <3>1. \A a \in Agents : ~InCall(a)
      BY FreeCaller, HeartbeatAssumption DEF HeartbeatInit, InCall
    <3>2. QED BY <3>1, SumCostEmpty DEF HeartbeatInit, SpendInv, AgentOK, IdleOK, NoCycle
  <2>3. PauseInv
    BY DEF HeartbeatInit, PauseInv
  <2>4. QED BY <2>1, <2>2, <2>3
<1>2. Inv /\ [HeartbeatNext]_hvars => Inv'
  <2> SUFFICES ASSUME Inv, [HeartbeatNext]_hvars PROVE Inv'
    OBVIOUS
  <2>1. SpendInv'
    <3>1. CASE UNCHANGED hvars
      BY <3>1 DEF hvars, SpendInv, AgentOK, InCall, IdleOK, CallOK
    <3>2. CASE HeartbeatNext
      BY <3>2, BeginKeeps, GoOnKeeps, TouchKeeps DEF HeartbeatNext
    <3>3. QED BY <3>1, <3>2
  <2>2. QED BY <2>1, HeartbeatTypeStep, PauseStep
<1>3. Inv => HeartbeatSound
  <2> SUFFICES ASSUME Inv PROVE HeartbeatSound
    OBVIOUS
  <2>1. SpendKept
    BY DEF SpendKept, SpendInv, AgentOK, IdleOK, InCall
  <2>2. ExceededOncePerPause
    <3> SUFFICES ASSUME NEW a \in Agents PROVE exceeded[a] <= excused[a] + 1
      BY DEF ExceededOncePerPause
    <3>1. exceeded[a] \in Nat /\ excused[a] \in Nat
      BY DEF HeartbeatTypeOK
    <3>2. QED BY <3>1 DEF PauseInv
  <2>3. QED BY <2>1, <2>2 DEF HeartbeatSound
<1>4. QED BY <1>1, <1>2, <1>3, PTL DEF HeartbeatSpec

-----------------------------------------------------------------------------
(* The SDK's cost tracker.                                                  *)

\* A thread that takes its next step, and one that leaves the tracker.
LEMMA TurnsTo ==
  ASSUME TrackerTypeOK, NEW x \in Threads, NEW step \in TrackerSteps, Turns(x, step)
  PROVE  /\ thread' \in [Threads -> ThreadCalls]
         /\ thread'[x].at = step /\ thread'[x].cost = thread[x].cost
         /\ \A y \in Threads \ {x} : thread'[y] = thread[y]
<1> DEFINE call == [thread[x] EXCEPT !.at = step]
<1>1. thread[x] \in ThreadCalls /\ thread' = [thread EXCEPT ![x] = call]
  BY DEF TrackerTypeOK, Turns
<1>2. call \in ThreadCalls /\ call.at = step /\ call.cost = thread[x].cost
  BY <1>1 DEF ThreadCalls
<1> HIDE DEF call
<1>3. QED BY <1>1, <1>2 DEF TrackerTypeOK

\* A thread that is done leaves the other threads as they are.
LEMMA RestsTo ==
  ASSUME TrackerTypeOK, NEW x \in Threads, Rests(x)
  PROVE  /\ thread' \in [Threads -> ThreadCalls]
         /\ thread'[x] = AtRest /\ thread'[x].at = "rest" /\ thread'[x].cost = 0
         /\ \A y \in Threads \ {x} : thread'[y] = thread[y]
<1>1. AtRest \in ThreadCalls /\ AtRest.at = "rest" /\ AtRest.cost = 0
  BY DEF AtRest, ThreadCalls, TrackerSteps
<1>2. QED BY <1>1 DEF TrackerTypeOK, Rests

\* A call that ends, as the tracker gets to see it.
LEMMA CallComes ==
  ASSUME TrackerTypeOK, NEW x \in Threads, NEW price \in Prices,
         NEW outcome \in {"answered", "unpriced", "failed"}, CallEnds(x, outcome, price)
  PROVE  /\ thread' \in [Threads -> ThreadCalls] /\ Billed(outcome, price) \in Nat
         /\ thread'[x].at = "trace" /\ thread'[x].cost = Billed(outcome, price)
         /\ thread[x].at = "rest"
         /\ \A y \in Threads \ {x} : thread'[y] = thread[y]
         /\ due' = due + Billed(outcome, price)
<1>1. price \in Nat /\ Billed(outcome, price) \in Nat
  BY TrackerAssumption DEF Billed
<1> DEFINE call == [at |-> "trace", cost |-> Billed(outcome, price)]
<1>2. call \in ThreadCalls /\ call.at = "trace" /\ call.cost = Billed(outcome, price)
  BY <1>1 DEF ThreadCalls, TrackerSteps
<1>3. thread' = [thread EXCEPT ![x] = call] /\ thread[x].at = "rest"
  BY DEF CallEnds, AtRest
<1>4. due' = due + Billed(outcome, price)
  BY DEF CallEnds, Billed, TrackerTypeOK
<1> HIDE DEF call
<1>5. QED BY <1>1, <1>2, <1>3, <1>4 DEF TrackerTypeOK

\* The actions of one thread.
ThreadStep(x) ==
    \/ \E outcome \in {"answered", "unpriced", "failed"}, price \in Prices :
         CallEnds(x, outcome, price)
    \/ AppendTrace(x) \/ AddCost(x) \/ AddCall(x) \/ CheckLimit(x) \/ SendAlert(x)
    \/ ResetTotal(x) \/ ZeroCalls(x) \/ ClearTraces(x) \/ ClearFlags(x)
    \/ \E lim \in Limits : SetLimit(x, lim)

\* The types of the tracker's fields, its histories' flags apart.
TrackerData ==
    /\ total \in Nat /\ calls \in Nat /\ made \in Nat /\ due \in Nat
    /\ limit \in Nat /\ uses \in Nat
    /\ listed \in [n : Nat, cost : Nat]
    /\ flags \subseteq Kinds
    /\ alerts \in Seq(Kinds)
    /\ thread \in [Threads -> ThreadCalls]

\* The tracker's fields stay well formed.
LEMMA TrackerTypeStep ==
  ASSUME TrackerTypeOK, NEW x \in Threads, ThreadStep(x)
  PROVE  TrackerTypeOK'
<1>1. /\ thread[x] \in ThreadCalls /\ thread[x].cost \in Nat
      /\ listed.n \in Nat /\ listed.cost \in Nat
  BY DEF ThreadCalls, TrackerTypeOK
<1>2. mixed' \in BOOLEAN /\ twoChecked' \in BOOLEAN /\ seen' \in BOOLEAN
  BY Zenon DEF TrackerTypeOK, ThreadStep, CallEnds, AppendTrace, AddCost, AddCall, CheckLimit,
               SendAlert, ResetTotal, ZeroCalls, ClearTraces, ClearFlags, SetLimit, Ghosts
<1> SUFFICES TrackerData'
  BY <1>2 DEF TrackerTypeOK, TrackerData
<1>3. ASSUME NEW outcome \in {"answered", "unpriced", "failed"}, NEW price \in Prices,
             CallEnds(x, outcome, price)
      PROVE  TrackerData'
  <2>1. thread' \in [Threads -> ThreadCalls] /\ due' \in Nat
    BY <1>3, CallComes DEF TrackerTypeOK
  <2>2. QED BY <1>1, <1>3, <2>1 DEF CallEnds, Numbers, Use, TrackerTypeOK, TrackerData
<1>4. CASE AppendTrace(x)
  <2>1. thread' \in [Threads -> ThreadCalls]
    BY <1>4, TurnsTo DEF AppendTrace, TrackerSteps
  <2>2. QED BY <1>1, <1>4, <2>1 DEF AppendTrace, Ghosts, TrackerTypeOK, TrackerData
<1>5. CASE AddCost(x) \/ AddCall(x)
  <2>1. thread' \in [Threads -> ThreadCalls] /\ total' \in Nat /\ calls' \in Nat
    BY <1>1, <1>5, TurnsTo DEF AddCost, AddCall, TrackerSteps, TrackerTypeOK
  <2>2. UNCHANGED <<listed, limit, flags, alerts, made, due, uses>>
    BY <1>5 DEF AddCost, AddCall, Ghosts
  <2>3. QED BY <2>1, <2>2 DEF TrackerTypeOK, TrackerData
<1>6. CASE CheckLimit(x)
  <2>1. NextAlert \in TrackerSteps
    BY DEF NextAlert, TrackerSteps
  <2>2. thread' \in [Threads -> ThreadCalls]
    BY <1>6, <2>1, TurnsTo, RestsTo DEF CheckLimit
  <2>3. QED BY <1>1, <1>6, <2>2 DEF CheckLimit, Numbers, TrackerTypeOK, TrackerData
<1>7. CASE SendAlert(x)
  <2>1. thread' \in [Threads -> ThreadCalls]
    BY <1>7, RestsTo DEF SendAlert
  <2>2. flags \subseteq Kinds /\ thread[x].at \in Kinds
    BY <1>7 DEF SendAlert, TrackerTypeOK, Kinds
  <2>3. flags' \subseteq Kinds
    BY <1>7, <2>2 DEF SendAlert
  <2>4. alerts' \in Seq(Kinds)
    <3>1. alerts \in Seq(Kinds)
      BY DEF TrackerTypeOK
    <3>2. QED BY <1>7, <2>2, <3>1 DEF SendAlert
  <2>5. UNCHANGED <<total, calls, listed, limit, made, due, uses>>
    BY <1>7 DEF SendAlert, Numbers, Ghosts
  <2>6. QED BY <2>1, <2>3, <2>4, <2>5 DEF TrackerTypeOK, TrackerData
<1>8. CASE ResetTotal(x) \/ \E lim \in Limits : SetLimit(x, lim)
  <2>1. thread' \in [Threads -> ThreadCalls]
    BY <1>8, TurnsTo DEF ResetTotal, SetLimit, TrackerSteps
  <2>2. \A lim \in Limits : lim \in Nat
    BY TrackerAssumption
  <2>3. CASE ResetTotal(x)
    BY <2>1, <2>3 DEF ResetTotal, Use, TrackerTypeOK, TrackerData
  <2>4. ASSUME NEW lim \in Limits, SetLimit(x, lim) PROVE TrackerData'
    BY <2>1, <2>2, <2>4 DEF SetLimit, Numbers, Use, TrackerTypeOK, TrackerData
  <2>5. QED BY <1>8, <2>3, <2>4
<1>9. CASE ZeroCalls(x) \/ ClearTraces(x)
  <2>1. thread' \in [Threads -> ThreadCalls]
    BY <1>9, TurnsTo DEF ZeroCalls, ClearTraces, TrackerSteps
  <2>2. AfterClear \in [n : Nat, cost : Nat]
    BY DEF AfterClear, NoTraces
  <2>3. UNCHANGED <<total, limit, flags, alerts, made, due, uses>>
    BY <1>9 DEF ZeroCalls, ClearTraces, Ghosts
  <2>4. QED BY <1>9, <2>1, <2>2, <2>3 DEF ZeroCalls, ClearTraces, TrackerTypeOK, TrackerData
<1>10. CASE ClearFlags(x)
  <2>1. thread' \in [Threads -> ThreadCalls]
    BY <1>10, RestsTo DEF ClearFlags
  <2>2. UNCHANGED <<total, calls, listed, limit, made, due, uses>> /\ flags' = {} /\ alerts' = <<>>
    BY <1>10 DEF ClearFlags, Numbers
  <2>3. <<>> \in Seq(Kinds)
    OBVIOUS
  <2>4. QED BY <2>1, <2>2, <2>3 DEF TrackerTypeOK, TrackerData
<1>11. QED BY <1>3, <1>4, <1>5, <1>6, <1>7, <1>8, <1>9, <1>10 DEF ThreadStep

\* A reset or a set_budget that overlaps no other use is alone in the tracker.
Unmaking == {"zero_calls", "clear", "unflag", "unflag_new"}
ResetAlone ==
    ~mixed => \A x \in Threads : thread[x].at \in Unmaking => Resting(Threads \ {x})

\* A reset that nobody disturbed stays alone with the tracker.
LEMMA ResetAloneStep ==
  ASSUME TrackerTypeOK, ResetAlone, NEW x \in Threads, ThreadStep(x)
  PROVE  ResetAlone'
<1> SUFFICES ASSUME ~mixed', NEW y \in Threads, thread'[y].at \in Unmaking
             PROVE  \A z \in Threads \ {y} : thread'[z] = AtRest
  BY DEF ResetAlone, Resting
<1> USE DEF Unmaking, Resting
<1>1. ASSUME NEW outcome \in {"answered", "unpriced", "failed"}, NEW price \in Prices,
             CallEnds(x, outcome, price)
      PROVE  FALSE
  <2>1. ~Resetting /\ thread'[x].at = "trace" /\ \A z \in Threads \ {x} : thread'[z] = thread[z]
    BY <1>1, CallComes DEF CallEnds
  <2>2. QED BY <2>1 DEF Resetting
<1>2. ASSUME AppendTrace(x) \/ AddCost(x) \/ AddCall(x) \/ CheckLimit(x) \/ SendAlert(x)
      PROVE  FALSE
  <2>1. thread'[x].at \notin Unmaking /\ \A z \in Threads \ {x} : thread'[z] = thread[z]
    <3>1. NextAlert \in {"rest", "exceeded", "warning"}
      BY DEF NextAlert
    <3>2. CASE CheckLimit(x)
      BY <3>1, <3>2, TurnsTo, RestsTo DEF CheckLimit, TrackerSteps
    <3>3. CASE SendAlert(x)
      BY <3>3, RestsTo DEF SendAlert
    <3>4. CASE AppendTrace(x) \/ AddCost(x) \/ AddCall(x)
      BY <3>4, TurnsTo DEF AppendTrace, AddCost, AddCall, TrackerSteps
    <3>5. QED BY <1>2, <3>2, <3>3, <3>4
  <2>2. ~mixed /\ thread[x] # AtRest
    BY <1>2 DEF AppendTrace, AddCost, AddCall, CheckLimit, SendAlert, Ghosts, AtRest
  <2>3. QED BY <2>1, <2>2 DEF ResetAlone
<1>3. CASE ResetTotal(x) \/ \E lim \in Limits : SetLimit(x, lim)
  <2>1. Resting(Threads) /\ \A z \in Threads \ {x} : thread'[z] = thread[z]
    BY <1>3, TurnsTo DEF ResetTotal, SetLimit, TrackerSteps
  <2>2. QED BY <2>1 DEF AtRest
<1>4. CASE ZeroCalls(x) \/ ClearTraces(x) \/ ClearFlags(x)
  <2>1. ~mixed /\ thread[x].at \in Unmaking
    BY <1>4 DEF ZeroCalls, ClearTraces, ClearFlags, Ghosts
  <2>2. \A z \in Threads \ {x} : thread'[z] = thread[z]
    BY <1>4, TurnsTo, RestsTo DEF ZeroCalls, ClearTraces, ClearFlags, TrackerSteps
  <2>3. QED BY <2>1, <2>2 DEF ResetAlone, AtRest
<1>5. QED BY <1>1, <1>2, <1>3, <1>4 DEF ThreadStep

\* How many threads are at one of some steps of record, and what their calls
\* cost together.
HowMany(S) == SumFunctionOnSet([x \in Threads |-> IF thread[x].at \in S THEN 1 ELSE 0], Threads)
Worth(S) ==
    SumFunctionOnSet([x \in Threads |-> IF thread[x].at \in S THEN thread[x].cost ELSE 0], Threads)

\* How many threads stand at a step, and what their calls cost, are naturals.
LEMMA SumsType ==
  ASSUME TrackerTypeOK, NEW S
  PROVE  /\ HowMany(S) \in Nat /\ Worth(S) \in Nat
         /\ (\A x \in Threads : thread[x].at \notin S) => HowMany(S) = 0 /\ Worth(S) = 0
<1> DEFINE one == [x \in Threads |-> IF thread[x].at \in S THEN 1 ELSE 0]
           price == [x \in Threads |-> IF thread[x].at \in S THEN thread[x].cost ELSE 0]
<1>1. \A x \in Threads : one[x] \in Nat /\ price[x] \in Nat
  BY DEF TrackerTypeOK, ThreadCalls
<1>2. HowMany(S) = SumFunctionOnSet(one, Threads) /\ Worth(S) = SumFunctionOnSet(price, Threads)
  BY DEF HowMany, Worth
<1>3. (\A x \in Threads : thread[x].at \notin S) => \A x \in Threads : one[x] = 0 /\ price[x] = 0
  OBVIOUS
<1> HIDE DEF one, price
<1>4. HowMany(S) \in Nat /\ Worth(S) \in Nat
  BY <1>1, <1>2, SumType, TrackerAssumption
<1>5. QED BY <1>2, <1>3, <1>4, SumZero, TrackerAssumption

\* One thread's step changes them by what it enters and leaves.
LEMMA SumsMove ==
  ASSUME TrackerTypeOK, NEW x \in Threads, NEW S, thread' \in [Threads -> ThreadCalls],
         \A y \in Threads \ {x} : thread'[y] = thread[y]
  PROVE  /\ HowMany(S)' = HowMany(S) + ((IF thread'[x].at \in S THEN 1 ELSE 0)
                                        - (IF thread[x].at \in S THEN 1 ELSE 0))
         /\ Worth(S)' = Worth(S) + ((IF thread'[x].at \in S THEN thread'[x].cost ELSE 0)
                                    - (IF thread[x].at \in S THEN thread[x].cost ELSE 0))
<1> DEFINE one == [y \in Threads |-> IF thread[y].at \in S THEN 1 ELSE 0]
           price == [y \in Threads |-> IF thread[y].at \in S THEN thread[y].cost ELSE 0]
           newOne == [y \in Threads |-> IF thread'[y].at \in S THEN 1 ELSE 0]
           newPrice == [y \in Threads |-> IF thread'[y].at \in S THEN thread'[y].cost ELSE 0]
<1>1. \A y \in Threads : thread[y].cost \in Nat /\ thread'[y].cost \in Nat
  BY DEF TrackerTypeOK, ThreadCalls
<1>2. \A y \in Threads : /\ one[y] \in Int /\ price[y] \in Int
                         /\ newOne[y] \in Int /\ newPrice[y] \in Int
  BY <1>1
<1>3. \A y \in Threads \ {x} : one[y] = newOne[y] /\ price[y] = newPrice[y]
  OBVIOUS
<1>4. /\ HowMany(S) = SumFunctionOnSet(one, Threads) /\ Worth(S) = SumFunctionOnSet(price, Threads)
      /\ HowMany(S)' = SumFunctionOnSet(newOne, Threads)
      /\ Worth(S)' = SumFunctionOnSet(newPrice, Threads)
  BY DEF HowMany, Worth
<1>5. /\ one[x] = (IF thread[x].at \in S THEN 1 ELSE 0)
      /\ price[x] = (IF thread[x].at \in S THEN thread[x].cost ELSE 0)
      /\ newOne[x] = (IF thread'[x].at \in S THEN 1 ELSE 0)
      /\ newPrice[x] = (IF thread'[x].at \in S THEN thread'[x].cost ELSE 0)
  OBVIOUS
<1> HIDE DEF one, price, newOne, newPrice
<1>6. SumFunctionOnSet(newOne, Threads) = SumFunctionOnSet(one, Threads) + (newOne[x] - one[x])
  BY <1>2, <1>3, SumChange, TrackerAssumption
<1>7. SumFunctionOnSet(newPrice, Threads)
        = SumFunctionOnSet(price, Threads) + (newPrice[x] - price[x])
  BY <1>2, <1>3, SumChange, TrackerAssumption
<1>8. QED BY <1>4, <1>5, <1>6, <1>7

\* The calls that are not yet in the total, the count and the list.
Unpaid == {"trace", "cost"}
Uncounted == {"trace", "cost", "calls"}
Unlisted == {"trace"}

\* No call is lost or doubled: what the tracker has not yet added up is what the
\* threads inside record still hold.
NumbersInv ==
    ~mixed =>
        /\ total + Worth(Unpaid) = due
        /\ \A x \in Threads : thread[x].at \in {"zero_calls", "clear"} => made = 0 /\ due = 0
        /\ (\A x \in Threads : thread[x].at # "zero_calls") => calls + HowMany(Uncounted) = made
        /\ (\A x \in Threads : thread[x].at \notin {"zero_calls", "clear"}) =>
              listed.n + HowMany(Unlisted) = made /\ listed.cost + Worth(Unlisted) = due

\* A step into or out of the steps of record, in numbers.
LEMMA NumbersMove ==
  ASSUME TrackerTypeOK, NEW x \in Threads, thread' \in [Threads -> ThreadCalls],
         \A y \in Threads \ {x} : thread'[y] = thread[y]
  PROVE  /\ thread[x].at = "rest" /\ thread'[x].at = "trace" =>
              /\ HowMany(Uncounted)' = HowMany(Uncounted) + 1
              /\ HowMany(Unlisted)' = HowMany(Unlisted) + 1
              /\ Worth(Unpaid)' = Worth(Unpaid) + thread'[x].cost
              /\ Worth(Unlisted)' = Worth(Unlisted) + thread'[x].cost
         /\ thread[x].at = "trace" /\ thread'[x].at = "cost" /\ thread'[x].cost = thread[x].cost =>
              /\ HowMany(Uncounted)' = HowMany(Uncounted)
              /\ HowMany(Unlisted)' = HowMany(Unlisted) - 1
              /\ Worth(Unpaid)' = Worth(Unpaid)
              /\ Worth(Unlisted)' = Worth(Unlisted) - thread[x].cost
         /\ thread[x].at = "cost" /\ thread'[x].at = "calls" =>
              /\ HowMany(Uncounted)' = HowMany(Uncounted)
              /\ HowMany(Unlisted)' = HowMany(Unlisted)
              /\ Worth(Unpaid)' = Worth(Unpaid) - thread[x].cost
              /\ Worth(Unlisted)' = Worth(Unlisted)
         /\ thread[x].at = "calls" /\ thread'[x].at = "check" =>
              /\ HowMany(Uncounted)' = HowMany(Uncounted) - 1
              /\ HowMany(Unlisted)' = HowMany(Unlisted)
              /\ Worth(Unpaid)' = Worth(Unpaid)
              /\ Worth(Unlisted)' = Worth(Unlisted)
         /\ thread[x].at \notin Uncounted /\ thread'[x].at \notin Uncounted =>
              /\ HowMany(Uncounted)' = HowMany(Uncounted)
              /\ HowMany(Unlisted)' = HowMany(Unlisted)
              /\ Worth(Unpaid)' = Worth(Unpaid)
              /\ Worth(Unlisted)' = Worth(Unlisted)
<1>1. /\ thread[x].cost \in Nat /\ thread'[x].cost \in Nat
      /\ HowMany(Uncounted) \in Nat /\ HowMany(Unlisted) \in Nat
      /\ Worth(Unpaid) \in Nat /\ Worth(Unlisted) \in Nat
  BY SumsType DEF TrackerTypeOK, ThreadCalls
<1>2. /\ HowMany(Uncounted)' = HowMany(Uncounted)
           + ((IF thread'[x].at \in Uncounted THEN 1 ELSE 0)
              - (IF thread[x].at \in Uncounted THEN 1 ELSE 0))
      /\ HowMany(Unlisted)' = HowMany(Unlisted)
           + ((IF thread'[x].at \in Unlisted THEN 1 ELSE 0)
              - (IF thread[x].at \in Unlisted THEN 1 ELSE 0))
  BY SumsMove DEF Uncounted, Unlisted
<1>3. /\ Worth(Unpaid)' = Worth(Unpaid)
           + ((IF thread'[x].at \in Unpaid THEN thread'[x].cost ELSE 0)
              - (IF thread[x].at \in Unpaid THEN thread[x].cost ELSE 0))
      /\ Worth(Unlisted)' = Worth(Unlisted)
           + ((IF thread'[x].at \in Unlisted THEN thread'[x].cost ELSE 0)
              - (IF thread[x].at \in Unlisted THEN thread[x].cost ELSE 0))
  BY SumsMove DEF Unpaid, Unlisted
<1>4. QED BY <1>1, <1>2, <1>3 DEF Uncounted, Unpaid, Unlisted

\* Outside of resets, the four sums.
AllAdded ==
    /\ total + Worth(Unpaid) = due
    /\ calls + HowMany(Uncounted) = made
    /\ listed.n + HowMany(Unlisted) = made
    /\ listed.cost + Worth(Unlisted) = due

\* A call on its way from one number of the tracker to the next is lost in none.
LEMMA RecordKeepsSums ==
  ASSUME TrackerTypeOK, ResetAlone, NumbersInv, NEW x \in Threads, ~mixed',
         \/ \E outcome \in {"answered", "unpriced", "failed"}, price \in Prices :
              CallEnds(x, outcome, price)
         \/ AppendTrace(x) \/ AddCost(x) \/ AddCall(x) \/ CheckLimit(x) \/ SendAlert(x)
  PROVE  AllAdded' /\ \A y \in Threads : thread'[y].at \notin {"zero_calls", "clear"}
<1>1. /\ thread[x].at \notin Unmaking /\ thread[x].at \in TrackerSteps
      /\ ~mixed /\ \A y \in Threads : thread[y].at \notin Unmaking
  <2>1. ASSUME NEW outcome \in {"answered", "unpriced", "failed"}, NEW price \in Prices,
               CallEnds(x, outcome, price)
        PROVE  ~mixed /\ \A y \in Threads : thread[y].at \notin Unmaking
    BY <2>1 DEF CallEnds, Resetting, Unmaking
  <2>2. AppendTrace(x) \/ AddCost(x) \/ AddCall(x) \/ CheckLimit(x) \/ SendAlert(x)
        => ~mixed /\ thread[x] # AtRest /\ thread[x].at \notin Unmaking
    BY DEF AppendTrace, AddCost, AddCall, CheckLimit, SendAlert, Ghosts, AtRest, Unmaking
  <2>3. AppendTrace(x) \/ AddCost(x) \/ AddCall(x) \/ CheckLimit(x) \/ SendAlert(x)
        => \A y \in Threads : thread[y].at \notin Unmaking
    BY <2>2 DEF ResetAlone, Resting
  <2>4. QED BY <2>1, <2>2, <2>3 DEF TrackerTypeOK, ThreadCalls
<1>2. AllAdded
  BY <1>1 DEF NumbersInv, AllAdded, Unmaking
<1>3. /\ total \in Nat /\ calls \in Nat /\ made \in Nat /\ due \in Nat
      /\ listed.n \in Nat /\ listed.cost \in Nat /\ thread[x].cost \in Nat
      /\ HowMany(Uncounted) \in Nat /\ HowMany(Unlisted) \in Nat
      /\ Worth(Unpaid) \in Nat /\ Worth(Unlisted) \in Nat
  BY SumsType DEF TrackerTypeOK, ThreadCalls
<1>4. ASSUME NEW outcome \in {"answered", "unpriced", "failed"}, NEW price \in Prices,
             CallEnds(x, outcome, price)
      PROVE  AllAdded' /\ \A y \in Threads : thread'[y].at \notin {"zero_calls", "clear"}
  <2>1. /\ thread' \in [Threads -> ThreadCalls] /\ Billed(outcome, price) \in Nat
        /\ thread'[x].at = "trace" /\ thread'[x].cost = Billed(outcome, price)
        /\ thread[x].at = "rest" /\ due' = due + Billed(outcome, price)
        /\ \A y \in Threads \ {x} : thread'[y] = thread[y]
    BY <1>4, CallComes
  <2>2. UNCHANGED <<total, calls, listed>> /\ made' = made + 1
    BY <1>4 DEF CallEnds, Numbers
  <2>3. AllAdded'
    BY <1>2, <1>3, <2>1, <2>2, NumbersMove DEF AllAdded
  <2>4. QED BY <1>1, <2>1, <2>3 DEF Unmaking
<1>5. CASE AppendTrace(x)
  <2>1. /\ thread' \in [Threads -> ThreadCalls] /\ thread[x].at = "trace"
        /\ thread'[x].at = "cost" /\ thread'[x].cost = thread[x].cost
        /\ \A y \in Threads \ {x} : thread'[y] = thread[y]
    BY <1>5, TurnsTo DEF AppendTrace, TrackerSteps
  <2>2. /\ UNCHANGED <<total, calls, made, due>>
        /\ listed'.n = listed.n + 1 /\ listed'.cost = listed.cost + thread[x].cost
    BY <1>5 DEF AppendTrace, Ghosts
  <2>3. /\ HowMany(Uncounted)' = HowMany(Uncounted) /\ HowMany(Unlisted)' = HowMany(Unlisted) - 1
        /\ Worth(Unpaid)' = Worth(Unpaid)
        /\ Worth(Unlisted)' = Worth(Unlisted) - thread[x].cost
    BY <2>1, NumbersMove
  <2>4. AllAdded'
    BY <1>2, <1>3, <2>2, <2>3 DEF AllAdded
  <2>5. QED BY <1>1, <2>1, <2>4 DEF Unmaking
<1>6. CASE AddCost(x)
  <2>1. /\ thread' \in [Threads -> ThreadCalls] /\ thread[x].at = "cost" /\ thread'[x].at = "calls"
        /\ \A y \in Threads \ {x} : thread'[y] = thread[y]
    BY <1>6, TurnsTo DEF AddCost, TrackerSteps
  <2>2. UNCHANGED <<listed, calls, made, due>> /\ total' = total + thread[x].cost
    BY <1>6 DEF AddCost, Ghosts
  <2>3. AllAdded'
    BY <1>2, <1>3, <2>1, <2>2, NumbersMove DEF AllAdded
  <2>4. QED BY <1>1, <2>1, <2>3 DEF Unmaking
<1>7. CASE AddCall(x)
  <2>1. /\ thread' \in [Threads -> ThreadCalls] /\ thread[x].at = "calls" /\ thread'[x].at = "check"
        /\ \A y \in Threads \ {x} : thread'[y] = thread[y]
    BY <1>7, TurnsTo DEF AddCall, TrackerSteps
  <2>2. UNCHANGED <<listed, total, made, due>> /\ calls' = calls + 1
    BY <1>7 DEF AddCall, Ghosts
  <2>3. AllAdded'
    BY <1>2, <1>3, <2>1, <2>2, NumbersMove DEF AllAdded
  <2>4. QED BY <1>1, <2>1, <2>3 DEF Unmaking
<1>8. CASE CheckLimit(x) \/ SendAlert(x)
  <2>1. NextAlert \in {"rest", "exceeded", "warning"}
    BY DEF NextAlert
  <2>2. /\ thread' \in [Threads -> ThreadCalls] /\ thread[x].at \notin Uncounted
        /\ thread'[x].at \notin Uncounted \cup {"zero_calls", "clear"}
        /\ \A y \in Threads \ {x} : thread'[y] = thread[y]
    <3>1. CASE CheckLimit(x)
      BY <2>1, <3>1, TurnsTo, RestsTo DEF CheckLimit, TrackerSteps, Uncounted
    <3>2. CASE SendAlert(x)
      BY <3>2, RestsTo DEF SendAlert, Uncounted
    <3>3. QED BY <1>8, <3>1, <3>2
  <2>3. UNCHANGED <<total, calls, listed, made, due>>
    BY <1>8 DEF CheckLimit, SendAlert, Numbers, Ghosts
  <2>4. AllAdded'
    BY <1>2, <1>3, <2>2, <2>3, NumbersMove DEF AllAdded
  <2>5. QED BY <1>1, <2>2, <2>4 DEF Unmaking
<1>9. QED BY <1>4, <1>5, <1>6, <1>7, <1>8

\* The numbers of the tracker keep adding up, whichever thread moves.
LEMMA NumbersStep ==
  ASSUME TrackerTypeOK, ResetAlone, NumbersInv, NEW x \in Threads, ThreadStep(x)
  PROVE  NumbersInv'
<1> SUFFICES ASSUME ~mixed' PROVE NumbersInv'
  BY DEF NumbersInv
<1> DEFINE Recording ==
      \/ \E outcome \in {"answered", "unpriced", "failed"}, price \in Prices :
           CallEnds(x, outcome, price)
      \/ AppendTrace(x) \/ AddCost(x) \/ AddCall(x) \/ CheckLimit(x) \/ SendAlert(x)
<1>1. CASE Recording
  <2>1. AllAdded' /\ \A y \in Threads : thread'[y].at \notin {"zero_calls", "clear"}
    BY <1>1, RecordKeepsSums
  <2>2. QED BY <2>1 DEF NumbersInv, AllAdded
<1>2. CASE ResetTotal(x)
  <2>1. /\ thread'[x].at = "zero_calls" /\ \A y \in Threads \ {x} : thread'[y] = thread[y]
        /\ thread' \in [Threads -> ThreadCalls] /\ Resting(Threads)
        /\ total' = 0 /\ made' = 0 /\ due' = 0
    BY <1>2, TurnsTo DEF ResetTotal, TrackerSteps
  <2>2. \A y \in Threads : thread[y].at \notin Unpaid
    BY <2>1 DEF Resting, AtRest, Unpaid
  <2>3. thread[x].at \notin Uncounted /\ thread'[x].at \notin Uncounted
    BY <2>1 DEF Resting, AtRest, Uncounted
  <2>4. Worth(Unpaid)' = 0
    BY <2>1, <2>2, <2>3, SumsType, NumbersMove
  <2>5. QED BY <2>1, <2>4 DEF NumbersInv
<1>3. CASE ZeroCalls(x) \/ ClearTraces(x)
  <2>1. /\ thread[x].at \in {"zero_calls", "clear"} /\ thread'[x].at \in {"clear", "unflag"}
        /\ thread' \in [Threads -> ThreadCalls] /\ \A y \in Threads \ {x} : thread'[y] = thread[y]
        /\ ~mixed /\ UNCHANGED <<total, made, due>>
    BY <1>3, TurnsTo DEF ZeroCalls, ClearTraces, Ghosts, TrackerSteps
  <2>2. made = 0 /\ due = 0 /\ total + Worth(Unpaid) = due
    BY <2>1 DEF NumbersInv
  <2>3. \A y \in Threads \ {x} : thread[y].at = "rest"
    BY <2>1 DEF ResetAlone, Unmaking, Resting, AtRest
  <2>4. \A y \in Threads : thread[y].at \notin Uncounted /\ thread[y].at \notin Unlisted
    BY <2>1, <2>3 DEF Uncounted, Unlisted
  <2>5. HowMany(Uncounted) = 0 /\ HowMany(Unlisted) = 0 /\ Worth(Unlisted) = 0
    BY <2>4, SumsType
  <2>6. /\ HowMany(Uncounted)' = 0 /\ HowMany(Unlisted)' = 0 /\ Worth(Unlisted)' = 0
        /\ Worth(Unpaid)' = Worth(Unpaid)
    <3>1. thread[x].at \notin Uncounted /\ thread'[x].at \notin Uncounted
      BY <2>1 DEF Uncounted
    <3>2. QED BY <2>1, <2>5, <3>1, NumbersMove
  <2>7. CASE ZeroCalls(x)
    <3>1. calls' = 0 /\ thread'[x].at = "clear"
      BY <2>7, TurnsTo DEF ZeroCalls, TrackerSteps
    <3>2. QED BY <2>1, <2>2, <2>6, <3>1 DEF NumbersInv
  <2>8. CASE ClearTraces(x)
    <3>1. listed'.n = 0 /\ listed'.cost = 0 /\ calls' = calls /\ thread[x].at = "clear"
      BY <2>8 DEF ClearTraces, AfterClear, NoTraces
    <3>2. calls + HowMany(Uncounted) = made
      BY <2>1, <2>3, <3>1 DEF NumbersInv
    <3>3. QED BY <2>1, <2>2, <2>5, <2>6, <3>1, <3>2 DEF NumbersInv
  <2>9. QED BY <1>3, <2>7, <2>8
<1>4. CASE ClearFlags(x) \/ \E lim \in Limits : SetLimit(x, lim)
  <2>1. /\ thread[x].at \notin Uncounted \cup {"zero_calls", "clear"}
        /\ thread'[x].at \notin Uncounted \cup {"zero_calls", "clear"}
        /\ thread' \in [Threads -> ThreadCalls] /\ \A y \in Threads \ {x} : thread'[y] = thread[y]
    <3>1. CASE ClearFlags(x)
      BY <3>1, RestsTo DEF ClearFlags, Uncounted
    <3>2. CASE \E lim \in Limits : SetLimit(x, lim)
      BY <3>2, TurnsTo DEF SetLimit, Uncounted, TrackerSteps, AtRest
    <3>3. QED BY <1>4, <3>1, <3>2
  <2>2. ~mixed /\ UNCHANGED <<total, calls, listed, made, due>>
    <3>1. ~mixed
      BY Zenon, <1>4 DEF ClearFlags, SetLimit
    <3>2. UNCHANGED <<total, calls, listed, made, due>>
      BY Zenon, <1>4 DEF ClearFlags, SetLimit, Numbers
    <3>3. QED BY <3>1, <3>2
  <2>3. /\ HowMany(Uncounted)' = HowMany(Uncounted) /\ HowMany(Unlisted)' = HowMany(Unlisted)
        /\ Worth(Unlisted)' = Worth(Unlisted) /\ Worth(Unpaid)' = Worth(Unpaid)
    BY <2>1, NumbersMove
  <2>4. \A y \in Threads : /\ thread'[y].at = "zero_calls" <=> thread[y].at = "zero_calls"
                           /\ thread'[y].at = "clear" <=> thread[y].at = "clear"
    BY <2>1
  <2>5. QED BY <2>2, <2>3, <2>4 DEF NumbersInv
<1>5. QED BY <1>1, <1>2, <1>3, <1>4 DEF ThreadStep

\* A flag is set exactly when its event was sent since the flags were cleared.
FlagsInv == \A kind \in Kinds : kind \in flags <=> \E n \in 1 .. Len(alerts) : alerts[n] = kind

\* What was reported, or is about to be, is true.
AlertsTrue ==
    /\ "exceeded" \in flags => OverLimit
    /\ flags # {} => NearLimit
    /\ \A x \in Threads : /\ thread[x].at = "exceeded" => OverLimit
                          /\ thread[x].at = "warning" => NearLimit

\* What is true was reported, or a thread on its way will see it.
AlertsDue ==
    /\ OverLimit => \/ "exceeded" \in flags
                    \/ \E x \in Threads : thread[x].at \in {"calls", "check", "exceeded"}
    /\ NearLimit => \/ flags # {}
                    \/ \E x \in Threads : thread[x].at \in {"calls", "check", "exceeded", "warning"}

\* Two threads that did not check at once do not report the same.
AlertsOnce ==
    /\ \A x, y \in Threads : thread[x].at \in Kinds /\ thread[y].at \in Kinds => x = y
    /\ \A x \in Threads : thread[x].at \in Kinds => thread[x].at \notin flags
    /\ \A m, n \in 1 .. Len(alerts) : alerts[m] = alerts[n] => m = n

AlertsInv ==
    /\ FlagsInv
    /\ ~mixed /\ ~Resetting =>
         /\ limit # 0 => AlertsTrue
         /\ limit # 0 /\ seen => AlertsDue
         /\ ~twoChecked => AlertsOnce

\* A total that grows stays past the limit and past the threshold; a total past
\* the limit is past the threshold, which is a part of the limit.
LEMMA LimitsGrow ==
  ASSUME NEW t \in Nat, NEW u \in Nat, t <= u, NEW k \in Nat
  PROVE  t * k <= u * k /\ t * k \in Nat /\ u * k \in Nat
<1>1. PICK d \in Nat : u = t + d
  <2>1. u - t \in Nat /\ u = t + (u - t)
    OBVIOUS
  <2>2. QED BY <2>1
<1>2. u * k = t * k + d * k /\ t * k \in Nat /\ d * k \in Nat
  BY <1>1
<1>3. QED BY <1>2

\* Whoever is over the limit is over the warning threshold.
LEMMA OverIsNear ==
  ASSUME TrackerTypeOK, WarnNum <= WarnDen
  PROVE  OverLimit => NearLimit
<1> SUFFICES ASSUME total >= limit PROVE total * WarnDen >= limit * WarnNum
  BY DEF OverLimit, NearLimit
<1>1. total \in Nat /\ limit \in Nat /\ WarnNum \in Nat /\ WarnDen \in Nat
  BY TrackerAssumption DEF TrackerTypeOK
<1>2. limit * WarnDen <= total * WarnDen
  BY <1>1, LimitsGrow
<1>3. WarnNum * limit <= WarnDen * limit
  BY <1>1, LimitsGrow
<1>4. /\ WarnNum * limit = limit * WarnNum /\ WarnDen * limit = limit * WarnDen
      /\ limit * WarnNum \in Nat /\ limit * WarnDen \in Nat /\ total * WarnDen \in Nat
  BY <1>1
<1>5. QED BY <1>2, <1>3, <1>4

\* Spending more under the same limit brings nobody back below it.
LEMMA LimitsStay ==
  ASSUME TrackerTypeOK, TrackerTypeOK', limit' = limit, total <= total'
  PROVE  (OverLimit => OverLimit') /\ (NearLimit => NearLimit')
<1>1. /\ total \in Nat /\ total' \in Nat /\ limit \in Nat /\ WarnNum \in Nat /\ WarnDen \in Nat
  BY TrackerAssumption DEF TrackerTypeOK
<1>2. /\ total * WarnDen <= total' * WarnDen
      /\ total * WarnDen \in Nat /\ total' * WarnDen \in Nat
  BY <1>1, LimitsGrow
<1>3. limit <= limit /\ limit * WarnNum \in Nat
  <2>1. limit <= limit
    BY <1>1
  <2>2. QED BY <1>1, <2>1, LimitsGrow
<1>4. OverLimit => OverLimit'
  BY <1>1 DEF OverLimit
<1>5. NearLimit => NearLimit'
  BY <1>2, <1>3 DEF NearLimit
<1>6. QED BY <1>4, <1>5

\* An alert is appended.
LEMMA AlertAdded ==
  ASSUME TrackerTypeOK, FlagsInv, NEW kind \in Kinds, alerts' = Append(alerts, kind),
         flags' = flags \cup {kind}
  PROVE  /\ FlagsInv'
         /\ kind \notin flags /\ (\A m, n \in 1 .. Len(alerts) : alerts[m] = alerts[n] => m = n)
            => \A m, n \in 1 .. Len(alerts') : alerts'[m] = alerts'[n] => m = n
<1>1. alerts \in Seq(Kinds) /\ Len(alerts) \in Nat
  BY DEF TrackerTypeOK
<1>2. /\ Len(alerts') = Len(alerts) + 1 /\ alerts'[Len(alerts) + 1] = kind
      /\ \A n \in 1 .. Len(alerts) : alerts'[n] = alerts[n]
  BY <1>1
<1>3. \A n \in 1 .. Len(alerts') : n \in 1 .. Len(alerts) \/ n = Len(alerts) + 1
  BY <1>1, <1>2
<1>4. \A n \in 1 .. Len(alerts) : n \in 1 .. Len(alerts')
  BY <1>1, <1>2
<1>5. Len(alerts) + 1 \in 1 .. Len(alerts')
  BY <1>1, <1>2
<1>6. FlagsInv'
  <2> SUFFICES ASSUME NEW other \in Kinds
               PROVE  other \in flags' <=> \E n \in 1 .. Len(alerts') : alerts'[n] = other
    BY DEF FlagsInv
  <2>1. other \in flags <=> \E n \in 1 .. Len(alerts) : alerts[n] = other
    BY DEF FlagsInv
  <2>2. QED BY <1>2, <1>3, <1>4, <1>5, <2>1
<1>7. kind \notin flags => \A n \in 1 .. Len(alerts) : alerts[n] # kind
  BY DEF FlagsInv
<1>8. QED BY <1>2, <1>3, <1>6, <1>7

\* Steps of record that change no total, limit, flag or event, and take no
\* thread to or from an alert.
LEMMA QuietKeepsAlerts ==
  ASSUME TrackerTypeOK, AlertsInv, NEW x \in Threads, ~mixed' => ~mixed, ~Resetting' => ~Resetting,
         UNCHANGED <<total, limit, flags, alerts, twoChecked, seen>>,
         \A y \in Threads \ {x} : thread'[y] = thread[y],
         thread[x].at \notin Kinds, thread'[x].at \notin Kinds,
         thread[x].at \in {"calls", "check"} => thread'[x].at \in {"calls", "check"}
  PROVE  AlertsInv'
<1>1. FlagsInv' /\ (OverLimit' <=> OverLimit) /\ (NearLimit' <=> NearLimit)
  BY DEF AlertsInv, FlagsInv, OverLimit, NearLimit
<1>2. \A y \in Threads : thread'[y].at \in Kinds => y # x /\ thread[y].at = thread'[y].at
  OBVIOUS
<1>3. AlertsTrue => AlertsTrue'
  BY <1>1, <1>2 DEF AlertsTrue, Kinds
<1>4. AlertsDue => AlertsDue'
  <2>1. \A y \in Threads : thread[y].at \in {"calls", "check"} => thread'[y].at \in {"calls", "check"}
    OBVIOUS
  <2>2. \A y \in Threads : thread[y].at \in Kinds => thread'[y].at = thread[y].at
    OBVIOUS
  <2>3. \A y \in Threads : /\ thread[y].at \in {"calls", "check", "exceeded"}
                              => thread'[y].at \in {"calls", "check", "exceeded"}
                           /\ thread[y].at \in {"calls", "check", "exceeded", "warning"}
                              => thread'[y].at \in {"calls", "check", "exceeded", "warning"}
    BY <2>1, <2>2 DEF Kinds
  <2>4. QED BY <1>1, <2>3 DEF AlertsDue
<1>5. AlertsOnce => AlertsOnce'
  BY <1>2 DEF AlertsOnce
<1>6. QED BY Zenon, <1>1, <1>3, <1>4, <1>5 DEF AlertsInv

\* A cost that is added, and the check that follows.
LEMMA AddCostKeepsAlerts ==
  ASSUME TrackerTypeOK, TrackerTypeOK', AlertsInv, NEW x \in Threads, AddCost(x)
  PROVE  AlertsInv'
<1>1. /\ thread[x].at = "cost" /\ thread'[x].at = "calls"
      /\ \A y \in Threads \ {x} : thread'[y] = thread[y]
  BY TurnsTo DEF AddCost, TrackerSteps
<1>2. /\ UNCHANGED <<limit, flags, alerts>> /\ total <= total'
  <2>1. total \in Nat /\ thread[x].cost \in Nat
    BY DEF TrackerTypeOK, ThreadCalls
  <2>2. QED BY <2>1 DEF AddCost
<1>3. UNCHANGED <<mixed, twoChecked, seen>>
  BY Zenon DEF AddCost, Ghosts
<1>4. (OverLimit => OverLimit') /\ (NearLimit => NearLimit')
  BY <1>2, LimitsStay
<1>5. \A y \in Threads : thread'[y].at \in Kinds => y # x /\ thread[y].at = thread'[y].at
  BY <1>1 DEF Kinds
<1>6. FlagsInv'
  BY <1>2 DEF AlertsInv, FlagsInv
<1>7. AlertsTrue => AlertsTrue'
  BY <1>2, <1>4, <1>5 DEF AlertsTrue, Kinds
<1>8. AlertsDue'
  BY <1>1 DEF AlertsDue
<1>9. AlertsOnce => AlertsOnce'
  BY <1>2, <1>5 DEF AlertsOnce
<1>10. ~Resetting' => ~Resetting
  BY <1>1 DEF Resetting
<1>11. QED BY Zenon, <1>2, <1>3, <1>6, <1>7, <1>8, <1>9, <1>10 DEF AlertsInv

\* A check announces what is due, and nothing twice.
LEMMA CheckKeepsAlerts ==
  ASSUME TrackerTypeOK, AlertsInv, NEW x \in Threads, CheckLimit(x), WarnNum <= WarnDen
  PROVE  AlertsInv'
<1>1. /\ thread[x].at = "check" /\ thread'[x].at = NextAlert
      /\ NextAlert \in {"rest", "exceeded", "warning"}
      /\ \A y \in Threads \ {x} : thread'[y] = thread[y]
  <2>1. NextAlert \in {"rest", "exceeded", "warning"}
    BY DEF NextAlert
  <2>2. QED BY <2>1, TurnsTo, RestsTo DEF CheckLimit, TrackerSteps
<1>2. UNCHANGED <<total, limit, flags, alerts>>
  BY DEF CheckLimit, Numbers
<1>3. /\ mixed' = mixed
      /\ ~twoChecked' => ~twoChecked /\ \A y \in Threads \ {x} : thread[y].at \notin Kinds
  BY Zenon DEF CheckLimit, Kinds
<1>4. FlagsInv' /\ (OverLimit' <=> OverLimit) /\ (NearLimit' <=> NearLimit)
  BY <1>2 DEF AlertsInv, FlagsInv, OverLimit, NearLimit
<1>5. ~Resetting' => ~Resetting
  BY <1>1 DEF Resetting
<1>6. limit # 0 => /\ NextAlert = "exceeded" => OverLimit /\ "exceeded" \notin flags
                   /\ NextAlert = "warning" => NearLimit /\ "warning" \notin flags
                   /\ OverLimit => NextAlert = "exceeded" \/ "exceeded" \in flags
                   /\ NearLimit => NextAlert \in Kinds \/ flags # {}
  BY DEF NextAlert, Kinds
<1>7. limit = 0 => NextAlert = "rest"
  BY DEF NextAlert
<1>8. AlertsTrue /\ limit # 0 => AlertsTrue'
  BY <1>1, <1>2, <1>4, <1>6 DEF AlertsTrue
<1>9. limit # 0 => AlertsDue'
  BY <1>1, <1>2, <1>4, <1>6 DEF AlertsDue, Kinds
<1>10. AlertsOnce /\ ~twoChecked' => AlertsOnce'
  <2> SUFFICES ASSUME AlertsOnce, ~twoChecked' PROVE AlertsOnce'
    OBVIOUS
  <2>1. \A y \in Threads : thread'[y].at \in Kinds => y = x
    BY <1>1, <1>3
  <2>2. thread'[x].at \in Kinds => thread'[x].at \notin flags
    BY <1>1, <1>6, <1>7 DEF Kinds
  <2>3. \A y, z \in Threads : thread'[y].at \in Kinds /\ thread'[z].at \in Kinds => y = z
    BY <2>1
  <2>4. \A y \in Threads : thread'[y].at \in Kinds => thread'[y].at \notin flags'
    BY <1>2, <2>1, <2>2
  <2>5. \A m, n \in 1 .. Len(alerts') : alerts'[m] = alerts'[n] => m = n
    BY <1>2 DEF AlertsOnce
  <2>6. QED BY <2>3, <2>4, <2>5 DEF AlertsOnce
<1>11. QED BY Zenon, <1>2, <1>3, <1>4, <1>5, <1>8, <1>9, <1>10 DEF AlertsInv

\* An alert that goes out is due and was not sent before.
LEMMA SendKeepsAlerts ==
  ASSUME TrackerTypeOK, AlertsInv, NEW x \in Threads, SendAlert(x), WarnNum <= WarnDen
  PROVE  AlertsInv'
<1> DEFINE kind == thread[x].at
<1>1. /\ kind \in Kinds /\ thread'[x].at = "rest" /\ \A y \in Threads \ {x} : thread'[y] = thread[y]
  BY RestsTo DEF SendAlert, Kinds
<1>2. flags' = flags \cup {kind} /\ alerts' = Append(alerts, kind) /\ UNCHANGED <<total, limit>>
  BY DEF SendAlert, Numbers
<1>3. UNCHANGED <<mixed, twoChecked, seen>>
  BY Zenon DEF SendAlert, Ghosts
<1>4. (OverLimit' <=> OverLimit) /\ (NearLimit' <=> NearLimit)
  BY <1>2 DEF OverLimit, NearLimit
<1>5. ~Resetting' => ~Resetting
  BY <1>1 DEF Resetting, Kinds
<1>6. FlagsInv
  BY DEF AlertsInv
<1>7. /\ FlagsInv'
      /\ kind \notin flags /\ (\A m, n \in 1 .. Len(alerts) : alerts[m] = alerts[n] => m = n)
         => \A m, n \in 1 .. Len(alerts') : alerts'[m] = alerts'[n] => m = n
  BY <1>1, <1>2, <1>6, AlertAdded
<1>8. AlertsTrue => AlertsTrue'
  <2> SUFFICES ASSUME AlertsTrue PROVE AlertsTrue'
    OBVIOUS
  <2>1. (kind = "exceeded" => OverLimit) /\ (kind = "warning" => NearLimit)
    BY DEF AlertsTrue
  <2>2. ("exceeded" \in flags => OverLimit) /\ NearLimit
    <3>1. NearLimit
      BY <1>1, <2>1, OverIsNear DEF Kinds
    <3>2. QED BY <3>1 DEF AlertsTrue
  <2>3. \A y \in Threads : /\ thread'[y].at = "exceeded" => OverLimit
                           /\ thread'[y].at = "warning" => NearLimit
    BY <1>1 DEF AlertsTrue
  <2>4. QED BY <1>2, <1>4, <2>1, <2>2, <2>3 DEF AlertsTrue
<1>9. AlertsDue => AlertsDue'
  <2> SUFFICES ASSUME AlertsDue PROVE AlertsDue'
    OBVIOUS
  <2>1. flags' # {}
    BY <1>2
  <2>2. ASSUME OverLimit
        PROVE  \/ "exceeded" \in flags'
               \/ \E y \in Threads : thread'[y].at \in {"calls", "check", "exceeded"}
    <3>1. CASE "exceeded" \in flags
      BY <1>2, <3>1
    <3>2. ASSUME NEW y \in Threads, thread[y].at \in {"calls", "check", "exceeded"}
          PROVE  \/ "exceeded" \in flags'
                 \/ \E z \in Threads : thread'[z].at \in {"calls", "check", "exceeded"}
      BY <1>1, <1>2, <3>2 DEF Kinds
    <3>3. QED BY <2>2, <3>1, <3>2 DEF AlertsDue
  <2>3. QED BY <1>4, <2>1, <2>2 DEF AlertsDue
<1>10. AlertsOnce => AlertsOnce'
  <2> SUFFICES ASSUME AlertsOnce PROVE AlertsOnce'
    OBVIOUS
  <2>1. \A y \in Threads : thread'[y].at \notin Kinds
    <3>1. "rest" \notin Kinds
      BY DEF Kinds
    <3>2. \A y \in Threads \ {x} : thread[y].at \notin Kinds
      BY <1>1 DEF AlertsOnce
    <3>3. QED BY <1>1, <3>1, <3>2
  <2>2. kind \notin flags
    BY <1>1 DEF AlertsOnce
  <2>3. \A m, n \in 1 .. Len(alerts') : alerts'[m] = alerts'[n] => m = n
    BY <1>7, <2>2 DEF AlertsOnce
  <2>4. QED BY <2>1, <2>3 DEF AlertsOnce
<1>11. QED BY Zenon, <1>2, <1>3, <1>5, <1>7, <1>8, <1>9, <1>10 DEF AlertsInv

\* Every step keeps the alerts in order.
LEMMA AlertsStep ==
  ASSUME TrackerTypeOK, TrackerTypeOK', ResetAlone, AlertsInv, NEW x \in Threads, ThreadStep(x),
         WarnNum <= WarnDen
  PROVE  AlertsInv'
<1>1. ASSUME NEW outcome \in {"answered", "unpriced", "failed"}, NEW price \in Prices,
             CallEnds(x, outcome, price)
      PROVE  AlertsInv'
  <2>1. /\ thread[x].at = "rest" /\ thread'[x].at = "trace"
        /\ \A y \in Threads \ {x} : thread'[y] = thread[y]
    BY <1>1, CallComes
  <2>2. UNCHANGED <<total, limit, flags, alerts, twoChecked, seen>> /\ (~mixed' => ~mixed)
    BY Zenon, <1>1 DEF CallEnds, Numbers
  <2>3. ~Resetting' => ~Resetting
    BY <2>1 DEF Resetting
  <2>4. "rest" \notin Kinds /\ "trace" \notin Kinds
    BY DEF Kinds
  <2>5. QED BY <2>1, <2>2, <2>3, <2>4, QuietKeepsAlerts
<1>2. CASE AppendTrace(x) \/ AddCall(x)
  <2>1. /\ \/ thread[x].at = "trace" /\ thread'[x].at = "cost"
           \/ thread[x].at = "calls" /\ thread'[x].at = "check"
        /\ \A y \in Threads \ {x} : thread'[y] = thread[y]
    BY <1>2, TurnsTo DEF AppendTrace, AddCall, TrackerSteps
  <2>2. UNCHANGED <<total, limit, flags, alerts, twoChecked, seen>> /\ (~mixed' => ~mixed)
    <3>1. CASE AppendTrace(x)
      BY Zenon, <3>1 DEF AppendTrace, Ghosts
    <3>2. CASE AddCall(x)
      BY Zenon, <3>2 DEF AddCall, Ghosts
    <3>3. QED BY <1>2, <3>1, <3>2
  <2>3. ~Resetting' => ~Resetting
    BY <2>1 DEF Resetting
  <2>4. thread[x].at \notin Kinds /\ thread'[x].at \notin Kinds
    BY <2>1 DEF Kinds
  <2>5. QED BY <2>1, <2>2, <2>3, <2>4, QuietKeepsAlerts
<1>3. CASE ResetTotal(x) \/ ZeroCalls(x) \/ ClearTraces(x) \/ \E lim \in Limits : SetLimit(x, lim)
  <2>1. thread'[x].at \in {"zero_calls", "clear", "unflag", "unflag_new"} /\ UNCHANGED <<flags, alerts>>
    <3>1. CASE ResetTotal(x)
      BY <3>1, TurnsTo DEF ResetTotal, TrackerSteps
    <3>2. CASE ZeroCalls(x) \/ ClearTraces(x)
      BY <3>2, TurnsTo DEF ZeroCalls, ClearTraces, TrackerSteps
    <3>3. CASE \E lim \in Limits : SetLimit(x, lim)
      BY <3>3, TurnsTo DEF SetLimit, TrackerSteps
    <3>4. QED BY <1>3, <3>1, <3>2, <3>3
  <2>2. Resetting' /\ FlagsInv'
    BY <2>1 DEF Resetting, AlertsInv, FlagsInv
  <2>3. QED BY <2>2 DEF AlertsInv
<1>4. CASE ClearFlags(x)
  <2>1. /\ thread[x].at \in Unmaking /\ thread'[x].at = "rest"
        /\ \A y \in Threads \ {x} : thread'[y] = thread[y]
        /\ flags' = {} /\ alerts' = <<>>
    BY <1>4, RestsTo DEF ClearFlags, Unmaking
  <2>2. mixed' = mixed /\ ~seen'
    BY Zenon, <1>4 DEF ClearFlags
  <2>3. FlagsInv'
    BY <2>1 DEF FlagsInv
  <2>4. ~mixed' => \A y \in Threads : thread'[y].at = "rest"
    BY <2>1, <2>2 DEF ResetAlone, Resting, AtRest
  <2>5. ~mixed' => AlertsTrue' /\ AlertsOnce'
    BY <2>1, <2>4 DEF AlertsTrue, AlertsOnce, Kinds
  <2>6. QED BY Zenon, <2>2, <2>3, <2>5 DEF AlertsInv
<1>5. QED BY <1>1, <1>2, <1>3, <1>4, AddCostKeepsAlerts, CheckKeepsAlerts, SendKeepsAlerts
          DEF ThreadStep

\* How often an event was sent, without counting.
LEMMA CountIs ==
  ASSUME TrackerTypeOK, NEW kind
  PROVE  /\ CountOf(kind) > 0 <=> \E n \in 1 .. Len(alerts) : alerts[n] = kind
         /\ (\A m, n \in 1 .. Len(alerts) : alerts[m] = alerts[n] => m = n) => CountOf(kind) <= 1
<1> DEFINE places == {n \in 1 .. Len(alerts) : alerts[n] = kind}
<1>1. Len(alerts) \in Nat
  BY DEF TrackerTypeOK
<1>2. IsFiniteSet(places) /\ Cardinality(places) \in Nat
  <2>1. IsFiniteSet(1 .. Len(alerts))
    BY <1>1, FS_Interval
  <2>2. places \in SUBSET (1 .. Len(alerts))
    OBVIOUS
  <2> HIDE DEF places
  <2>3. QED BY <2>1, <2>2, FS_Subset, FS_CardinalityType
<1>3. Cardinality(places) = 0 <=> places = {}
  BY <1>2, FS_EmptySet
<1>4. ASSUME \A m, n \in 1 .. Len(alerts) : alerts[m] = alerts[n] => m = n
      PROVE  Cardinality(places) <= 1
  <2>1. CASE places = {}
    BY <1>3, <2>1
  <2>2. CASE places # {}
    <3>1. PICK n \in 1 .. Len(alerts) : n \in places
      BY <2>2
    <3>2. places = {n}
      BY <1>4, <3>1
    <3>3. Cardinality({n}) = 1
      BY FS_Singleton
    <3>4. QED BY <3>2, <3>3
  <2>3. QED BY <2>1, <2>2
<1>5. CountOf(kind) = Cardinality(places)
  BY DEF CountOf
<1>6. CountOf(kind) > 0 <=> places # {}
  BY <1>2, <1>3, <1>5
<1>7. QED BY <1>4, <1>5, <1>6

\* The tracker is in order in every state: once the threads are out of it, its
\* totals are those of the calls made, and the alerts are true, due and sent
\* once; for any number of threads, prices and limits.  A warning threshold
\* above the limit would be out of order: the limit would be reported unwarned.
THEOREM TrackerIsSound ==
  ASSUME WarnNum <= WarnDen
  PROVE  TrackerSpec => []TrackerSound
<1> DEFINE Inv == TrackerTypeOK /\ ResetAlone /\ NumbersInv /\ AlertsInv
<1>1. TrackerInit => Inv
  <2> SUFFICES ASSUME TrackerInit PROVE Inv
    OBVIOUS
  <2>1. TrackerTypeOK
    <3>1. AtRest \in ThreadCalls
      BY DEF AtRest, ThreadCalls, TrackerSteps
    <3>2. TrackerData
      BY <3>1 DEF TrackerInit, TrackerData, NoTraces
    <3>3. mixed \in BOOLEAN /\ twoChecked \in BOOLEAN /\ seen \in BOOLEAN
      BY Zenon DEF TrackerInit
    <3>4. QED BY <3>2, <3>3 DEF TrackerData, TrackerTypeOK
  <2>2. \A x \in Threads : thread[x].at = "rest"
    BY DEF TrackerInit, AtRest
  <2>3. ResetAlone
    BY <2>2 DEF ResetAlone, Unmaking
  <2>4. NumbersInv
    <3>1. /\ HowMany(Uncounted) = 0 /\ HowMany(Unlisted) = 0
          /\ Worth(Unpaid) = 0 /\ Worth(Unlisted) = 0
      BY <2>1, <2>2, SumsType DEF Uncounted, Unlisted, Unpaid
    <3>2. QED BY <2>2, <3>1 DEF TrackerInit, NumbersInv, NoTraces
  <2>5. AlertsInv
    <3>1. FlagsInv /\ limit = 0
      BY DEF TrackerInit, FlagsInv
    <3>2. AlertsOnce
      BY <2>2 DEF TrackerInit, AlertsOnce, Kinds
    <3>3. QED BY <3>1, <3>2 DEF AlertsInv
  <2>6. QED BY <2>1, <2>3, <2>4, <2>5
<1>2. Inv /\ [TrackerNext]_tvars => Inv'
  <2> SUFFICES ASSUME Inv, [TrackerNext]_tvars PROVE Inv'
    OBVIOUS
  <2>1. ASSUME NEW x \in Threads, ThreadStep(x) PROVE Inv'
    <3>1. TrackerTypeOK'
      BY <2>1, TrackerTypeStep
    <3>2. QED BY <2>1, <3>1, ResetAloneStep, NumbersStep, AlertsStep
  <2>2. CASE UNCHANGED tvars
    <3>1. TrackerTypeOK'
      BY Zenon, <2>2 DEF tvars, TrackerTypeOK
    <3>2. ResetAlone'
      BY Zenon, <2>2 DEF tvars, ResetAlone, Resting
    <3>3. NumbersInv'
      BY Zenon, <2>2 DEF tvars, NumbersInv, HowMany, Worth
    <3>4. AlertsInv'
      <4>1. FlagsInv' /\ (AlertsTrue => AlertsTrue') /\ (AlertsDue => AlertsDue')
        BY Zenon, <2>2 DEF tvars, AlertsInv, FlagsInv, AlertsTrue, AlertsDue, OverLimit, NearLimit
      <4>2. AlertsOnce => AlertsOnce'
        BY Zenon, <2>2 DEF tvars, AlertsOnce
      <4>3. Resetting' <=> Resetting
        BY Zenon, <2>2 DEF tvars, Resetting
      <4>4. QED BY Zenon, <2>2, <4>1, <4>2, <4>3 DEF tvars, AlertsInv
    <3>5. QED BY <3>1, <3>2, <3>3, <3>4
  <2>3. TrackerNext => \E x \in Threads : ThreadStep(x)
    BY DEF TrackerNext, ThreadStep
  <2>4. QED BY <2>1, <2>2, <2>3
<1>3. Inv => TrackerSound
  <2> SUFFICES ASSUME Inv PROVE TrackerSound
    OBVIOUS
  <2>1. Resting(Threads) => ~Resetting /\ \A x \in Threads : thread[x].at = "rest"
    BY DEF Resting, AtRest, Resetting
  <2>2. TrackerAddsUp
    <3> SUFFICES ASSUME Resting(Threads), ~mixed
                 PROVE  listed = [n |-> calls, cost |-> total] /\ calls = made /\ total = due
      BY DEF TrackerAddsUp
    <3>1. \A x \in Threads : thread[x].at \notin Uncounted \cup Unpaid \cup Unlisted
      BY <2>1 DEF Uncounted, Unpaid, Unlisted
    <3>2. /\ HowMany(Uncounted) = 0 /\ HowMany(Unlisted) = 0
          /\ Worth(Unpaid) = 0 /\ Worth(Unlisted) = 0
      BY <3>1, SumsType
    <3>3. /\ total \in Nat /\ calls \in Nat /\ listed \in [n : Nat, cost : Nat]
          /\ listed.n \in Nat /\ listed.cost \in Nat
      BY DEF TrackerTypeOK
    <3>4. calls = made /\ total = due /\ listed.n = made /\ listed.cost = due
      BY <2>1, <3>2, <3>3 DEF NumbersInv
    <3>5. QED BY <3>3, <3>4
  <2>3. ASSUME Resting(Threads), ~mixed, seen, limit # 0
        PROVE  /\ OverLimit => CountOf("exceeded") > 0
               /\ NearLimit => alerts # <<>>
               /\ alerts # <<>> => NearLimit
               /\ CountOf("exceeded") > 0 => OverLimit
    <3>1. AlertsTrue /\ AlertsDue /\ FlagsInv
      BY Zenon, <2>1, <2>3 DEF AlertsInv
    <3>2. CountOf("exceeded") > 0 <=> "exceeded" \in flags
      BY <3>1, CountIs DEF FlagsInv, Kinds
    <3>3. alerts # <<>> <=> flags # {}
      <4>1. alerts \in Seq(Kinds) /\ flags \subseteq Kinds
        BY DEF TrackerTypeOK
      <4>2. alerts # <<>> => Len(alerts) >= 1 /\ 1 \in 1 .. Len(alerts) /\ alerts[1] \in Kinds
        BY <4>1
      <4>3. alerts = <<>> => 1 .. Len(alerts) = {}
        OBVIOUS
      <4>4. QED BY <3>1, <4>1, <4>2, <4>3 DEF FlagsInv
    <3>4. OverLimit => "exceeded" \in flags
      BY <2>1, <2>3, <3>1 DEF AlertsDue
    <3>5. NearLimit => flags # {}
      BY <2>1, <2>3, <3>1 DEF AlertsDue
    <3>6. QED BY <3>1, <3>2, <3>3, <3>4, <3>5 DEF AlertsTrue
  <2>4. ASSUME ~Resetting, ~mixed, ~twoChecked
        PROVE  CountOf("exceeded") <= 1 /\ CountOf("warning") <= 1
    <3>1. AlertsOnce
      BY Zenon, <2>4 DEF AlertsInv
    <3>2. QED BY <3>1, CountIs DEF AlertsOnce
  <2>5. AlertsRight
    BY <2>3, <2>4 DEF AlertsRight
  <2>6. QED BY <2>2, <2>5 DEF TrackerSound
<1>4. QED BY <1>1, <1>2, <1>3, PTL DEF TrackerSpec

-----------------------------------------------------------------------------
(* Cost centers and chargeback.                                             *)

\* A worker that goes on to a task.
LEMMA TaskType ==
  ASSUME ChargebackTypeOK, NEW w \in Staff, NEW op, NEW c, NEW r,
         [op |-> op, center |-> c, rule |-> r] \in Tasks,
         op # "idle" => c \in Center, op = "insert" => r \in RuleSet, Passes(w, op, c, r)
  PROVE  /\ worker' \in [Staff -> Tasks]
         /\ \A v \in Staff : worker'[v].op # "idle" => worker'[v].center \in Center
         /\ \A v \in Staff : worker'[v].op = "insert" => worker'[v].rule \in RuleSet
  BY DEF ChargebackTypeOK, Passes

\* A worker that is done.
LEMMA TaskDone ==
  ASSUME ChargebackTypeOK, NEW w \in Staff, worker' = [worker EXCEPT ![w] = NoTask]
  PROVE  /\ worker' \in [Staff -> Tasks]
         /\ \A v \in Staff : worker'[v].op # "idle" => worker'[v].center \in Center
         /\ \A v \in Staff : worker'[v].op = "insert" => worker'[v].rule \in RuleSet
  BY DEF ChargebackTypeOK, NoTask, Tasks

\* One more edit.
LEMMA EditType ==
  ASSUME ChargebackTypeOK, OneMore
  PROVE  edit' \in 0 .. MaxEdit
  BY ChargebackAssumption DEF ChargebackTypeOK, OneMore

\* A table whose rows change in place is still a table.
LEMMA RowsStay ==
  ASSUME NEW X, NEW s \in Seq(X), NEW f, DOMAIN f = DOMAIN s, f = [i \in DOMAIN s |-> f[i]],
         \A i \in DOMAIN s : f[i] \in X
  PROVE  f \in Seq(X)
<1>1. DOMAIN s = 1 .. Len(s) /\ Len(s) \in Nat
  OBVIOUS
<1>2. f \in [1 .. Len(s) -> X]
  BY <1>1
<1>3. QED BY <1>1, <1>2, SeqDef

\* A rule that is there is a rule.
LEMMA RuleIs ==
  ASSUME ChargebackTypeOK, NEW i \in DOMAIN rules, rules[i] # Null
  PROVE  /\ rules[i] \in RuleSet /\ rules[i].center \in Center /\ rules[i].org \in Tenants
         /\ rules[i].share \in Nat /\ rules[i].project \in Work \cup {Null}
<1>1. rules[i] \in RuleSet
  BY DEF ChargebackTypeOK
<1>2. QED BY <1>1, ChargebackAssumption DEF RuleSet

\* The tables of cost centers stay well formed.
LEMMA ChargebackTypeStep == ChargebackTypeOK /\ [ChargebackNext]_cvars => ChargebackTypeOK'
<1> SUFFICES ASSUME ChargebackTypeOK, [ChargebackNext]_cvars PROVE ChargebackTypeOK'
  OBVIOUS
<1>1. Null \notin Center /\ MaxEdit \in Nat
  BY ChargebackAssumption
<1>2. ASSUME NEW w \in Staff, NEW c \in Center, NEW o \in Tenants,
             CreateCenter(w, c, o) \/ UpdateCenter(w, c, o)
      PROVE  ChargebackTypeOK'
  <2>1. /\ worker' \in [Staff -> Tasks]
        /\ \A v \in Staff : worker'[v].op # "idle" => worker'[v].center \in Center
        /\ \A v \in Staff : worker'[v].op = "insert" => worker'[v].rule \in RuleSet
    <3>1. Passes(w, "log", c, Null) /\ [op |-> "log", center |-> c, rule |-> Null] \in Tasks
      BY <1>2 DEF CreateCenter, UpdateCenter, Tasks
    <3>2. QED BY <3>1, TaskType
  <2>2. edit' \in 0 .. MaxEdit
    BY <1>2, EditType DEF CreateCenter, UpdateCenter
  <2>3. center' \in [Center -> Tenants \cup {Null}] /\ altered' \in [Center -> Nat]
        /\ UNCHANGED <<rules, traces, entries>>
    <3>1. CASE CreateCenter(w, c, o)
      BY <3>1 DEF CreateCenter, ChargebackTypeOK
    <3>2. CASE UpdateCenter(w, c, o)
      BY <3>2 DEF UpdateCenter, ChargebackTypeOK
    <3>3. QED BY <1>2, <3>1, <3>2
  <2>4. QED BY <2>1, <2>2, <2>3 DEF ChargebackTypeOK
<1>3. ASSUME NEW w \in Staff, NEW c \in Center, NEW o \in Tenants, DeleteRules(w, c, o)
      PROVE  ChargebackTypeOK'
  <2>1. /\ worker' \in [Staff -> Tasks]
        /\ \A v \in Staff : worker'[v].op # "idle" => worker'[v].center \in Center
        /\ \A v \in Staff : worker'[v].op = "insert" => worker'[v].rule \in RuleSet
    <3>1. Passes(w, "delete", c, Null) /\ [op |-> "delete", center |-> c, rule |-> Null] \in Tasks
      BY <1>3 DEF DeleteRules, Tasks
    <3>2. QED BY <3>1, TaskType
  <2>2. edit' \in 0 .. MaxEdit
    BY <1>3, EditType DEF DeleteRules
  <2>3. rules' \in Seq(RuleSet \cup {Null})
    <3>1. rules \in Seq(RuleSet \cup {Null}) /\ \A i \in DOMAIN rules : rules[i] \in RuleSet \cup {Null}
      BY DEF ChargebackTypeOK
    <3>2. /\ DOMAIN rules' = DOMAIN rules /\ rules' = [i \in DOMAIN rules |-> rules'[i]]
          /\ \A i \in DOMAIN rules : rules'[i] \in {rules[i], Null}
      BY <1>3 DEF DeleteRules
    <3>3. \A i \in DOMAIN rules : rules'[i] \in RuleSet \cup {Null}
      BY <3>1, <3>2
    <3>4. QED BY <3>1, <3>2, <3>3, RowsStay
  <2>4. QED BY <1>3, <2>1, <2>2, <2>3 DEF ChargebackTypeOK, DeleteRules
<1>4. ASSUME NEW w \in Staff, DeleteCenter(w) PROVE ChargebackTypeOK'
  <2>1. worker[w].center \in Center
    BY <1>4 DEF DeleteCenter, ChargebackTypeOK
  <2>2. /\ worker' \in [Staff -> Tasks]
        /\ \A v \in Staff : worker'[v].op # "idle" => worker'[v].center \in Center
        /\ \A v \in Staff : worker'[v].op = "insert" => worker'[v].rule \in RuleSet
    <3>1. /\ Passes(w, "log", worker[w].center, Null)
          /\ [op |-> "log", center |-> worker[w].center, rule |-> Null] \in Tasks
      BY <1>4, <2>1 DEF DeleteCenter, Tasks
    <3>2. QED BY <2>1, <3>1, TaskType
  <2>3. center' \in [Center -> Tenants \cup {Null}] /\ altered' \in [Center -> Nat]
        /\ UNCHANGED <<rules, traces, entries, edit>>
    BY <1>4, <2>1 DEF DeleteCenter, ChargebackTypeOK
  <2>4. QED BY <2>2, <2>3 DEF ChargebackTypeOK
<1>5. ASSUME NEW w \in Staff, LogEntry(w) PROVE ChargebackTypeOK'
  <2>1. worker[w].center \in Center /\ worker' = [worker EXCEPT ![w] = NoTask]
    BY <1>5 DEF LogEntry, ChargebackTypeOK
  <2>2. entries' \in [Center -> Nat] /\ UNCHANGED <<center, rules, traces, altered, edit>>
    BY <1>5, <2>1 DEF LogEntry, ChargebackTypeOK
  <2>3. QED BY <2>1, <2>2, TaskDone DEF ChargebackTypeOK
<1>6. ASSUME NEW w \in Staff, NEW r \in RuleSet, CheckCenter(w, r) PROVE ChargebackTypeOK'
  <2>1. r.center \in Center
    BY DEF RuleSet
  <2>2. /\ worker' \in [Staff -> Tasks]
        /\ \A v \in Staff : worker'[v].op # "idle" => worker'[v].center \in Center
        /\ \A v \in Staff : worker'[v].op = "insert" => worker'[v].rule \in RuleSet
    <3>1. Passes(w, "insert", r.center, r) /\ [op |-> "insert", center |-> r.center, rule |-> r] \in Tasks
      BY <1>6, <2>1 DEF CheckCenter, Tasks
    <3>2. QED BY <2>1, <3>1, TaskType
  <2>3. edit' \in 0 .. MaxEdit
    BY <1>6, EditType DEF CheckCenter
  <2>4. QED BY <1>6, <2>2, <2>3 DEF ChargebackTypeOK, CheckCenter
<1>7. ASSUME NEW w \in Staff, InsertRule(w) PROVE ChargebackTypeOK'
  <2>1. worker[w].rule \in RuleSet /\ worker' = [worker EXCEPT ![w] = NoTask]
    BY <1>7 DEF InsertRule, ChargebackTypeOK
  <2>2. rules' \in Seq(RuleSet \cup {Null})
    BY <1>7, <2>1 DEF InsertRule, ChargebackTypeOK
  <2>3. QED BY <1>7, <2>1, <2>2, TaskDone DEF ChargebackTypeOK, InsertRule
<1>8. ASSUME NEW w \in Staff, NEW i \in DOMAIN rules,
             DeleteRule(w, i) \/ \E r \in RuleSet : UpdateRule(w, i, r)
      PROVE  ChargebackTypeOK'
  <2>1. edit' \in 0 .. MaxEdit
    BY <1>8, EditType DEF DeleteRule, UpdateRule
  <2>2. rules \in Seq(RuleSet \cup {Null}) /\ rules[i] \in RuleSet
    BY <1>8, RuleIs DEF DeleteRule, UpdateRule, ChargebackTypeOK
  <2>3. PICK r \in RuleSet \cup {Null} : rules' = [rules EXCEPT ![i] = r]
    <3>1. CASE DeleteRule(w, i)
      BY <3>1 DEF DeleteRule
    <3>2. CASE \E r \in RuleSet : UpdateRule(w, i, r)
      BY <3>2 DEF UpdateRule
    <3>3. QED BY <1>8, <3>1, <3>2
  <2>4. rules' \in Seq(RuleSet \cup {Null})
    BY <2>2, <2>3
  <2>5. UNCHANGED <<center, traces, worker, entries, altered>>
    BY <1>8 DEF DeleteRule, UpdateRule
  <2>6. QED BY <2>1, <2>4, <2>5 DEF ChargebackTypeOK
<1>9. ASSUME NEW t \in TraceSet, LogCost(t) PROVE ChargebackTypeOK'
  BY <1>9 DEF LogCost, ChargebackTypeOK
<1>10. ASSUME UNCHANGED cvars PROVE ChargebackTypeOK'
  BY <1>10 DEF cvars, ChargebackTypeOK
<1>11. QED
  BY <1>2, <1>3, <1>4, <1>5, <1>6, <1>7, <1>8, <1>9, <1>10 DEF ChargebackNext

\* The workers that are about to write the audit entry of a center.
LogsOf(c) == {w \in Staff : worker[w].op = "log" /\ worker[w].center = c}

\* A worker that takes up or finishes the entry of a center counts for it.
LEMMA LogsMove ==
  ASSUME ChargebackTypeOK, NEW w \in Staff, NEW t, worker' = [worker EXCEPT ![w] = t],
         NEW c \in Center
  PROVE  /\ Cardinality(LogsOf(c)) \in Nat /\ Cardinality(LogsOf(c)') \in Nat
         /\ worker[w].op # "log" /\ t.op = "log" /\ t.center = c =>
              Cardinality(LogsOf(c)') = Cardinality(LogsOf(c)) + 1
         /\ worker[w].op = "log" /\ worker[w].center = c /\ t.op # "log" =>
              Cardinality(LogsOf(c)') = Cardinality(LogsOf(c)) - 1
         /\ ~(worker[w].op = "log" /\ worker[w].center = c) /\ ~(t.op = "log" /\ t.center = c) =>
              LogsOf(c)' = LogsOf(c)
<1>1. /\ worker'[w] = t /\ \A v \in Staff \ {w} : worker'[v] = worker[v]
      /\ IsFiniteSet(LogsOf(c)) /\ IsFiniteSet(LogsOf(c)')
  BY ChargebackAssumption, FS_Subset DEF ChargebackTypeOK, LogsOf
<1>2. /\ w \in LogsOf(c) <=> worker[w].op = "log" /\ worker[w].center = c
      /\ w \in LogsOf(c)' <=> t.op = "log" /\ t.center = c
      /\ \A v \in Staff \ {w} : v \in LogsOf(c) <=> v \in LogsOf(c)'
      /\ LogsOf(c) \subseteq Staff /\ LogsOf(c)' \subseteq Staff
  BY <1>1 DEF LogsOf
<1>3. Cardinality(LogsOf(c)) \in Nat /\ Cardinality(LogsOf(c)') \in Nat
  BY <1>1, FS_CardinalityType
<1>4. w \notin LogsOf(c) /\ w \in LogsOf(c)' => LogsOf(c)' = LogsOf(c) \cup {w}
  BY <1>2
<1>5. w \in LogsOf(c) /\ w \notin LogsOf(c)' => LogsOf(c)' = LogsOf(c) \ {w}
  BY <1>2
<1>6. (w \in LogsOf(c) <=> w \in LogsOf(c)') => LogsOf(c)' = LogsOf(c)
  BY <1>2
<1> DEFINE L == LogsOf(c)
<1>7. /\ w \notin L => Cardinality(L \cup {w}) = Cardinality(L) + 1
      /\ w \in L => Cardinality(L \ {w}) = Cardinality(L) - 1
  BY <1>1, FS_AddElement, FS_RemoveElement
<1>8. QED BY <1>2, <1>3, <1>4, <1>5, <1>6, <1>7

\* Every change of a center has its entry, or a worker that owes it.
LEMMA CentersStep ==
  ASSUME ChargebackTypeOK, CentersAudited, [ChargebackNext]_cvars
  PROVE  CentersAudited'
<1>1. \A c \in Center : entries[c] \in Nat /\ altered[c] \in Nat
      /\ entries[c] + Cardinality(LogsOf(c)) = altered[c]
  BY DEF ChargebackTypeOK, CentersAudited, LogsOf
<1> SUFFICES ASSUME NEW c \in Center
             PROVE  entries'[c] + Cardinality(LogsOf(c)') = altered'[c]
  BY DEF CentersAudited, LogsOf
<1>2. ASSUME NEW w \in Staff, NEW d \in Center, NEW o \in Tenants,
             CreateCenter(w, d, o) \/ UpdateCenter(w, d, o)
      PROVE  entries'[c] + Cardinality(LogsOf(c)') = altered'[c]
  <2> DEFINE t == [op |-> "log", center |-> d, rule |-> Null]
  <2>1. /\ worker' = [worker EXCEPT ![w] = t] /\ worker[w] = NoTask /\ entries' = entries
        /\ altered' = [altered EXCEPT ![d] = @ + 1]
    BY <1>2 DEF CreateCenter, UpdateCenter, Passes
  <2>2. t.op = "log" /\ t.center = d /\ worker[w].op # "log"
    BY <2>1 DEF NoTask
  <2> HIDE DEF t
  <2>3. /\ c = d => Cardinality(LogsOf(c)') = Cardinality(LogsOf(c)) + 1
        /\ c # d => LogsOf(c)' = LogsOf(c)
        /\ Cardinality(LogsOf(c)) \in Nat
    BY <2>1, <2>2, LogsMove
  <2>4. (c = d => altered'[c] = altered[c] + 1) /\ (c # d => altered'[c] = altered[c])
    BY <2>1 DEF ChargebackTypeOK
  <2>5. QED BY <1>1, <2>1, <2>3, <2>4
<1>3. ASSUME NEW w \in Staff, DeleteCenter(w)
      PROVE  entries'[c] + Cardinality(LogsOf(c)') = altered'[c]
  <2>0. PICK d \in Center : d = worker[w].center
    BY <1>3 DEF DeleteCenter, ChargebackTypeOK
  <2> DEFINE t == [op |-> "log", center |-> d, rule |-> Null]
  <2>1. /\ worker' = [worker EXCEPT ![w] = t] /\ worker[w].op = "delete" /\ entries' = entries
        /\ altered' = [altered EXCEPT ![d] = @ + 1]
    BY <1>3, <2>0 DEF DeleteCenter, Passes
  <2>2. t.op = "log" /\ t.center = d /\ worker[w].op # "log"
    BY <2>1
  <2> HIDE DEF t
  <2>3. /\ c = d => Cardinality(LogsOf(c)') = Cardinality(LogsOf(c)) + 1
        /\ c # d => LogsOf(c)' = LogsOf(c)
        /\ Cardinality(LogsOf(c)) \in Nat
    BY <2>1, <2>2, LogsMove
  <2>4. (c = d => altered'[c] = altered[c] + 1) /\ (c # d => altered'[c] = altered[c])
    BY <2>1 DEF ChargebackTypeOK
  <2>5. QED BY <1>1, <2>1, <2>3, <2>4
<1>4. ASSUME NEW w \in Staff, LogEntry(w)
      PROVE  entries'[c] + Cardinality(LogsOf(c)') = altered'[c]
  <2>0. PICK d \in Center : d = worker[w].center
    BY <1>4 DEF LogEntry, ChargebackTypeOK
  <2>1. /\ worker' = [worker EXCEPT ![w] = NoTask] /\ worker[w].op = "log" /\ NoTask.op # "log"
        /\ entries' = [entries EXCEPT ![d] = @ + 1] /\ altered' = altered
    BY <1>4, <2>0 DEF LogEntry, NoTask
  <2>2. /\ c = d => Cardinality(LogsOf(c)') = Cardinality(LogsOf(c)) - 1
        /\ c # d => LogsOf(c)' = LogsOf(c)
        /\ Cardinality(LogsOf(c)) \in Nat
    BY <2>0, <2>1, LogsMove
  <2>3. (c = d => entries'[c] = entries[c] + 1) /\ (c # d => entries'[c] = entries[c])
    BY <2>1 DEF ChargebackTypeOK
  <2>4. QED BY <1>1, <2>1, <2>2, <2>3
<1>5. ASSUME NEW w \in Staff, NEW t, worker' = [worker EXCEPT ![w] = t],
             worker[w].op # "log", t.op # "log", UNCHANGED <<entries, altered>>
      PROVE  entries'[c] + Cardinality(LogsOf(c)') = altered'[c]
  <2>1. LogsOf(c)' = LogsOf(c)
    BY <1>5, LogsMove
  <2>2. QED BY <1>1, <1>5, <2>1
<1>6. ASSUME UNCHANGED <<worker, entries, altered>>
      PROVE  entries'[c] + Cardinality(LogsOf(c)') = altered'[c]
  BY <1>1, <1>6 DEF LogsOf
<1>7. ASSUME NEW w \in Staff, NEW d \in Center, NEW o \in Tenants, DeleteRules(w, d, o)
      PROVE  entries'[c] + Cardinality(LogsOf(c)') = altered'[c]
  <2> DEFINE t == [op |-> "delete", center |-> d, rule |-> Null]
  <2>1. /\ worker' = [worker EXCEPT ![w] = t] /\ worker[w].op # "log" /\ t.op # "log"
        /\ entries' = entries /\ altered' = altered
    BY <1>7 DEF DeleteRules, Passes, NoTask
  <2> HIDE DEF t
  <2>2. QED BY <1>5, <2>1
<1>8. ASSUME NEW w \in Staff, NEW r \in RuleSet, CheckCenter(w, r)
      PROVE  entries'[c] + Cardinality(LogsOf(c)') = altered'[c]
  <2> DEFINE t == [op |-> "insert", center |-> r.center, rule |-> r]
  <2>1. /\ worker' = [worker EXCEPT ![w] = t] /\ worker[w].op # "log" /\ t.op # "log"
        /\ entries' = entries /\ altered' = altered
    BY <1>8 DEF CheckCenter, Passes, NoTask
  <2> HIDE DEF t
  <2>2. QED BY <1>5, <2>1
<1>9. ASSUME NEW w \in Staff, InsertRule(w)
      PROVE  entries'[c] + Cardinality(LogsOf(c)') = altered'[c]
  <2>1. /\ worker' = [worker EXCEPT ![w] = NoTask] /\ worker[w].op # "log" /\ NoTask.op # "log"
        /\ entries' = entries /\ altered' = altered
    BY <1>9 DEF InsertRule, NoTask
  <2>2. QED BY <1>5, <2>1
<1>10. ASSUME NEW w \in Staff, NEW i \in DOMAIN rules,
              DeleteRule(w, i) \/ \E r \in RuleSet : UpdateRule(w, i, r)
       PROVE  entries'[c] + Cardinality(LogsOf(c)') = altered'[c]
  BY <1>6, <1>10 DEF DeleteRule, UpdateRule
<1>11. ASSUME NEW t \in TraceSet, LogCost(t)
       PROVE  entries'[c] + Cardinality(LogsOf(c)') = altered'[c]
  BY <1>6, <1>11 DEF LogCost
<1>12. CASE UNCHANGED cvars
  BY <1>6, <1>12 DEF cvars
<1>13. QED
  BY <1>2, <1>3, <1>4, <1>7, <1>8, <1>9, <1>10, <1>11, <1>12 DEF ChargebackNext

\* What a report adds up: rules that are there, traces, and what a rule charges.
LEMMA ChargesAreNumbers ==
  ASSUME ChargebackTypeOK, NEW org \in Tenants
  PROVE  /\ IsFiniteSet(Live(org)) /\ IsFiniteSet(DOMAIN traces)
         /\ \A i \in Live(org) : /\ rules[i] \in RuleSet /\ rules[i].center \in Center
                                 /\ rules[i].share \in Nat
         /\ \A j \in DOMAIN traces : /\ traces[j].cost \in Nat /\ traces[j].project \in Work
         /\ \A i \in Live(org), j \in DOMAIN traces :
              /\ traces[j].cost * rules[i].share \in Nat
              /\ Charge(i, j) \in Nat /\ Charge(i, j) <= traces[j].cost * rules[i].share
         /\ \A i \in Live(org) : RuleCharge(i) \in Nat
         /\ Spent \in Nat
<1>1. /\ IsFiniteSet(DOMAIN rules) /\ IsFiniteSet(DOMAIN traces)
  <2>1. /\ DOMAIN rules = 1 .. Len(rules) /\ DOMAIN traces = 1 .. Len(traces)
        /\ Len(rules) \in Int /\ Len(traces) \in Int /\ 1 \in Int
    BY DEF ChargebackTypeOK
  <2>2. QED BY <2>1, FS_Interval
<1>2. IsFiniteSet(Live(org))
  BY <1>1, FS_Subset DEF Live
<1>3. \A i \in Live(org) : rules[i] \in RuleSet /\ rules[i].center \in Center /\ rules[i].share \in Nat
  BY RuleIs DEF Live
<1>4. \A j \in DOMAIN traces : traces[j].cost \in Nat /\ traces[j].project \in Work
  <2>1. \A j \in DOMAIN traces : traces[j] \in TraceSet
    BY DEF ChargebackTypeOK
  <2>2. QED BY <2>1, ChargebackAssumption DEF TraceSet
<1>5. ASSUME NEW i \in Live(org), NEW j \in DOMAIN traces
      PROVE  /\ traces[j].cost * rules[i].share \in Nat
             /\ Charge(i, j) \in Nat /\ Charge(i, j) <= traces[j].cost * rules[i].share
  <2>1. traces[j].cost * rules[i].share \in Nat
    BY <1>3, <1>4
  <2>2. QED BY <2>1 DEF Charge
<1>6. ASSUME NEW i \in Live(org) PROVE RuleCharge(i) \in Nat
  <2> DEFINE f == [j \in DOMAIN traces |-> Charge(i, j)]
  <2>1. \A j \in DOMAIN traces : f[j] \in Nat
    BY <1>5
  <2>2. RuleCharge(i) = SumFunctionOnSet(f, DOMAIN traces)
    BY DEF RuleCharge
  <2> HIDE DEF f
  <2>3. QED BY <1>1, <2>1, <2>2, SumType
<1>7. Spent \in Nat
  <2> DEFINE f == [j \in DOMAIN traces |-> traces[j].cost]
  <2>1. \A j \in DOMAIN traces : f[j] \in Nat
    BY <1>4
  <2>2. Spent = SumFunctionOnSet(f, DOMAIN traces)
    BY DEF Spent
  <2> HIDE DEF f
  <2>3. QED BY <1>1, <2>1, <2>2, SumType
<1>8. QED BY <1>1, <1>2, <1>3, <1>4, <1>5, <1>6, <1>7

\* What a trace is charged by rules that hand on its project in full.
LEMMA TraceChargedInFull ==
  ASSUME ChargebackTypeOK, NEW org \in Tenants, NEW j \in DOMAIN traces,
         \A i \in Live(org) : rules[i].agent = Null, FullyAllocated(org, traces[j].project)
  PROVE  SumFunctionOnSet([i \in Live(org) |-> Charge(i, j)], Live(org)) = 100 * traces[j].cost
<1> DEFINE charges == [i \in Live(org) |-> Charge(i, j)]
           named == {i \in Live(org) : rules[i].project = traces[j].project}
           portions == [i \in Live(org) |-> IF i \in named THEN rules[i].share ELSE 0]
           worth == traces[j].cost
<1>1. /\ worth \in Nat /\ named \in SUBSET Live(org) /\ IsFiniteSet(Live(org))
      /\ \A i \in Live(org) : rules[i].share \in Nat
  BY ChargesAreNumbers
<1>2. \A i \in Live(org) : portions[i] \in Int /\ charges[i] = worth * portions[i]
  <2> SUFFICES ASSUME NEW i \in Live(org)
               PROVE  portions[i] \in Int /\ charges[i] = worth * portions[i]
    OBVIOUS
  <2>1. traces[j].project # Null /\ Covers(traces[j], rules[i]) = (i \in named)
    BY ChargesAreNumbers, ChargebackAssumption DEF Covers
  <2>2. charges[i] = Charge(i, j) /\ portions[i] = IF i \in named THEN rules[i].share ELSE 0
    OBVIOUS
  <2>3. CASE i \in named
    <3>1. charges[i] = worth * rules[i].share
      BY <2>1, <2>2, <2>3 DEF Charge
    <3>2. portions[i] = rules[i].share /\ rules[i].share \in Int
      BY <1>1, <2>2, <2>3
    <3>3. QED BY <3>1, <3>2
  <2>4. CASE i \notin named
    <3>1. charges[i] = 0 /\ portions[i] = 0
      BY <2>1, <2>2, <2>4 DEF Charge
    <3>2. worth * 0 = 0
      BY <1>1
    <3>3. QED BY <3>1, <3>2
  <2>5. QED BY <2>3, <2>4
<1>3. SumFunctionOnSet(SharesOf(org), named) = 100
  BY DEF FullyAllocated, TotalShare
<1>4. /\ \A i \in named : SharesOf(org)[i] \in Int /\ portions[i] = SharesOf(org)[i]
      /\ \A i \in Live(org) \ named : portions[i] = 0
  BY <1>1 DEF SharesOf
<1> HIDE DEF charges, portions, named, worth
<1>5. SumFunctionOnSet(portions, Live(org)) = 100
  BY <1>1, <1>3, <1>4, SumFilter
<1>6. SumFunctionOnSet(charges, Live(org)) = worth * SumFunctionOnSet(portions, Live(org))
  BY <1>1, <1>2, SumScale
<1>7. SumFunctionOnSet(charges, Live(org)) = 100 * worth
  BY <1>1, <1>5, <1>6
<1>8. QED BY <1>7 DEF charges, worth

\* A full allocation hands on every cent.
LEMMA ReportsBalance ==
  ASSUME ChargebackTypeOK
  PROVE  FullReportsBalance
<1> SUFFICES ASSUME NEW org \in Tenants, \A i \in Live(org) : rules[i].agent = Null,
                    \A p \in Work : FullyAllocated(org, p)
             PROVE  SumFunction(Report(org)) = 100 * Spent
  BY DEF FullReportsBalance
<1> DEFINE L == Live(org)
           D == DOMAIN traces
           C == {rules[i].center : i \in L} \cup {d \in Center : center[d] = org}
           F == [i \in L |-> [j \in D |-> Charge(i, j)]]
           f == [i \in L |-> RuleCharge(i)]
           class == [i \in L |-> rules[i].center]
           columns == [j \in D |-> SumFunctionOnSet([i \in L |-> F[i][j]], L)]
           costs == [j \in D |-> traces[j].cost]
<1>1. /\ IsFiniteSet(L) /\ IsFiniteSet(D)
      /\ \A i \in L : rules[i].center \in Center /\ RuleCharge(i) \in Nat
      /\ \A j \in D : traces[j].cost \in Nat /\ traces[j].project \in Work
      /\ \A i \in L, j \in D : Charge(i, j) \in Nat
  BY ChargesAreNumbers
<1>2. IsFiniteSet(C) /\ class \in [L -> C] /\ \A i \in L : f[i] \in Int
  BY <1>1, ChargebackAssumption, FS_Subset
<1>3. SumFunction(Report(org)) = SumFunctionOnSet([c \in C |-> SumFunctionOnSet(f, {i \in L : class[i] = c})], C)
  <2>1. Report(org) = [c \in C |-> SumFunctionOnSet(f, {i \in L : class[i] = c})]
    <3>1. ASSUME NEW c \in C PROVE Charged(org, c) = SumFunctionOnSet(f, {i \in L : class[i] = c})
      <4>1. {i \in L : class[i] = c} = {i \in L : rules[i].center = c}
        OBVIOUS
      <4>2. QED BY <4>1 DEF Charged
    <3>2. QED BY <3>1 DEF Report
  <2>2. QED BY <2>1 DEF SumFunction
<1>4. f = [i \in L |-> SumFunctionOnSet([j \in D |-> F[i][j]], D)]
  <2>1. ASSUME NEW i \in L PROVE RuleCharge(i) = SumFunctionOnSet([j \in D |-> F[i][j]], D)
    <3>1. [j \in D |-> F[i][j]] = [j \in D |-> Charge(i, j)]
      OBVIOUS
    <3>2. QED BY <3>1 DEF RuleCharge
  <2>2. QED BY <2>1
<1>5. \A i \in L, j \in D : F[i][j] \in Int
  BY <1>1
<1>6. \A j \in D : columns[j] = 100 * costs[j] /\ costs[j] \in Int
  <2> SUFFICES ASSUME NEW j \in D PROVE columns[j] = 100 * costs[j] /\ costs[j] \in Int
    OBVIOUS
  <2>1. [i \in L |-> F[i][j]] = [i \in L |-> Charge(i, j)]
    OBVIOUS
  <2>2. columns[j] = SumFunctionOnSet([i \in L |-> Charge(i, j)], L)
    BY <2>1
  <2>3. FullyAllocated(org, traces[j].project)
    BY <1>1
  <2>4. SumFunctionOnSet([i \in Live(org) |-> Charge(i, j)], Live(org)) = 100 * traces[j].cost
    BY <2>3, TraceChargedInFull
  <2>5. QED BY <1>1, <2>2, <2>4
<1>7. SumFunctionOnSet(costs, D) = Spent
  BY DEF Spent
<1> HIDE DEF L, D, C, F, f, class, costs
<1>8. SumFunctionOnSet([c \in C |-> SumFunctionOnSet(f, {i \in L : class[i] = c})], C)
        = SumFunctionOnSet(f, L)
  BY <1>1, <1>2, SumPartition
<1>9. SumFunctionOnSet(f, L) = SumFunctionOnSet(columns, D)
  BY <1>1, <1>4, <1>5, SumExchange
<1> HIDE DEF columns
<1>10. SumFunctionOnSet(columns, D) = 100 * SumFunctionOnSet(costs, D)
  BY <1>1, <1>6, SumScale
<1>11. QED BY <1>3, <1>7, <1>8, <1>9, <1>10

\* Rules that meet a trace twice charge it by their shares at most.
LEMMA ChargesAreBounded ==
  ASSUME ChargebackTypeOK
  PROVE  ChargesBounded
<1> SUFFICES ASSUME NEW org \in Tenants, NEW c \in Center
             PROVE  Charged(org, c)
                      <= Spent * SumFunctionOnSet(SharesOf(org), {i \in Live(org) : rules[i].center = c})
  BY DEF ChargesBounded
<1> DEFINE own == {i \in Live(org) : rules[i].center = c}
           f == [i \in Live(org) |-> RuleCharge(i)]
           g == [i \in Live(org) |-> Spent * rules[i].share]
           D == DOMAIN traces
           costs == [j \in D |-> traces[j].cost]
<1>1. /\ IsFiniteSet(own) /\ IsFiniteSet(D) /\ Spent \in Nat
      /\ \A i \in own : i \in Live(org) /\ RuleCharge(i) \in Nat /\ rules[i].share \in Nat
      /\ \A i \in Live(org), j \in D : /\ Charge(i, j) \in Nat
                                       /\ traces[j].cost * rules[i].share \in Nat
                                       /\ Charge(i, j) <= traces[j].cost * rules[i].share
      /\ \A j \in D : traces[j].cost \in Nat
  BY ChargesAreNumbers, FS_Subset
<1>2. ASSUME NEW i \in own PROVE RuleCharge(i) <= Spent * rules[i].share
  <2> DEFINE charges == [j \in D |-> Charge(i, j)]
             most == [j \in D |-> rules[i].share * traces[j].cost]
  <2>1. \A j \in D : charges[j] \in Int /\ most[j] \in Int /\ charges[j] <= most[j]
    BY <1>1
  <2>2. \A j \in D : costs[j] \in Int /\ most[j] = rules[i].share * costs[j]
    BY <1>1
  <2>3. RuleCharge(i) = SumFunctionOnSet(charges, D) /\ Spent = SumFunctionOnSet(costs, D)
    BY DEF RuleCharge, Spent
  <2>4. rules[i].share \in Int
    BY <1>1
  <2> HIDE DEF charges, most, costs, D
  <2>5. SumFunctionOnSet(charges, D) <= SumFunctionOnSet(most, D)
    BY <1>1, <2>1, SumMono
  <2>6. SumFunctionOnSet(most, D) = rules[i].share * SumFunctionOnSet(costs, D)
    BY <1>1, <2>2, <2>4, SumScale
  <2>7. rules[i].share * Spent = Spent * rules[i].share
    BY <1>1
  <2>8. QED BY <2>3, <2>5, <2>6, <2>7
<1>3. \A i \in own : /\ f[i] \in Int /\ g[i] \in Int /\ f[i] <= g[i]
                     /\ SharesOf(org)[i] \in Int /\ g[i] = Spent * SharesOf(org)[i]
  <2> SUFFICES ASSUME NEW i \in own
               PROVE  /\ f[i] \in Int /\ g[i] \in Int /\ f[i] <= g[i]
                      /\ SharesOf(org)[i] \in Int /\ g[i] = Spent * SharesOf(org)[i]
    OBVIOUS
  <2>1. Spent * rules[i].share \in Int
    BY <1>1
  <2>2. QED BY <1>1, <1>2, <2>1 DEF SharesOf
<1>4. Charged(org, c) = SumFunctionOnSet(f, own)
  BY DEF Charged
<1> HIDE DEF own, f, g
<1>5. SumFunctionOnSet(f, own) <= SumFunctionOnSet(g, own)
  BY <1>1, <1>3, SumMono
<1>6. SumFunctionOnSet(g, own) = Spent * SumFunctionOnSet(SharesOf(org), own)
  BY <1>1, <1>3, SumScale
<1>7. QED BY <1>4, <1>5, <1>6 DEF own

\* Full reports hand on every cent and no trace is overcharged, whatever centers,
\* rules and traces there are; and every change of a center ends in the audit log.
THEOREM ChargebackIsSound == ChargebackSpec => []ChargebackSound
<1>1. ChargebackInit => ChargebackTypeOK /\ CentersAudited
  <2> SUFFICES ASSUME ChargebackInit PROVE ChargebackTypeOK /\ CentersAudited
    OBVIOUS
  <2>1. ChargebackTypeOK
    BY ChargebackAssumption DEF ChargebackInit, ChargebackTypeOK, NoTask, Tasks
  <2>2. \A c \in Center : {w \in Staff : worker[w].op = "log" /\ worker[w].center = c} = {}
    BY DEF ChargebackInit, NoTask
  <2>3. CentersAudited
    BY <2>2, FS_EmptySet DEF CentersAudited, ChargebackInit
  <2>4. QED BY <2>1, <2>3
<1>2. ChargebackTypeOK /\ CentersAudited /\ [ChargebackNext]_cvars
        => ChargebackTypeOK' /\ CentersAudited'
  BY ChargebackTypeStep, CentersStep
<1>3. ChargebackTypeOK /\ CentersAudited => ChargebackSound
  BY ReportsBalance, ChargesAreBounded DEF ChargebackSound
<1>4. QED BY <1>1, <1>2, <1>3, PTL DEF ChargebackSpec

-----------------------------------------------------------------------------
(* Goals: a budget check counts a goal and its descendants once each        *)

\* The goals a check in progress has still to read the spend of.
Pending ==
    IF check.at = "direct" THEN Subtree(check.root)
    ELSE IF check.at = "walk" THEN Subtree(check.root) \ {check.root}
    ELSE {h \in Goal : check.found[h] > 0}

\* What the walk has met; its root is a goal that is not below itself.
Seen == {h \in Goal : h = check.root \/ check.found[h] = 1}
Below(g) == parent[g] \in Subtree(g)

\* Before the walk nothing is found; after it nothing is left to visit.
GoalsFresh ==
    /\ check.at \in {"none", "direct"} => check.found = Never /\ check.todo = Never
    /\ check.at \in {"children", "done"} => check.todo = Never
    /\ check.at = "done" => check.found = Never

\* Over a tree, each goal below the root is found once, when its parent is
\* popped, and the stack holds only goals that are seen.
GoalsTree ==
    check.still /\ check.at \in {"walk", "children", "done"} /\ ~Below(check.root) =>
        /\ \A h \in Goal : check.found[h] \in {0, 1}
        /\ check.found[check.root] = 0
        /\ Seen \subseteq Subtree(check.root)
        /\ check.at = "walk" =>
             /\ \A h \in Goal : check.todo[h] > 0 => check.todo[h] = 1 /\ h \in Seen
             /\ \A h \in Goal : h # check.root =>
                  (check.found[h] = 1 <=> parent[h] \in Seen /\ check.todo[parent[h]] = 0)

\* Around a cycle the stack always holds a goal that the root is below.
GoalsLoop ==
    check.still /\ check.at \in {"walk", "children", "done"} /\ Below(check.root) =>
        /\ check.at = "walk"
        /\ \E k \in Goal : check.todo[k] > 0 /\ check.root \in Subtree(k)

\* The sum so far, with what is still to be read, covers what there was at the
\* beginning, and it counts nothing that is still to be read.
GoalsExact ==
    check.still /\ check.at # "none" =>
        /\ Pending \subseteq Subtree(check.root)
        /\ check.low <= check.sum + SumFunctionOnSet(booked, Pending)
        /\ check.sum <= SumFunctionOnSet(booked, Subtree(check.root) \ Pending)
        /\ check.at = "done" =>
             check.allowed = (~Exists(check.root) \/ GoalCap = 0 \/ check.sum < GoalCap)

\* A goal that is gone has spend, or a record_spend on its way, only if they
\* overlapped.
GoalsStray ==
    \A g \in Goal \ stray : ~Exists(g) => booked[g] = 0 /\ ~Booking(g)

GoalsInv ==
    GoalsTypeOK /\ GoalsFresh /\ GoalsTree /\ GoalsLoop /\ GoalsExact /\ GoalsStray

LEMMA SubtreeIs ==
  ASSUME NEW g \in Goal
  PROVE  /\ Subtree(g) \in SUBSET Goal /\ g \in Subtree(g)
         /\ Closed(Subtree(g))
         /\ \A S \in SUBSET Goal : g \in S /\ Closed(S) => Subtree(g) \subseteq S
<1>1. Subtree(g) \in SUBSET Goal /\ g \in Subtree(g)
  BY DEF Subtree
<1>2. ASSUME NEW x \in Subtree(g), NEW y \in Children(x) PROVE y \in Subtree(g)
  <2>1. y \in Goal
    BY DEF Children
  <2>2. ASSUME NEW S \in SUBSET Goal, g \in S, Closed(S) PROVE y \in S
    <3>1. x \in S
      BY <2>2 DEF Subtree
    <3>2. QED
      BY <2>2, <3>1 DEF Closed
  <2>3. QED
    BY <2>1, <2>2 DEF Subtree
<1>3. Closed(Subtree(g))
  BY <1>2 DEF Closed
<1>4. ASSUME NEW S \in SUBSET Goal, g \in S, Closed(S) PROVE Subtree(g) \subseteq S
  BY <1>4 DEF Subtree
<1>5. QED
  BY <1>1, <1>3, <1>4

LEMMA SubtreeFinite ==
  ASSUME NEW g \in Goal, NEW S \in SUBSET Subtree(g)
  PROVE  IsFiniteSet(S)
BY SubtreeIs, FS_Subset, GoalsAssumption

\* Every member of a subtree but its root has its parent in the subtree.
LEMMA SubtreeParent ==
  ASSUME NEW g \in Goal, NEW h \in Subtree(g), h # g
  PROVE  parent[h] \in Subtree(g)
<1> DEFINE S == {x \in Subtree(g) : x = g \/ parent[x] \in Subtree(g)}
<1>1. S \in SUBSET Goal /\ g \in S /\ S \subseteq Subtree(g)
  BY SubtreeIs
<1>2. ASSUME NEW x \in S, NEW y \in Children(x) PROVE y \in S
  <2>1. y \in Subtree(g)
    BY <1>1, SubtreeIs DEF Closed
  <2>2. parent[y] = x
    BY DEF Children
  <2>3. QED
    BY <1>1, <2>1, <2>2
<1>3. Closed(S)
  BY <1>2 DEF Closed
<1>4. h \in S
  BY <1>1, <1>3, SubtreeIs
<1>5. QED
  BY <1>4

\* What is below a goal is below one of its children, or is the goal itself.
LEMMA SubtreeByChild ==
  ASSUME NEW g \in Goal, NEW h \in Subtree(g), h # g
  PROVE  \E c \in Children(g) : h \in Subtree(c)
<1> DEFINE S == {x \in Goal : x = g \/ \E c \in Children(g) : x \in Subtree(c)}
<1>1. S \in SUBSET Goal /\ g \in S
  OBVIOUS
<1>2. ASSUME NEW x \in S, NEW y \in Children(x) PROVE y \in S
  <2>1. y \in Goal
    BY DEF Children
  <2>2. CASE x = g
    <3>1. y \in Subtree(y)
      BY <2>1, SubtreeIs
    <3>2. QED
      BY <2>1, <2>2, <3>1
  <2>3. CASE x # g
    <3>1. PICK c \in Children(g) : x \in Subtree(c)
      BY <2>3
    <3>2. c \in Goal
      BY DEF Children
    <3>3. y \in Subtree(c)
      BY <3>1, <3>2, SubtreeIs DEF Closed
    <3>4. QED
      BY <2>1, <3>3
  <2>4. QED
    BY <2>2, <2>3
<1>3. Closed(S)
  BY <1>2 DEF Closed
<1>4. h \in S
  BY <1>1, <1>3, SubtreeIs
<1>5. QED
  BY <1>4

\* A goal that is below itself, and below g, is below a child of g.
LEMMA LoopGoesOn ==
  ASSUME NEW r \in Goal, Below(r), NEW g \in Goal, r \in Subtree(g)
  PROVE  \E c \in Children(g) : r \in Subtree(c)
<1>1. CASE r # g
  BY <1>1, SubtreeByChild
<1>2. CASE r = g
  <2> DEFINE p == parent[r]
  <2>1. p \in Subtree(r) /\ p \in Goal
    BY SubtreeIs DEF Below
  <2>2. r \in Children(p)
    BY DEF Children
  <2>3. CASE p = r
    <3>1. r \in Subtree(r)
      BY SubtreeIs
    <3>2. QED
      BY <1>2, <2>2, <2>3, <3>1
  <2>4. CASE p # r
    <3>1. PICK c \in Children(r) : p \in Subtree(c)
      BY <2>1, <2>4, SubtreeByChild
    <3>2. c \in Goal
      BY DEF Children
    <3>3. r \in Subtree(c)
      BY <2>2, <3>1, <3>2, SubtreeIs DEF Closed
    <3>4. QED
      BY <1>2, <3>3
  <2>5. QED
    BY <2>3, <2>4
<1>3. QED
  BY <1>1, <1>2

LEMMA SubtreeKept ==
  ASSUME UNCHANGED parent, NEW g
  PROVE  Subtree(g)' = Subtree(g) /\ Below(g)' = Below(g) /\ Children(g)' = Children(g)
BY DEF Subtree, Closed, Children, Below

LEMMA ChangesFits ==
  ASSUME changes \in 0 .. MaxChanges, changes < MaxChanges, changes' = changes + 1
  PROVE  changes' \in 0 .. MaxChanges
BY GoalsAssumption

LEMMA GoalsClerkType ==
  ASSUME GoalsTypeOK, NEW w \in Clerks,
         (\E g \in Goal :
            \/ \E p \in Goal \cup {Top} : StartCreate(w, g, p) \/ StartMove(w, g, p)
            \/ StartDelete(w, g) \/ StartBook(w, g))
         \/ FindParent(w)
  PROVE  GoalsTypeOK'
<1> USE DEF GoalsTypeOK
<1>1. UNCHANGED <<parent, booked, check, stray>>
  BY DEF StartCreate, StartMove, StartDelete, StartBook, FindParent
<1>2. CASE FindParent(w)
  <2>1. UNCHANGED changes
    BY <1>2 DEF FindParent
  <2>2. NoCall \in Call /\ [clerk[w] EXCEPT !.at = "insert"] \in Call
    BY DEF NoCall, Call
  <2>3. clerk[w].at # "none"
    BY <1>2 DEF FindParent
  <2>4. clerk' = [clerk EXCEPT ![w] = NoCall]
          \/ clerk' = [clerk EXCEPT ![w] = [clerk[w] EXCEPT !.at = "insert"]]
    BY <1>2 DEF FindParent, Goes, Ends
  <2>5. clerk' \in [Clerks -> Call]
    BY <2>2, <2>4
  <2>6. \A v \in Clerks : clerk'[v].at # "none" => clerk'[v].g \in Goal
    BY <2>3, <2>4 DEF NoCall, Call
  <2>7. QED
    BY <1>1, <2>1, <2>5, <2>6
<1>3. CASE ~FindParent(w)
  <2>1. PICK c \in Call : c.g \in Goal /\ Begin(w, c)
    BY <1>3 DEF StartCreate, StartMove, StartDelete, StartBook, Call
  <2>2. clerk' = [clerk EXCEPT ![w] = c]
    BY <2>1 DEF Begin
  <2>3. changes' \in 0 .. MaxChanges
    BY <2>1, ChangesFits DEF Begin
  <2>4. QED
    BY <1>1, <2>1, <2>2, <2>3
<1>4. QED
  BY <1>2, <1>3

LEMMA GoalsDbType ==
  ASSUME GoalsTypeOK, NEW w \in Clerks,
         InsertGoal(w) \/ Move(w) \/ DeleteSpends(w) \/ DeleteGoal(w) \/ Book(w)
  PROVE  GoalsTypeOK'
<1> USE DEF GoalsTypeOK
<1>1. clerk[w] \in Call /\ clerk[w].g \in Goal /\ clerk[w].at # "none"
  BY DEF InsertGoal, Move, DeleteSpends, DeleteGoal, Book
<1>2. UNCHANGED changes
  BY DEF InsertGoal, Move, DeleteSpends, DeleteGoal, Book
<1>3. clerk' = [clerk EXCEPT ![w] = NoCall]
          \/ clerk' = [clerk EXCEPT ![w] = [clerk[w] EXCEPT !.at = "row"]]
  BY DEF InsertGoal, Move, DeleteSpends, DeleteGoal, Book, Ends, Goes
<1>4. NoCall \in Call /\ [clerk[w] EXCEPT !.at = "row"] \in Call
  BY <1>1 DEF NoCall, Call
<1>5. clerk' \in [Clerks -> Call]
  BY <1>3, <1>4
<1>6. \A v \in Clerks : clerk'[v].at # "none" => clerk'[v].g \in Goal
  BY <1>1, <1>3 DEF NoCall, Call
<1>7. check' \in Check /\ (check'.at # "none" => check'.root \in Goal)
  <2>1. check' = check \/ check' = [check EXCEPT !.still = FALSE]
    BY DEF InsertGoal, Move, DeleteSpends, DeleteGoal, Book, Disturbed
  <2>2. QED
    BY <2>1 DEF Check
<1>8. booked' \in [Goal -> Nat]
  BY <1>1 DEF InsertGoal, Move, DeleteSpends, DeleteGoal, Book, SpendsDeleted
<1>9. parent' \in [Goal -> Goal \cup {Top, Gone}]
  BY <1>1 DEF InsertGoal, Move, DeleteSpends, DeleteGoal, Book, Call
<1>10. stray' \subseteq Goal
  BY <1>1 DEF InsertGoal, Move, DeleteSpends, DeleteGoal, Book
<1>11. QED
  BY <1>2, <1>5, <1>6, <1>7, <1>8, <1>9, <1>10

LEMMA TotalType ==
  ASSUME booked \in [Goal -> Nat], NEW g \in Goal, NEW S \in SUBSET Subtree(g)
  PROVE  SumFunctionOnSet(booked, S) \in Nat
<1>1. IsFiniteSet(S) /\ S \subseteq Goal
  BY SubtreeFinite, SubtreeIs
<1>2. QED
  BY <1>1, SumType

LEMMA CheckParts ==
  ASSUME check \in Check
  PROVE  /\ check.todo \in [Goal -> Nat] /\ check.found \in [Goal -> Nat]
         /\ check.sum \in Nat /\ check.low \in Nat
         /\ check.still \in BOOLEAN /\ check.allowed \in BOOLEAN
         /\ check.root \in Goal \cup {Top}
         /\ check.at \in {"none", "direct", "walk", "children", "done"}
BY DEF Check

\* What each step of a check leaves in the fields of the record.
LEMMA StartCheckIs ==
  ASSUME NEW g \in Goal, StartCheck(g), GoalsTypeOK
  PROVE  /\ check' \in Check /\ check'.root = g /\ check'.at = "direct"
         /\ check'.todo = Never /\ check'.found = Never
         /\ check'.sum = 0 /\ check'.low = Total(g)
<1>1. Total(g) \in Nat
  BY TotalType DEF Total, GoalsTypeOK
<1>2. QED
  BY <1>1 DEF StartCheck, NoCheck, Check, Never

LEMMA ReadDirectIs ==
  ASSUME ReadDirect, GoalsTypeOK
  PROVE  /\ check' \in Check /\ check'.root = check.root /\ check'.at = "walk"
         /\ check'.todo = [check.todo EXCEPT ![check.root] = 1]
         /\ check'.found = check.found
         /\ check'.sum = booked[check.root] /\ check'.low = check.low
         /\ check'.still = check.still
BY DEF ReadDirect, Check, GoalsTypeOK

LEMMA PopIs ==
  ASSUME NEW g \in Goal, Pop(g), GoalsTypeOK
  PROVE  /\ check' \in Check /\ check'.root = check.root /\ check'.at = "walk"
         /\ check'.todo = [h \in Goal |->
              (IF h = g THEN check.todo[h] - 1 ELSE check.todo[h])
                + (IF h \in Children(g) THEN 1 ELSE 0)]
         /\ check'.found = [h \in Goal |->
              check.found[h] + (IF h \in Children(g) THEN 1 ELSE 0)]
         /\ check'.sum = check.sum /\ check'.low = check.low
         /\ check'.still = check.still
<1> DEFINE todo == [check.todo EXCEPT ![g] = @ - 1]
           newTodo == Pushed(todo, Children(g))
           newFound == Plus(check.found, Children(g))
<1>1. check.todo \in [Goal -> Nat] /\ check.found \in [Goal -> Nat] /\ check.todo[g] > 0
  BY CheckParts DEF Pop, GoalsTypeOK
<1>2. todo \in [Goal -> Nat]
  BY <1>1
<1>3. newTodo \in [Goal -> Nat] /\ newFound \in [Goal -> Nat]
  BY <1>1, <1>2 DEF Pushed, Plus
<1>4. newTodo = [h \in Goal |->
              (IF h = g THEN check.todo[h] - 1 ELSE check.todo[h])
                + (IF h \in Children(g) THEN 1 ELSE 0)]
  BY <1>1 DEF Pushed, Plus
<1>5. newFound = [h \in Goal |-> check.found[h] + (IF h \in Children(g) THEN 1 ELSE 0)]
  BY DEF Plus
<1>6. check' = [check EXCEPT !.todo = newTodo, !.found = newFound]
  BY DEF Pop
<1> HIDE DEF newTodo, newFound
<1>7. check' \in Check /\ check'.todo = newTodo /\ check'.found = newFound
      /\ check'.root = check.root /\ check'.sum = check.sum /\ check'.low = check.low
      /\ check'.still = check.still /\ check'.at = check.at
  BY <1>3, <1>6 DEF Check, GoalsTypeOK
<1>8. QED
  BY <1>4, <1>5, <1>7 DEF Pop

LEMMA ReadChildIs ==
  ASSUME NEW g \in Goal, ReadChild(g), GoalsTypeOK
  PROVE  /\ check' \in Check /\ check'.root = check.root /\ check'.at = "children"
         /\ check'.todo = check.todo
         /\ check'.found = [check.found EXCEPT ![g] = @ - 1]
         /\ check'.sum = check.sum + booked[g] /\ check'.low = check.low
         /\ check'.still = check.still
<1>1. check.found \in [Goal -> Nat] /\ check.found[g] > 0 /\ check.sum \in Nat /\ booked[g] \in Nat
  BY CheckParts DEF ReadChild, GoalsTypeOK
<1>2. [check.found EXCEPT ![g] = @ - 1] \in [Goal -> Nat]
  BY <1>1
<1>3. check.sum + booked[g] \in Nat
  BY <1>1
<1>4. QED
  BY <1>2, <1>3 DEF ReadChild, Check, GoalsTypeOK

LEMMA DecideIs ==
  ASSUME Decide, GoalsTypeOK
  PROVE  /\ check' \in Check /\ check'.root = check.root /\ check'.at = "done"
         /\ check'.todo = Never /\ check'.found = Never
         /\ check'.sum = check.sum /\ check'.low = check.low
         /\ check'.still = check.still
         /\ check'.allowed = (~Exists(check.root) \/ GoalCap = 0 \/ check.sum < GoalCap)
BY DEF Decide, Check, GoalsTypeOK

LEMMA GoalsCheckType ==
  ASSUME GoalsTypeOK, (\E g \in Goal : StartCheck(g)) \/ CheckStep
  PROVE  GoalsTypeOK'
<1>1. UNCHANGED <<parent, booked, clerk, changes, stray>>
  BY DEF StartCheck, CheckStep, ReadDirect, Pop, ReadChild, Decide
<1>2. check' \in Check /\ (check'.at # "none" => check'.root \in Goal)
  <2>1. CASE \E g \in Goal : StartCheck(g)
    BY <2>1, StartCheckIs
  <2>2. CASE ReadDirect
    BY <2>2, ReadDirectIs DEF GoalsTypeOK, ReadDirect
  <2>3. CASE \E g \in Goal : Pop(g)
    BY <2>3, PopIs DEF GoalsTypeOK, Pop
  <2>4. CASE \E g \in Goal : ReadChild(g)
    BY <2>4, ReadChildIs DEF GoalsTypeOK, ReadChild
  <2>5. CASE Decide
    BY <2>5, DecideIs DEF GoalsTypeOK, Decide
  <2>6. QED
    BY <2>1, <2>2, <2>3, <2>4, <2>5 DEF CheckStep
<1>3. QED
  BY <1>1, <1>2 DEF GoalsTypeOK

LEMMA GoalsTypeStep ==
  ASSUME GoalsTypeOK, [GoalsNext]_fvars
  PROVE  GoalsTypeOK'
<1>1. CASE UNCHANGED fvars
  BY <1>1 DEF fvars, GoalsTypeOK
<1>2. CASE GoalsNext
  BY <1>2, GoalsClerkType, GoalsDbType, GoalsCheckType DEF GoalsNext
<1>3. QED
  BY <1>1, <1>2

\* A step of a clerk ends the check's claim or leaves the check, the parents
\* and all spend but what it adds itself.
LEMMA ClerkStep ==
  ASSUME GoalsTypeOK, NEW w \in Clerks, NEW g \in Goal,
         \/ \E p \in Goal \cup {Top} : StartCreate(w, g, p) \/ StartMove(w, g, p)
         \/ StartDelete(w, g) \/ StartBook(w, g)
         \/ FindParent(w) \/ InsertGoal(w) \/ Move(w) \/ DeleteSpends(w) \/ DeleteGoal(w) \/ Book(w)
  PROVE  \/ check' = [check EXCEPT !.still = FALSE]
         \/ /\ UNCHANGED <<parent, check>>
            /\ \A h \in Goal : booked[h] <= booked'[h]
<1> USE DEF GoalsTypeOK
<1>1. CASE InsertGoal(w) \/ Move(w) \/ DeleteSpends(w) \/ DeleteGoal(w)
  BY <1>1 DEF InsertGoal, Move, DeleteSpends, DeleteGoal, Disturbed
<1>2. CASE Book(w)
  <2>1. clerk[w].g \in Goal /\ booked' = [booked EXCEPT ![clerk[w].g] = @ + 1]
        /\ UNCHANGED <<parent, check>>
    BY <1>2 DEF Book
  <2>2. QED
    BY <2>1
<1>3. CASE (\E p \in Goal \cup {Top} : StartCreate(w, g, p) \/ StartMove(w, g, p))
           \/ StartDelete(w, g) \/ StartBook(w, g) \/ FindParent(w)
  <2>1. UNCHANGED <<parent, booked, check>>
    BY <1>3 DEF StartCreate, StartMove, StartDelete, StartBook, FindParent
  <2>2. QED
    BY <2>1
<1>4. QED
  BY <1>1, <1>2, <1>3

\* Every step is a clerk's or the check's.
LEMMA GoalsStepIs ==
  ASSUME GoalsTypeOK, [GoalsNext]_fvars
  PROVE  \/ check' = [check EXCEPT !.still = FALSE]
         \/ /\ UNCHANGED <<parent, check>>
            /\ \A h \in Goal : booked[h] <= booked'[h]
         \/ /\ UNCHANGED <<parent, booked>>
            /\ CheckStep \/ \E g \in Goal : StartCheck(g)
<1>1. CASE UNCHANGED fvars
  BY <1>1 DEF fvars, GoalsTypeOK
<1>2. CASE CheckStep \/ \E g \in Goal : StartCheck(g)
  BY <1>2 DEF StartCheck, CheckStep, ReadDirect, Pop, ReadChild, Decide
<1>3. CASE \E w \in Clerks, g \in Goal :
             \/ \E p \in Goal \cup {Top} : StartCreate(w, g, p) \/ StartMove(w, g, p)
             \/ StartDelete(w, g) \/ StartBook(w, g)
  BY <1>3, ClerkStep
<1>4. CASE \E w \in Clerks :
             FindParent(w) \/ InsertGoal(w) \/ Move(w) \/ DeleteSpends(w) \/ DeleteGoal(w) \/ Book(w)
  BY <1>4, ClerkStep, GoalsAssumption
<1>5. QED
  BY <1>1, <1>2, <1>3, <1>4 DEF GoalsNext

LEMMA GoalsFreshStep ==
  ASSUME GoalsTypeOK, GoalsFresh, [GoalsNext]_fvars
  PROVE  GoalsFresh'
<1> USE DEF GoalsFresh
<1> Never' = Never
  BY DEF Never
<1>1. CASE check' = [check EXCEPT !.still = FALSE] \/ UNCHANGED check
  BY <1>1 DEF GoalsTypeOK, Check
<1>2. ASSUME NEW g \in Goal, StartCheck(g) PROVE GoalsFresh'
  BY <1>2, StartCheckIs
<1>3. CASE ReadDirect
  BY <1>3, ReadDirectIs
<1>4. ASSUME NEW g \in Goal, Pop(g) PROVE GoalsFresh'
  BY <1>4, PopIs
<1>5. ASSUME NEW g \in Goal, ReadChild(g) PROVE GoalsFresh'
  BY <1>5, ReadChildIs DEF ReadChild
<1>6. CASE Decide
  BY <1>6, DecideIs
<1>7. QED
  BY <1>1, <1>2, <1>3, <1>4, <1>5, <1>6, GoalsStepIs DEF CheckStep

-----------------------------------------------------------------------------
(* The walk                                                                 *)

LEMMA TreeAtStart ==
  ASSUME GoalsTypeOK, GoalsFresh, ReadDirect, ~Below(check.root)
  PROVE  GoalsTree'
<1> PICK r \in Goal : r = check.root
  BY DEF ReadDirect, GoalsTypeOK
<1>1. check.found = Never /\ check.todo = Never /\ UNCHANGED parent
  BY DEF ReadDirect, GoalsTypeOK, GoalsFresh
<1>2. check'.root = r /\ check'.found = Never /\ check'.todo = [Never EXCEPT ![r] = 1]
      /\ check'.at = "walk"
  BY <1>1, ReadDirectIs
<1>3. Seen' = {r}
  BY <1>1, <1>2 DEF Seen, Never
<1>4. r \in Subtree(r)' /\ parent[r] # r
  BY <1>1, SubtreeIs, SubtreeKept DEF Below
<1>5. \A h \in Goal : check'.todo[h] > 0 => check'.todo[h] = 1 /\ h = r
  BY <1>1, <1>2 DEF Never
<1>6. check'.todo[r] = 1
  BY <1>1, <1>2 DEF Never
<1>7. \A h \in Goal : check'.found[h] = 0
  BY <1>2 DEF Never
<1>8. Seen' \subseteq Subtree(check.root)'
  BY <1>1, <1>2, <1>3, <1>4
<1>9. \A h \in Goal : h # r => ~(parent'[h] \in Seen' /\ check'.todo[parent'[h]] = 0)
  BY <1>3, <1>6
<1>10. QED
  BY <1>1, <1>2, <1>3, <1>5, <1>7, <1>8, <1>9 DEF GoalsTree

LEMMA TreeByPop ==
  ASSUME GoalsTypeOK, GoalsTree, NEW g \in Goal, Pop(g), check.still, ~Below(check.root)
  PROVE  GoalsTree'
<1> PICK r \in Goal : r = check.root
  BY DEF GoalsTypeOK, Pop
<1> DEFINE found == check.found  todo == check.todo
<1>1. found \in [Goal -> Nat] /\ todo \in [Goal -> Nat] /\ todo[g] > 0
      /\ check.at = "walk" /\ UNCHANGED parent /\ parent[r] \notin Subtree(r)
  BY CheckParts DEF Pop, GoalsTypeOK, Below
<1>2. /\ \A h \in Goal : found[h] \in {0, 1}
      /\ found[r] = 0 /\ Seen \subseteq Subtree(r)
      /\ \A h \in Goal : todo[h] > 0 => todo[h] = 1 /\ h \in Seen
      /\ \A h \in Goal : h # r => (found[h] = 1 <=> parent[h] \in Seen /\ todo[parent[h]] = 0)
  BY <1>1 DEF GoalsTree
<1>3. g \in Seen /\ todo[g] = 1 /\ g \in Subtree(r)
  BY <1>1, <1>2
<1>4. r \notin Children(g)
  BY <1>1, <1>3 DEF Children
<1>5. \A h \in Children(g) : h \in Goal /\ parent[h] = g /\ h # r /\ found[h] = 0 /\ todo[h] = 0
  <2> SUFFICES ASSUME NEW h \in Children(g)
               PROVE  h \in Goal /\ parent[h] = g /\ h # r /\ found[h] = 0 /\ todo[h] = 0
    OBVIOUS
  <2>1. h \in Goal /\ parent[h] = g /\ h # r
    BY <1>4 DEF Children
  <2>2. found[h] = 0
    BY <1>2, <1>3, <2>1
  <2>3. todo[h] = 0
    BY <1>1, <1>2, <2>1, <2>2 DEF Seen
  <2>4. QED
    BY <2>1, <2>2, <2>3
<1>6. g \notin Children(g)
  BY <1>3, <1>5
<1>7. check'.root = r /\ check'.at = "walk"
  BY PopIs
<1>8. /\ \A h \in Children(g) : check'.found[h] = 1 /\ check'.todo[h] = 1
      /\ \A h \in Goal \ Children(g) : check'.found[h] = found[h]
      /\ check'.todo[g] = 0
      /\ \A h \in Goal \ Children(g) : h # g => check'.todo[h] = todo[h]
  <2>1. check'.found = [h \in Goal |-> found[h] + (IF h \in Children(g) THEN 1 ELSE 0)]
    BY PopIs
  <2>2. check'.todo = [h \in Goal |-> (IF h = g THEN todo[h] - 1 ELSE todo[h])
                                      + (IF h \in Children(g) THEN 1 ELSE 0)]
    BY PopIs
  <2> HIDE DEF found, todo
  <2>3. \A h \in Children(g) : h \in Goal
    BY <1>5
  <2>4. ASSUME NEW h \in Children(g) PROVE check'.found[h] = 1 /\ check'.todo[h] = 1
    <3>1. h \in Goal /\ h # g /\ found[h] = 0 /\ todo[h] = 0
      BY <1>5, <1>6
    <3>2. check'.found[h] = 1
      BY <2>1, <3>1
    <3>3. check'.todo[h] = 1
      BY <2>2, <3>1
    <3>4. QED
      BY <3>2, <3>3
  <2>5. \A h \in Goal \ Children(g) : check'.found[h] = found[h]
    BY <1>1, <2>1
  <2>6. check'.todo[g] = 0
    BY <1>3, <1>6, <2>2
  <2>7. \A h \in Goal \ Children(g) : h # g => check'.todo[h] = todo[h]
    BY <1>1, <2>2
  <2>8. QED
    BY <2>4, <2>5, <2>6, <2>7
<1> HIDE DEF found, todo
<1>9. Seen' = Seen \cup Children(g)
  <2>1. Seen = {h \in Goal : h = r \/ found[h] = 1}
    BY DEF Seen, found
  <2>2. Seen' = {h \in Goal : h = r \/ check'.found[h] = 1}
    BY <1>7 DEF Seen
  <2>3. QED
    BY <1>5, <1>8, <2>1, <2>2
<1>10. Seen' \subseteq Subtree(r)
  BY <1>2, <1>3, <1>9, SubtreeIs DEF Closed
<1>11. \A h \in Goal : check'.found[h] \in {0, 1}
  BY <1>2, <1>8
<1>12. check'.found[r] = 0
  BY <1>2, <1>4, <1>8
<1>13. \A h \in Goal : check'.todo[h] > 0 => check'.todo[h] = 1 /\ h \in Seen'
  BY <1>2, <1>8, <1>9
<1>14. ASSUME NEW h \in Goal, h # r
       PROVE  check'.found[h] = 1 <=> parent[h] \in Seen' /\ check'.todo[parent[h]] = 0
  <2>1. CASE parent[h] = g
    BY <1>3, <1>8, <1>9, <2>1 DEF Children
  <2>2. CASE parent[h] # g /\ parent[h] \in Children(g)
    <3>1. h \notin Children(g) /\ parent[h] \notin Seen
      BY <1>5, <2>2 DEF Children, Seen, found
    <3>2. QED
      BY <1>2, <1>8, <2>2, <3>1, <1>14
  <2>3. CASE parent[h] # g /\ parent[h] \notin Children(g)
    <3>1. h \notin Children(g)
      BY <2>3 DEF Children
    <3>2. parent[h] \in Seen <=> parent[h] \in Seen'
      BY <1>9, <2>3
    <3>3. parent[h] \in Seen => check'.todo[parent[h]] = todo[parent[h]]
      BY <1>8, <2>3 DEF Seen
    <3>4. QED
      BY <1>2, <1>8, <1>14, <3>1, <3>2, <3>3
  <2>4. QED
    BY <2>1, <2>2, <2>3
<1>15. Subtree(check.root)' = Subtree(r)
  BY <1>1, <1>7, SubtreeKept
<1>16. QED
  BY <1>1, <1>7, <1>10, <1>11, <1>12, <1>13, <1>14, <1>15 DEF GoalsTree

\* When the stack is empty the walk has seen the whole subtree.
LEMMA WalkEnds ==
  ASSUME GoalsTypeOK, GoalsTree, GoalsLoop, check.still,
         check.at = "walk", check.todo = Never
  PROVE  /\ ~Below(check.root)
         /\ {h \in Goal : check.found[h] > 0} = Subtree(check.root) \ {check.root}
<1> DEFINE r == check.root  found == check.found
<1>1. r \in Goal /\ found \in [Goal -> Nat] /\ \A h \in Goal : check.todo[h] = 0
  BY CheckParts DEF GoalsTypeOK, Never
<1>2. ~Below(r)
  BY <1>1 DEF GoalsLoop
<1>3. /\ \A h \in Goal : found[h] \in {0, 1}
      /\ found[r] = 0 /\ Seen \subseteq Subtree(r)
      /\ \A h \in Goal : h # r => (found[h] = 1 <=> parent[h] \in Seen /\ check.todo[parent[h]] = 0)
  BY <1>2 DEF GoalsTree
<1>4. Seen \in SUBSET Goal /\ r \in Seen
  BY <1>1 DEF Seen
<1>5. Closed(Seen)
  <2> SUFFICES ASSUME NEW x \in Seen, NEW y \in Children(x) PROVE y \in Seen
    BY DEF Closed
  <2>1. x \in Goal /\ y \in Goal /\ parent[y] = x
    BY <1>4 DEF Children
  <2>2. CASE y = r
    BY <1>4, <2>2
  <2>3. CASE y # r
    BY <1>1, <1>3, <2>1, <2>3 DEF Seen
  <2>4. QED
    BY <2>2, <2>3
<1>6. Seen = Subtree(r)
  BY <1>1, <1>3, <1>4, <1>5, SubtreeIs
<1>7. QED
  BY <1>1, <1>2, <1>3, <1>6 DEF Seen

LEMMA TreeByReadChild ==
  ASSUME GoalsTypeOK, GoalsTree, GoalsFresh, NEW g \in Goal, ReadChild(g), check.still,
         ~Below(check.root)
  PROVE  GoalsTree'
<1> PICK r \in Goal : r = check.root
  BY DEF GoalsTypeOK, ReadChild
<1>1. check.found \in [Goal -> Nat] /\ UNCHANGED parent /\ check.at \in {"walk", "children"}
      /\ check.found[g] > 0
  BY CheckParts DEF ReadChild, GoalsTypeOK
<1>2. /\ \A h \in Goal : check.found[h] \in {0, 1}
      /\ check.found[r] = 0 /\ Seen \subseteq Subtree(r)
  BY <1>1 DEF GoalsTree
<1>3. check'.root = r /\ check'.at = "children"
      /\ check'.found = [check.found EXCEPT ![g] = @ - 1]
  BY ReadChildIs
<1>4. \A h \in Goal : check'.found[h] \in {0, 1} /\ check'.found[h] <= check.found[h]
  BY <1>1, <1>2, <1>3
<1>5. check'.found[r] = 0
  BY <1>2, <1>4
<1>6. Seen' \subseteq Seen
  <2>1. \A h \in Goal : check'.found[h] = 1 => check.found[h] = 1
    BY <1>2, <1>4
  <2>2. QED
    BY <1>3, <2>1 DEF Seen
<1>7. Subtree(check.root)' = Subtree(r)
  BY <1>1, <1>3, SubtreeKept
<1>8. QED
  BY <1>2, <1>3, <1>4, <1>5, <1>6, <1>7 DEF GoalsTree

LEMMA TreeByDecide ==
  ASSUME GoalsTypeOK, GoalsTree, Decide, check.still, ~Below(check.root)
  PROVE  GoalsTree'
<1> PICK r \in Goal : r = check.root
  BY DEF GoalsTypeOK, Decide
<1>1. UNCHANGED parent
  BY DEF Decide
<1>2. check'.root = r /\ check'.at = "done" /\ check'.found = Never
  BY DecideIs
<1>3. \A h \in Goal : check'.found[h] = 0
  BY <1>2 DEF Never
<1>4. Seen' = {r}
  BY <1>2, <1>3 DEF Seen
<1>5. Subtree(check.root)' = Subtree(r) /\ r \in Subtree(r)
  BY <1>1, <1>2, SubtreeKept, SubtreeIs
<1>6. QED
  BY <1>2, <1>3, <1>4, <1>5 DEF GoalsTree

LEMMA LoopByCheckStep ==
  ASSUME GoalsTypeOK, GoalsFresh, GoalsLoop, CheckStep, check.still, Below(check.root)
  PROVE  GoalsLoop'
<1> PICK r \in Goal : r = check.root
  BY DEF GoalsTypeOK, CheckStep, ReadDirect, Pop, ReadChild, Decide
<1>1. UNCHANGED parent
  BY DEF CheckStep, ReadDirect, Pop, ReadChild, Decide
<1>2. \A k : Subtree(k)' = Subtree(k)
  BY <1>1, SubtreeKept
<1>3. CASE ReadDirect
  <2>1. check'.at = "walk" /\ check'.root = r /\ check'.todo = [check.todo EXCEPT ![r] = 1]
        /\ check.todo \in [Goal -> Nat]
    BY <1>3, ReadDirectIs, CheckParts DEF GoalsTypeOK
  <2>2. check'.todo[r] > 0 /\ r \in Subtree(r)
    BY <2>1, SubtreeIs
  <2>3. check'.root \in Subtree(r)'
    BY <1>2, <2>1, <2>2
  <2>4. QED
    BY <2>1, <2>2, <2>3 DEF GoalsLoop
<1>4. CASE \E g \in Goal : Pop(g)
  <2>1. PICK g \in Goal : Pop(g)
    BY <1>4
  <2>2. check'.at = "walk" /\ check'.root = r
    BY <2>1, PopIs
  <2>3. check.todo \in [Goal -> Nat] /\ check.todo[g] > 0
    BY <2>1, CheckParts DEF Pop, GoalsTypeOK
  <2>4. check'.todo = [h \in Goal |->
              (IF h = g THEN check.todo[h] - 1 ELSE check.todo[h])
                + (IF h \in Children(g) THEN 1 ELSE 0)]
    BY <2>1, PopIs
  <2>5. PICK k \in Goal : check.todo[k] > 0 /\ r \in Subtree(k)
    BY <2>1 DEF GoalsLoop, Pop
  <2>6. \E j \in Goal : check'.todo[j] > 0 /\ r \in Subtree(j)
    <3>1. CASE k # g
      <4>1. check'.todo[k] > 0
        BY <2>3, <2>4, <2>5, <3>1
      <4>2. QED
        BY <2>5, <4>1
    <3>2. CASE k = g
      <4>1. PICK c \in Children(g) : r \in Subtree(c)
        BY <2>5, <3>2, LoopGoesOn
      <4>2. c \in Goal
        BY DEF Children
      <4>3. check'.todo[c] > 0
        BY <2>3, <2>4, <4>2
      <4>4. QED
        BY <4>1, <4>2, <4>3
    <3>3. QED
      BY <3>1, <3>2
  <2>7. QED
    BY <1>2, <2>2, <2>6 DEF GoalsLoop
<1>5. CASE (\E g \in Goal : ReadChild(g)) \/ Decide
  <2>1. check.todo = Never /\ check.at \in {"walk", "children"}
    BY <1>5 DEF ReadChild, Decide
  <2>2. PICK k \in Goal : check.todo[k] > 0
    BY <2>1 DEF GoalsLoop
  <2>3. QED
    BY <2>1, <2>2 DEF Never
<1>6. QED
  BY <1>3, <1>4, <1>5 DEF CheckStep

LEMMA GoalsWalkStep ==
  ASSUME GoalsTypeOK, GoalsFresh, GoalsTree, GoalsLoop, [GoalsNext]_fvars
  PROVE  GoalsTree' /\ GoalsLoop'
<1>1. CASE check' = [check EXCEPT !.still = FALSE]
  <2>1. check'.still = FALSE
    BY <1>1 DEF GoalsTypeOK, Check
  <2>2. QED
    BY <2>1 DEF GoalsTree, GoalsLoop
<1>2. CASE UNCHANGED <<parent, check>>
  <2>1. \A k : Subtree(k)' = Subtree(k)
    BY <1>2, SubtreeKept
  <2>2. Below(check.root)' = Below(check.root) /\ Seen' = Seen
    BY <1>2, <2>1 DEF Below, Seen
  <2>3. Subtree(check.root)' = Subtree(check.root)
    BY <1>2 DEF Subtree, Closed, Children
  <2>4. GoalsTree'
    BY <1>2, <2>2, <2>3 DEF GoalsTree
  <2>5. GoalsLoop'
    BY <1>2, <2>1, <2>2 DEF GoalsLoop
  <2>6. QED
    BY <2>4, <2>5
<1>3. CASE \E g \in Goal : StartCheck(g)
  BY <1>3, StartCheckIs DEF GoalsTree, GoalsLoop
<1>4. CASE CheckStep /\ UNCHANGED parent
  <2>1. check'.still = check.still /\ check'.root = check.root
    BY <1>4, ReadDirectIs, PopIs, ReadChildIs, DecideIs DEF CheckStep
  <2>2. Below(check.root)' = Below(check.root)
    BY <1>4, <2>1 DEF Below, Subtree, Closed, Children
  <2>3. CASE ~check.still
    BY <2>1, <2>3 DEF GoalsTree, GoalsLoop
  <2>4. CASE check.still /\ Below(check.root)
    <3>1. GoalsLoop'
      BY <1>4, <2>4, LoopByCheckStep
    <3>2. QED
      BY <2>2, <2>4, <3>1 DEF GoalsTree
  <2>5. CASE check.still /\ ~Below(check.root)
    <3>1. GoalsTree'
      BY <1>4, <2>5, TreeAtStart, TreeByPop, TreeByReadChild, TreeByDecide DEF CheckStep
    <3>2. QED
      BY <2>2, <2>5, <3>1 DEF GoalsLoop
  <2>6. QED
    BY <2>3, <2>4, <2>5
<1>5. QED
  BY <1>1, <1>2, <1>3, <1>4, GoalsStepIs

-----------------------------------------------------------------------------
(* The sum                                                                  *)

LEMMA PendingSums ==
  ASSUME booked \in [Goal -> Nat], NEW r \in Goal, NEW P \in SUBSET Subtree(r)
  PROVE  /\ P \in SUBSET Goal /\ Subtree(r) \ P \in SUBSET Goal
         /\ IsFiniteSet(P) /\ IsFiniteSet(Subtree(r) \ P)
         /\ SumFunctionOnSet(booked, P) \in Nat
         /\ SumFunctionOnSet(booked, Subtree(r) \ P) \in Nat
         /\ SumFunctionOnSet(booked, Subtree(r) \ P) <= Total(r)
<1>1. Subtree(r) \in SUBSET Goal /\ Subtree(r) \ P \in SUBSET Subtree(r)
  BY SubtreeIs
<1>2. IsFiniteSet(Subtree(r)) /\ IsFiniteSet(P) /\ IsFiniteSet(Subtree(r) \ P)
  BY <1>1, SubtreeFinite
<1>3. SumFunctionOnSet(booked, Subtree(r) \ P) <= SumFunctionOnSet(booked, Subtree(r))
  BY <1>1, <1>2, SumSubset
<1>4. QED
  BY <1>1, <1>2, <1>3, TotalType DEF Total

\* Reading one goal more moves its spend from the pending to the read.
LEMMA ReadOne ==
  ASSUME booked \in [Goal -> Nat], NEW r \in Goal, NEW P \in SUBSET Subtree(r), NEW g \in P
  PROVE  /\ SumFunctionOnSet(booked, P)
              = booked[g] + SumFunctionOnSet(booked, P \ {g})
         /\ SumFunctionOnSet(booked, Subtree(r) \ (P \ {g}))
              = booked[g] + SumFunctionOnSet(booked, Subtree(r) \ P)
<1> DEFINE Q == P \ {g}  D == Subtree(r) \ P
<1>1. P \in SUBSET Goal /\ D \in SUBSET Goal /\ IsFiniteSet(P) /\ IsFiniteSet(D) /\ IsFiniteSet(Q)
  BY PendingSums, FS_RemoveElement
<1>2. Q \cup {g} = P /\ g \notin Q /\ D \cup {g} = Subtree(r) \ Q /\ g \notin D
  OBVIOUS
<1>3. SumFunctionOnSet(booked, Q \cup {g}) = booked[g] + SumFunctionOnSet(booked, Q)
  <2>1. \A y \in Q \cup {g} : booked[y] \in Int
    BY <1>1
  <2>2. QED
    BY <1>1, <1>2, <2>1, SumAdd
<1>4. SumFunctionOnSet(booked, D \cup {g}) = booked[g] + SumFunctionOnSet(booked, D)
  <2>1. \A y \in D \cup {g} : booked[y] \in Int
    BY <1>1
  <2>2. QED
    BY <1>1, <1>2, <2>1, SumAdd
<1>5. QED
  BY <1>2, <1>3, <1>4

\* The claim of GoalsExact, of a root, a set of pending goals and two sums.
Between(r, P, low, sum) ==
    /\ P \subseteq Subtree(r)
    /\ low <= sum + SumFunctionOnSet(booked, P)
    /\ sum <= SumFunctionOnSet(booked, Subtree(r) \ P)

LEMMA BetweenRead ==
  ASSUME booked \in [Goal -> Nat], NEW r \in Goal, NEW P, NEW low \in Nat, NEW sum \in Nat,
         Between(r, P, low, sum), NEW g \in P
  PROVE  Between(r, P \ {g}, low, sum + booked[g])
<1>1. P \in SUBSET Subtree(r) /\ P \ {g} \in SUBSET Subtree(r)
  BY DEF Between
<1>2. booked[g] \in Nat
  BY <1>1, SubtreeIs
<1> DEFINE S == SumFunctionOnSet(booked, P)  T == SumFunctionOnSet(booked, Subtree(r) \ P)
           U == SumFunctionOnSet(booked, P \ {g})
           V == SumFunctionOnSet(booked, Subtree(r) \ (P \ {g}))
<1>3. S \in Nat /\ T \in Nat /\ U \in Nat /\ V \in Nat
  BY <1>1, PendingSums
<1>4. S = booked[g] + U /\ V = booked[g] + T
  BY <1>1, ReadOne
<1>5. low <= sum + S /\ sum <= T
  BY DEF Between
<1> HIDE DEF S, T, U, V
<1>6. low <= (sum + booked[g]) + U /\ sum + booked[g] <= V
  BY <1>2, <1>3, <1>4, <1>5
<1>7. QED
  BY <1>1, <1>6 DEF Between, U, V

LEMMA ExactStart ==
  ASSUME GoalsTypeOK, NEW g \in Goal, StartCheck(g)
  PROVE  GoalsExact'
<1>1. check'.root = g /\ check'.at = "direct" /\ check'.sum = 0 /\ check'.low = Total(g)
      /\ UNCHANGED <<parent, booked>>
  BY StartCheckIs DEF StartCheck
<1>2. Subtree(check.root)' = Subtree(g)
  BY <1>1, SubtreeKept
<1>3. Pending' = Subtree(g)
  BY <1>1, <1>2 DEF Pending
<1>4. Subtree(g) \ Subtree(g) = {}
  OBVIOUS
<1>5. SumFunctionOnSet(booked, {}) = 0 /\ Total(g) \in Nat
  BY SumEmpty, TotalType DEF Total, GoalsTypeOK
<1>6. check'.low <= check'.sum + SumFunctionOnSet(booked, Subtree(g))
  BY <1>1, <1>5 DEF Total
<1>7. check'.sum <= SumFunctionOnSet(booked, Subtree(g) \ Subtree(g))
  BY <1>1, <1>4, <1>5
<1>8. QED
  BY <1>1, <1>2, <1>3, <1>6, <1>7 DEF GoalsExact

\* Each step of the check keeps the pending goals or reads one of them.
LEMMA PendingStep ==
  ASSUME GoalsTypeOK, GoalsFresh, GoalsTree, GoalsLoop, GoalsExact, CheckStep, check.still
  PROVE  \/ Pending' = Pending /\ check'.sum = check.sum
         \/ \E g \in Pending : Pending' = Pending \ {g} /\ check'.sum = check.sum + booked[g]
<1> PICK r \in Goal : r = check.root
  BY DEF GoalsTypeOK, CheckStep, ReadDirect, Pop, ReadChild, Decide
<1>1. Subtree(r)' = Subtree(r) /\ r \in Subtree(r)
  BY SubtreeKept, SubtreeIs DEF CheckStep, ReadDirect, Pop, ReadChild, Decide
<1>2. CASE ReadDirect
  <2>1. check.at = "direct" /\ check'.at = "walk" /\ check'.root = r
        /\ check'.sum = booked[r]
    BY <1>2, ReadDirectIs DEF ReadDirect
  <2>2. Pending = Subtree(r) /\ Pending' = Subtree(r) \ {r}
    BY <1>1, <2>1 DEF Pending
  <2>3. check.sum = 0
    <3>1. Subtree(r) \ Pending = {}
      BY <2>2
    <3>2. check.sum <= SumFunctionOnSet(booked, {})
      BY <2>1, <3>1 DEF GoalsExact
    <3>3. QED
      BY <3>2, SumEmpty, CheckParts DEF GoalsTypeOK
  <2>4. booked[r] \in Nat
    BY DEF GoalsTypeOK
  <2>5. QED
    BY <1>1, <2>1, <2>2, <2>3, <2>4
<1>3. CASE \E g \in Goal : Pop(g)
  <2>1. check.at = "walk" /\ check'.at = "walk" /\ check'.root = r /\ check'.sum = check.sum
    BY <1>3, PopIs DEF Pop
  <2>2. QED
    BY <1>1, <2>1 DEF Pending
<1>4. ASSUME check.at \in {"walk", "children"}, check.todo = Never
      PROVE  Pending = {h \in Goal : check.found[h] > 0}
  BY <1>4, WalkEnds DEF Pending
<1>5. CASE \E g \in Goal : ReadChild(g)
  <2>1. PICK g \in Goal : ReadChild(g)
    BY <1>5
  <2>2. Pending = {h \in Goal : check.found[h] > 0} /\ g \in Pending
    BY <1>4, <2>1 DEF ReadChild
  <2>3. check'.at = "children" /\ check'.found = [check.found EXCEPT ![g] = @ - 1]
        /\ check'.sum = check.sum + booked[g]
    BY <2>1, ReadChildIs
  <2>4. check.found[g] = 1
    <3>1. ~Below(r)
      BY <2>1 DEF GoalsLoop, ReadChild, Never
    <3>2. QED
      BY <2>1, <2>2, <3>1 DEF GoalsTree, ReadChild
  <2>5. \A h \in Goal : check'.found[h] > 0 <=> check.found[h] > 0 /\ h # g
    BY <2>3, <2>4, CheckParts DEF GoalsTypeOK
  <2>6. Pending' = {h \in Goal : check'.found[h] > 0}
    BY <2>3 DEF Pending
  <2>7. Pending' = Pending \ {g}
    BY <2>2, <2>5, <2>6
  <2>8. QED
    BY <2>2, <2>3, <2>7
<1>6. CASE Decide
  <2>1. Pending = {h \in Goal : check.found[h] > 0} /\ check.found = Never
    BY <1>4, <1>6 DEF Decide
  <2>2. check'.at = "done" /\ check'.found = Never /\ check'.sum = check.sum
    BY <1>6, DecideIs
  <2>3. Pending' = {h \in Goal : check'.found[h] > 0}
    BY <2>2 DEF Pending
  <2>4. QED
    BY <2>1, <2>2, <2>3
<1>7. QED
  BY <1>2, <1>3, <1>5, <1>6 DEF CheckStep

LEMMA ExactByCheckStep ==
  ASSUME GoalsTypeOK, GoalsFresh, GoalsTree, GoalsLoop, GoalsExact, CheckStep, check.still
  PROVE  GoalsExact'
<1> PICK r \in Goal : r = check.root
  BY DEF GoalsTypeOK, CheckStep, ReadDirect, Pop, ReadChild, Decide
<1> PICK P : P = Pending
  OBVIOUS
<1> PICK low \in Nat, sum \in Nat : low = check.low /\ sum = check.sum
  BY CheckParts DEF GoalsTypeOK
<1>1. UNCHANGED <<parent, booked>> /\ booked \in [Goal -> Nat] /\ check.at # "none"
      /\ check.at # "done"
  BY DEF GoalsTypeOK, CheckStep, ReadDirect, Pop, ReadChild, Decide
<1>2. check'.root = r /\ check'.low = low /\ check'.still = check.still
  BY ReadDirectIs, PopIs, ReadChildIs, DecideIs DEF CheckStep
<1>3. Between(r, P, low, sum)
  BY <1>1 DEF GoalsExact, Between
<1>4. Between(r, Pending', low, check'.sum)
  <2>1. CASE Pending' = P /\ check'.sum = sum
    BY <1>3, <2>1
  <2>2. CASE \E g \in P : Pending' = P \ {g} /\ check'.sum = sum + booked[g]
    BY <1>1, <1>3, <2>2, BetweenRead
  <2>3. QED
    BY <2>1, <2>2, PendingStep
<1>5. Subtree(check.root)' = Subtree(r)
  BY <1>1, <1>2, SubtreeKept
<1>6. check'.at = "done" =>
        check'.allowed = (~Exists(check.root) \/ GoalCap = 0 \/ check.sum < GoalCap)'
  <2>1. CASE Decide
    BY <1>1, <1>2, <2>1, DecideIs DEF Exists
  <2>2. CASE ~Decide
    BY <2>2, ReadDirectIs, PopIs, ReadChildIs DEF CheckStep
  <2>3. QED
    BY <2>1, <2>2
<1>7. QED
  BY <1>1, <1>2, <1>4, <1>5, <1>6 DEF GoalsExact, Between

\* Spend that is only added keeps the claim.
LEMMA ExactByBooking ==
  ASSUME GoalsTypeOK, GoalsTypeOK', GoalsExact, UNCHANGED <<parent, check>>,
         \A h \in Goal : booked[h] <= booked'[h]
  PROVE  GoalsExact'
<1> SUFFICES ASSUME check.still, check.at # "none" PROVE GoalsExact'
  BY DEF GoalsExact
<1> PICK r \in Goal : r = check.root
  BY DEF GoalsTypeOK
<1> PICK P : P = Pending
  OBVIOUS
<1>1. Subtree(r)' = Subtree(r)
  BY SubtreeKept
<1>2. Pending' = P
  BY <1>1 DEF Pending
<1>3. P \in SUBSET Subtree(r)
  BY DEF GoalsExact
<1> DEFINE D == Subtree(r) \ P
<1>4. booked \in [Goal -> Nat] /\ booked' \in [Goal -> Nat]
      /\ check.low \in Nat /\ check.sum \in Nat
  BY CheckParts DEF GoalsTypeOK
<1>5. P \in SUBSET Goal /\ D \in SUBSET Goal /\ IsFiniteSet(P) /\ IsFiniteSet(D)
  BY <1>3, <1>4, PendingSums
<1> HIDE DEF D
<1>6. SumFunctionOnSet(booked, P) <= SumFunctionOnSet(booked', P)
      /\ SumFunctionOnSet(booked, D) <= SumFunctionOnSet(booked', D)
  BY <1>4, <1>5, SumMono
<1>7. /\ SumFunctionOnSet(booked, P) \in Nat /\ SumFunctionOnSet(booked', P) \in Nat
      /\ SumFunctionOnSet(booked, D) \in Nat /\ SumFunctionOnSet(booked', D) \in Nat
  BY <1>4, <1>5, SumType
<1>8. check.low <= check.sum + SumFunctionOnSet(booked, P)
      /\ check.sum <= SumFunctionOnSet(booked, D)
  BY DEF GoalsExact, D
<1>9. check.low <= check.sum + SumFunctionOnSet(booked', P)
      /\ check.sum <= SumFunctionOnSet(booked', D)
  BY <1>4, <1>6, <1>7, <1>8
<1>10. check.at = "done" =>
         check.allowed = (~Exists(check.root) \/ GoalCap = 0 \/ check.sum < GoalCap)
  BY DEF GoalsExact
<1>11. Subtree(check.root)' = Subtree(r) /\ Exists(check.root)' = Exists(check.root)
  BY DEF Subtree, Closed, Children, Exists
<1>12. QED
  BY <1>2, <1>3, <1>9, <1>10, <1>11 DEF GoalsExact, D

LEMMA GoalsExactStep ==
  ASSUME GoalsTypeOK, GoalsTypeOK', GoalsFresh, GoalsTree, GoalsLoop, GoalsExact, [GoalsNext]_fvars
  PROVE  GoalsExact'
<1>1. CASE check' = [check EXCEPT !.still = FALSE]
  BY <1>1 DEF GoalsExact, GoalsTypeOK, Check
<1>2. CASE UNCHANGED <<parent, check>> /\ \A h \in Goal : booked[h] <= booked'[h]
  BY <1>2, ExactByBooking
<1>3. CASE \E g \in Goal : StartCheck(g)
  BY <1>3, ExactStart
<1>4. CASE CheckStep /\ check.still
  BY <1>4, ExactByCheckStep
<1>5. CASE CheckStep /\ ~check.still
  <2>1. check'.still = check.still
    BY <1>5, ReadDirectIs, PopIs, ReadChildIs, DecideIs DEF CheckStep
  <2>2. QED
    BY <1>5, <2>1 DEF GoalsExact
<1>6. QED
  BY <1>1, <1>2, <1>3, <1>4, <1>5, GoalsStepIs

-----------------------------------------------------------------------------
(* Goals that are gone                                                      *)

LEMMA StrayKept ==
  ASSUME GoalsStray, UNCHANGED <<parent, booked, stray>>,
         \A w \in Clerks, g \in Goal : clerk'[w].at = "book" /\ clerk'[w].g = g =>
           Exists(g) \/ (clerk[w].at = "book" /\ clerk[w].g = g)
  PROVE  GoalsStray'
BY DEF GoalsStray, Exists, Booking

LEMMA GoalsStrayStep ==
  ASSUME GoalsTypeOK, GoalsStray, [GoalsNext]_fvars
  PROVE  GoalsStray'
<1>1. CASE UNCHANGED <<parent, booked, stray, clerk>>
  BY <1>1, StrayKept
<1>2. ASSUME NEW w \in Clerks, NEW g \in Goal, NEW p \in Goal \cup {Top},
             StartCreate(w, g, p) \/ StartMove(w, g, p) \/ StartDelete(w, g) \/ StartBook(w, g)
      PROVE  GoalsStray'
  <2>1. UNCHANGED <<parent, booked, stray>>
    BY <1>2 DEF StartCreate, StartMove, StartDelete, StartBook
  <2>2. \A v \in Clerks : v # w => clerk'[v] = clerk[v]
    BY <1>2 DEF StartCreate, StartMove, StartDelete, StartBook, Begin, GoalsTypeOK
  <2>5. clerk'[w].at = "book" => clerk'[w].g = g /\ Exists(g)
    <3>1. CASE StartCreate(w, g, p)
      BY <3>1 DEF StartCreate, Begin, GoalsTypeOK
    <3>2. CASE StartMove(w, g, p)
      BY <3>2 DEF StartMove, Begin, GoalsTypeOK
    <3>3. CASE StartDelete(w, g)
      BY <3>3 DEF StartDelete, Begin, GoalsTypeOK
    <3>4. CASE StartBook(w, g)
      BY <3>4 DEF StartBook, Begin, GoalsTypeOK
    <3>5. QED
      BY <1>2, <3>1, <3>2, <3>3, <3>4
  <2>3. ASSUME NEW v \in Clerks, NEW h \in Goal, clerk'[v].at = "book", clerk'[v].g = h
        PROVE  Exists(h) \/ (clerk[v].at = "book" /\ clerk[v].g = h)
    <3>1. CASE v = w
      BY <2>5, <2>3, <3>1
    <3>2. CASE v # w
      BY <2>2, <2>3, <3>2
    <3>3. QED
      BY <3>1, <3>2
  <2>4. QED
    BY <2>1, <2>3, StrayKept
<1>3. ASSUME NEW w \in Clerks, FindParent(w) PROVE GoalsStray'
  <2>1. UNCHANGED <<parent, booked, stray>>
    BY <1>3 DEF FindParent
  <2>2. \A v \in Clerks, g \in Goal : clerk'[v].at = "book" => clerk'[v] = clerk[v]
    BY <1>3 DEF FindParent, Goes, Ends, GoalsTypeOK, NoCall, Call
  <2>3. QED
    BY <2>1, <2>2, StrayKept
<1>4. ASSUME NEW w \in Clerks, InsertGoal(w) \/ Move(w) PROVE GoalsStray'
  <2>1. UNCHANGED <<booked, stray>> /\ clerk[w] \in Call /\ clerk[w].g \in Goal
    BY <1>4 DEF InsertGoal, Move, GoalsTypeOK
  <2>2. \A g \in Goal : ~Exists(g)' => ~Exists(g)
    BY <1>4, <2>1, GoalsAssumption DEF InsertGoal, Move, Exists, GoalsTypeOK, Call
  <2>3. \A g \in Goal : Booking(g)' => Booking(g)
    BY <1>4 DEF InsertGoal, Move, Ends, Booking, NoCall, GoalsTypeOK
  <2>4. QED
    BY <2>1, <2>2, <2>3 DEF GoalsStray
<1>5. ASSUME NEW w \in Clerks, DeleteSpends(w) PROVE GoalsStray'
  <2>1. UNCHANGED <<parent, stray>> /\ clerk[w] \in Call /\ clerk[w].g \in Goal
    BY <1>5 DEF DeleteSpends, GoalsTypeOK
  <2>2. \A g \in Goal : booked[g] = 0 => booked'[g] = 0
    BY <1>5 DEF DeleteSpends, SpendsDeleted, GoalsTypeOK
  <2>3. \A g \in Goal : Booking(g)' => Booking(g)
    BY <1>5, <2>1 DEF DeleteSpends, Goes, Booking, GoalsTypeOK, Call
  <2>4. QED
    BY <2>1, <2>2, <2>3 DEF GoalsStray, Exists
<1>6. ASSUME NEW w \in Clerks, DeleteGoal(w) PROVE GoalsStray'
  <2> PICK d \in Goal : d = clerk[w].g
    BY <1>6 DEF DeleteGoal, GoalsTypeOK
  <2>1. UNCHANGED booked /\ parent' = [parent EXCEPT ![d] = Gone]
        /\ stray' = IF Booking(d) \/ booked[d] # 0 THEN stray \cup {d} ELSE stray
    BY <1>6 DEF DeleteGoal
  <2>2. \A g \in Goal : Booking(g)' => Booking(g)
    BY <1>6 DEF DeleteGoal, Ends, Booking, NoCall, GoalsTypeOK
  <2>3. \A g \in Goal : g # d => Exists(g)' = Exists(g)
    BY <2>1 DEF Exists, GoalsTypeOK
  <2>4. ASSUME NEW g \in Goal \ stray', ~Exists(g)' PROVE booked'[g] = 0 /\ ~Booking(g)'
    <3>1. g \notin stray
      BY <2>1
    <3>2. CASE g = d
      BY <2>1, <2>2, <3>2
    <3>3. CASE g # d
      BY <2>1, <2>2, <2>3, <2>4, <3>1, <3>3 DEF GoalsStray
    <3>4. QED
      BY <3>2, <3>3
  <2>5. QED
    BY <2>4 DEF GoalsStray
<1>7. ASSUME NEW w \in Clerks, Book(w) PROVE GoalsStray'
  <2> PICK d \in Goal : d = clerk[w].g
    BY <1>7 DEF Book, GoalsTypeOK
  <2>1. UNCHANGED <<parent, stray>> /\ booked' = [booked EXCEPT ![d] = @ + 1] /\ Booking(d)
    BY <1>7 DEF Book, Booking
  <2>2. \A g \in Goal : Booking(g)' => Booking(g)
    BY <1>7 DEF Book, Ends, Booking, NoCall, GoalsTypeOK
  <2>3. \A g \in Goal : g # d => booked'[g] = booked[g]
    BY <2>1 DEF GoalsTypeOK
  <2>4. QED
    BY <2>1, <2>2, <2>3 DEF GoalsStray, Exists
<1>8. CASE CheckStep \/ \E g \in Goal : StartCheck(g)
  BY <1>1, <1>8 DEF StartCheck, CheckStep, ReadDirect, Pop, ReadChild, Decide
<1>9. CASE UNCHANGED fvars
  BY <1>1, <1>9 DEF fvars
<1>10. QED
  BY <1>2, <1>3, <1>4, <1>5, <1>6, <1>7, <1>8, <1>9 DEF GoalsNext

-----------------------------------------------------------------------------
(* The theorem                                                              *)

LEMMA GoalsInvInit ==
  ASSUME GoalsInit
  PROVE  GoalsInv
<1>1. NoCheck \in Check /\ NoCall \in Call /\ NoCall.at = "none" /\ NoCheck.at = "none"
      /\ NoCheck.found = Never /\ NoCheck.todo = Never
  BY DEF NoCheck, NoCall, Check, Call, Never
<1>2. GoalsTypeOK
  BY <1>1, GoalsAssumption DEF GoalsInit, GoalsTypeOK
<1>3. GoalsFresh /\ GoalsTree /\ GoalsLoop /\ GoalsExact
  BY <1>1 DEF GoalsInit, GoalsFresh, GoalsTree, GoalsLoop, GoalsExact
<1>4. GoalsStray
  BY <1>1 DEF GoalsInit, GoalsStray, Booking
<1>5. QED
  BY <1>2, <1>3, <1>4 DEF GoalsInv

LEMMA GoalsInvStep ==
  ASSUME GoalsInv, [GoalsNext]_fvars
  PROVE  GoalsInv'
<1>1. GoalsTypeOK'
  BY GoalsTypeStep DEF GoalsInv
<1>2. GoalsFresh'
  BY GoalsFreshStep DEF GoalsInv
<1>3. GoalsTree' /\ GoalsLoop'
  BY GoalsWalkStep DEF GoalsInv
<1>4. GoalsExact'
  BY <1>1, GoalsExactStep DEF GoalsInv
<1>5. GoalsStray'
  BY GoalsStrayStep DEF GoalsInv
<1>6. QED
  BY <1>1, <1>2, <1>3, <1>4, <1>5 DEF GoalsInv

LEMMA CheckIsExactHolds ==
  ASSUME GoalsInv
  PROVE  CheckIsExact
<1> SUFFICES ASSUME check.at = "done", check.still PROVE CheckIsExact
  BY DEF CheckIsExact
<1> PICK r \in Goal : r = check.root
  BY DEF GoalsInv, GoalsTypeOK
<1>1. check.low \in Nat /\ check.sum \in Nat /\ GoalCap \in Nat
  BY CheckParts, GoalsAssumption DEF GoalsInv, GoalsTypeOK
<1>2. Pending = {}
  BY DEF GoalsInv, GoalsFresh, Pending, Never
<1>3. check.low <= check.sum + SumFunctionOnSet(booked, {})
      /\ check.sum <= SumFunctionOnSet(booked, Subtree(r) \ {})
      /\ check.allowed = (~Exists(r) \/ GoalCap = 0 \/ check.sum < GoalCap)
  BY <1>2 DEF GoalsInv, GoalsExact
<1>4. Subtree(r) \ {} = Subtree(r)
  OBVIOUS
<1>5. check.low <= check.sum /\ check.sum <= Total(r)
  BY <1>1, <1>3, <1>4, SumEmpty DEF Total
<1>6. ASSUME Exists(r), GoalCap > 0, check.low >= GoalCap PROVE ~check.allowed
  <2>1. ~(GoalCap = 0) /\ ~(check.sum < GoalCap)
    BY <1>1, <1>5, <1>6
  <2>2. ~(~Exists(r) \/ GoalCap = 0 \/ check.sum < GoalCap)
    BY <1>6, <2>1
  <2>3. QED
    BY <1>3, <2>2, Zenon
<1>7. QED
  BY <1>5, <1>6 DEF CheckIsExact

LEMMA WalkIsBoundedHolds ==
  ASSUME GoalsInv
  PROVE  WalkIsBounded
<1> SUFFICES ASSUME check.still, ~Cyclic PROVE Found < Cardinality(Goal)
  BY DEF WalkIsBounded
<1>1. IsFiniteSet(Goal) /\ Cardinality(Goal) \in Nat
  BY GoalsAssumption, FS_CardinalityType
<1>2. PICK r \in Goal : \A h \in Goal : check.found[h] \in 0 .. 1 /\ check.found[r] = 0
  <2>1. CASE check.at \in {"none", "direct"}
    BY <2>1, GoalsAssumption DEF GoalsInv, GoalsFresh, Never
  <2>2. CASE check.at \notin {"none", "direct"}
    <3>1. check.root \in Goal /\ ~Below(check.root)
          /\ check.at \in {"walk", "children", "done"}
      BY <2>2, CheckParts DEF GoalsInv, GoalsTypeOK, Cyclic, Below
    <3>2. QED
      BY <3>1 DEF GoalsInv, GoalsTree
  <2>3. QED
    BY <2>1, <2>2
<1> DEFINE others == Goal \ {r}
<1>3. IsFiniteSet(others) /\ Cardinality(others) = Cardinality(Goal) - 1
      /\ others \cup {r} = Goal /\ r \notin others
  BY <1>1, FS_RemoveElement
<1>4. SumFunctionOnSet(check.found, others) <= 1 * Cardinality(others)
  BY <1>2, <1>3, SumBound
<1> HIDE DEF others
<1>5. SumFunctionOnSet(check.found, others \cup {r})
        = check.found[r] + SumFunctionOnSet(check.found, others)
  <2>1. \A y \in others \cup {r} : check.found[y] \in Int
    BY <1>2, <1>3
  <2>2. QED
    BY <1>3, <2>1, SumAdd
<1>6. SumFunctionOnSet(check.found, others) \in Nat
  <2>1. \A y \in others : check.found[y] \in Nat
    BY <1>2, <1>3
  <2>2. QED
    BY <1>3, <2>1, SumType
<1>7. SumFunctionOnSet(check.found, Goal) = 0 + SumFunctionOnSet(check.found, others)
  BY <1>2, <1>3, <1>5
<1>8. QED
  BY <1>1, <1>3, <1>4, <1>6, <1>7 DEF Found

\* GoalService, whatever the goals, the clerks and the interleaving: a budget
\* check counts a goal and all its descendants once, the walk ends unless
\* update_goal has closed a cycle, and a goal leaves no spend to a later one.
THEOREM GoalsAreSound == GoalsSpec => []GoalsSound
<1>1. GoalsInit => GoalsInv
  BY GoalsInvInit
<1>2. GoalsInv /\ [GoalsNext]_fvars => GoalsInv'
  BY GoalsInvStep
<1>3. GoalsInv => GoalsSound
  BY CheckIsExactHolds, WalkIsBoundedHolds
     DEF GoalsSound, GoalsInv, GoalsStray, NoInheritedSpend
<1>4. QED
  BY <1>1, <1>2, <1>3, PTL DEF GoalsSpec
===============================================================================
