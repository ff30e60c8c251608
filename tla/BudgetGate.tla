------------------------------- MODULE BudgetGate ------------------------------
(***************************************************************************)
(* BudgetGate (agentcost/intelligence/budget_gate.py): threads ask the gate  *)
(* before a call and record what the call cost afterwards.  Nothing is       *)
(* locked, so calls are under way while others are decided.  The history of  *)
(* decisions is left out.                                                    *)
(***************************************************************************)
EXTENDS Naturals, Sequences, FiniteSets, Functions, FiniteSetsExt

CONSTANTS Nodes,        \* threads that run workflow nodes
          Allowances,   \* budgets
          WarnAt, DowngradeAt, BlockAt,   \* thresholds, in percent
          Chains,       \* downgrade chains of the providers, in the order of the dict
          GateModels,   \* models asked for
          CallCost,     \* what a call of a model costs
          MaxAsks

ASSUME GateAssumption ==
    /\ Allowances \subseteq Nat /\ CallCost \in [GateModels -> Nat]
    /\ {WarnAt, DowngradeAt, BlockAt, MaxAsks} \subseteq Nat
    /\ IsFiniteSet(Nodes) /\ IsFiniteSet(GateModels) /\ GateModels # {}
    /\ Chains \in Seq(Seq(GateModels))

VARIABLES allowance, gone,   \* budget, spent
          node,              \* node[n]: the decision n acts on
          asks

gatevars == <<allowance, gone, node, asks>>

AnyModel == CHOOSE m \in GateModels : TRUE
Quiet == [action |-> "none", asked |-> AnyModel, model |-> AnyModel]

GateTypeOK ==
    /\ allowance \in Allowances /\ gone \in Nat /\ asks \in 0 .. MaxAsks
    /\ node \in [Nodes -> [action : {"none", "downgrade", "warn", "allow"},
                          asked : GateModels, model : GateModels]]

GateInit ==
    /\ allowance \in Allowances
    /\ gone = 0
    /\ node = [n \in Nodes |-> Quiet]
    /\ asks = 0

Remaining == IF gone < allowance THEN allowance - gone ELSE 0
\* used_pct of an empty budget is 100.
MutNoEmpty(pct) == allowance > 0 /\ gone * 100 >= pct * allowance
UsedAtLeast(pct) == IF allowance = 0 THEN 100 >= pct ELSE gone * 100 >= pct * allowance

\* pricing.get("input_per_1m", 0): get_pricing_per_1m names its entry "input", so
\* every call is estimated to be free.
Estimate(model, tokens) == 0

Place(chain, model) == {i \in DOMAIN chain : chain[i] = model}
FirstOf(S) == CHOOSE i \in S : \A j \in S : i <= j

\* The chain of the provider p that the caller names, 0 for none; if that has no
\* chain, the first chain that names the model.
ChainOf(p, model) ==
    LET naming == {i \in DOMAIN Chains : Place(Chains[i], model) # {}} IN
    IF p # 0 /\ Chains[p] # <<>> THEN Chains[p]
    ELSE IF naming # {} THEN Chains[FirstOf(naming)] ELSE <<>>

\* What follows the model in the chain, whether it fits the remaining budget or
\* not; the model itself if nothing does.
NextInChain(chain, model) ==
    IF Place(chain, model) # {} /\ FirstOf(Place(chain, model)) < Len(chain)
    THEN chain[FirstOf(Place(chain, model)) + 1] ELSE model

Decision(model, tokens, p) ==
    LET est == Estimate(model, tokens)
        alt == NextInChain(ChainOf(p, model), model)
        says(action, m) == [action |-> action, asked |-> model, model |-> m]
        dear == est > 0 /\ est > Remaining IN
    IF UsedAtLeast(BlockAt) \/ (dear /\ alt = model) THEN says("block", model)
    ELSE IF (dear \/ UsedAtLeast(DowngradeAt)) /\ alt # model THEN says("downgrade", alt)
    ELSE IF UsedAtLeast(WarnAt) THEN says("warn", model)
    ELSE says("allow", model)

\* A node that is blocked gives up; one that is told to downgrade may ask again
\* with the cheaper model, or run it.
Ask(n, model, tokens, p) ==
    /\ node[n].action = "none" /\ asks < MaxAsks
    /\ asks' = asks + 1
    /\ node' = [node EXCEPT ![n] = IF Decision(model, tokens, p).action = "block"
                                    THEN Quiet ELSE Decision(model, tokens, p)]
    /\ UNCHANGED <<allowance, gone>>

RecordSpend(n) ==
    /\ node[n].action # "none"
    /\ gone' = gone + CallCost[node[n].model]
    /\ node' = [node EXCEPT ![n] = Quiet]
    /\ UNCHANGED <<allowance, asks>>

ResetGate(new) ==
    /\ gone > 0 \/ new # allowance
    /\ gone' = 0 /\ allowance' = new
    /\ UNCHANGED <<node, asks>>

GateNext ==
    \/ \E n \in Nodes, m \in GateModels, tokens \in {0, 1}, p \in 0 .. Len(Chains) :
         Ask(n, m, tokens, p)
    \/ \E n \in Nodes : RecordSpend(n)
    \/ \E new \in Allowances : ResetGate(new)

GateSpec == GateInit /\ [][GateNext]_gatevars

-----------------------------------------------------------------------------
\* What the dearest call costs, and the spend at which the gate blocks.
MaxCost == Max({CallCost[m] : m \in GateModels})
Running == {n \in Nodes : node[n].action # "none"}
Line == (BlockAt * allowance + 99) \div 100

\* Spend, with the calls under way, stays below the block line but for the calls
\* that were let through at once; an allowance of nothing lets nothing through,
\* but for calls that a reset to it caught under way.
OvershootBounded ==
    gone + SumFunctionOnSet([n \in Nodes |-> CallCost[node[n].model]], Running)
        <= (IF Line = 0 THEN 0 ELSE Line - 1) + Cardinality(Nodes) * MaxCost

\* A downgrade is to a later model of the chain, so following it comes to an end.
DowngradesDescend ==
    \A n \in Running : node[n].action = "downgrade" =>
        \E p \in DOMAIN Chains : \E i, j \in DOMAIN Chains[p] :
            i < j /\ Chains[p][i] = node[n].asked /\ Chains[p][j] = node[n].model

GateHolds == OvershootBounded /\ DowngradesDescend
===============================================================================
