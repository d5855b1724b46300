--------------------------- MODULE StrategyCheck ---------------------------
(***************************************************************************)
(* The strategies against their definitions, for every candidate list up   *)
(* to MaxLen and every value of what else they look at.                    *)
(***************************************************************************)
EXTENDS Strategies, FiniteSets

CONSTANTS Providers, MaxLen, Weights, Prices, Draws

VARIABLES strategy,  \* the strategy of this check
          cands,     \* its candidates
          ewmas,     \* the latency table
          counter,   \* the round-robin counter
          draw,      \* the random number
          pick       \* the index picked, 0 before

strategyVars == <<strategy, cands, ewmas, counter, draw, pick>>

\* The fields a strategy reads vary, the others are fixed.
Candidate(s) ==
    [provider : IF s = "latency_optimized" THEN Providers ELSE {CHOOSE p \in Providers : TRUE},
     priority : IF s = "priority" THEN 0 .. 2 ELSE {0},
     weight : IF s = "weighted" THEN Weights ELSE {1},
     costIn : IF s = "cost_optimized" THEN Prices ELSE {0},
     costOut : IF s = "cost_optimized" THEN Prices ELSE {0}]

StrategyInit ==
    /\ strategy \in {"priority", "weighted", "cost_optimized", "latency_optimized"}
    /\ cands \in UNION {[1 .. n -> Candidate(strategy)] : n \in 1 .. MaxLen}
    /\ ewmas \in IF strategy = "latency_optimized"
                 THEN UNION {[P -> 0 .. 2] : P \in SUBSET Providers}
                 ELSE {[p \in {} |-> 0]}
    /\ counter \in IF strategy \in {"latency_optimized", "cost_optimized"}
                   THEN 0 .. MaxLen ELSE {0}
    /\ draw \in IF strategy = "weighted" THEN 0 .. Draws ELSE {0}
    /\ pick = 0

Select ==
    /\ pick = 0
    /\ pick' = CASE strategy = "priority" -> SelectPriority(cands)
                 [] strategy = "weighted" -> SelectWeighted(cands, draw, Draws)
                 [] strategy = "cost_optimized" -> SelectCost(cands, 1, 2, counter)
                 [] strategy = "latency_optimized" -> SelectLatency(cands, ewmas, counter)
    /\ UNCHANGED <<strategy, cands, ewmas, counter, draw>>

StrategySpec == StrategyInit /\ [][Select]_strategyVars

-----------------------------------------------------------------------------

\* The first of the indices in S for which rank is least.
FirstLeast(S, rank(_)) ==
    CHOOSE i \in S : \A j \in S : rank(i) < rank(j) \/ (rank(i) = rank(j) /\ i <= j)

\* The ranking strategies pick the first of the best: Priority of the lowest priority,
\* CostOptimized of the cheapest with a price, LatencyOptimized of the fastest with a
\* measurement.  A candidate without a price or a measurement never beats one with; if
\* none has any, the pick rotates over all of them.
RankedPickIsBest ==
    LET known == {i \in DOMAIN cands :
                    CASE strategy = "cost_optimized" -> priced(cands[i])
                      [] strategy = "latency_optimized" -> cands[i].provider \in DOMAIN ewmas
                      [] OTHER -> TRUE}
        rank(i) == CASE strategy = "priority" -> cands[i].priority
                     [] strategy = "cost_optimized" -> estimateCost(cands[i], 1, 2)
                     [] strategy = "latency_optimized" -> ewmas[cands[i].provider]
    IN  pick # 0 /\ strategy # "weighted" =>
            pick = IF known = {} THEN (counter % Len(cands)) + 1 ELSE FirstLeast(known, rank)

Positive(i) == IF cands[i].weight > 0 THEN cands[i].weight ELSE 0

\* Weighted.Select gives each candidate a share of the random numbers in proportion to
\* its weight, none to a weight of zero or less (not even when rounding makes the draw
\* hit the total), unless no weight is positive.
WeightedSharesProportional ==
    strategy = "weighted" /\ pick # 0 /\ totalWeight(cands) > 0 =>
        /\ cands[pick].weight > 0
        /\ Draws % totalWeight(cands) = 0 =>
             \A i \in DOMAIN cands :
                 Cardinality({d \in 0 .. Draws - 1 : SelectWeighted(cands, d, Draws) = i})
                     * totalWeight(cands) = Positive(i) * Draws
=============================================================================
