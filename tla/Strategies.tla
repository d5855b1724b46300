----------------------------- MODULE Strategies -----------------------------
(***************************************************************************)
(* The five ranking strategies of internal/router/strategy, as functions   *)
(* from a candidate list to the index of the candidate they pick.  The     *)
(* scans are the code's forward loops, written as folds over the indices.  *)
(*                                                                         *)
(* A candidate is a record with the provider, the model, the two prices,   *)
(* the priority and the weight.  Prices are integers, and so is the        *)
(* estimate: it is only used to rank.  0 is "no candidate yet" (-1).       *)
(***************************************************************************)
EXTENDS Integers, Sequences, SequencesExt

SelectPriority(cands) ==
    FoldLeftDomain(LAMBDA best, i :
        IF cands[i].priority < cands[best].priority THEN i ELSE best, 1, cands)

\* counter is the value the group's atomic counter had before it was incremented.
SelectRoundRobin(cands, counter) == (counter % Len(cands)) + 1

-----------------------------------------------------------------------------

totalWeight(cands) ==
    FoldLeftDomain(LAMBDA sum, i : IF cands[i].weight < 0 THEN sum ELSE sum + cands[i].weight,
                   0, cands)

\* What the running sum is once candidate i has been added to it.
cursor(cands, i) == totalWeight(SubSeq(cands, 1, i))

lastPositive(cands) == SelectLastInSeq(cands, LAMBDA c : c.weight > 0)

\* Mutant: a draw on the border of two candidates goes to the lower one.
SelectWeightedBorder(cands, draw, draws) ==
    LET total == totalWeight(cands)
        hit == {i \in DOMAIN cands :
                  cands[i].weight > 0 /\ draw * total <= cursor(cands, i) * draws}
    IN  IF total = 0
        THEN IF (draw * Len(cands)) \div draws >= Len(cands) THEN Len(cands)
             ELSE ((draw * Len(cands)) \div draws) + 1
        ELSE IF hit # {} THEN CHOOSE i \in hit : \A j \in hit : i <= j
        ELSE lastPositive(cands)

\* The random number is draw / draws; draw = draws stands for a product that rounding
\* made equal to the total.
SelectWeighted(cands, draw, draws) ==
    LET total == totalWeight(cands)
        hit == {i \in DOMAIN cands :
                  cands[i].weight > 0 /\ draw * total < cursor(cands, i) * draws}
    IN  IF total = 0
        THEN IF (draw * Len(cands)) \div draws >= Len(cands) THEN Len(cands)
             ELSE ((draw * Len(cands)) \div draws) + 1
        ELSE IF hit # {} THEN CHOOSE i \in hit : \A j \in hit : i <= j
        ELSE lastPositive(cands)

-----------------------------------------------------------------------------

priced(c) == ~(c.costIn = 0 /\ c.costOut = 0)

\* inTokens and outTokens are fixed by the request, the same for all candidates.
estimateCost(c, inTokens, outTokens) == inTokens * c.costIn + outTokens * c.costOut

\* Mutant: a candidate without prices is the cheapest.
SelectCostUnpriced(cands, inTokens, outTokens, counter) ==
    FoldLeftDomain(LAMBDA best, i :
        IF best = 0 \/ estimateCost(cands[i], inTokens, outTokens)
                         < estimateCost(cands[best], inTokens, outTokens)
        THEN i ELSE best, 0, cands)

SelectCost(cands, inTokens, outTokens, counter) ==
    LET best == FoldLeftDomain(LAMBDA b, i :
                    IF priced(cands[i])
                       /\ (b = 0 \/ estimateCost(cands[i], inTokens, outTokens)
                                      < estimateCost(cands[b], inTokens, outTokens))
                    THEN i ELSE b, 0, cands)
    IN  IF best = 0 THEN SelectRoundRobin(cands, counter) ELSE best

\* ewmas holds the providers that have been measured.
SelectLatency(cands, ewmas, counter) ==
    LET best == FoldLeftDomain(LAMBDA b, i :
                    IF cands[i].provider \in DOMAIN ewmas
                       /\ (b = 0 \/ ewmas[cands[i].provider] < ewmas[cands[b].provider])
                    THEN i ELSE b, 0, cands)
    IN  IF best = 0 THEN SelectRoundRobin(cands, counter) ELSE best
=============================================================================
