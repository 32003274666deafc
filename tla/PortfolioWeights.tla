----------------------------- MODULE PortfolioWeights -----------------------------
(***************************************************************************)
(* How the portfolio analyst of a Grill sizes the names that are long at a *)
(* rebalance (lib/grill/analysis.ts, targetPortfolioWeights): raw weights  *)
(* by one of four methods, the excess over the largest weight allowed      *)
(* given to the others, and all scaled to what may be invested.            *)
(*                                                                         *)
(* Weights are whole numerators over one denominator.  What risk parity    *)
(* and the target volatility come to needs square roots and is left open.  *)
(***************************************************************************)
EXTENDS Integers, Sequences, SequencesExt, FiniteSets, NoValue

CONSTANTS
  SizedNames,                  \* number of names in the universe
  Vols, Scores,                \* of a long name, in units of their own
  CapUnit,                     \* shares of the whole that a largest weight is counted in
  WideCap, NarrowCap           \* largest weights: with many long names, with few

VARIABLES readingsNow, sized   \* the long names of the last rebalance, and what they got

weightVars == <<readingsNow, sized>>

\* What n names get, in the order they are read.
WeightLists(n) == [of : [1 .. n -> Nat], den : Nat \ {0}]
Sizings(n)     == [raw : WeightLists(n), capped : WeightLists(n), weights : WeightLists(n)]

ASSUME WeightsAssumption ==
  /\ SizedNames \in Nat \ {0} /\ CapUnit \in Nat \ {0}
  /\ Vols \subseteq Nat /\ Scores \subseteq Nat
  /\ NarrowCap \in 1 .. CapUnit /\ WideCap \in NarrowCap .. CapUnit
  /\ \A n \in 1 .. SizedNames : NOTHING \notin Sizings(n)

Weighted(nums, den) == [of |-> nums, den |-> den]

\* The sums of the first n, and of all.
Sums(nums) ==
  LET sum[n \in 0 .. Len(nums)] == IF n = 0 THEN 0 ELSE sum[n - 1] + nums[n]
  IN  sum

NumSum(nums) == Sums(nums)[Len(nums)]

\* normaliseWeights, equalPortfolioWeights.
EqualWeights(n) == Weighted([i \in 1 .. n |-> 1], n)

NormaliseWeights(nums) ==
  IF NumSum(nums) > 0 THEN Weighted(nums, NumSum(nums)) ELSE EqualWeights(Len(nums))

\* A common multiple of the volatilities, of the first n.
Multiples(vols) ==
  LET multiple[n \in 0 .. Len(vols)] ==
        IF n = 0 THEN 1 ELSE IF vols[n] = 0 THEN multiple[n - 1] ELSE vols[n] * multiple[n - 1]
  IN  multiple

\* inverseVolPortfolioWeights: nothing for a name that does not move.
InverseVolWeights(vols) ==
  NormaliseWeights([i \in DOMAIN vols |->
    IF vols[i] = 0 THEN 0 ELSE Multiples(vols)[Len(vols)] \div vols[i]])

\* The raw weights a method may come to.
RawWeights(method, longs) ==
  CASE method = "equal_weight"        -> {EqualWeights(Len(longs))}
    [] method = "inverse_vol"         -> {InverseVolWeights([i \in DOMAIN longs |-> longs[i].vol])}
    [] method = "signal_proportional" -> {NormaliseWeights([i \in DOMAIN longs |-> longs[i].score])}
    [] method = "risk_parity"         -> {NormaliseWeights(w) : w \in [DOMAIN longs -> {1, 2}]}

--------------------------------------------------------------------------------
\* One round of applyPortfolioMaxWeight: what is over the cap goes to the names below
\* it, by their weights.  Scaled by the sum of these, all stays whole.
CapRound(w) ==
  LET over    == {i \in DOMAIN w.of : w.of[i] > w.cap}
      free    == {i \in DOMAIN w.of : w.of[i] < w.cap}
      excess  == NumSum([i \in DOMAIN w.of |-> IF i \in over THEN w.of[i] - w.cap ELSE 0])
      freeSum == NumSum([i \in DOMAIN w.of |-> IF i \in free THEN w.of[i] ELSE 0])
      capped  == [i \in DOMAIN w.of |-> IF i \in over THEN w.cap ELSE w.of[i]]
  IN  IF over = {} THEN w
      ELSE IF freeSum = 0 THEN [w EXCEPT !.of = capped]
      ELSE [of  |-> [i \in DOMAIN w.of |-> IF i \in free THEN w.of[i] * (freeSum + excess)
                                           ELSE capped[i] * freeSum],
            den |-> w.den * freeSum,
            cap |-> w.cap * freeSum]

\* A single round.
MutantApplyMaxWeight(weights, cap) ==
  LET n == Len(weights.of)
      start == [of |-> [i \in 1 .. n |-> weights.of[i] * CapUnit], den |-> weights.den * CapUnit,
                cap |-> cap * weights.den]
      end == CapRound(start)
  IN  IF cap * n <= CapUnit THEN EqualWeights(n) ELSE Weighted(end.of, end.den)

CapRounds(start, last) ==
  LET after[round \in 0 .. last] == IF round = 0 THEN start ELSE CapRound(after[round - 1])
  IN  after

\* applyPortfolioMaxWeight: rounds until no name is over; equal weights when the cap
\* could not place the whole.
ApplyMaxWeight(weights, cap) ==
  LET n == Len(weights.of)
      start == [of |-> [i \in 1 .. n |-> weights.of[i] * CapUnit], den |-> weights.den * CapUnit,
                cap |-> cap * weights.den]
      end == CapRounds(start, 2 * n + 2)[2 * n + 2]
  IN  IF cap * n <= CapUnit THEN EqualWeights(n) ELSE Weighted(end.of, end.den)

\* scalePortfolioGrossAndVol, for a gross in CapUnits.
ScaleGross(weights, gross) ==
  Weighted([i \in DOMAIN weights.of |-> weights.of[i] * gross], weights.den * CapUnit)

\* choosePortfolioSpec: few long names of the universe mean a narrow cap, and less gross.
FewLong(longs) == 100 * Len(longs) <= 35 * SizedNames

LargestWeight(longs) ==
  LET cap == IF FewLong(longs) THEN NarrowCap ELSE WideCap
  IN  IF cap * SizedNames >= CapUnit THEN cap ELSE CapUnit \div SizedNames

GrossChoices(longs) == {CapUnit, (CapUnit * (IF FewLong(longs) THEN 65 ELSE 80)) \div 100}

--------------------------------------------------------------------------------
LongReadings == UNION {[1 .. n -> [vol : Vols, score : Scores]] : n \in 0 .. SizedNames}

WeightsInit == readingsNow = <<>> /\ sized = NOTHING

\* A rebalance of runPortfolioSizingBacktest: the names that are long are sized.  It
\* depends on nothing before it, so one is enough.
Rebalance ==
  /\ readingsNow = <<>>
  /\ readingsNow' \in LongReadings
  /\ IF readingsNow' = <<>> THEN sized' = NOTHING
     ELSE \E method \in {"equal_weight", "inverse_vol", "signal_proportional", "risk_parity"},
             gross \in GrossChoices(readingsNow') :
            \E raw \in RawWeights(method, readingsNow') :
              LET capped == ApplyMaxWeight(raw, LargestWeight(readingsNow'))
              IN  sized' = [raw |-> raw, capped |-> capped, weights |-> ScaleGross(capped, gross)]

WeightsNext == Rebalance

WeightsSpec == WeightsInit /\ [][WeightsNext]_weightVars

WeightsTypeOK ==
  /\ readingsNow \in LongReadings
  /\ readingsNow = <<>> => sized = NOTHING
  /\ readingsNow # <<>> => sized # NOTHING /\ sized \in Sizings(Len(readingsNow))

--------------------------------------------------------------------------------
\* Capping never borrows and never reorders, and where the cap can place the whole it is
\* kept: the excess of one name does not lift another over it, and all is placed among
\* names that had any weight.
CapIsKept ==
  sized # NOTHING =>
    LET raw == sized.raw
        w   == sized.capped
        cap == LargestWeight(readingsNow)
        n   == Len(w.of)
    IN  /\ NumSum(w.of) <= w.den
        /\ NumSum(sized.weights.of) <= sized.weights.den
        /\ cap * n > CapUnit =>
             /\ \A i \in 1 .. n : w.of[i] * CapUnit <= cap * w.den
             /\ \A i, j \in 1 .. n : raw.of[i] <= raw.of[j] => w.of[i] <= w.of[j]
             /\ cap * Cardinality({i \in 1 .. n : raw.of[i] > 0}) >= CapUnit => NumSum(w.of) = w.den

================================================================================
