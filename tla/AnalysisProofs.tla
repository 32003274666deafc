----------------------------- MODULE AnalysisProofs -----------------------------
(***************************************************************************)
(* What the analysts of a Grill compute, for all prices, bars, windows and *)
(* weights: a backtest does not look ahead, and the weights of a portfolio *)
(* keep the cap.  The loops of the code are recursive functions here; each *)
(* has a lemma that says what its next term is, and the inductions over    *)
(* them rest on InductiveSet of PageProofs.                                *)
(***************************************************************************)
EXTENDS PageProofs, GrillBacktests, PortfolioWeights

--------------------------------------------------------------------------------
(* The backtests of the analysts.                                          *)

\* A series over n bars, and two that are the same up to a bar.
OverBars(f, n) == f = [i \in 1 .. n |-> f[i]]

SameUpTo(f, g, m) == \A i \in 1 .. m : f[i] = g[i]

Window(f, a, b) == SubSeq(f, a, b)

\* What holds at the first bar, and at the next when at one, holds at all.
LEMMA BarByBar ==
  ASSUME NEW n \in Nat, NEW S, n > 0 => 1 \in S, \A k \in 1 .. n - 1 : k \in S => k + 1 \in S
  PROVE  1 .. n \subseteq S
<1> DEFINE T == {k \in Nat : k + 1 \in 1 .. n => k + 1 \in S}
<1>1. T \in SUBSET Nat /\ 0 \in T
  OBVIOUS
<1>2. ASSUME NEW k \in T PROVE k + 1 \in T
  <2>1. CASE k + 1 \in 1 .. n - 1
    <3>1. k + 1 \in S
      BY <2>1
    <3> QED BY <2>1, <3>1
  <2>2. CASE k + 1 \notin 1 .. n - 1
    BY <2>2
  <2> QED BY <2>1, <2>2
<1>3. T = Nat
  <2> HIDE DEF T
  <2> QED BY <1>1, <1>2, InductiveSet
<1>4. ASSUME NEW i \in 1 .. n PROVE i \in S
  <2>1. i - 1 \in Nat /\ (i - 1) + 1 = i
    OBVIOUS
  <2>2. i - 1 \in T
    <3> HIDE DEF T
    <3> QED BY <1>3, <2>1
  <2> QED BY <2>1, <2>2
<1> QED BY <1>4

\* A series over the bars is as long as the bars.
LEMMA LenOverBars ==
  ASSUME NEW n \in Nat, NEW f, OverBars(f, n)
  PROVE  Len(f) = n /\ DOMAIN f = 1 .. n
<1>1. f \in [1 .. n -> {f[i] : i \in 1 .. n}]
  BY DEF OverBars
<1> QED BY <1>1

\* A window of the bars before is the same in both.
LEMMA SameWindow ==
  ASSUME NEW n \in Nat, NEW f, NEW g, OverBars(f, n), OverBars(g, n),
         NEW m \in 0 .. n, SameUpTo(f, g, m), NEW a \in Nat \ {0}, NEW b \in Nat, b <= m
  PROVE  Window(f, a, b) = Window(g, a, b)
<1> DEFINE S == {f[i] : i \in 1 .. n} \cup {g[i] : i \in 1 .. n}
<1>1. f \in [1 .. n -> S] /\ g \in [1 .. n -> S]
  BY DEF OverBars
<1> HIDE DEF S
<1>2. /\ SubSeq(f, a, b) = [i \in 1 .. (b - a + 1) |-> f[a + i - 1]]
      /\ SubSeq(g, a, b) = [i \in 1 .. (b - a + 1) |-> g[a + i - 1]]
  BY <1>1
<1>3. \A i \in 1 .. (b - a + 1) : f[a + i - 1] = g[a + i - 1]
  BY DEF SameUpTo
<1> QED BY <1>2, <1>3 DEF Window

\* An average of a bar rests on the one before: there is exactly one such series.
LEMMA EmaIs ==
  ASSUME NEW values, Len(values) \in Nat, NEW span
  PROVE  /\ DOMAIN emaSeries(values, span) = 1 .. Len(values)
         /\ \A i \in 1 .. Len(values) :
              emaSeries(values, span)[i] =
                IF i = 1 THEN values[1] * Scale(span)
                ELSE (2 * values[i] * Scale(span) + (span - 1) * emaSeries(values, span)[i - 1]) \div (span + 1)
<1> DEFINE first   == values[1] * Scale(span)
           F(i, x) == (2 * values[i] * Scale(span) + (span - 1) * x) \div (span + 1)
           Is(g, k) == g = [i \in 1 .. k |-> IF i = 1 THEN first ELSE F(i, g[i - 1])]
           Has     == {k \in Nat : \E g : Is(g, k)}
<1>1. emaSeries(values, span) = CHOOSE g : Is(g, Len(values))
  BY DEF emaSeries
<1> HIDE DEF first, F
<1>2. 0 \in Has
  <2>1. Is([i \in 1 .. 0 |-> 0], 0)
    OBVIOUS
  <2> QED BY <2>1
<1>3. ASSUME NEW k \in Has PROVE k + 1 \in Has
  <2>1. PICK g : Is(g, k)
    OBVIOUS
  <2> DEFINE h == [i \in 1 .. k + 1 |-> IF i = 1 THEN first ELSE F(i, g[i - 1])]
  <2>2. k \in Nat /\ \A i \in 1 .. k : h[i] = g[i]
    BY <2>1
  <2>3. ASSUME NEW i \in 1 .. k + 1, i # 1 PROVE h[i - 1] = g[i - 1]
    <3>1. i - 1 \in 1 .. k
      BY <2>2, <2>3
    <3> QED BY <2>2, <3>1
  <2>4. Is(h, k + 1)
    BY <2>3
  <2> HIDE DEF Is, h
  <2> QED BY <2>2, <2>4
<1>4. Len(values) \in Has
  <2>1. Has \in SUBSET Nat
    OBVIOUS
  <2> HIDE DEF Has
  <2> QED BY <1>2, <1>3, <2>1, InductiveSet
<1>5. Is(emaSeries(values, span), Len(values))
  <2>1. \E g : Is(g, Len(values))
    BY <1>4
  <2> HIDE DEF Is
  <2> QED BY <1>1, <2>1
<1> QED BY <1>5 DEF first, F

\* The averages of the gains or of the losses: there is exactly one such series.
LEMMA RsiAverageIs ==
  ASSUME NEW changes, Len(changes) \in Nat
  PROVE  /\ DOMAIN rsiAverage(changes) = RsiPeriod + 1 .. Len(changes)
         /\ \A j \in RsiPeriod + 1 .. Len(changes) :
              rsiAverage(changes)[j] =
                IF j = RsiPeriod + 1
                THEN BarSum([k \in 1 .. RsiPeriod |-> changes[k + 1]]) * RsiPeriod ^ MaxBars
                ELSE (rsiAverage(changes)[j - 1] * (RsiPeriod - 1)) \div RsiPeriod
                       + changes[j] * RsiPeriod ^ MaxBars
<1> DEFINE first   == BarSum([k \in 1 .. RsiPeriod |-> changes[k + 1]]) * RsiPeriod ^ MaxBars
           F(j, x) == (x * (RsiPeriod - 1)) \div RsiPeriod + changes[j] * RsiPeriod ^ MaxBars
           Is(g, k) == g = [j \in RsiPeriod + 1 .. k |-> IF j = RsiPeriod + 1 THEN first ELSE F(j, g[j - 1])]
           Has     == {k \in Nat : \E g : Is(g, k)}
<1>0. RsiPeriod \in Nat \ {0}
  BY BacktestAssumption
<1>1. rsiAverage(changes) = CHOOSE g : Is(g, Len(changes))
  BY DEF rsiAverage
<1> HIDE DEF first, F
<1>2. 0 \in Has
  <2>1. Is([j \in RsiPeriod + 1 .. 0 |-> 0], 0)
    BY <1>0
  <2> QED BY <2>1
<1>3. ASSUME NEW k \in Has PROVE k + 1 \in Has
  <2>1. PICK g : Is(g, k)
    OBVIOUS
  <2> DEFINE h == [j \in RsiPeriod + 1 .. k + 1 |-> IF j = RsiPeriod + 1 THEN first ELSE F(j, g[j - 1])]
  <2>2. k \in Nat /\ \A j \in RsiPeriod + 1 .. k : h[j] = g[j]
    BY <1>0, <2>1
  <2>3. ASSUME NEW j \in RsiPeriod + 1 .. k + 1, j # RsiPeriod + 1 PROVE h[j - 1] = g[j - 1]
    <3>1. j - 1 \in RsiPeriod + 1 .. k
      BY <1>0, <2>2, <2>3
    <3> QED BY <2>2, <3>1
  <2>4. Is(h, k + 1)
    BY <2>3
  <2> HIDE DEF Is, h
  <2> QED BY <2>2, <2>4
<1>4. Len(changes) \in Has
  <2>1. Has \in SUBSET Nat
    OBVIOUS
  <2> HIDE DEF Has
  <2> QED BY <1>2, <1>3, <2>1, InductiveSet
<1>5. Is(rsiAverage(changes), Len(changes))
  <2>1. \E g : Is(g, Len(changes))
    BY <1>4
  <2> HIDE DEF Is
  <2> QED BY <1>1, <2>1
<1> QED BY <1>5 DEF first, F

\* What a trade of a pair is after a bar, from what it was before.
AfterBar(z, i, was, entry, exit, stop, maxHoldingDays) ==
  LET far(bound) == z[i] # NOTHING /\ (z[i] >= bound \/ z[i] <= - bound)
      held == IF was.position # 0 THEN was.held + 1 ELSE was.held
      reverted == z[i] # NOTHING /\ z[i] <= exit /\ z[i] >= - exit
      over == reverted \/ far(stop) \/ held >= maxHoldingDays
  IN  CASE was.position = 0 /\ far(entry) -> [position |-> IF z[i] < 0 THEN 1 ELSE -1, held |-> 0]
        [] was.position # 0 /\ over       -> [position |-> 0, held |-> held]
        [] OTHER                          -> [was EXCEPT !.held = held]

LEMMA PairsStatesAre ==
  ASSUME NEW z, Len(z) \in Nat, NEW entry, NEW exit, NEW stop, NEW maxHoldingDays,
         NEW states, states = pairsStates(z, entry, exit, stop, maxHoldingDays)
  PROVE  /\ DOMAIN states = 0 .. Len(z)
         /\ \A i \in 0 .. Len(z) :
              states[i] = IF i = 0 THEN [position |-> 0, held |-> 0]
                          ELSE AfterBar(z, i, states[i - 1], entry, exit, stop, maxHoldingDays)
<1> DEFINE first   == [position |-> 0, held |-> 0]
           F(i, x) == AfterBar(z, i, x, entry, exit, stop, maxHoldingDays)
           Is(g, k) == g = [i \in 0 .. k |-> IF i = 0 THEN first ELSE F(i, g[i - 1])]
           Has     == {k \in Nat : \E g : Is(g, k)}
<1>1. pairsStates(z, entry, exit, stop, maxHoldingDays) = CHOOSE g : Is(g, Len(z))
  BY DEF pairsStates, AfterBar
<1> HIDE DEF first, F
<1>2. 0 \in Has
  <2>1. Is([i \in 0 .. 0 |-> first], 0)
    OBVIOUS
  <2> QED BY <2>1
<1>3. ASSUME NEW k \in Has PROVE k + 1 \in Has
  <2>1. PICK g : Is(g, k)
    OBVIOUS
  <2> DEFINE h == [i \in 0 .. k + 1 |-> IF i = 0 THEN first ELSE F(i, g[i - 1])]
  <2>2. k \in Nat /\ \A i \in 0 .. k : h[i] = g[i]
    BY <2>1
  <2>3. ASSUME NEW i \in 0 .. k + 1, i # 0 PROVE h[i - 1] = g[i - 1]
    <3>1. i - 1 \in 0 .. k
      BY <2>2, <2>3
    <3> QED BY <2>2, <3>1
  <2>4. Is(h, k + 1)
    BY <2>3
  <2> HIDE DEF Is, h
  <2> QED BY <2>2, <2>4
<1>4. Len(z) \in Has
  <2>1. Has \in SUBSET Nat
    OBVIOUS
  <2> HIDE DEF Has
  <2> QED BY <1>2, <1>3, <2>1, InductiveSet
<1>5. Is(states, Len(z))
  <2>1. \E g : Is(g, Len(z))
    BY <1>4
  <2> HIDE DEF Is
  <2> QED BY <1>1, <2>1
<1> QED BY <1>5 DEF first, F

--------------------------------------------------------------------------------
(* An indicator at a bar is the same for the same bars up to it.           *)

LEMMA EmaSame ==
  ASSUME NEW n \in Nat, NEW f, NEW g, OverBars(f, n), OverBars(g, n),
         NEW m \in 0 .. n, SameUpTo(f, g, m), NEW span
  PROVE  /\ DOMAIN emaSeries(f, span) = 1 .. n /\ DOMAIN emaSeries(g, span) = 1 .. n
         /\ SameUpTo(emaSeries(f, span), emaSeries(g, span), m)
<1> DEFINE ef == emaSeries(f, span)
           eg == emaSeries(g, span)
           S == {i \in 1 .. m : ef[i] = eg[i]}
<1>1. Len(f) = n /\ Len(g) = n
  BY LenOverBars
<1>2. /\ DOMAIN ef = 1 .. n /\ DOMAIN eg = 1 .. n
      /\ \A i \in 1 .. n : ef[i] = IF i = 1 THEN f[1] * Scale(span)
                                   ELSE (2 * f[i] * Scale(span) + (span - 1) * ef[i - 1]) \div (span + 1)
      /\ \A i \in 1 .. n : eg[i] = IF i = 1 THEN g[1] * Scale(span)
                                   ELSE (2 * g[i] * Scale(span) + (span - 1) * eg[i - 1]) \div (span + 1)
  BY <1>1, EmaIs
<1> HIDE DEF ef, eg
<1>3. m > 0 => 1 \in S
  BY <1>2 DEF SameUpTo
<1>4. ASSUME NEW k \in 1 .. m - 1, k \in S PROVE k + 1 \in S
  <2>1. /\ k + 1 \in 1 .. n /\ k + 1 \in 1 .. m /\ k + 1 # 1 /\ (k + 1) - 1 = k /\ f[k + 1] = g[k + 1]
        /\ ef[k] = eg[k]
    BY <1>4 DEF SameUpTo
  <2>2. ef[k + 1] = eg[k + 1]
    BY <1>2, <2>1
  <2> QED BY <2>1, <2>2
<1>5. 1 .. m \subseteq S
  <2> HIDE DEF S
  <2> QED BY <1>3, <1>4, BarByBar
<1> QED BY <1>2, <1>5 DEF SameUpTo, ef, eg

LEMMA RsiAverageSame ==
  ASSUME NEW n \in Nat, NEW f, NEW g, OverBars(f, n), OverBars(g, n),
         NEW m \in 0 .. n, SameUpTo(f, g, m)
  PROVE  \A i \in RsiPeriod + 1 .. m : rsiAverage(f)[i] = rsiAverage(g)[i]
<1> DEFINE af == rsiAverage(f)
           ag == rsiAverage(g)
           S == {i \in 1 .. m : i > RsiPeriod => af[i] = ag[i]}
           unit == RsiPeriod ^ MaxBars
           ff == [k \in 1 .. RsiPeriod |-> f[k + 1]]
           fg == [k \in 1 .. RsiPeriod |-> g[k + 1]]
<1>0. RsiPeriod \in Nat \ {0}
  BY BacktestAssumption
<1>1. Len(f) = n /\ Len(g) = n
  BY LenOverBars
<1>2. /\ \A i \in RsiPeriod + 1 .. n : af[i] = IF i = RsiPeriod + 1 THEN BarSum(ff) * unit
                                   ELSE (af[i - 1] * (RsiPeriod - 1)) \div RsiPeriod + f[i] * unit
      /\ \A i \in RsiPeriod + 1 .. n : ag[i] = IF i = RsiPeriod + 1 THEN BarSum(fg) * unit
                                   ELSE (ag[i - 1] * (RsiPeriod - 1)) \div RsiPeriod + g[i] * unit
  BY <1>1, RsiAverageIs
<1>3. RsiPeriod + 1 <= m => ff = fg
  BY <1>0 DEF SameUpTo
<1> HIDE DEF af, ag, unit, ff, fg
<1>4. m > 0 => 1 \in S
  BY <1>0
<1>5. ASSUME NEW k \in 1 .. m - 1, k \in S PROVE k + 1 \in S
  <2>1. /\ k + 1 \in 1 .. n /\ k + 1 \in 1 .. m /\ (k + 1) - 1 = k /\ f[k + 1] = g[k + 1]
        /\ k > RsiPeriod => af[k] = ag[k]
    BY <1>5 DEF SameUpTo
  <2>2. CASE k + 1 = RsiPeriod + 1
    BY <1>0, <1>2, <1>3, <2>1, <2>2
  <2>3. CASE k + 1 > RsiPeriod + 1
    <3>1. af[k + 1] = ag[k + 1]
      BY <1>0, <1>2, <2>1, <2>3
    <3> QED BY <2>1, <3>1
  <2>4. CASE k + 1 < RsiPeriod + 1
    BY <1>0, <2>1, <2>4
  <2> QED BY <1>0, <2>2, <2>3, <2>4
<1>6. 1 .. m \subseteq S
  <2> HIDE DEF S
  <2> QED BY <1>4, <1>5, BarByBar
<1> QED BY <1>0, <1>6 DEF af, ag

LEMMA PairsStatesSame ==
  ASSUME NEW n \in Nat, NEW f, NEW g, OverBars(f, n), OverBars(g, n),
         NEW m \in 0 .. n, SameUpTo(f, g, m), NEW entry, NEW exit, NEW stop, NEW maxHoldingDays
  PROVE  \A i \in 0 .. m : pairsStates(f, entry, exit, stop, maxHoldingDays)[i] =
                             pairsStates(g, entry, exit, stop, maxHoldingDays)[i]
<1>1. Len(f) = n /\ Len(g) = n
  BY LenOverBars
<1> DEFINE sf == pairsStates(f, entry, exit, stop, maxHoldingDays)
           sg == pairsStates(g, entry, exit, stop, maxHoldingDays)
           S == {k \in Nat : k <= m => sf[k] = sg[k]}
<1>2. /\ \A i \in 0 .. n : sf[i] = IF i = 0 THEN [position |-> 0, held |-> 0]
                                   ELSE AfterBar(f, i, sf[i - 1], entry, exit, stop, maxHoldingDays)
      /\ \A i \in 0 .. n : sg[i] = IF i = 0 THEN [position |-> 0, held |-> 0]
                                   ELSE AfterBar(g, i, sg[i - 1], entry, exit, stop, maxHoldingDays)
  BY <1>1, PairsStatesAre
<1> HIDE DEF sf, sg
<1>3. 0 \in S
  BY <1>2
<1>4. ASSUME NEW k \in S PROVE k + 1 \in S
  <2> SUFFICES ASSUME k + 1 <= m PROVE sf[k + 1] = sg[k + 1]
    OBVIOUS
  <2>1. /\ k + 1 \in 0 .. n /\ k + 1 # 0 /\ (k + 1) - 1 = k /\ f[k + 1] = g[k + 1]
        /\ sf[k] = sg[k]
    BY <1>4 DEF SameUpTo
  <2>2. AfterBar(f, k + 1, sf[k], entry, exit, stop, maxHoldingDays) =
          AfterBar(g, k + 1, sg[k], entry, exit, stop, maxHoldingDays)
    BY <2>1, Zenon DEF AfterBar
  <2> QED BY <1>2, <2>1, <2>2
<1>5. S = Nat
  <2>1. S \in SUBSET Nat
    OBVIOUS
  <2> HIDE DEF S
  <2> QED BY <1>3, <1>4, <2>1, InductiveSet
<1>6. \A i \in 0 .. m : i \in S
  <2> HIDE DEF S
  <2> QED BY <1>5
<1> QED BY <1>6 DEF sf, sg

LEMMA SmaSame ==
  ASSUME NEW n \in Nat, NEW f, NEW g, OverBars(f, n), OverBars(g, n),
         NEW m \in 0 .. n, SameUpTo(f, g, m), NEW width \in Nat \ {0}, NEW i \in 1 .. m
  PROVE  /\ i >= width => smaSum(f, i, width) = smaSum(g, i, width)
         /\ aboveSma(f, i, width) = aboveSma(g, i, width)
<1>1. i >= width => smaSum(f, i, width) = smaSum(g, i, width)
  <2> SUFFICES ASSUME i >= width PROVE smaSum(f, i, width) = smaSum(g, i, width)
    OBVIOUS
  <2>1. i - width + 1 \in Nat \ {0} /\ i \in Nat /\ i <= m
    OBVIOUS
  <2>2. \A a \in Nat \ {0}, b \in Nat : b <= m => Window(f, a, b) = Window(g, a, b)
    BY SameWindow
  <2>3. Window(f, i - width + 1, i) = Window(g, i - width + 1, i)
    BY <2>1, <2>2
  <2> QED BY <2>3, Zenon DEF smaSum, Window
<1>2. f[i] = g[i]
  BY DEF SameUpTo
<1> QED BY <1>1, <1>2 DEF aboveSma

LEMMA RsiSame ==
  ASSUME NEW n \in Nat, NEW f, NEW g, OverBars(f, n), OverBars(g, n),
         NEW m \in 0 .. n, SameUpTo(f, g, m), NEW i \in 1 .. m
  PROVE  rsiIsLow(f, i) = rsiIsLow(g, i)
<1> DEFINE rise(c, j) == IF j = 1 THEN 0 ELSE c[j] - c[j - 1]
           gains(c)  == [j \in 1 .. n |-> IF rise(c, j) > 0 THEN rise(c, j) ELSE 0]
           losses(c) == [j \in 1 .. n |-> IF rise(c, j) < 0 THEN - rise(c, j) ELSE 0]
<1>1. DOMAIN f = 1 .. n /\ DOMAIN g = 1 .. n
  BY LenOverBars
<1>2. \A j \in 1 .. m : rise(f, j) = rise(g, j)
  <2> TAKE j \in 1 .. m
  <2>1. f[j] = g[j] /\ (j # 1 => f[j - 1] = g[j - 1])
    BY DEF SameUpTo
  <2> QED BY <2>1
<1>3. /\ OverBars(gains(f), n) /\ OverBars(gains(g), n) /\ SameUpTo(gains(f), gains(g), m)
      /\ OverBars(losses(f), n) /\ OverBars(losses(g), n) /\ SameUpTo(losses(f), losses(g), m)
  <2>1. OverBars(gains(f), n) /\ OverBars(gains(g), n) /\ OverBars(losses(f), n) /\ OverBars(losses(g), n)
    BY Zenon DEF OverBars
  <2>2. ASSUME NEW j \in 1 .. m PROVE gains(f)[j] = gains(g)[j] /\ losses(f)[j] = losses(g)[j]
    <3>1. j \in 1 .. n /\ rise(f, j) = rise(g, j)
      BY <1>2
    <3> HIDE DEF rise
    <3> QED BY <3>1, Zenon
  <2> QED BY <2>1, <2>2, Zenon DEF SameUpTo
<1>4. ASSUME NEW c, DOMAIN c = 1 .. n
      PROVE  rsiIsLow(c, i) = (/\ i > RsiPeriod /\ rsiAverage(losses(c))[i] > 0
                               /\ 7 * rsiAverage(gains(c))[i] <= 3 * rsiAverage(losses(c))[i])
  BY <1>4 DEF rsiIsLow
<1> HIDE DEF gains, losses
<1>5. CASE i > RsiPeriod
  <2>1. i \in RsiPeriod + 1 .. m
    BY <1>5, BacktestAssumption
  <2>2. rsiAverage(gains(f))[i] = rsiAverage(gains(g))[i] /\ rsiAverage(losses(f))[i] = rsiAverage(losses(g))[i]
    BY <1>3, <2>1, RsiAverageSame
  <2> QED BY <1>1, <1>4, <2>2
<1>6. CASE ~ (i > RsiPeriod)
  BY <1>1, <1>4, <1>6
<1> QED BY <1>5, <1>6

LEMMA MacdSame ==
  ASSUME NEW n \in Nat, NEW f, NEW g, OverBars(f, n), OverBars(g, n),
         NEW m \in 0 .. n, SameUpTo(f, g, m)
  PROVE  SameUpTo(macdSeries(f), macdSeries(g), m)
<1> DEFINE line(c) == [i \in 1 .. n |-> emaSeries(c, FastSpan)[i] * Scale(SlowSpan)
                                          - emaSeries(c, SlowSpan)[i] * Scale(FastSpan)]
           above(c, i) == line(c)[i] * Scale(SignalSpan) - emaSeries(line(c), SignalSpan)[i]
<1>1. DOMAIN f = 1 .. n /\ DOMAIN g = 1 .. n
  BY LenOverBars
<1>2. /\ SameUpTo(emaSeries(f, FastSpan), emaSeries(g, FastSpan), m)
      /\ SameUpTo(emaSeries(f, SlowSpan), emaSeries(g, SlowSpan), m)
  BY EmaSame
<1>3. OverBars(line(f), n) /\ OverBars(line(g), n) /\ SameUpTo(line(f), line(g), m)
  <2>1. OverBars(line(f), n) /\ OverBars(line(g), n)
    BY DEF OverBars
  <2>2. ASSUME NEW i \in 1 .. m PROVE line(f)[i] = line(g)[i]
    <3>1. /\ i \in 1 .. n /\ emaSeries(f, FastSpan)[i] = emaSeries(g, FastSpan)[i]
          /\ emaSeries(f, SlowSpan)[i] = emaSeries(g, SlowSpan)[i]
      BY <1>2 DEF SameUpTo
    <3> QED BY <3>1
  <2> QED BY <2>1, <2>2 DEF SameUpTo
<1>4. ASSUME NEW c, DOMAIN c = 1 .. n
      PROVE  macdSeries(c) = [i \in 1 .. n |-> IF above(c, i) > 0 THEN 1 ELSE IF above(c, i) < 0 THEN -1 ELSE 0]
  BY <1>4 DEF macdSeries
<1> HIDE DEF line
<1>5. SameUpTo(emaSeries(line(f), SignalSpan), emaSeries(line(g), SignalSpan), m)
  BY <1>3, EmaSame
<1>6. \A i \in 1 .. m : above(f, i) = above(g, i)
  BY <1>3, <1>5 DEF SameUpTo
<1> HIDE DEF above
<1> QED BY <1>1, <1>4, <1>6 DEF SameUpTo

LEMMA ReturnsSame ==
  ASSUME NEW n \in Nat, NEW f, NEW g, OverBars(f, n), OverBars(g, n),
         NEW m \in 0 .. n, SameUpTo(f, g, m)
  PROVE  /\ OverBars(closeReturns(f), n) /\ OverBars(closeReturns(g), n)
         /\ SameUpTo(closeReturns(f), closeReturns(g), m)
<1>1. DOMAIN f = 1 .. n /\ DOMAIN g = 1 .. n
  BY LenOverBars
<1>2. \A i \in 1 .. m : f[i] = g[i] /\ (i # 1 => f[i - 1] = g[i - 1])
  BY DEF SameUpTo
<1> DEFINE back(c, i) == IF i = 1 THEN 0 ELSE (c[i] - c[i - 1]) * (Unit \div c[i - 1])
<1>3. closeReturns(f) = [i \in 1 .. n |-> back(f, i)] /\ closeReturns(g) = [i \in 1 .. n |-> back(g, i)]
  BY <1>1 DEF closeReturns
<1>4. \A i \in 1 .. m : i \in 1 .. n /\ back(f, i) = back(g, i)
  BY <1>2
<1>5. PICK p, q : p = closeReturns(f) /\ q = closeReturns(g)
  OBVIOUS
<1> HIDE DEF back
<1>6. /\ p = [i \in 1 .. n |-> back(f, i)] /\ q = [i \in 1 .. n |-> back(g, i)]
      /\ \A i \in 1 .. m : p[i] = q[i]
  BY <1>3, <1>4, <1>5, Zenon
<1> QED BY <1>5, <1>6, Zenon DEF OverBars, SameUpTo

LEMMA VolSame ==
  ASSUME NEW n \in Nat, NEW f, NEW g, OverBars(f, n), OverBars(g, n),
         NEW m \in 0 .. n, SameUpTo(f, g, m), NEW width \in Nat, NEW i \in 1 .. m, i >= width
  PROVE  realizedVolAt(f, i, width) = realizedVolAt(g, i, width)
<1>1. i - width + 1 \in Nat \ {0} /\ i \in Nat /\ i <= m
  OBVIOUS
<1>2. \A a \in Nat \ {0}, b \in Nat : b <= m => Window(f, a, b) = Window(g, a, b)
  BY SameWindow
<1>3. Window(f, i - width + 1, i) = Window(g, i - width + 1, i)
  BY <1>1, <1>2
<1> QED BY <1>3, Zenon DEF realizedVolAt, Window

LEMMA HighsSame ==
  ASSUME NEW n \in Nat, NEW f, NEW g, OverBars(f, n), OverBars(g, n),
         NEW m \in 0 .. n, SameUpTo(f, g, m), NEW i \in 1 .. m
  PROVE  /\ abovePriorHigh(f, i, Lookback) = abovePriorHigh(g, i, Lookback)
         /\ highAt(f, i) = highAt(g, i)
         /\ jumpedAt(f, i) = jumpedAt(g, i)
<1>0. Lookback \in Nat \ {0} /\ ShortWindow \in Nat \ {0}
  BY BacktestAssumption
<1>1. \A j \in 1 .. i : f[j] = g[j]
  BY DEF SameUpTo
<1>2. abovePriorHigh(f, i, Lookback) = abovePriorHigh(g, i, Lookback)
  <2>1. i > Lookback => \A j \in i - Lookback .. i - 1 : f[j] = g[j]
    BY <1>0, <1>1
  <2> QED BY <1>1, <2>1 DEF abovePriorHigh
<1>3. highAt(f, i) = highAt(g, i)
  <2> DEFINE from == IF i > Lookback THEN i - Lookback + 1 ELSE 1
  <2>1. from .. i \subseteq 1 .. i
    BY <1>0
  <2> HIDE DEF from
  <2>2. {f[j] : j \in from .. i} = {g[j] : j \in from .. i}
    BY <1>1, <2>1
  <2> QED BY <2>2, Zenon DEF highAt, from
<1>4. jumpedAt(f, i) = jumpedAt(g, i)
  <2> DEFINE from == IF i > ShortWindow THEN i - ShortWindow + 1 ELSE 2
  <2>1. \A j \in from .. i : j > 1 => f[j] = g[j] /\ f[j - 1] = g[j - 1]
    BY <1>0, <1>1
  <2>2. \A c : jumpedAt(c, i) = (\E j \in from .. i : j > 1 /\ c[j] > c[j - 1])
    BY DEF jumpedAt
  <2> HIDE DEF from
  <2> QED BY <2>1, <2>2
<1> QED BY <1>2, <1>3, <1>4

--------------------------------------------------------------------------------
(* So is a rule.                                                           *)

LEMMA ClosesSame ==
  ASSUME NEW n \in Nat, NEW s \in [1 .. n -> BarValues], NEW o \in [1 .. n -> BarValues],
         NEW m \in 0 .. n, SameUpTo(s, o, m)
  PROVE  /\ OverBars(closesOf(s), n) /\ OverBars(closesOf(o), n) /\ SameUpTo(closesOf(s), closesOf(o), m)
         /\ OverBars(othersOf(s), n) /\ OverBars(othersOf(o), n) /\ SameUpTo(othersOf(s), othersOf(o), m)
         /\ DOMAIN closesOf(s) = 1 .. n /\ DOMAIN closesOf(o) = 1 .. n
BY DEF closesOf, othersOf, OverBars, SameUpTo

LEMMA TechnicalSame ==
  ASSUME NEW n \in Nat, NEW s \in [1 .. n -> BarValues], NEW o \in [1 .. n -> BarValues],
         NEW m \in 0 .. n, SameUpTo(s, o, m),
         NEW verdict
  PROVE  SameUpTo(technicalRule(s, verdict), technicalRule(o, verdict), m)
<1> DEFINE says(c, i) ==
             CASE verdict = "support"   -> TRUE
               [] verdict = "reject"    -> rsiIsLow(c, i)
               [] verdict = "challenge" -> macdSeries(c)[i] = 1 /\ aboveSma(c, i, ShortWindow)
<1>1. ASSUME NEW i \in 1 .. m
      PROVE  /\ rsiIsLow(closesOf(s), i) = rsiIsLow(closesOf(o), i)
             /\ macdSeries(closesOf(s))[i] = macdSeries(closesOf(o))[i]
             /\ aboveSma(closesOf(s), i, ShortWindow) = aboveSma(closesOf(o), i, ShortWindow)
  <2>1. ShortWindow \in Nat \ {0}
    BY BacktestAssumption
  <2>2. rsiIsLow(closesOf(s), i) = rsiIsLow(closesOf(o), i)
    BY ClosesSame, RsiSame
  <2>3. SameUpTo(macdSeries(closesOf(s)), macdSeries(closesOf(o)), m)
    BY ClosesSame, MacdSame
  <2>4. aboveSma(closesOf(s), i, ShortWindow) = aboveSma(closesOf(o), i, ShortWindow)
    BY <2>1, ClosesSame, SmaSame
  <2> QED BY <2>2, <2>3, <2>4 DEF SameUpTo
<1>2. \A i \in 1 .. m : says(closesOf(s), i) = says(closesOf(o), i)
  BY <1>1, Zenon
<1>3. /\ technicalRule(s, verdict) = [i \in 1 .. n |-> says(closesOf(s), i)]
      /\ technicalRule(o, verdict) = [i \in 1 .. n |-> says(closesOf(o), i)]
  BY DEF technicalRule
<1> HIDE DEF says
<1> QED BY <1>2, <1>3 DEF SameUpTo

LEMMA RelativeSame ==
  ASSUME NEW n \in Nat, NEW s \in [1 .. n -> BarValues], NEW o \in [1 .. n -> BarValues],
         NEW m \in 0 .. n, SameUpTo(s, o, m),
         NEW verdict
  PROVE  SameUpTo(relativeRule(s, verdict), relativeRule(o, verdict), m)
<1> DEFINE says(c, i) ==
             IF verdict = "support" THEN aboveSma(c, i, MidWindow) ELSE abovePriorHigh(c, i, Lookback)
<1>1. /\ OverBars(relativeStrength(s), n) /\ OverBars(relativeStrength(o), n)
      /\ SameUpTo(relativeStrength(s), relativeStrength(o), m)
  BY DEF relativeStrength, OverBars, SameUpTo
<1>2. \A i \in 1 .. m : says(relativeStrength(s), i) = says(relativeStrength(o), i)
  <2> TAKE i \in 1 .. m
  <2>1. MidWindow \in Nat \ {0}
    BY BacktestAssumption
  <2>2. aboveSma(relativeStrength(s), i, MidWindow) = aboveSma(relativeStrength(o), i, MidWindow)
    BY <1>1, <2>1, SmaSame
  <2>3. abovePriorHigh(relativeStrength(s), i, Lookback) = abovePriorHigh(relativeStrength(o), i, Lookback)
    BY <1>1, HighsSame
  <2> QED BY <2>2, <2>3
<1>3. /\ relativeRule(s, verdict) = [i \in 1 .. n |-> says(relativeStrength(s), i)]
      /\ relativeRule(o, verdict) = [i \in 1 .. n |-> says(relativeStrength(o), i)]
  BY DEF relativeRule
<1> HIDE DEF says
<1> QED BY <1>2, <1>3 DEF SameUpTo

LEMMA VolatilitySame ==
  ASSUME NEW n \in Nat, NEW s \in [1 .. n -> BarValues], NEW o \in [1 .. n -> BarValues],
         NEW m \in 0 .. n, SameUpTo(s, o, m),
         NEW verdict, NEW threshold
  PROVE  SameUpTo(volatilityRule(s, verdict, threshold), volatilityRule(o, verdict, threshold), m)
<1> DEFINE says(c, i) ==
             /\ i >= ShortWindow /\ realizedVolAt(closeReturns(c), i, ShortWindow) <= threshold
             /\ verdict = "support" => aboveSma(c, i, LongWindow)
<1>1. /\ OverBars(closeReturns(closesOf(s)), n) /\ OverBars(closeReturns(closesOf(o)), n)
      /\ SameUpTo(closeReturns(closesOf(s)), closeReturns(closesOf(o)), m)
  BY ClosesSame, ReturnsSame
<1>2. \A i \in 1 .. m : says(closesOf(s), i) = says(closesOf(o), i)
  <2> TAKE i \in 1 .. m
  <2>1. LongWindow \in Nat \ {0} /\ ShortWindow \in Nat \ {0}
    BY BacktestAssumption
  <2>2. aboveSma(closesOf(s), i, LongWindow) = aboveSma(closesOf(o), i, LongWindow)
    BY <2>1, ClosesSame, SmaSame
  <2>3. i >= ShortWindow => realizedVolAt(closeReturns(closesOf(s)), i, ShortWindow)
                              = realizedVolAt(closeReturns(closesOf(o)), i, ShortWindow)
    BY <1>1, <2>1, VolSame
  <2> QED BY <2>2, <2>3
<1>3. /\ volatilityRule(s, verdict, threshold) = [i \in 1 .. n |-> says(closesOf(s), i)]
      /\ volatilityRule(o, verdict, threshold) = [i \in 1 .. n |-> says(closesOf(o), i)]
  BY DEF volatilityRule
<1> HIDE DEF says
<1> QED BY <1>2, <1>3 DEF SameUpTo

\* Where the months turn, the days say and no close.
LEMMA SeasonalSame ==
  ASSUME NEW n \in Nat, NEW s \in [1 .. n -> BarValues], NEW o \in [1 .. n -> BarValues],
         NEW m \in 0 .. n, SameUpTo(s, o, m),
         NEW strategy, NEW bestOfS, NEW bestOfO, strategy = "best_months" => bestOfS = bestOfO
  PROVE  SameUpTo(seasonalWantLong(s, strategy, bestOfS), seasonalWantLong(o, strategy, bestOfO), m)
<1> DEFINE monthIn(days, i) == {j \in days : monthOf(j) = monthOf(i)}
           says(days, best, i) ==
             CASE strategy = "buy_and_hold"  -> TRUE
               [] strategy = "best_months"   -> monthOfYear(i) \in best
               [] strategy = "sell_in_may"   -> monthOfYear(i) \in WinterMonths
               [] strategy = "turn_of_month" ->
                    i - Min(monthIn(days, i)) < TurnDays \/ Max(monthIn(days, i)) - i < TurnDays
<1>1. DOMAIN s = 1 .. n /\ DOMAIN o = 1 .. n
  OBVIOUS
<1>2. \A c, best : seasonalWantLong(c, strategy, best) = [i \in DOMAIN c |-> says(DOMAIN c, best, i)]
  BY DEF seasonalWantLong, isTurnOfMonth
<1>3. \A days, i : says(days, bestOfS, i) = says(days, bestOfO, i)
  OBVIOUS
<1> HIDE DEF says
<1>4. seasonalWantLong(s, strategy, bestOfS) = seasonalWantLong(o, strategy, bestOfO)
  BY <1>1, <1>2, <1>3
<1> QED BY <1>4 DEF SameUpTo

LEMMA AnomalySame ==
  ASSUME NEW n \in Nat, NEW s \in [1 .. n -> BarValues], NEW o \in [1 .. n -> BarValues],
         NEW m \in 0 .. n, SameUpTo(s, o, m),
         NEW strategy
  PROVE  SameUpTo(anomalyWantLong(s, strategy), anomalyWantLong(o, strategy), m)
<1> DEFINE says(c, i) ==
             CASE strategy = "buy_and_hold"      -> TRUE
               [] strategy = "near_52w_high"     -> c[i] >= highAt(c, i)
               [] strategy = "avoid_max_lottery" -> ~ jumpedAt(c, i)
               [] strategy = "tax_loss_reversal" ->
                    monthOfYear(i) \in {1, YearMonths} /\ i >= Lookback /\ c[i] < c[i - Lookback + 1]
<1>1. ASSUME NEW i \in 1 .. m
      PROVE  /\ closesOf(s)[i] = closesOf(o)[i]
             /\ highAt(closesOf(s), i) = highAt(closesOf(o), i)
             /\ jumpedAt(closesOf(s), i) = jumpedAt(closesOf(o), i)
             /\ i >= Lookback => closesOf(s)[i - Lookback + 1] = closesOf(o)[i - Lookback + 1]
  <2>1. Lookback \in Nat \ {0}
    BY BacktestAssumption
  <2>2. SameUpTo(closesOf(s), closesOf(o), m)
    BY ClosesSame
  <2>3. i >= Lookback => i - Lookback + 1 \in 1 .. m
    BY <2>1
  <2>4. /\ highAt(closesOf(s), i) = highAt(closesOf(o), i)
        /\ jumpedAt(closesOf(s), i) = jumpedAt(closesOf(o), i)
    BY ClosesSame, HighsSame
  <2> QED BY <2>2, <2>3, <2>4 DEF SameUpTo
<1>2. ASSUME NEW i \in 1 .. m PROVE says(closesOf(s), i) = says(closesOf(o), i)
  <2>1. (i >= Lookback /\ closesOf(s)[i] < closesOf(s)[i - Lookback + 1])
          = (i >= Lookback /\ closesOf(o)[i] < closesOf(o)[i - Lookback + 1])
    BY <1>1
  <2> QED BY <1>1, <2>1
<1>3. /\ anomalyWantLong(s, strategy) = [i \in 1 .. n |-> says(closesOf(s), i)]
      /\ anomalyWantLong(o, strategy) = [i \in 1 .. n |-> says(closesOf(o), i)]
  BY ClosesSame DEF anomalyWantLong
<1> HIDE DEF says
<1> QED BY <1>2, <1>3 DEF SameUpTo

LEMMA RankSame ==
  ASSUME NEW n \in Nat, NEW f, NEW g, OverBars(f, n), OverBars(g, n),
         NEW m \in 0 .. n, SameUpTo(f, g, m), NEW end \in 0 .. m,
         NEW factor \in {"momentum_12_1", "low_volatility", "near_52w_high", "short_term_reversal"}
  PROVE  rankFactorValue(f, end, factor) = rankFactorValue(g, end, factor)
<1>0. Lookback \in Nat \ {0} /\ ShortWindow \in Nat \ {0}
  BY BacktestAssumption
<1>1. CASE end < barsNeeded(factor)
  BY <1>1 DEF rankFactorValue
<1>2. CASE ~ (end < barsNeeded(factor)) /\ factor = "momentum_12_1"
  <2>1. Max({Lookback, ShortWindow}) \in {Lookback, ShortWindow}
        /\ Max({Lookback, ShortWindow}) >= Lookback /\ Max({Lookback, ShortWindow}) >= ShortWindow
    <3>1. PICK x \in {Lookback, ShortWindow} : \A y \in {Lookback, ShortWindow} : x >= y
      BY <1>0
    <3>2. \A y \in {Lookback, ShortWindow} : Max({Lookback, ShortWindow}) >= y
      BY <3>1, Zenon DEF Max
    <3>3. Max({Lookback, ShortWindow}) \in {Lookback, ShortWindow}
      BY <3>1, Zenon DEF Max
    <3> QED BY <3>2, <3>3
  <2>2. barsNeeded(factor) = Max({Lookback, ShortWindow}) + 1
    BY <1>2 DEF barsNeeded
  <2>3. end - ShortWindow \in 1 .. m /\ end - Lookback + 1 \in 1 .. m
    BY <1>0, <1>2, <2>1, <2>2
  <2>4. f[end - ShortWindow] = g[end - ShortWindow] /\ f[end - Lookback + 1] = g[end - Lookback + 1]
    BY <2>3 DEF SameUpTo
  <2> QED BY <1>2, <2>4 DEF rankFactorValue
<1>3. CASE ~ (end < barsNeeded(factor)) /\ factor = "low_volatility"
  <2>1. end \in 1 .. m /\ Lookback - 1 \in Nat /\ end >= Lookback - 1
    BY <1>0, <1>3 DEF barsNeeded
  <2>2. realizedVolAt(closeReturns(f), end, Lookback - 1) = realizedVolAt(closeReturns(g), end, Lookback - 1)
    BY <2>1, ReturnsSame, VolSame
  <2> QED BY <1>3, <2>2 DEF rankFactorValue
<1>4. CASE ~ (end < barsNeeded(factor)) /\ factor = "near_52w_high"
  <2>1. end \in 1 .. m
    BY <1>0, <1>4 DEF barsNeeded
  <2>2. f[end] = g[end] /\ highAt(f, end) = highAt(g, end)
    BY <2>1, HighsSame DEF SameUpTo
  <2> QED BY <1>4, <2>2 DEF rankFactorValue
<1>5. CASE ~ (end < barsNeeded(factor)) /\ factor = "short_term_reversal"
  <2>1. end \in 1 .. m /\ end - ShortWindow \in 1 .. m
    BY <1>0, <1>5 DEF barsNeeded
  <2>2. f[end] = g[end] /\ f[end - ShortWindow] = g[end - ShortWindow]
    BY <2>1 DEF SameUpTo
  <2> QED BY <1>5, <2>2 DEF rankFactorValue
<1> QED BY <1>1, <1>2, <1>3, <1>4, <1>5

LEMMA RankerSame ==
  ASSUME NEW n \in Nat, NEW s \in [1 .. n -> BarValues], NEW o \in [1 .. n -> BarValues],
         NEW m \in 0 .. n, SameUpTo(s, o, m),
         NEW factor \in {"momentum_12_1", "low_volatility", "near_52w_high", "short_term_reversal"}
  PROVE  SameUpTo(buildRankerMembership(s, factor), buildRankerMembership(o, factor), m)
<1> DEFINE says(c, i) ==
             LET mine   == rankFactorValue(closesOf(c), i - 1, factor)
                 theirs == rankFactorValue(othersOf(c), i - 1, factor)
             IN  mine # NOTHING /\ mine >= theirs
<1>1. ASSUME NEW i \in 1 .. m
      PROVE  /\ rankFactorValue(closesOf(s), i - 1, factor) = rankFactorValue(closesOf(o), i - 1, factor)
             /\ rankFactorValue(othersOf(s), i - 1, factor) = rankFactorValue(othersOf(o), i - 1, factor)
  <2>1. i - 1 \in 0 .. m
    OBVIOUS
  <2> QED BY <2>1, ClosesSame, RankSame
<1>2. \A i \in 1 .. m : says(s, i) = says(o, i)
  BY <1>1
<1>3. /\ buildRankerMembership(s, factor) = [i \in 1 .. n |-> says(s, i)]
      /\ buildRankerMembership(o, factor) = [i \in 1 .. n |-> says(o, i)]
  BY DEF buildRankerMembership
<1> HIDE DEF says
<1> QED BY <1>2, <1>3 DEF SameUpTo

LEMMA PortfolioSignalsSame ==
  ASSUME NEW n \in Nat, NEW s \in [1 .. n -> BarValues], NEW o \in [1 .. n -> BarValues],
         NEW m \in 0 .. n, SameUpTo(s, o, m)
  PROVE  SameUpTo(buildPortfolioSignals(s), buildPortfolioSignals(o), m)
<1> DEFINE says(c, i) == aboveSma(c, i, MidWindow) /\ macdSeries(c)[i] = 1
<1>1. MidWindow \in Nat \ {0}
  BY BacktestAssumption
<1>2. SameUpTo(macdSeries(closesOf(s)), macdSeries(closesOf(o)), m)
  BY ClosesSame, MacdSame
<1>3. \A i \in 1 .. m : says(closesOf(s), i) = says(closesOf(o), i)
  <2> TAKE i \in 1 .. m
  <2>1. aboveSma(closesOf(s), i, MidWindow) = aboveSma(closesOf(o), i, MidWindow)
    BY <1>1, ClosesSame, SmaSame
  <2> QED BY <1>2, <2>1 DEF SameUpTo
<1>4. /\ buildPortfolioSignals(s) = [i \in 1 .. n |-> says(closesOf(s), i)]
      /\ buildPortfolioSignals(o) = [i \in 1 .. n |-> says(closesOf(o), i)]
  BY DEF buildPortfolioSignals
<1> HIDE DEF says
<1> QED BY <1>3, <1>4 DEF SameUpTo

LEMMA PairZSame ==
  ASSUME NEW n \in Nat, NEW s \in [1 .. n -> BarValues], NEW o \in [1 .. n -> BarValues],
         NEW m \in 0 .. n, SameUpTo(s, o, m)
  PROVE  /\ OverBars(computePairZSeries(s), n) /\ OverBars(computePairZSeries(o), n)
         /\ SameUpTo(computePairZSeries(s), computePairZSeries(o), m)
<1> DEFINE spread(c) == [i \in 1 .. n |-> c[i].close - c[i].other]
           says(c, i) == IF i <= Lookback THEN NOTHING
                         ELSE c[i] * Lookback - smaSum(c, i - 1, Lookback)
<1>0. Lookback \in Nat \ {0}
  BY BacktestAssumption
<1>1. OverBars(spread(s), n) /\ OverBars(spread(o), n) /\ SameUpTo(spread(s), spread(o), m)
  BY DEF OverBars, SameUpTo
<1>2. /\ computePairZSeries(s) = [i \in 1 .. n |-> says(spread(s), i)]
      /\ computePairZSeries(o) = [i \in 1 .. n |-> says(spread(o), i)]
  BY DEF computePairZSeries
<1> HIDE DEF spread
<1>3. \A i \in 1 .. m : says(spread(s), i) = says(spread(o), i)
  <2> TAKE i \in 1 .. m
  <2>1. CASE i <= Lookback
    BY <2>1
  <2>2. CASE ~ (i <= Lookback)
    <3>1. i - 1 \in 1 .. m /\ i - 1 >= Lookback
      BY <1>0, <2>2
    <3>2. smaSum(spread(s), i - 1, Lookback) = smaSum(spread(o), i - 1, Lookback)
      BY <1>0, <1>1, <3>1, SmaSame
    <3>3. spread(s)[i] = spread(o)[i]
      BY <1>1 DEF SameUpTo
    <3> QED BY <2>2, <3>2, <3>3
  <2> QED BY <2>1, <2>2
<1> HIDE DEF says
<1> QED BY <1>2, <1>3 DEF OverBars, SameUpTo

--------------------------------------------------------------------------------
(* What is held over a bar rests on the bars before it.                    *)

\* Some of the bars so far have a last one.
LEMMA MaxOfBars ==
  ASSUME NEW n \in Nat, NEW S \in SUBSET (1 .. n), S # {}
  PROVE  Max(S) \in S
<1> DEFINE T == {n - i : i \in S}
<1>1. T \in SUBSET Nat /\ T # {}
  <2>1. \A i \in S : n - i \in Nat
    OBVIOUS
  <2> QED BY <2>1
<1>2. PICK t \in T : \A u \in T : t <= u
  <2> HIDE DEF T
  <2> QED BY <1>1, LeastOf
<1>3. PICK x \in S : t = n - x
  OBVIOUS
<1>4. \A y \in S : x >= y
  <2> TAKE y \in S
  <2>1. n - y \in T
    OBVIOUS
  <2>2. n - x <= n - y
    BY <1>2, <1>3, <2>1
  <2> QED BY <2>2
<1> HIDE DEF T
<1> QED BY <1>4, Zenon DEF Max

LEMMA LongFlatSame ==
  ASSUME NEW n \in Nat, NEW s \in [1 .. n -> BarValues], NEW o \in [1 .. n -> BarValues],
         NEW m \in 0 .. n, NEW wantS, NEW wantO, SameUpTo(wantS, wantO, m), NEW i \in 1 .. n, i <= m + 1
  PROVE  runLongFlatBacktest(s, wantS)[i] = runLongFlatBacktest(o, wantO)[i]
<1>1. Len(s) = n /\ Len(o) = n /\ TestWindow \in Nat \ {0}
  BY BacktestAssumption
<1>2. TestStart(s) = TestStart(o) /\ TestStart(s) \in Nat \ {0}
  BY <1>1 DEF TestStart
<1>3. i > TestStart(s) => wantS[i - 1] = wantO[i - 1]
  BY <1>2 DEF SameUpTo
<1> QED BY <1>2, <1>3 DEF runLongFlatBacktest

LEMMA GapSame ==
  ASSUME NEW n \in Nat, NEW s \in [1 .. n -> BarValues], NEW o \in [1 .. n -> BarValues],
         NEW m \in 0 .. n, SameUpTo(s, o, m),
         NEW strategy, NEW i \in 1 .. n, i <= m + 1
  PROVE  runGapBacktest(s, strategy)[i] = runGapBacktest(o, strategy)[i]
<1>1. Len(s) = n /\ Len(o) = n /\ TestWindow \in Nat \ {0}
  BY BacktestAssumption
<1>2. TestStart(s) = TestStart(o) /\ TestStart(s) \in Nat \ {0}
  BY <1>1 DEF TestStart
<1>3. i > TestStart(s) + 1 => s[i - 1] = o[i - 1] /\ s[i - 2] = o[i - 2]
  BY <1>2 DEF SameUpTo
<1> QED BY <1>2, <1>3 DEF runGapBacktest

LEMMA SizingSame ==
  ASSUME NEW n \in Nat, NEW s \in [1 .. n -> BarValues], NEW o \in [1 .. n -> BarValues],
         NEW m \in 0 .. n, SameUpTo(s, o, m),
         NEW i \in 1 .. n, i <= m + 1
  PROVE  runPortfolioSizingBacktest(s)[i] = runPortfolioSizingBacktest(o)[i]
<1> DEFINE rebalances == {r \in Step .. i - 1 : r % Step = 0}
<1>0. Step \in Nat \ {0}
  BY BacktestAssumption
<1>1. rebalances # {} => Max(rebalances) \in 1 .. m
  <2> SUFFICES ASSUME rebalances # {} PROVE Max(rebalances) \in 1 .. m
    OBVIOUS
  <2>1. m \in Nat /\ rebalances \in SUBSET (1 .. m)
    BY <1>0
  <2> HIDE DEF rebalances
  <2>2. Max(rebalances) \in rebalances
    BY <2>1, MaxOfBars
  <2> QED BY <2>1, <2>2
<1>2. ASSUME NEW c \in [1 .. n -> BarValues]
      PROVE  runPortfolioSizingBacktest(c)[i] =
               (rebalances # {} /\ buildPortfolioSignals(c)[Max(rebalances)])
  BY DEF runPortfolioSizingBacktest
<1> HIDE DEF rebalances
<1>3. rebalances # {} => buildPortfolioSignals(s)[Max(rebalances)] = buildPortfolioSignals(o)[Max(rebalances)]
  BY <1>1, PortfolioSignalsSame DEF SameUpTo
<1> QED BY <1>2, <1>3

LEMMA PairsSame ==
  ASSUME NEW n \in Nat, NEW s \in [1 .. n -> BarValues], NEW o \in [1 .. n -> BarValues],
         NEW m \in 0 .. n, SameUpTo(s, o, m),
         NEW entry, NEW exit, NEW stop, NEW maxHoldingDays, NEW i \in 1 .. n, i <= m + 1
  PROVE  runPairsBacktest(s, entry, exit, stop, maxHoldingDays)[i] =
           runPairsBacktest(o, entry, exit, stop, maxHoldingDays)[i]
<1> DEFINE states(c) == pairsStates(computePairZSeries(c), entry, exit, stop, maxHoldingDays)
<1>1. i - 1 \in 0 .. m
  OBVIOUS
<1>2. states(s)[i - 1] = states(o)[i - 1]
  BY <1>1, PairZSame, PairsStatesSame
<1>3. ASSUME NEW c \in [1 .. n -> BarValues]
      PROVE  runPairsBacktest(c, entry, exit, stop, maxHoldingDays)[i] = states(c)[i - 1].position
  BY DEF runPairsBacktest
<1> HIDE DEF states
<1> QED BY <1>2, <1>3

\* A backtest holds over a bar what the bars before it say, and what it was fitted to.
LEMMA HeldSame ==
  ASSUME NEW n \in Nat, NEW s \in [1 .. n -> BarValues], NEW o \in [1 .. n -> BarValues],
         NEW m \in 0 .. n, SameUpTo(s, o, m), NEW i \in 1 .. n, i <= m + 1, NEW test \in Backtests,
         Fitted(test, s) = Fitted(test, o)
  PROVE  heldOver(test, s)[i] = heldOver(test, o)[i]
<1>1. CASE test.task = "technical"
  BY <1>1, TechnicalSame, LongFlatSame DEF heldOver
<1>2. CASE test.task = "relative"
  BY <1>2, RelativeSame, LongFlatSame DEF heldOver
<1>3. CASE test.task = "volatility"
  <2>1. volThreshold(s) = volThreshold(o)
    BY <1>3 DEF Fitted
  <2>2. SameUpTo(volatilityRule(s, test.choice, volThreshold(s)),
                 volatilityRule(o, test.choice, volThreshold(o)), m)
    BY <2>1, VolatilitySame
  <2> QED BY <1>3, <2>2, LongFlatSame DEF heldOver
<1>4. CASE test.task = "seasonality"
  <2>1. test.choice = "best_months" => bestMonths(s) = bestMonths(o)
    BY <1>4 DEF Fitted
  <2>2. SameUpTo(seasonalWantLong(s, test.choice, bestMonths(s)),
                 seasonalWantLong(o, test.choice, bestMonths(o)), m)
    BY <2>1, SeasonalSame
  <2> QED BY <1>4, <2>2, LongFlatSame DEF heldOver
<1>5. CASE test.task = "overnight"
  BY <1>5, GapSame DEF heldOver
<1>6. CASE test.task = "anomaly"
  BY <1>6, AnomalySame, LongFlatSame DEF heldOver
<1>7. CASE test.task = "ranker"
  <2>1. test.choice \in {"momentum_12_1", "low_volatility", "near_52w_high", "short_term_reversal"}
    BY <1>7 DEF Backtests
  <2>2. SameUpTo(buildRankerMembership(s, test.choice), buildRankerMembership(o, test.choice), m)
    BY <2>1, RankerSame
  <2> QED BY <1>7, <2>2, LongFlatSame DEF heldOver
<1>8. CASE test.task = "portfolio"
  BY <1>8, SizingSame DEF heldOver
<1>9. CASE test.task = "pairs"
  BY <1>9, PairsSame DEF heldOver
<1> QED BY <1>1, <1>2, <1>3, <1>4, <1>5, <1>6, <1>7, <1>8, <1>9 DEF Backtests

\* What is held is said of every bar and of no other.
LEMMA HeldOverBars ==
  ASSUME NEW n \in Nat, NEW s \in [1 .. n -> BarValues], NEW test \in Backtests
  PROVE  OverBars(heldOver(test, s), n)
<1>1. DOMAIN s = 1 .. n
  OBVIOUS
<1>2. \A want : OverBars(runLongFlatBacktest(s, want), n)
  BY <1>1 DEF OverBars, runLongFlatBacktest
<1>3. \A strategy : OverBars(runGapBacktest(s, strategy), n)
  BY <1>1 DEF OverBars, runGapBacktest
<1>4. OverBars(runPortfolioSizingBacktest(s), n)
  BY <1>1 DEF OverBars, runPortfolioSizingBacktest
<1>5. OverBars(runPairsBacktest(s, 2, 1, 4, 2), n)
  BY <1>1 DEF OverBars, runPairsBacktest
<1> QED BY <1>2, <1>3, <1>4, <1>5 DEF heldOver, Backtests

LEMMA BacktestTypeHolds == BacktestSpec => []BacktestTypeOK
<1>1. BacktestInit => BacktestTypeOK
  <2> SUFFICES ASSUME NEW b \in BarValues, bars = <<b>> PROVE BacktestTypeOK
    BY DEF BacktestInit
  <2>1. bars \in [1 .. 1 -> BarValues] /\ 1 \in 1 .. MaxBars
    BY BacktestAssumption
  <2> QED BY <2>1 DEF BacktestTypeOK
<1>2. BacktestTypeOK /\ [BacktestNext]_bars => BacktestTypeOK'
  <2> SUFFICES ASSUME BacktestTypeOK, [BacktestNext]_bars PROVE BacktestTypeOK'
    OBVIOUS
  <2>1. CASE UNCHANGED bars
    BY <2>1 DEF BacktestTypeOK
  <2>2. CASE NextBar
    <3>1. PICK n \in 1 .. MaxBars : bars \in [1 .. n -> BarValues]
      BY DEF BacktestTypeOK
    <3>2. PICK bar \in BarValues : bars' = Append(bars, bar)
      BY <2>2 DEF NextBar
    <3>3. Len(bars) = n /\ n + 1 \in 1 .. MaxBars
      <4>1. MaxBars \in Nat
        BY BacktestAssumption
      <4>2. Len(bars) = n
        BY <3>1
      <4>3. n < MaxBars
        BY <2>2, <4>2 DEF NextBar
      <4> QED BY <3>1, <4>1, <4>2, <4>3
    <3>4. bars' \in [1 .. n + 1 -> BarValues]
      <4>1. bars \in Seq(BarValues)
        BY <3>1
      <4>2. bars' \in Seq(BarValues) /\ Len(bars') = n + 1
        BY <3>2, <3>3, <4>1, AppendProperties
      <4> QED BY <4>2
    <3> QED BY <3>3, <3>4 DEF BacktestTypeOK
  <2> QED BY <2>1, <2>2 DEF BacktestNext
<1> QED BY <1>1, <1>2, PTL DEF BacktestSpec

\* Whatever the prices, the bars and the windows, what a backtest holds over a bar depends
\* on the closes of that bar only through what its rule was fitted to: the threshold of a
\* volatility, the best months; every other rule is fitted to nothing.
THEOREM BacktestsPrecede == BacktestSpec => []PositionsPrecedeTheirBar
<1>1. BacktestTypeOK => PositionsPrecedeTheirBar
  <2> SUFFICES ASSUME BacktestTypeOK, NEW test \in Backtests, NEW b \in DOMAIN bars,
                      NEW other \in OtherwiseFrom(bars, b),
                      Fitted(test, bars) = Fitted(test, other)
               PROVE  SubSeq(heldOver(test, bars), 1, b) = SubSeq(heldOver(test, other), 1, b)
    BY DEF PositionsPrecedeTheirBar
  <2>1. PICK n \in 1 .. MaxBars : bars \in [1 .. n -> BarValues]
    BY DEF BacktestTypeOK
  <2>2. n \in Nat /\ b \in 1 .. n /\ b - 1 \in 0 .. n /\ b <= n
    <3>1. DOMAIN bars = 1 .. n /\ n \in Nat
      BY <2>1
    <3>2. b \in 1 .. n
      BY <3>1
    <3> QED BY <3>1, <3>2
  <2>3. PICK bar \in BarValues : other = [bars EXCEPT ![b] = bar]
    BY DEF OtherwiseFrom
  <2>4. other \in [1 .. n -> BarValues] /\ SameUpTo(bars, other, b - 1)
    BY <2>1, <2>2, <2>3 DEF SameUpTo
  <2>5. OverBars(heldOver(test, bars), n) /\ OverBars(heldOver(test, other), n)
    BY <2>1, <2>2, <2>4, HeldOverBars
  <2>6. SameUpTo(heldOver(test, bars), heldOver(test, other), b)
    <3>1. ASSUME NEW i \in 1 .. b PROVE heldOver(test, bars)[i] = heldOver(test, other)[i]
      <4>1. i \in 1 .. n /\ i <= (b - 1) + 1
        BY <2>2
      <4> QED BY <2>1, <2>2, <2>4, <4>1, HeldSame
    <3> QED BY <3>1 DEF SameUpTo
  <2>7. Window(heldOver(test, bars), 1, b) = Window(heldOver(test, other), 1, b)
    <3>1. b \in 0 .. n /\ b \in Nat /\ b <= b /\ 1 \in Nat \ {0}
      BY <2>2
    <3> QED BY <2>2, <2>5, <2>6, <3>1, SameWindow
  <2> QED BY <2>7, Zenon DEF Window
<1> QED BY <1>1, BacktestTypeHolds, PTL

--------------------------------------------------------------------------------
(* Sums of the weights of a portfolio.                                     *)

LEMMA SumsAre ==
  ASSUME NEW n \in Nat, NEW f \in [1 .. n -> Int]
  PROVE  /\ Sums(f)[0] = 0 /\ NumSum(f) = Sums(f)[n]
         /\ \A k \in 1 .. n : Sums(f)[k] = Sums(f)[k - 1] + f[k]
<1> DEFINE Is(g, k) == g = [i \in 0 .. k |-> IF i = 0 THEN 0 ELSE g[i - 1] + f[i]]
           Has      == {k \in Nat : \E g : Is(g, k)}
<1>0. Len(f) = n
  OBVIOUS
<1>1. Sums(f) = CHOOSE g : Is(g, n)
  BY <1>0 DEF Sums
<1>2. 0 \in Has
  <2>1. Is([i \in 0 .. 0 |-> 0], 0)
    OBVIOUS
  <2> QED BY <2>1
<1>3. ASSUME NEW k \in Has PROVE k + 1 \in Has
  <2>1. PICK g : Is(g, k)
    OBVIOUS
  <2> DEFINE h == [i \in 0 .. k + 1 |-> IF i = 0 THEN 0 ELSE g[i - 1] + f[i]]
  <2>2. k \in Nat /\ \A i \in 0 .. k : h[i] = g[i]
    BY <2>1
  <2>3. ASSUME NEW i \in 0 .. k + 1, i # 0 PROVE h[i - 1] = g[i - 1]
    <3>1. i - 1 \in 0 .. k
      BY <2>2, <2>3
    <3> QED BY <2>2, <3>1
  <2>4. Is(h, k + 1)
    BY <2>3
  <2> HIDE DEF Is, h
  <2> QED BY <2>2, <2>4
<1>4. n \in Has
  <2>1. Has \in SUBSET Nat
    OBVIOUS
  <2> HIDE DEF Has
  <2> QED BY <1>2, <1>3, <2>1, InductiveSet
<1>5. Is(Sums(f), n)
  <2>1. \E g : Is(g, n)
    BY <1>4
  <2> HIDE DEF Is
  <2> QED BY <1>1, <2>1
<1> QED BY <1>0, <1>5 DEF NumSum

\* What holds of no name, and of one more when of some, holds of all.
LEMMA NameByName ==
  ASSUME NEW n \in Nat, NEW S, 0 \in S, \A k \in 0 .. n - 1 : k \in S => k + 1 \in S
  PROVE  \A k \in 0 .. n : k \in S
<1> DEFINE T == {k \in Nat : k <= n => k \in S}
<1>1. T \in SUBSET Nat /\ 0 \in T /\ \A k \in T : k + 1 \in T
  OBVIOUS
<1>2. T = Nat
  <2> HIDE DEF T
  <2> QED BY <1>1, InductiveSet
<1> QED BY <1>2

LEMMA SumSteps ==
  ASSUME NEW n \in Nat, NEW f \in [1 .. n -> Int]
  PROVE  /\ Sums(f)[0] = 0 /\ NumSum(f) = Sums(f)[n] /\ NumSum(f) \in Int
         /\ \A k \in 0 .. n - 1 : Sums(f)[k + 1] = Sums(f)[k] + f[k + 1]
         /\ \A k \in 0 .. n : Sums(f)[k] \in Int
<1> DEFINE sums == Sums(f)
           S == {k \in 0 .. n : sums[k] \in Int}
<1>0. /\ sums[0] = 0 /\ NumSum(f) = sums[n]
      /\ \A k \in 1 .. n : sums[k] = sums[k - 1] + f[k]
  BY SumsAre
<1> HIDE DEF sums
<1>1. 0 \in S
  BY <1>0
<1>2. ASSUME NEW k \in 0 .. n - 1 PROVE sums[k + 1] = sums[k] + f[k + 1]
  <2>1. k + 1 \in 1 .. n /\ (k + 1) - 1 = k
    OBVIOUS
  <2> QED BY <1>0, <2>1
<1>3. ASSUME NEW k \in 0 .. n - 1, k \in S PROVE k + 1 \in S
  <2>1. k + 1 \in 1 .. n /\ f[k + 1] \in Int /\ sums[k] \in Int
    BY <1>3
  <2> QED BY <1>2, <2>1
<1>4. \A k \in 0 .. n : k \in S
  <2> HIDE DEF S
  <2> QED BY <1>1, <1>3, NameByName
<1> QED BY <1>0, <1>2, <1>4 DEF sums

LEMMA Combined ==
  ASSUME NEW x \in Int, NEW y \in Int, NEW z \in Int, NEW u \in Int, NEW v \in Int, NEW w \in Int,
         NEW p \in Int, NEW q \in Int, NEW r \in Int
  PROVE  (x * u + y * v + z * w) + (x * p + y * q + z * r) = x * (u + p) + y * (v + q) + z * (w + r)
OBVIOUS

\* f combines a, b and c name by name, in the shares x, y and z.
Combines(n, f, a, b, c, x, y, z) ==
  /\ n \in Nat /\ f \in [1 .. n -> Int]
  /\ a \in [1 .. n -> Int] /\ b \in [1 .. n -> Int] /\ c \in [1 .. n -> Int]
  /\ x \in Int /\ y \in Int /\ z \in Int
  /\ \A i \in 1 .. n : f[i] = x * a[i] + y * b[i] + z * c[i]

\* Then its sum combines theirs.
LEMMA LinearSum ==
  ASSUME NEW n, NEW f, NEW a, NEW b, NEW c, NEW x, NEW y, NEW z,
         Combines(n, f, a, b, c, x, y, z)
  PROVE  NumSum(f) = x * NumSum(a) + y * NumSum(b) + z * NumSum(c)
<1> USE DEF Combines
<1> DEFINE S == {k \in 0 .. n : Sums(f)[k] = x * Sums(a)[k] + y * Sums(b)[k] + z * Sums(c)[k]}
<1>0. \A g \in [1 .. n -> Int] :
        /\ Sums(g)[0] = 0 /\ NumSum(g) = Sums(g)[n]
        /\ \A k \in 0 .. n - 1 : Sums(g)[k + 1] = Sums(g)[k] + g[k + 1]
        /\ \A k \in 0 .. n : Sums(g)[k] \in Int
  BY SumSteps
<1>1. 0 \in S
  <2>1. Sums(f)[0] = 0 /\ Sums(a)[0] = 0 /\ Sums(b)[0] = 0 /\ Sums(c)[0] = 0
    BY <1>0
  <2> QED BY <2>1
<1>2. ASSUME NEW k \in 0 .. n - 1, k \in S PROVE k + 1 \in S
  <2>1. k + 1 \in 1 .. n /\ k + 1 \in 0 .. n
    OBVIOUS
  <2>2. /\ Sums(f)[k + 1] = Sums(f)[k] + f[k + 1] /\ Sums(a)[k + 1] = Sums(a)[k] + a[k + 1]
        /\ Sums(b)[k + 1] = Sums(b)[k] + b[k + 1] /\ Sums(c)[k + 1] = Sums(c)[k] + c[k + 1]
    BY <1>0
  <2>3. a[k + 1] \in Int /\ b[k + 1] \in Int /\ c[k + 1] \in Int
    BY <2>1
  <2>4. Sums(a)[k] \in Int /\ Sums(b)[k] \in Int /\ Sums(c)[k] \in Int
    <3>1. k \in 0 .. n
      OBVIOUS
    <3> QED BY <1>0, <3>1, Zenon
  <2>5. /\ Sums(f)[k] = x * Sums(a)[k] + y * Sums(b)[k] + z * Sums(c)[k]
        /\ f[k + 1] = x * a[k + 1] + y * b[k + 1] + z * c[k + 1]
    BY <1>2, <2>1
  <2>6. /\ Sums(a)[k + 1] = Sums(a)[k] + a[k + 1] /\ Sums(b)[k + 1] = Sums(b)[k] + b[k + 1]
        /\ Sums(c)[k + 1] = Sums(c)[k] + c[k + 1]
    BY <2>2
  <2>7. (x * Sums(a)[k] + y * Sums(b)[k] + z * Sums(c)[k]) + (x * a[k + 1] + y * b[k + 1] + z * c[k + 1])
          = x * (Sums(a)[k] + a[k + 1]) + y * (Sums(b)[k] + b[k + 1]) + z * (Sums(c)[k] + c[k + 1])
    <3>1. \A u, v, w, p, q, r \in Int :
            (x * u + y * v + z * w) + (x * p + y * q + z * r) = x * (u + p) + y * (v + q) + z * (w + r)
      BY Combined
    <3>2. PICK u \in Int, v \in Int, w \in Int : u = Sums(a)[k] /\ v = Sums(b)[k] /\ w = Sums(c)[k]
      BY <2>4
    <3>3. PICK p \in Int, q \in Int, r \in Int : p = a[k + 1] /\ q = b[k + 1] /\ r = c[k + 1]
      BY <2>3
    <3>4. (x * u + y * v + z * w) + (x * p + y * q + z * r) = x * (u + p) + y * (v + q) + z * (w + r)
      BY <3>1
    <3> QED BY <3>2, <3>3, <3>4, Zenon
  <2>8. Sums(f)[k + 1] = x * Sums(a)[k + 1] + y * Sums(b)[k + 1] + z * Sums(c)[k + 1]
    BY <2>2, <2>5, <2>6, <2>7, Zenon
  <2> QED BY <2>1, <2>8
<1>3. \A k \in 0 .. n : k \in S
  <2> HIDE DEF S
  <2> QED BY <1>1, <1>2, NameByName
<1>4. Sums(f)[n] = x * Sums(a)[n] + y * Sums(b)[n] + z * Sums(c)[n]
  BY <1>3
<1>5. /\ NumSum(f) = Sums(f)[n] /\ NumSum(a) = Sums(a)[n] /\ NumSum(b) = Sums(b)[n] /\ NumSum(c) = Sums(c)[n]
  BY <1>0
<1> QED BY <1>4, <1>5

\* A sum of weights is a weight, and none of them is over it.
LEMMA NatSum ==
  ASSUME NEW n \in Nat, NEW f \in [1 .. n -> Nat]
  PROVE  NumSum(f) \in Nat /\ \A i \in 1 .. n : f[i] <= NumSum(f)
<1> DEFINE S == {k \in 0 .. n : Sums(f)[k] \in Nat /\ \A i \in 1 .. k : f[i] <= Sums(f)[k]}
<1>0. f \in [1 .. n -> Int]
  OBVIOUS
<1>b. /\ Sums(f)[0] = 0 /\ NumSum(f) = Sums(f)[n]
      /\ \A k \in 0 .. n - 1 : Sums(f)[k + 1] = Sums(f)[k] + f[k + 1]
      /\ \A k \in 0 .. n : Sums(f)[k] \in Int
  BY <1>0, SumSteps
<1>1. 0 \in S
  BY <1>b
<1>2. ASSUME NEW k \in 0 .. n - 1, k \in S PROVE k + 1 \in S
  <2>1. k + 1 \in 1 .. n /\ (k + 1) - 1 = k /\ f[k + 1] \in Nat /\ Sums(f)[k] \in Nat
    BY <1>2
  <2>2. Sums(f)[k + 1] = Sums(f)[k] + f[k + 1]
    BY <1>b
  <2>3. ASSUME NEW i \in 1 .. k + 1 PROVE f[i] <= Sums(f)[k + 1]
    <3>1. CASE i = k + 1
      BY <2>1, <2>2, <3>1
    <3>2. CASE i # k + 1
      <4>1. i \in 1 .. k /\ f[i] \in Nat /\ f[i] <= Sums(f)[k]
        BY <1>2, <3>2
      <4> QED BY <2>1, <2>2, <4>1
    <3> QED BY <3>1, <3>2
  <2> QED BY <2>1, <2>2, <2>3
<1>3. n \in S
  <2>1. \A k \in 0 .. n : k \in S
    <3> HIDE DEF S
    <3> QED BY <1>1, <1>2, NameByName
  <2> QED BY <2>1
<1> QED BY <1>b, <1>3

\* Names that weigh at least w each weigh together at least w for each.
LEMMA CountedSum ==
  ASSUME NEW n \in Nat, NEW f \in [1 .. n -> Nat], NEW w \in Nat, NEW P \in SUBSET (1 .. n),
         \A i \in P : f[i] >= w
  PROVE  Cardinality(P) \in Nat /\ NumSum(f) >= w * Cardinality(P)
<1> DEFINE upTo(k) == {i \in P : i <= k}
           S == {k \in 0 .. n : Sums(f)[k] >= w * Cardinality(upTo(k))}
<1>0. f \in [1 .. n -> Int] /\ IsFiniteSet(1 .. n)
  BY FS_Interval
<1>b. /\ Sums(f)[0] = 0 /\ NumSum(f) = Sums(f)[n]
      /\ \A k \in 0 .. n - 1 : Sums(f)[k + 1] = Sums(f)[k] + f[k + 1]
      /\ \A k \in 0 .. n : Sums(f)[k] \in Int
  BY <1>0, SumSteps
<1>p. \A i \in P : i \in 1 .. n /\ i \in Nat /\ i > 0 /\ i <= n
  OBVIOUS
<1>a. \A k \in 0 .. n : IsFiniteSet(upTo(k)) /\ Cardinality(upTo(k)) \in Nat /\ Sums(f)[k] \in Int
  <2> TAKE k \in 0 .. n
  <2>1. upTo(k) \in SUBSET (1 .. n)
    OBVIOUS
  <2> HIDE DEF upTo
  <2>2. IsFiniteSet(upTo(k))
    BY <1>0, <2>1, FS_Subset
  <2> QED BY <1>b, <2>2, FS_CardinalityType
<1>1. 0 \in S
  <2>1. upTo(0) = {}
    <3>1. ASSUME NEW i \in upTo(0) PROVE FALSE
      BY <1>p
    <3> QED BY <3>1
  <2> HIDE DEF upTo
  <2>2. Cardinality(upTo(0)) = 0
    BY <2>1, FS_EmptySet
  <2>3. w * 0 = 0
    OBVIOUS
  <2> QED BY <1>b, <2>2, <2>3
<1>2. ASSUME NEW k \in 0 .. n - 1, k \in S PROVE k + 1 \in S
  <2>1. /\ k + 1 \in 1 .. n /\ k + 1 \in 0 .. n /\ k \in 0 .. n /\ (k + 1) - 1 = k /\ f[k + 1] \in Nat
        /\ Sums(f)[k] \in Int /\ Cardinality(upTo(k)) \in Nat /\ IsFiniteSet(upTo(k))
        /\ Sums(f)[k] >= w * Cardinality(upTo(k))
    BY <1>2, <1>a
  <2>2. Sums(f)[k + 1] = Sums(f)[k] + f[k + 1]
    BY <1>b
  <2>3. CASE k + 1 \in P
    <3>1. upTo(k + 1) = upTo(k) \cup {k + 1} /\ k + 1 \notin upTo(k)
      <4>1. \A i \in P : (i <= k + 1) <=> (i <= k \/ i = k + 1)
        BY <1>p, <2>1
      <4>2. k + 1 <= k + 1 /\ ~ (k + 1 <= k)
        BY <2>1
      <4> QED BY <2>3, <4>1, <4>2, Zenon
    <3> HIDE DEF upTo
    <3>2. Cardinality(upTo(k + 1)) = Cardinality(upTo(k)) + 1
      BY <2>1, <3>1, FS_AddElement
    <3>3. f[k + 1] >= w
      BY <2>3
    <3>4. \A m \in Nat : w * (m + 1) = w * m + w /\ w * m \in Nat
      OBVIOUS
    <3>5. Sums(f)[k + 1] >= w * Cardinality(upTo(k + 1))
      BY <2>1, <2>2, <3>2, <3>3, <3>4
    <3> QED BY <2>1, <3>5
  <2>4. CASE k + 1 \notin P
    <3>1. upTo(k + 1) = upTo(k)
      <4>1. \A i \in P : (i <= k + 1) <=> (i <= k)
        BY <1>p, <2>1, <2>4
      <4> QED BY <4>1, Zenon
    <3> HIDE DEF upTo
    <3>2. w * Cardinality(upTo(k)) \in Nat
      BY <2>1
    <3> QED BY <2>1, <2>2, <3>1, <3>2
  <2> QED BY <2>3, <2>4
<1>3. n \in S
  <2>1. \A k \in 0 .. n : k \in S
    <3> HIDE DEF S
    <3> QED BY <1>1, <1>2, NameByName
  <2> QED BY <2>1
<1>4. upTo(n) = P
  BY <1>p
<1> HIDE DEF upTo
<1> QED BY <1>b, <1>a, <1>3, <1>4

--------------------------------------------------------------------------------
(* The rounds of applyPortfolioMaxWeight.                                  *)

OverCap(w) == {i \in DOMAIN w.of : w.of[i] > w.cap}
Free(w) == {i \in DOMAIN w.of : w.of[i] < w.cap}
AtCap(w) == {i \in DOMAIN w.of : w.of[i] = w.cap}
Excess(w) == [i \in DOMAIN w.of |-> IF i \in OverCap(w) THEN w.of[i] - w.cap ELSE 0]
FreeOnly(w) == [i \in DOMAIN w.of |-> IF i \in Free(w) THEN w.of[i] ELSE 0]
AllCapped(w) == [i \in DOMAIN w.of |-> IF i \in OverCap(w) THEN w.cap ELSE w.of[i]]

\* What every round keeps: the cap is the same share of the whole, no more than the whole
\* is placed, a name has weight when it had, no name below the cap passes one that weighed
\* more; and where the names with any weight have room for the whole, all of it is placed.
Between(w, raw, n, cap) ==
  /\ w \in [of : [1 .. n -> Nat], den : Nat \ {0}, cap : Nat \ {0}]
  /\ w.cap * CapUnit = cap * w.den
  /\ NumSum(w.of) <= w.den
  /\ \A i \in 1 .. n : w.of[i] > 0 <=> raw[i] > 0
  /\ \A i, j \in 1 .. n : raw[i] <= raw[j] => w.of[i] <= w.of[j] \/ w.of[j] >= w.cap
  /\ cap * Cardinality({i \in 1 .. n : raw[i] > 0}) >= CapUnit => NumSum(w.of) = w.den

LEMMA RoundIs ==
  ASSUME NEW w, NEW F, F = NumSum(FreeOnly(w)), NEW E, E = NumSum(Excess(w))
  PROVE  /\ OverCap(w) = {} => CapRound(w) = w
         /\ OverCap(w) # {} /\ F = 0 => CapRound(w) = [w EXCEPT !.of = AllCapped(w)]
         /\ OverCap(w) # {} /\ F # 0 =>
              CapRound(w) = [of  |-> [i \in DOMAIN w.of |-> IF i \in Free(w) THEN w.of[i] * (F + E)
                                                           ELSE AllCapped(w)[i] * F],
                             den |-> w.den * F,
                             cap |-> w.cap * F]
BY DEF CapRound, OverCap, Free, Excess, FreeOnly, AllCapped

LEMMA ProductsOfNats ==
  ASSUME NEW x \in Nat, NEW y \in Nat
  PROVE  /\ x * y \in Nat /\ (x * y > 0 <=> x > 0 /\ y > 0) /\ x * y = y * x
         /\ \A z \in Nat : x <= z => x * y <= z * y
OBVIOUS

LEMMA ProductsTurned ==
  ASSUME NEW x \in Int, NEW y \in Int, NEW z \in Int
  PROVE  (x * y) * z = (x * z) * y /\ (x * y) * z = x * (y * z)
OBVIOUS

\* What a round makes of n weights: F weighs what is below the cap, E what is over it.
IsShared(n, w, F, E, of) ==
  /\ n \in Nat /\ w.of \in [1 .. n -> Nat] /\ w.cap \in Nat \ {0}
  /\ F = NumSum(FreeOnly(w)) /\ E = NumSum(Excess(w))
  /\ of = [i \in 1 .. n |-> IF i \in Free(w) THEN w.of[i] * (F + E) ELSE AllCapped(w)[i] * F]

LEMMA SharedSum ==
  ASSUME NEW n, NEW w, NEW F, NEW E, NEW of, IsShared(n, w, F, E, of)
  PROVE  /\ F \in Nat /\ E \in Nat
         /\ \A i \in OverCap(w) : E > 0
         /\ NumSum(AllCapped(w)) = NumSum(w.of) - E
         /\ NumSum(of) = F * NumSum(w.of)
<1> USE DEF IsShared
<1>1. DOMAIN w.of = 1 .. n /\ \A i \in 1 .. n : w.of[i] \in Nat
  OBVIOUS
<1>2. /\ FreeOnly(w) \in [1 .. n -> Nat] /\ Excess(w) \in [1 .. n -> Nat]
      /\ AllCapped(w) \in [1 .. n -> Nat]
  BY <1>1 DEF FreeOnly, Excess, AllCapped, OverCap, Free
<1>3. F \in Nat /\ E \in Nat
  BY <1>2, NatSum
<1>4. \A i \in OverCap(w) : E > 0
  <2> TAKE i \in OverCap(w)
  <2>1. i \in 1 .. n /\ Excess(w)[i] > 0
    BY <1>1 DEF Excess, OverCap
  <2>2. Excess(w)[i] <= E /\ Excess(w)[i] \in Nat
    BY <1>2, <2>1, NatSum
  <2> QED BY <1>3, <2>1, <2>2
<1>5. w.of \in [1 .. n -> Int] /\ FreeOnly(w) \in [1 .. n -> Int] /\ Excess(w) \in [1 .. n -> Int]
      /\ AllCapped(w) \in [1 .. n -> Int]
  BY <1>2
<1>6. NumSum(w.of) \in Int
  BY <1>5, SumSteps
<1>7. NumSum(AllCapped(w)) = NumSum(w.of) - E
  <2>1. PICK x \in Int, y \in Int, z \in Int : x = 1 /\ y = -1 /\ z = 0
    OBVIOUS
  <2>2. \A i \in 1 .. n : AllCapped(w)[i] = x * w.of[i] + y * Excess(w)[i] + z * Excess(w)[i]
    BY <1>1, <2>1 DEF AllCapped, Excess, OverCap
  <2>3. NumSum(AllCapped(w)) = x * NumSum(w.of) + y * NumSum(Excess(w)) + z * NumSum(Excess(w))
    <3>1. PICK f \in [1 .. n -> Int], a \in [1 .. n -> Int], b \in [1 .. n -> Int] :
            f = AllCapped(w) /\ a = w.of /\ b = Excess(w)
      BY <1>5
    <3>2. Combines(n, f, a, b, b, x, y, z)
      BY <2>2, <3>1, Zenon DEF Combines
    <3>3. NumSum(f) = x * NumSum(a) + y * NumSum(b) + z * NumSum(b)
      <4>1. \A g, p, q, t, u, v :
              Combines(n, g, p, q, q, t, u, v) => NumSum(g) = t * NumSum(p) + u * NumSum(q) + v * NumSum(q)
        BY LinearSum
      <4> QED BY <3>2, <4>1
    <3> QED BY <3>1, <3>3, Zenon
  <2> QED BY <1>3, <1>6, <2>1, <2>3
<1>8. NumSum(of) = F * NumSum(w.of)
  <2>1. ASSUME NEW i \in 1 .. n
        PROVE  of[i] \in Int /\ of[i] = F * w.of[i] + E * FreeOnly(w)[i] + (- F) * Excess(w)[i]
    <3>1. CASE i \in Free(w)
      <4>1. of[i] = w.of[i] * (F + E) /\ FreeOnly(w)[i] = w.of[i] /\ Excess(w)[i] = 0
        BY <1>1, <3>1 DEF FreeOnly, Excess, OverCap, Free
      <4>2. PICK x \in Nat : x = w.of[i]
        BY <1>1
      <4>3. x * (F + E) = F * x + E * x + (- F) * 0 /\ x * (F + E) \in Int
        BY <1>3
      <4> QED BY <4>1, <4>2, <4>3, Zenon
    <3>2. CASE i \in OverCap(w)
      <4>1. of[i] = w.cap * F /\ FreeOnly(w)[i] = 0 /\ Excess(w)[i] = w.of[i] - w.cap
        BY <1>1, <3>2 DEF FreeOnly, Excess, AllCapped, OverCap, Free
      <4>2. PICK x \in Nat, y \in Nat : x = w.of[i] /\ y = w.cap
        BY <1>1
      <4>3. y * F = F * x + E * 0 + (- F) * (x - y) /\ y * F \in Int
        BY <1>3
      <4> QED BY <4>1, <4>2, <4>3, Zenon
    <3>3. CASE i \notin Free(w) /\ i \notin OverCap(w)
      <4>1. of[i] = w.of[i] * F /\ FreeOnly(w)[i] = 0 /\ Excess(w)[i] = 0
        BY <1>1, <3>3 DEF FreeOnly, Excess, AllCapped, OverCap, Free
      <4>2. \A x \in Nat : x * F = F * x + E * 0 + (- F) * 0 /\ x * F \in Int
        BY <1>3
      <4> QED BY <1>1, <4>1, <4>2
    <3> QED BY <3>1, <3>2, <3>3
  <2>2. of \in [1 .. n -> Int]
    BY <2>1
  <2>3. PICK z \in Int : z = - F
    BY <1>3
  <2>4. \A i \in 1 .. n : of[i] = F * w.of[i] + E * FreeOnly(w)[i] + z * Excess(w)[i]
    BY <2>1, <2>3, Zenon
  <2>5. F \in Int /\ E \in Int
    BY <1>3
  <2>6. NumSum(of) = F * NumSum(w.of) + E * NumSum(FreeOnly(w)) + z * NumSum(Excess(w))
    <3>1. PICK f \in [1 .. n -> Int], a \in [1 .. n -> Int], b \in [1 .. n -> Int],
               c \in [1 .. n -> Int] :
            f = of /\ a = w.of /\ b = FreeOnly(w) /\ c = Excess(w)
      BY <1>5, <2>2
    <3>2. Combines(n, f, a, b, c, F, E, z)
      BY <2>4, <2>5, <3>1, Zenon DEF Combines
    <3>3. NumSum(f) = F * NumSum(a) + E * NumSum(b) + z * NumSum(c)
      <4>1. \A g, p, q, r, t, u, v :
              Combines(n, g, p, q, r, t, u, v) => NumSum(g) = t * NumSum(p) + u * NumSum(q) + v * NumSum(r)
        BY LinearSum
      <4> QED BY <3>2, <4>1
    <3> QED BY <3>1, <3>3, Zenon
  <2>7. \A s \in Int : F * s + E * F + z * E = F * s
    BY <1>3, <2>3
  <2> QED BY <1>6, <2>6, <2>7
<1> QED BY <1>3, <1>4, <1>7, <1>8

\* What k for each of m places of u, c for each places of d, the shares being equal.
LEMMA RoomForAll ==
  ASSUME NEW c \in Nat \ {0}, NEW d \in Nat \ {0}, NEW u \in Nat \ {0}, NEW k \in Nat \ {0},
         NEW m \in Nat, c * u = k * d, k * m >= u, c * m < d
  PROVE  FALSE
<1>1. PICK q \in Nat : q = c * m
  OBVIOUS
<1>2. k * q < k * d
  BY <1>1
<1>3. k * q = c * (k * m)
  BY <1>1
<1>4. PICK r \in Nat : r = k * m
  OBVIOUS
<1>5. c * r >= c * u
  BY <1>4
<1> QED BY <1>2, <1>3, <1>4, <1>5

\* A round with names over the cap, and no weight below it.
LEMMA CutKeeps ==
  ASSUME NEW n \in Nat, NEW raw \in [1 .. n -> Nat], NEW cap \in Nat \ {0}, NEW w,
         Between(w, raw, n, cap), OverCap(w) # {}, NumSum(FreeOnly(w)) = 0
  PROVE  /\ Between(CapRound(w), raw, n, cap)
         /\ AtCap(w) \cup OverCap(w) \subseteq AtCap(CapRound(w))
<1> DEFINE v == CapRound(w)
           P == {i \in 1 .. n : raw[i] > 0}
<1>1. /\ w \in [of : [1 .. n -> Nat], den : Nat \ {0}, cap : Nat \ {0}]
      /\ w.cap * CapUnit = cap * w.den
      /\ NumSum(w.of) <= w.den
      /\ \A i \in 1 .. n : w.of[i] > 0 <=> raw[i] > 0
      /\ \A i, j \in 1 .. n : raw[i] <= raw[j] => w.of[i] <= w.of[j] \/ w.of[j] >= w.cap
      /\ cap * Cardinality(P) >= CapUnit => NumSum(w.of) = w.den
  BY DEF Between
<1>2. /\ DOMAIN w.of = 1 .. n /\ \A i \in 1 .. n : w.of[i] \in Nat /\ raw[i] \in Nat
      /\ w.of \in [1 .. n -> Nat] /\ w.den \in Nat \ {0} /\ w.cap \in Nat \ {0}
  BY <1>1
<1>3. v.of = AllCapped(w) /\ v.den = w.den /\ v.cap = w.cap /\ v = [w EXCEPT !.of = AllCapped(w)]
  <2>1. v = [w EXCEPT !.of = AllCapped(w)]
    BY RoundIs
  <2> HIDE DEF v
  <2> QED BY <1>1, <2>1
<1>4. AllCapped(w) \in [1 .. n -> Nat] /\ DOMAIN AllCapped(w) = 1 .. n
  BY <1>2 DEF AllCapped
<1>5. PICK E : E = NumSum(Excess(w))
  OBVIOUS
<1>6. E \in Nat /\ E > 0 /\ NumSum(AllCapped(w)) = NumSum(w.of) - E /\ NumSum(w.of) \in Nat
  <2>1. PICK F, of : /\ F = NumSum(FreeOnly(w))
                     /\ of = [i \in 1 .. n |-> IF i \in Free(w) THEN w.of[i] * (F + E) ELSE AllCapped(w)[i] * F]
    OBVIOUS
  <2>2. E \in Nat /\ (\A i \in OverCap(w) : E > 0) /\ NumSum(AllCapped(w)) = NumSum(w.of) - E
    <3>1. IsShared(n, w, F, E, of)
      BY <1>2, <1>5, <2>1, Zenon DEF IsShared
    <3> QED BY <3>1, SharedSum
  <2> QED BY <1>2, <2>2, NatSum
<1>7. \A i \in 1 .. n : AllCapped(w)[i] = IF w.of[i] > w.cap THEN w.cap ELSE w.of[i]
  BY <1>2 DEF AllCapped, OverCap
<1>8. v \in [of : [1 .. n -> Nat], den : Nat \ {0}, cap : Nat \ {0}]
  <2> HIDE DEF v
  <2> QED BY <1>1, <1>3, <1>4
<1>9. NumSum(v.of) <= v.den
  <2> HIDE DEF v
  <2> QED BY <1>1, <1>2, <1>3, <1>6
<1>10. \A i \in 1 .. n : v.of[i] > 0 <=> raw[i] > 0
  BY <1>1, <1>2, <1>3, <1>7
<1>11. \A i, j \in 1 .. n : raw[i] <= raw[j] => v.of[i] <= v.of[j] \/ v.of[j] >= v.cap
  <2> SUFFICES ASSUME NEW i \in 1 .. n, NEW j \in 1 .. n, raw[i] <= raw[j]
               PROVE  AllCapped(w)[i] <= AllCapped(w)[j] \/ AllCapped(w)[j] >= w.cap
    BY <1>3
  <2>1. PICK x \in Nat, y \in Nat, c \in Nat \ {0} : x = w.of[i] /\ y = w.of[j] /\ c = w.cap
    BY <1>2
  <2>2. x <= y \/ y >= c
    BY <1>1, <2>1
  <2>3. /\ AllCapped(w)[i] = IF x > c THEN c ELSE x
        /\ AllCapped(w)[j] = IF y > c THEN c ELSE y
    BY <1>7, <2>1, Zenon
  <2>4. (IF x > c THEN c ELSE x) <= (IF y > c THEN c ELSE y) \/ (IF y > c THEN c ELSE y) >= c
    BY <2>2
  <2> QED BY <2>1, <2>3, <2>4, Zenon
<1>12. cap * Cardinality(P) >= CapUnit => NumSum(v.of) = v.den
  <2> SUFFICES ASSUME cap * Cardinality(P) >= CapUnit PROVE FALSE
    OBVIOUS
  <2>1. \A i \in P : AllCapped(w)[i] >= w.cap
    <3> TAKE i \in P
    <3>1. i \in 1 .. n /\ w.of[i] > 0
      BY <1>1
    <3>2. CASE w.of[i] >= w.cap
      BY <1>2, <1>7, <3>1, <3>2
    <3>3. CASE w.of[i] < w.cap
      <4>1. FreeOnly(w) \in [1 .. n -> Nat] /\ FreeOnly(w)[i] = w.of[i]
        BY <1>2, <3>1, <3>3 DEF FreeOnly, Free
      <4>2. FreeOnly(w)[i] <= 0
        BY <3>1, <4>1, NatSum
      <4> QED BY <1>2, <3>1, <4>1, <4>2
    <3> QED BY <1>2, <3>1, <3>2, <3>3
  <2>2. PICK m : m = Cardinality(P)
    OBVIOUS
  <2>3. m \in Nat /\ NumSum(AllCapped(w)) >= w.cap * m
    <3>1. \A f \in [1 .. n -> Nat], x \in Nat, Q \in SUBSET (1 .. n) :
            (\A i \in Q : f[i] >= x) => Cardinality(Q) \in Nat /\ NumSum(f) >= x * Cardinality(Q)
      BY CountedSum
    <3>2. P \in SUBSET (1 .. n) /\ w.cap \in Nat
      BY <1>2
    <3> HIDE DEF P
    <3>3. Cardinality(P) \in Nat /\ NumSum(AllCapped(w)) >= w.cap * Cardinality(P)
      BY <1>4, <2>1, <3>1, <3>2, Zenon
    <3> QED BY <2>2, <3>3, Zenon
  <2> HIDE DEF P
  <2>4. NumSum(w.of) = w.den /\ cap * m >= CapUnit
    BY <1>1, <2>2
  <2>5. PICK c \in Nat \ {0}, d \in Nat \ {0}, u \in Nat \ {0}, k \in Nat \ {0} :
          c = w.cap /\ d = w.den /\ u = CapUnit /\ k = cap
    BY <1>2, WeightsAssumption
  <2>6. c * u = k * d /\ k * m >= u /\ c * m < d
    BY <1>1, <1>6, <2>3, <2>4, <2>5
  <2> QED BY <2>3, <2>6, RoomForAll
<1>13. AtCap(w) \cup OverCap(w) \subseteq AtCap(v)
  <2> HIDE DEF v
  <2> QED BY <1>2, <1>3, <1>4, <1>7 DEF AtCap, OverCap
<1>14. v.cap * CapUnit = cap * v.den
  BY <1>1, <1>3, Zenon
<1> HIDE DEF v
<1>15. Between(v, raw, n, cap)
  BY <1>8, <1>9, <1>10, <1>11, <1>12, <1>14, Zenon DEF Between
<1> QED BY <1>13, <1>15 DEF v

\* A round that gives the excess to the names below the cap.
LEMMA ShareKeeps ==
  ASSUME NEW n \in Nat, NEW raw \in [1 .. n -> Nat], NEW cap \in Nat \ {0}, NEW w,
         Between(w, raw, n, cap), OverCap(w) # {}, NumSum(FreeOnly(w)) # 0
  PROVE  /\ Between(CapRound(w), raw, n, cap)
         /\ AtCap(w) \cup OverCap(w) \subseteq AtCap(CapRound(w))
<1> DEFINE v == CapRound(w)
           P == {i \in 1 .. n : raw[i] > 0}
<1>1. /\ w \in [of : [1 .. n -> Nat], den : Nat \ {0}, cap : Nat \ {0}]
      /\ w.cap * CapUnit = cap * w.den
      /\ NumSum(w.of) <= w.den
      /\ \A i \in 1 .. n : w.of[i] > 0 <=> raw[i] > 0
      /\ \A i, j \in 1 .. n : raw[i] <= raw[j] => w.of[i] <= w.of[j] \/ w.of[j] >= w.cap
      /\ cap * Cardinality(P) >= CapUnit => NumSum(w.of) = w.den
  BY DEF Between
<1>2. /\ DOMAIN w.of = 1 .. n /\ \A i \in 1 .. n : w.of[i] \in Nat /\ raw[i] \in Nat
      /\ w.of \in [1 .. n -> Nat] /\ w.den \in Nat \ {0} /\ w.cap \in Nat \ {0}
  BY <1>1
<1>3. PICK F, E, of :
        /\ F = NumSum(FreeOnly(w)) /\ E = NumSum(Excess(w))
        /\ of = [i \in 1 .. n |-> IF i \in Free(w) THEN w.of[i] * (F + E) ELSE AllCapped(w)[i] * F]
  OBVIOUS
<1>4. F \in Nat /\ E \in Nat /\ NumSum(of) = F * NumSum(w.of)
  <2>1. IsShared(n, w, F, E, of)
    BY <1>2, <1>3, Zenon DEF IsShared
  <2> QED BY <2>1, SharedSum
<1>5. F > 0 /\ NumSum(w.of) \in Nat
  <2>1. F # 0
    BY <1>3, Zenon
  <2>2. NumSum(w.of) \in Nat
    BY <1>2, NatSum
  <2> QED BY <1>4, <2>1, <2>2
<1>6. v = [of |-> of, den |-> w.den * F, cap |-> w.cap * F]
  <2>1. OverCap(w) # {} /\ F # 0 =>
          v = [of  |-> [i \in DOMAIN w.of |-> IF i \in Free(w) THEN w.of[i] * (F + E)
                                             ELSE AllCapped(w)[i] * F],
               den |-> w.den * F, cap |-> w.cap * F]
    BY <1>3, RoundIs
  <2>2. F # 0 /\ DOMAIN w.of = 1 .. n
    BY <1>2, <1>5
  <2> QED BY <1>3, <2>1, <2>2, Zenon
<1>7. v.of = of /\ v.den = w.den * F /\ v.cap = w.cap * F
  <2> HIDE DEF v
  <2> QED BY <1>6
\* What a name gets.
<1>8. \A i \in 1 .. n : \E x \in Nat, c \in Nat \ {0} :
        /\ x = w.of[i] /\ c = w.cap
        /\ of[i] = IF x < c THEN x * (F + E) ELSE c * F
  <2> TAKE i \in 1 .. n
  <2>1. PICK x \in Nat, c \in Nat \ {0} : x = w.of[i] /\ c = w.cap
    BY <1>2
  <2>2. of[i] = IF x < c THEN x * (F + E) ELSE AllCapped(w)[i] * F
    BY <1>2, <1>3, <2>1, Zenon DEF Free
  <2>3. AllCapped(w)[i] = IF x > c THEN c ELSE x
    BY <1>2, <2>1, Zenon DEF AllCapped, OverCap
  <2>4. x < c \/ (x > c /\ AllCapped(w)[i] = c) \/ (x = c /\ AllCapped(w)[i] = c)
    BY <2>1, <2>3
  <2>5. of[i] = IF x < c THEN x * (F + E) ELSE c * F
    BY <2>2, <2>4, Zenon
  <2> QED BY <2>1, <2>5
<1>9. PICK S \in Nat : S = NumSum(w.of)
  BY <1>5
<1>10. PICK d \in Nat \ {0}, c \in Nat \ {0}, u \in Nat \ {0} : d = w.den /\ c = w.cap /\ u = CapUnit
  BY <1>2, WeightsAssumption
<1>11. v.den \in Nat \ {0} /\ v.cap \in Nat \ {0} /\ d * F \in Nat \ {0} /\ c * F \in Nat \ {0}
  <2>1. d * F \in Nat \ {0} /\ c * F \in Nat \ {0}
    BY <1>4, <1>5
  <2> QED BY <1>7, <1>10, <2>1, Zenon
<1>12. \A i \in 1 .. n : of[i] \in Nat /\ (of[i] > 0 <=> w.of[i] > 0)
  <2> TAKE i \in 1 .. n
  <2>1. PICK x \in Nat : x = w.of[i] /\ of[i] = IF x < c THEN x * (F + E) ELSE c * F
    BY <1>8, <1>10, Zenon
  <2>2. x * (F + E) \in Nat /\ (x * (F + E) > 0 <=> x > 0)
    <3>1. F + E \in Nat /\ F + E > 0
      BY <1>4, <1>5
    <3> QED BY <3>1, ProductsOfNats
  <2> QED BY <1>11, <2>1, <2>2
<1>13. v \in [of : [1 .. n -> Nat], den : Nat \ {0}, cap : Nat \ {0}]
  <2>1. of \in [1 .. n -> Nat]
    BY <1>3, <1>12
  <2> HIDE DEF v
  <2> QED BY <1>6, <1>7, <1>11, <2>1
<1>14. v.cap * CapUnit = cap * v.den
  <2>1. c * u = cap * d
    BY <1>1, <1>10
  <2>2. (c * F) * u = cap * (d * F)
    BY <1>4, <2>1
  <2> QED BY <1>7, <1>10, <2>2, Zenon
<1>15. NumSum(v.of) <= v.den
  <2>1. S <= d
    BY <1>1, <1>9, <1>10
  <2>2. F * S <= d * F
    BY <1>4, <2>1
  <2> QED BY <1>4, <1>7, <1>9, <1>10, <2>2
<1>16. \A i \in 1 .. n : v.of[i] > 0 <=> raw[i] > 0
  BY <1>1, <1>7, <1>12, Zenon
<1>17. \A i, j \in 1 .. n : raw[i] <= raw[j] => v.of[i] <= v.of[j] \/ v.of[j] >= v.cap
  <2> SUFFICES ASSUME NEW i \in 1 .. n, NEW j \in 1 .. n, raw[i] <= raw[j]
               PROVE  of[i] <= of[j] \/ of[j] >= c * F
    BY <1>7, <1>10
  <2>1. PICK x \in Nat : x = w.of[i] /\ of[i] = IF x < c THEN x * (F + E) ELSE c * F
    BY <1>8, <1>10, Zenon
  <2>2. PICK y \in Nat : y = w.of[j] /\ of[j] = IF y < c THEN y * (F + E) ELSE c * F
    BY <1>8, <1>10, Zenon
  <2>3. x <= y \/ y >= c
    BY <1>1, <1>10, <2>1, <2>2
  <2>4. CASE y < c
    <3>1. x <= y /\ x < c
      BY <2>3, <2>4
    <3>2. F + E \in Nat
      BY <1>4
    <3>3. x * (F + E) <= y * (F + E)
      BY <3>1, <3>2, ProductsOfNats
    <3>4. of[i] = x * (F + E) /\ of[j] = y * (F + E)
      BY <2>1, <2>2, <2>4, <3>1, Zenon
    <3> QED BY <3>3, <3>4, Zenon
  <2>5. CASE ~ (y < c)
    BY <1>11, <2>2, <2>5
  <2> QED BY <2>4, <2>5
<1>18. cap * Cardinality(P) >= CapUnit => NumSum(v.of) = v.den
  <2> SUFFICES ASSUME S = d PROVE NumSum(of) = w.den * F
    BY <1>1, <1>7, <1>9, <1>10, Zenon
  <2>1. F * S = d * F
    BY <1>4
  <2> QED BY <1>4, <1>9, <1>10, <2>1, Zenon
<1>19. AtCap(w) \cup OverCap(w) \subseteq AtCap(v)
  <2> SUFFICES ASSUME NEW i \in AtCap(w) \cup OverCap(w) PROVE i \in DOMAIN of /\ of[i] = c * F
    BY <1>7, <1>10, Zenon DEF AtCap
  <2>1. i \in 1 .. n /\ (w.of[i] = c \/ w.of[i] > c)
    BY <1>2, <1>10, Zenon DEF AtCap, OverCap
  <2>2. PICK x \in Nat : x = w.of[i] /\ of[i] = IF x < c THEN x * (F + E) ELSE c * F
    BY <1>8, <1>10, <2>1, Zenon
  <2>3. ~ (x < c)
    BY <2>1, <2>2
  <2> QED BY <1>3, <2>1, <2>2, <2>3, Zenon
<1> HIDE DEF v
<1>20. Between(v, raw, n, cap)
  BY <1>13, <1>14, <1>15, <1>16, <1>17, <1>18, Zenon DEF Between
<1> QED BY <1>19, <1>20 DEF v

LEMMA RoundKeeps ==
  ASSUME NEW n \in Nat, NEW raw \in [1 .. n -> Nat], NEW cap \in Nat \ {0}, NEW w,
         Between(w, raw, n, cap)
  PROVE  /\ Between(CapRound(w), raw, n, cap)
         /\ OverCap(w) = {} => CapRound(w) = w
         /\ OverCap(w) # {} => AtCap(w) \cup OverCap(w) \subseteq AtCap(CapRound(w))
<1>1. CASE OverCap(w) = {}
  <2>1. CapRound(w) = w
    BY <1>1 DEF CapRound, OverCap
  <2> QED BY <1>1, <2>1
<1>2. CASE OverCap(w) # {} /\ NumSum(FreeOnly(w)) = 0
  BY <1>2, CutKeeps
<1>3. CASE OverCap(w) # {} /\ NumSum(FreeOnly(w)) # 0
  BY <1>3, ShareKeeps
<1> QED BY <1>1, <1>2, <1>3

LEMMA RoundByRound ==
  ASSUME NEW last \in Nat, NEW start
  PROVE  /\ CapRounds(start, last)[0] = start
         /\ \A k \in 1 .. last : CapRounds(start, last)[k] = CapRound(CapRounds(start, last)[k - 1])
<1> DEFINE Is(g, k) == g = [i \in 0 .. k |-> IF i = 0 THEN start ELSE CapRound(g[i - 1])]
           Has      == {k \in Nat : \E g : Is(g, k)}
<1>1. CapRounds(start, last) = CHOOSE g : Is(g, last)
  BY DEF CapRounds
<1>2. 0 \in Has
  <2>1. Is([i \in 0 .. 0 |-> start], 0)
    OBVIOUS
  <2> QED BY <2>1
<1>3. ASSUME NEW k \in Has PROVE k + 1 \in Has
  <2>1. PICK g : Is(g, k)
    OBVIOUS
  <2> DEFINE h == [i \in 0 .. k + 1 |-> IF i = 0 THEN start ELSE CapRound(g[i - 1])]
  <2>2. k \in Nat /\ \A i \in 0 .. k : h[i] = g[i]
    BY <2>1
  <2>3. ASSUME NEW i \in 0 .. k + 1, i # 0 PROVE h[i - 1] = g[i - 1]
    <3>1. i - 1 \in 0 .. k
      BY <2>2, <2>3
    <3> QED BY <2>2, <3>1
  <2>4. Is(h, k + 1)
    BY <2>3
  <2> HIDE DEF Is, h
  <2> QED BY <2>2, <2>4
<1>4. last \in Has
  <2>1. Has \in SUBSET Nat
    OBVIOUS
  <2> HIDE DEF Has
  <2> QED BY <1>2, <1>3, <2>1, InductiveSet
<1>5. Is(CapRounds(start, last), last)
  <2>1. \E g : Is(g, last)
    BY <1>4
  <2> HIDE DEF Is
  <2> QED BY <1>1, <2>1
<1> QED BY <1>5

\* After as many rounds as there are names, and one more, no name is over the cap.
LEMMA RoundsEnd ==
  ASSUME NEW n \in Nat, NEW raw \in [1 .. n -> Nat], NEW cap \in Nat \ {0},
         NEW start, Between(start, raw, n, cap), NEW last \in Nat, last > n
  PROVE  /\ Between(CapRounds(start, last)[last], raw, n, cap)
         /\ OverCap(CapRounds(start, last)[last]) = {}
<1> DEFINE rounds == CapRounds(start, last)
           Good(w, k) == /\ Between(w, raw, n, cap)
                         /\ OverCap(w) = {} \/ Cardinality(AtCap(w)) >= k
           S == {k \in 0 .. last : Good(rounds[k], k)}
<1>1. rounds[0] = start /\ \A k \in 0 .. last - 1 : rounds[k + 1] = CapRound(rounds[k])
  <2>1. rounds[0] = start /\ \A k \in 1 .. last : rounds[k] = CapRound(rounds[k - 1])
    BY RoundByRound
  <2> HIDE DEF rounds
  <2>2. \A k \in 0 .. last - 1 : k + 1 \in 1 .. last /\ (k + 1) - 1 = k
    OBVIOUS
  <2> QED BY <2>1, <2>2
<1> HIDE DEF rounds
<1>2. ASSUME NEW w, Between(w, raw, n, cap)
      PROVE  /\ AtCap(w) \in SUBSET (1 .. n) /\ IsFiniteSet(AtCap(w)) /\ Cardinality(AtCap(w)) \in 0 .. n
             /\ OverCap(w) \in SUBSET (1 .. n) /\ OverCap(w) \cap AtCap(w) = {}
  <2>1. /\ DOMAIN w.of = 1 .. n /\ \A i \in 1 .. n : w.of[i] \in Nat
        /\ w.cap \in Nat
    BY <1>2 DEF Between
  <2>2. AtCap(w) \in SUBSET (1 .. n) /\ OverCap(w) \in SUBSET (1 .. n) /\ OverCap(w) \cap AtCap(w) = {}
    BY <2>1 DEF AtCap, OverCap
  <2>3. IsFiniteSet(1 .. n) /\ Cardinality(1 .. n) = n
    BY FS_Interval
  <2>4. IsFiniteSet(AtCap(w)) /\ Cardinality(AtCap(w)) <= Cardinality(1 .. n)
    BY <2>2, <2>3, FS_Subset
  <2>5. Cardinality(AtCap(w)) \in Nat
    BY <2>4, FS_CardinalityType
  <2> QED BY <2>2, <2>3, <2>4, <2>5
<1>3. 0 \in S
  <2>1. Good(start, 0)
    BY <1>2
  <2> QED BY <1>1, <2>1
<1>4. ASSUME NEW k \in 0 .. last - 1, k \in S PROVE k + 1 \in S
  <2>1. PICK w : w = rounds[k]
    OBVIOUS
  <2>2. PICK v : v = CapRound(w)
    OBVIOUS
  <2>3. Between(w, raw, n, cap) /\ (OverCap(w) = {} \/ Cardinality(AtCap(w)) >= k) /\ rounds[k + 1] = v
    BY <1>1, <1>4, <2>1, <2>2
  <2>4. /\ Between(v, raw, n, cap)
        /\ OverCap(w) = {} => v = w
        /\ OverCap(w) # {} => AtCap(w) \cup OverCap(w) \subseteq AtCap(v)
    BY <2>2, <2>3, RoundKeeps
  <2>5. CASE OverCap(w) = {}
    BY <2>3, <2>4, <2>5
  <2>6. CASE OverCap(w) # {}
    <3>1. PICK i : i \in OverCap(w)
      BY <2>6
    <3>2. /\ IsFiniteSet(AtCap(w)) /\ Cardinality(AtCap(w)) \in Nat /\ i \notin AtCap(w)
          /\ IsFiniteSet(AtCap(v)) /\ Cardinality(AtCap(v)) \in Nat
      BY <1>2, <2>3, <2>4, <3>1
    <3>3. Cardinality(AtCap(w) \cup {i}) = Cardinality(AtCap(w)) + 1
      BY <3>2, FS_AddElement
    <3>4. AtCap(w) \cup {i} \subseteq AtCap(v)
      BY <2>4, <2>6, <3>1
    <3>5. Cardinality(AtCap(w) \cup {i}) <= Cardinality(AtCap(v))
      BY <3>2, <3>4, FS_Subset
    <3>6. Cardinality(AtCap(v)) >= k + 1
      BY <2>3, <2>6, <3>2, <3>3, <3>5
    <3> QED BY <2>3, <2>4, <3>6
  <2> QED BY <2>5, <2>6
<1>5. last \in S
  <2>0. last \in 0 .. last
    OBVIOUS
  <2>1. \A k \in 0 .. last : k \in S
    <3> HIDE DEF S
    <3> QED BY <1>3, <1>4, NameByName
  <2> QED BY <2>0, <2>1
<1>6. PICK w : w = rounds[last]
  OBVIOUS
<1>7. Between(w, raw, n, cap) /\ (OverCap(w) = {} \/ Cardinality(AtCap(w)) >= last)
  BY <1>5, <1>6
<1>8. Cardinality(AtCap(w)) \in 0 .. n
  BY <1>2, <1>7
<1>9. OverCap(w) = {}
  BY <1>7, <1>8
<1> QED BY <1>6, <1>7, <1>9 DEF rounds

--------------------------------------------------------------------------------
(* What the names get.                                                     *)

\* Weights of n names that are shares of a whole.
AreShares(weights, n) ==
  /\ weights.of \in [1 .. n -> Nat] /\ weights.den \in Nat \ {0}
  /\ NumSum(weights.of) <= weights.den

\* And leave nothing of it.
AreWhole(weights, n) == AreShares(weights, n) /\ NumSum(weights.of) = weights.den

LEMMA EqualAreWhole ==
  ASSUME NEW n \in Nat \ {0}
  PROVE  AreWhole(EqualWeights(n), n)
<1> DEFINE ones == [i \in 1 .. n |-> 1]
           sums == Sums(ones)
           S == {k \in 0 .. n : sums[k] = k}
<1>1. ones \in [1 .. n -> Nat] /\ ones \in [1 .. n -> Int] /\ \A i \in 1 .. n : ones[i] = 1
  OBVIOUS
<1> HIDE DEF ones
<1>2. sums[0] = 0 /\ NumSum(ones) = sums[n] /\ \A k \in 0 .. n - 1 : sums[k + 1] = sums[k] + ones[k + 1]
  BY <1>1, SumSteps
<1> HIDE DEF sums
<1>3. 0 \in S
  BY <1>2
<1>4. ASSUME NEW k \in 0 .. n - 1, k \in S PROVE k + 1 \in S
  <2>1. k + 1 \in 1 .. n /\ k + 1 \in 0 .. n /\ sums[k] = k
    BY <1>4
  <2> QED BY <1>1, <1>2, <2>1
<1>5. NumSum(ones) = n
  <2>0. n \in 0 .. n
    OBVIOUS
  <2>1. \A k \in 0 .. n : k \in S
    <3> HIDE DEF S
    <3> QED BY <1>3, <1>4, NameByName
  <2> QED BY <1>2, <2>0, <2>1
<1>6. EqualWeights(n).of = ones /\ EqualWeights(n).den = n
  BY DEF EqualWeights, Weighted, ones
<1> QED BY <1>1, <1>5, <1>6 DEF AreWhole, AreShares

LEMMA NormalisedAreWhole ==
  ASSUME NEW n \in Nat \ {0}, NEW nums \in [1 .. n -> Nat]
  PROVE  AreWhole(NormaliseWeights(nums), n)
<1>1. Len(nums) = n
  OBVIOUS
<1>2. NumSum(nums) \in Nat
  BY NatSum
<1>3. CASE NumSum(nums) > 0
  BY <1>2, <1>3 DEF NormaliseWeights, Weighted, AreWhole, AreShares
<1>4. CASE ~ (NumSum(nums) > 0)
  BY <1>1, <1>4, EqualAreWhole DEF NormaliseWeights
<1> QED BY <1>3, <1>4

LEMMA MultipleIsNat ==
  ASSUME NEW n \in Nat, NEW vols \in [1 .. n -> Nat]
  PROVE  Multiples(vols)[n] \in Nat
<1> DEFINE Is(g, k) == g = [i \in 0 .. k |->
                         IF i = 0 THEN 1 ELSE IF vols[i] = 0 THEN g[i - 1] ELSE vols[i] * g[i - 1]]
           Has      == {k \in Nat : \E g : Is(g, k)}
<1>0. Len(vols) = n
  OBVIOUS
<1>1. Multiples(vols) = CHOOSE g : Is(g, n)
  BY <1>0 DEF Multiples
<1>2. 0 \in Has
  <2>1. Is([i \in 0 .. 0 |-> 1], 0)
    OBVIOUS
  <2> QED BY <2>1
<1>3. ASSUME NEW k \in Has PROVE k + 1 \in Has
  <2>1. PICK g : Is(g, k)
    OBVIOUS
  <2> DEFINE h == [i \in 0 .. k + 1 |->
                    IF i = 0 THEN 1 ELSE IF vols[i] = 0 THEN g[i - 1] ELSE vols[i] * g[i - 1]]
  <2>2. k \in Nat /\ \A i \in 0 .. k : h[i] = g[i]
    BY <2>1
  <2>3. ASSUME NEW i \in 0 .. k + 1, i # 0 PROVE h[i - 1] = g[i - 1]
    <3>1. i - 1 \in 0 .. k
      BY <2>2, <2>3
    <3> QED BY <2>2, <3>1
  <2>4. Is(h, k + 1)
    BY <2>3
  <2> HIDE DEF Is, h
  <2> QED BY <2>2, <2>4
<1>4. n \in Has
  <2>1. Has \in SUBSET Nat
    OBVIOUS
  <2> HIDE DEF Has
  <2> QED BY <1>2, <1>3, <2>1, InductiveSet
<1>5. Is(Multiples(vols), n)
  <2>1. \E g : Is(g, n)
    BY <1>4
  <2> HIDE DEF Is
  <2> QED BY <1>1, <2>1
<1>6. PICK multiple : multiple = Multiples(vols)
  OBVIOUS
<1>7. /\ multiple[0] = 1
      /\ \A i \in 1 .. n : multiple[i] = IF vols[i] = 0 THEN multiple[i - 1] ELSE vols[i] * multiple[i - 1]
  BY <1>5, <1>6
<1> DEFINE S == {k \in 0 .. n : multiple[k] \in Nat}
<1>8. 0 \in S
  BY <1>7
<1>9. ASSUME NEW k \in 0 .. n - 1, k \in S PROVE k + 1 \in S
  <2>1. k + 1 \in 1 .. n /\ (k + 1) - 1 = k /\ k + 1 \in 0 .. n
    OBVIOUS
  <2>2. PICK x \in Nat, y \in Nat : x = vols[k + 1] /\ y = multiple[k]
    BY <1>9, <2>1
  <2>3. multiple[k + 1] = IF x = 0 THEN y ELSE x * y
    BY <1>7, <2>1, <2>2
  <2>4. x * y \in Nat
    OBVIOUS
  <2>5. multiple[k + 1] \in Nat
    BY <2>3, <2>4
  <2> QED BY <2>1, <2>5
<1>10. \A k \in 0 .. n : k \in S
  <2> HIDE DEF S
  <2> QED BY <1>8, <1>9, NameByName
<1>11. n \in 0 .. n
  OBVIOUS
<1> QED BY <1>6, <1>10, <1>11

LEMMA InverseVolAreWhole ==
  ASSUME NEW n \in Nat \ {0}, NEW vols \in [1 .. n -> Nat]
  PROVE  AreWhole(InverseVolWeights(vols), n)
<1>1. Len(vols) = n /\ DOMAIN vols = 1 .. n
  OBVIOUS
<1>2. PICK m \in Nat : m = Multiples(vols)[n]
  BY MultipleIsNat
<1>3. PICK nums : nums = [i \in 1 .. n |-> IF vols[i] = 0 THEN 0 ELSE m \div vols[i]]
  OBVIOUS
<1>4. nums \in [1 .. n -> Nat]
  <2>1. ASSUME NEW i \in 1 .. n PROVE (IF vols[i] = 0 THEN 0 ELSE m \div vols[i]) \in Nat
    <3>1. PICK x \in Nat : x = vols[i]
      OBVIOUS
    <3>2. x # 0 => m \div x \in Nat
      OBVIOUS
    <3> QED BY <3>1, <3>2
  <2> QED BY <1>3, <2>1
<1>5. InverseVolWeights(vols) = NormaliseWeights(nums)
  BY <1>1, <1>2, <1>3, Zenon DEF InverseVolWeights
<1> QED BY <1>4, <1>5, NormalisedAreWhole

\* What applyPortfolioMaxWeight keeps of the weights it is given.
LEMMA CappedKeeps ==
  ASSUME NEW n \in Nat \ {0}, NEW raw, AreWhole(raw, n), NEW cap \in Nat,
         NEW w, w = ApplyMaxWeight(raw, cap)
  PROVE  /\ AreShares(w, n)
         /\ cap * n > CapUnit =>
              /\ \A i \in 1 .. n : w.of[i] * CapUnit <= cap * w.den
              /\ \A i, j \in 1 .. n : raw.of[i] <= raw.of[j] => w.of[i] <= w.of[j]
              /\ cap * Cardinality({i \in 1 .. n : raw.of[i] > 0}) >= CapUnit => NumSum(w.of) = w.den
<1>1. /\ raw.of \in [1 .. n -> Nat] /\ raw.den \in Nat \ {0} /\ NumSum(raw.of) = raw.den
      /\ Len(raw.of) = n /\ \A i \in 1 .. n : raw.of[i] \in Nat
  BY DEF AreWhole, AreShares
<1>2. CapUnit \in Nat \ {0}
  BY WeightsAssumption
<1>3. CASE cap * n <= CapUnit
  <2>1. w = EqualWeights(n)
    BY <1>1, <1>3, Zenon DEF ApplyMaxWeight
  <2>2. AreShares(w, n)
    BY <2>1, EqualAreWhole DEF AreWhole
  <2>3. cap * n \in Nat
    OBVIOUS
  <2> QED BY <1>2, <1>3, <2>2, <2>3
<1>4. CASE ~ (cap * n <= CapUnit)
  <2>1. cap # 0
    <3>1. 0 * n = 0
      OBVIOUS
    <3> QED BY <1>2, <1>4, <3>1
  <2>2. PICK start : start = [of |-> [i \in 1 .. n |-> raw.of[i] * CapUnit],
                              den |-> raw.den * CapUnit, cap |-> cap * raw.den]
    OBVIOUS
  <2>3. PICK end : end = CapRounds(start, 2 * n + 2)[2 * n + 2]
    OBVIOUS
  <2>4. w = Weighted(end.of, end.den)
    BY <1>1, <1>4, <2>2, <2>3, Zenon DEF ApplyMaxWeight
  <2>5. PICK d \in Nat \ {0}, u \in Nat \ {0}, k \in Nat \ {0} : d = raw.den /\ u = CapUnit /\ k = cap
    BY <1>1, <1>2, <2>1
  <2>6. start = [of |-> start.of, den |-> start.den, cap |-> start.cap]
    BY <2>2
  <2>7. start.of = [i \in 1 .. n |-> raw.of[i] * u] /\ start.den = d * u /\ start.cap = k * d
    BY <2>2, <2>5
  <2>8. /\ d * u \in Nat \ {0} /\ k * d \in Nat \ {0} /\ (k * d) * u = k * (d * u)
        /\ \A x \in Nat : x * u \in Nat /\ (x * u > 0 <=> x > 0)
        /\ \A x, y \in Nat : x <= y => x * u <= y * u
    <3>1. \A x \in Nat : x * u \in Nat /\ (x * u > 0 <=> x > 0)
      BY ProductsOfNats
    <3>2. \A x, y \in Nat : x <= y => x * u <= y * u
      OBVIOUS
    <3>3. d * u \in Nat \ {0} /\ k * d \in Nat \ {0} /\ (k * d) * u = k * (d * u)
      OBVIOUS
    <3> QED BY <3>1, <3>2, <3>3
  <2>9. start.of \in [1 .. n -> Nat] /\ \A i \in 1 .. n : start.of[i] = raw.of[i] * u
    BY <1>1, <2>7, <2>8
  <2>10. NumSum(start.of) = start.den
    <3>1. PICK f \in [1 .. n -> Int], a \in [1 .. n -> Int] : f = start.of /\ a = raw.of
      BY <1>1, <2>9
    <3>2. PICK z \in Int : z = 0
      OBVIOUS
    <3>3. \A i \in 1 .. n : f[i] = u * a[i] + z * a[i] + z * a[i]
      <4> TAKE i \in 1 .. n
      <4>1. PICK x \in Nat : x = a[i]
        BY <1>1, <3>1
      <4>2. f[i] = x * u
        BY <2>9, <3>1, <4>1
      <4>3. x * u = u * x + z * x + z * x
        BY <3>2
      <4> QED BY <4>1, <4>2, <4>3, Zenon
    <3>4. Combines(n, f, a, a, a, u, z, z)
      BY <3>3 DEF Combines
    <3>5. NumSum(f) = u * NumSum(a) + z * NumSum(a) + z * NumSum(a)
      <4>1. \A g, p, q, r, t, v, o :
              Combines(n, g, p, q, r, t, v, o) => NumSum(g) = t * NumSum(p) + v * NumSum(q) + o * NumSum(r)
        BY LinearSum
      <4> QED BY <3>4, <4>1
    <3>6. NumSum(a) = d
      BY <1>1, <2>5, <3>1
    <3>7. NumSum(f) = d * u
      BY <3>2, <3>5, <3>6
    <3> QED BY <2>7, <3>1, <3>7, Zenon
  <2>11. Between(start, raw.of, n, cap)
    <3>1. start \in [of : [1 .. n -> Nat], den : Nat \ {0}, cap : Nat \ {0}]
      BY <2>6, <2>7, <2>8, <2>9
    <3>2. start.cap * CapUnit = cap * start.den
      BY <2>5, <2>7, <2>8, Zenon
    <3>3. NumSum(start.of) <= start.den
      <4>1. PICK q \in Nat : q = start.den
        BY <2>7, <2>8
      <4>2. NumSum(start.of) = q /\ q <= q
        BY <2>10, <4>1
      <4> QED BY <4>1, <4>2, Zenon
    <3>4. \A i \in 1 .. n : start.of[i] > 0 <=> raw.of[i] > 0
      <4> TAKE i \in 1 .. n
      <4>1. PICK x \in Nat : x = raw.of[i]
        BY <1>1
      <4>2. x * u > 0 <=> x > 0
        BY <2>8, Zenon
      <4> QED BY <2>9, <4>1, <4>2, Zenon
    <3>5. \A i, j \in 1 .. n : raw.of[i] <= raw.of[j] => start.of[i] <= start.of[j]
      <4> SUFFICES ASSUME NEW i \in 1 .. n, NEW j \in 1 .. n, raw.of[i] <= raw.of[j]
                   PROVE  start.of[i] <= start.of[j]
        OBVIOUS
      <4>1. PICK x \in Nat, y \in Nat : x = raw.of[i] /\ y = raw.of[j]
        BY <1>1
      <4>2. x * u <= y * u
        BY <2>8, <4>1
      <4> QED BY <2>9, <4>1, <4>2, Zenon
    <3> QED BY <2>10, <3>1, <3>2, <3>3, <3>4, <3>5, Zenon DEF Between
  <2>12. Between(end, raw.of, n, cap) /\ OverCap(end) = {}
    <3>1. PICK last \in Nat : last = 2 * n + 2
      OBVIOUS
    <3>2. last > n /\ end = CapRounds(start, last)[last]
      BY <2>3, <3>1
    <3> QED BY <1>1, <2>1, <2>11, <3>2, RoundsEnd
  <2>13. w.of = end.of /\ w.den = end.den
    BY <2>4 DEF Weighted
  <2>14. /\ end \in [of : [1 .. n -> Nat], den : Nat \ {0}, cap : Nat \ {0}]
         /\ end.cap * CapUnit = cap * end.den
         /\ NumSum(end.of) <= end.den
         /\ \A i, j \in 1 .. n : raw.of[i] <= raw.of[j] => end.of[i] <= end.of[j] \/ end.of[j] >= end.cap
         /\ cap * Cardinality({i \in 1 .. n : raw.of[i] > 0}) >= CapUnit => NumSum(end.of) = end.den
    BY <2>12, Zenon DEF Between
  <2>15. \A i \in 1 .. n : end.of[i] \in Nat /\ end.of[i] <= end.cap /\ end.cap \in Nat /\ end.den \in Nat
    <3> TAKE i \in 1 .. n
    <3>1. i \notin OverCap(end)
      BY <2>12
    <3> QED BY <2>14, <3>1 DEF OverCap
  <2>16. \A i \in 1 .. n : end.of[i] * CapUnit <= cap * end.den
    <3> TAKE i \in 1 .. n
    <3>1. PICK x \in Nat, c \in Nat : x = end.of[i] /\ c = end.cap
      BY <2>15
    <3>2. x <= c
      BY <2>15, <3>1
    <3>3. x * u <= c * u
      BY <2>8, <3>2
    <3> QED BY <2>5, <2>14, <3>1, <3>3, Zenon
  <2>17. \A i, j \in 1 .. n : raw.of[i] <= raw.of[j] => end.of[i] <= end.of[j]
    BY <2>14, <2>15
  <2>18. AreShares(w, n)
    BY <2>13, <2>14 DEF AreShares
  <2> QED BY <2>13, <2>14, <2>16, <2>17, <2>18, Zenon
<1> QED BY <1>3, <1>4

\* What scalePortfolioGrossAndVol makes of shares are shares.
LEMMA ScaledAreShares ==
  ASSUME NEW n \in Nat \ {0}, NEW w, AreShares(w, n), NEW gross \in 0 .. CapUnit
  PROVE  NumSum(ScaleGross(w, gross).of) <= ScaleGross(w, gross).den
<1>1. /\ w.of \in [1 .. n -> Nat] /\ w.den \in Nat \ {0} /\ NumSum(w.of) <= w.den /\ DOMAIN w.of = 1 .. n
      /\ gross \in Nat /\ CapUnit \in Nat /\ gross <= CapUnit
  BY WeightsAssumption DEF AreShares
<1>2. PICK f : f = [i \in 1 .. n |-> w.of[i] * gross]
  OBVIOUS
<1>3. ScaleGross(w, gross).of = f /\ ScaleGross(w, gross).den = w.den * CapUnit
  BY <1>1, <1>2 DEF ScaleGross, Weighted
<1>4. PICK a \in [1 .. n -> Int] : a = w.of /\ \A i \in 1 .. n : a[i] \in Nat
  BY <1>1
<1>5. PICK z \in Int : z = 0
  OBVIOUS
<1>6. \A i \in 1 .. n : f[i] \in Int /\ f[i] = gross * a[i] + z * a[i] + z * a[i]
  <2> TAKE i \in 1 .. n
  <2>1. PICK x \in Nat : x = a[i]
    BY <1>4
  <2>2. f[i] = x * gross
    BY <1>2, <1>4, <2>1
  <2>3. x * gross = gross * x + z * x + z * x /\ x * gross \in Int
    BY <1>1, <1>5
  <2> QED BY <2>1, <2>2, <2>3, Zenon
<1>7. Combines(n, f, a, a, a, gross, z, z)
  <2>1. n \in Nat /\ gross \in Int
    BY <1>1
  <2>2. f \in [1 .. n -> Int]
    BY <1>2, <1>6
  <2> QED BY <1>4, <1>5, <1>6, <2>1, <2>2, Zenon DEF Combines
<1>8. NumSum(f) = gross * NumSum(a) + z * NumSum(a) + z * NumSum(a)
  <2>1. \A g, p, q, r, t, v, o :
          Combines(n, g, p, q, r, t, v, o) => NumSum(g) = t * NumSum(p) + v * NumSum(q) + o * NumSum(r)
    BY LinearSum
  <2> QED BY <1>7, <2>1
<1>9. PICK s \in Nat, d \in Nat, u \in Nat : s = NumSum(a) /\ d = w.den /\ u = CapUnit
  BY <1>1, <1>4, NatSum
<1>10. s <= d /\ gross <= u
  BY <1>1, <1>4, <1>9
<1>11. gross * s <= d * u
  <2>1. \A p, q, r \in Nat : q <= r => p * q <= p * r
    OBVIOUS
  <2>2. \A p, q, r \in Nat : q <= r => q * p <= r * p
    OBVIOUS
  <2>3. gross \in Nat
    BY <1>1
  <2>4. gross * s <= gross * d
    BY <1>9, <1>10, <2>1, <2>3
  <2>5. gross * d <= u * d
    BY <1>9, <1>10, <2>2, <2>3
  <2>6. \A p, q \in Nat : p * q = q * p /\ p * q \in Nat
    OBVIOUS
  <2>7. \A p, q, r \in Nat : p <= q /\ q <= r => p <= r
    OBVIOUS
  <2>8. gross * s \in Nat /\ gross * d \in Nat /\ u * d \in Nat /\ u * d = d * u
    BY <1>9, <2>3, <2>6
  <2>9. gross * s <= u * d
    BY <2>4, <2>5, <2>7, <2>8, Zenon
  <2> QED BY <2>8, <2>9, Zenon
<1>12. NumSum(f) = gross * s
  BY <1>1, <1>5, <1>8, <1>9
<1> QED BY <1>3, <1>9, <1>11, <1>12, Zenon

\* What each method starts from.
LEMMA RawAreWhole ==
  ASSUME NEW n \in Nat \ {0}, NEW longs \in [1 .. n -> [vol : Vols, score : Scores]],
         NEW method \in {"equal_weight", "inverse_vol", "signal_proportional", "risk_parity"},
         NEW raw \in RawWeights(method, longs)
  PROVE  AreWhole(raw, n)
<1>1. /\ Len(longs) = n /\ DOMAIN longs = 1 .. n
      /\ \A i \in 1 .. n : longs[i].vol \in Nat /\ longs[i].score \in Nat
  <2>1. Len(longs) = n /\ DOMAIN longs = 1 .. n
    OBVIOUS
  <2>2. ASSUME NEW i \in 1 .. n PROVE longs[i].vol \in Nat /\ longs[i].score \in Nat
    <3>1. longs[i] \in [vol : Vols, score : Scores]
      OBVIOUS
    <3>2. longs[i].vol \in Vols /\ longs[i].score \in Scores
      BY <3>1
    <3> QED BY <3>2, WeightsAssumption
  <2> QED BY <2>1, <2>2
<1>2. CASE method = "equal_weight"
  <2>1. raw = EqualWeights(n)
    BY <1>1, <1>2 DEF RawWeights
  <2> QED BY <2>1, EqualAreWhole
<1>3. CASE method = "inverse_vol"
  <2>1. PICK vols : vols = [i \in 1 .. n |-> longs[i].vol]
    OBVIOUS
  <2>2. raw = InverseVolWeights(vols)
    BY <1>1, <1>3, <2>1 DEF RawWeights
  <2>3. vols \in [1 .. n -> Nat]
    BY <1>1, <2>1
  <2> QED BY <2>2, <2>3, InverseVolAreWhole
<1>4. CASE method = "signal_proportional"
  <2>1. PICK scores : scores = [i \in 1 .. n |-> longs[i].score]
    OBVIOUS
  <2>2. raw = NormaliseWeights(scores)
    BY <1>1, <1>4, <2>1 DEF RawWeights
  <2>3. scores \in [1 .. n -> Nat]
    BY <1>1, <2>1
  <2> QED BY <2>2, <2>3, NormalisedAreWhole
<1>5. CASE method = "risk_parity"
  <2>1. PICK shares \in [1 .. n -> {1, 2}] : raw = NormaliseWeights(shares)
    BY <1>1, <1>5 DEF RawWeights
  <2>2. shares \in [1 .. n -> Nat]
    OBVIOUS
  <2> QED BY <2>1, <2>2, NormalisedAreWhole
<1> QED BY <1>2, <1>3, <1>4, <1>5

LEMMA LargestWeightIsNat ==
  ASSUME NEW longs
  PROVE  LargestWeight(longs) \in Nat
<1>1. SizedNames \in Nat \ {0} /\ CapUnit \in Nat /\ NarrowCap \in Nat /\ WideCap \in Nat
  BY WeightsAssumption
<1>2. CapUnit \div SizedNames \in Nat
  BY <1>1
<1> QED BY <1>1, <1>2, Zenon DEF LargestWeight

LEMMA GrossOfTheWhole ==
  ASSUME NEW longs, NEW gross \in GrossChoices(longs)
  PROVE  gross \in 0 .. CapUnit
<1>1. PICK u \in Nat : u = CapUnit
  BY WeightsAssumption
<1>2. gross = u \/ gross = (u * 65) \div 100 \/ gross = (u * 80) \div 100
  BY <1>1 DEF GrossChoices
<1>3. (u * 65) \div 100 \in 0 .. u /\ (u * 80) \div 100 \in 0 .. u
  OBVIOUS
<1> QED BY <1>1, <1>2, <1>3

\* Capping never borrows and never reorders, and where the cap can place the whole it is
\* kept (targetPortfolioWeights).
THEOREM CapKept == WeightsSpec => []CapIsKept
<1>1. WeightsInit => CapIsKept
  BY DEF WeightsInit, CapIsKept
<1>2. ASSUME CapIsKept, [WeightsNext]_weightVars PROVE CapIsKept'
  <2>1. CASE UNCHANGED weightVars
    BY <1>2, <2>1 DEF CapIsKept, weightVars
  <2>2. CASE Rebalance
    <3>1. PICK r : r = readingsNow'
      OBVIOUS
    <3>2. PICK n \in 0 .. SizedNames : r \in [1 .. n -> [vol : Vols, score : Scores]]
      BY <2>2, <3>1 DEF Rebalance, LongReadings
    <3>3. CASE r = <<>>
      <4>1. sized' = NOTHING
        BY <2>2, <3>1, <3>3 DEF Rebalance
      <4> QED BY <4>1 DEF CapIsKept
    <3>4. CASE r # <<>>
      <4>1. n \in Nat \ {0}
        <5>1. n \in Nat
          BY <3>2, WeightsAssumption
        <5>2. n # 0
          BY <3>2, <3>4
        <5> QED BY <5>1, <5>2
      <4>2. PICK method \in {"equal_weight", "inverse_vol", "signal_proportional", "risk_parity"},
                 gross \in GrossChoices(r) : \E raw \in RawWeights(method, r) :
              sized' = [raw |-> raw, capped |-> ApplyMaxWeight(raw, LargestWeight(r)),
                        weights |-> ScaleGross(ApplyMaxWeight(raw, LargestWeight(r)), gross)]
        BY <2>2, <3>1, <3>4, Zenon DEF Rebalance
      <4>3. PICK raw \in RawWeights(method, r) :
              sized' = [raw |-> raw, capped |-> ApplyMaxWeight(raw, LargestWeight(r)),
                        weights |-> ScaleGross(ApplyMaxWeight(raw, LargestWeight(r)), gross)]
        BY <4>2, Zenon
      <4>4. PICK w : w = ApplyMaxWeight(raw, LargestWeight(r))
        OBVIOUS
      <4>5. sized' = [raw |-> raw, capped |-> w, weights |-> ScaleGross(w, gross)]
        BY <4>3, <4>4, Zenon
      <4>6. PICK cap \in Nat : cap = LargestWeight(r)
        BY LargestWeightIsNat
      <4>7. AreWhole(raw, n)
        BY <3>2, <4>1, RawAreWhole
      <4>8. /\ AreShares(w, n)
            /\ cap * n > CapUnit =>
                 /\ \A i \in 1 .. n : w.of[i] * CapUnit <= cap * w.den
                 /\ \A i, j \in 1 .. n : raw.of[i] <= raw.of[j] => w.of[i] <= w.of[j]
                 /\ cap * Cardinality({i \in 1 .. n : raw.of[i] > 0}) >= CapUnit => NumSum(w.of) = w.den
        BY <4>1, <4>4, <4>6, <4>7, CappedKeeps
      <4>9. NumSum(ScaleGross(w, gross).of) <= ScaleGross(w, gross).den
        <5>1. gross \in 0 .. CapUnit
          BY GrossOfTheWhole
        <5> QED BY <4>1, <4>8, <5>1, ScaledAreShares
      <4>10. Len(w.of) = n /\ NumSum(w.of) <= w.den
        BY <4>1, <4>8 DEF AreShares
      <4>11. sized'.raw = raw /\ sized'.capped = w /\ sized'.weights = ScaleGross(w, gross)
        BY <4>5
      <4>12. LargestWeight(readingsNow') = cap
        BY <3>1, <4>6
      <4> QED BY <4>8, <4>9, <4>10, <4>11, <4>12, Zenon DEF CapIsKept
    <3> QED BY <3>3, <3>4
  <2> QED BY <1>2, <2>1, <2>2 DEF WeightsNext
<1> QED BY <1>1, <1>2, PTL DEF WeightsSpec

================================================================================
