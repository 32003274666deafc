------------------------------ MODULE GrillBacktests ------------------------------
(***************************************************************************)
(* The market analysts of a Grill and their backtests                      *)
(* (lib/grill/analysis.ts): an analyst reads the daily bars of an asset,   *)
(* comes to a verdict, picks a rule, and runs that rule over the same      *)
(* bars.  A rule says of a bar whether it wants to be long; what it says   *)
(* is executed at the open of the next bar.                                *)
(*                                                                         *)
(* The windows of the indicators are constants and closes are small        *)
(* numbers; ratios and averages are kept exact by common scales.  What a   *)
(* run earns is left out: it follows from the bars and from what is held   *)
(* on each.                                                                *)
(*                                                                         *)
(* Two rules are fitted to the whole series first, the bars after those it *)
(* is tested on included: the volatility that counts as calm, and the      *)
(* months that count as good ones.                                         *)
(***************************************************************************)
EXTENDS Integers, Sequences, SequencesExt, FiniteSets, FiniteSetsExt, NoValue

CONSTANTS
  Prices,                      \* closes
  MaxBars,                     \* bound on the bars
  ShortWindow, MidWindow, LongWindow, RsiPeriod, FastSpan, SlowSpan, SignalSpan,
  Lookback,                    \* bars of a high, of a volatility, of a formation
  TestWindow,                  \* the trailing window of a backtest
  MonthBars, TurnDays,         \* bars of a month, and at each side of its turn
  YearMonths, WinterMonths,    \* months of a year, and those of sell_in_may
  BestMonths,                  \* how many months are the best ones
  VolFloor,                    \* a volatility that is always calm
  Step                         \* bars between two rebalances

VARIABLE bars                  \* the bars so far: close, and the other asset's close

ASSUME BacktestAssumption ==
  /\ Prices \subseteq Nat \ {0}
  /\ \A n \in {MaxBars, ShortWindow, MidWindow, LongWindow, RsiPeriod, FastSpan, SlowSpan,
               SignalSpan, Lookback, TestWindow, MonthBars, TurnDays, YearMonths, BestMonths,
               VolFloor, Step} : n \in Nat \ {0}

BarValues == [close : Prices, other : Prices]

\* The month of a bar since the first one, and its number in the year.
monthOf(i)     == i \div MonthBars
monthOfYear(i) == (monthOf(i) % YearMonths) + 1

closesOf(series) == [i \in DOMAIN series |-> series[i].close]
othersOf(series) == [i \in DOMAIN series |-> series[i].other]

BarSum(values) == FoldSeq(+, 0, values)

\* Every ratio of two closes, times this, is whole.
Unit == FoldSet(LAMBDA p, q : p * q, 1, Prices)

--------------------------------------------------------------------------------
(* Indicators.  A value at a bar is of the bars up to it; an average is    *)
(* compared by what it would be times its window.                          *)

\* smaSeries, smaAt, smaNullable: the sum of the window that ends at bar i.
smaSum(values, i, window) == BarSum(SubSeq(values, i - window + 1, i))

aboveSma(values, i, window) == i >= window /\ values[i] * window > smaSum(values, i, window)

\* emaSeries, times Scale(span).
Scale(span) == (span + 1) ^ MaxBars

emaSeries(values, span) ==
  LET ema[i \in 1 .. Len(values)] ==
        IF i = 1 THEN values[1] * Scale(span)
        ELSE (2 * values[i] * Scale(span) + (span - 1) * ema[i - 1]) \div (span + 1)
  IN  ema

\* macdSeries: whether the line is above (1), at (0) or below (-1) its signal.
macdSeries(closes) ==
  LET fast == emaSeries(closes, FastSpan)
      slow == emaSeries(closes, SlowSpan)
      line == [i \in DOMAIN closes |-> fast[i] * Scale(SlowSpan) - slow[i] * Scale(FastSpan)]
      signal == emaSeries(line, SignalSpan)
      above(i) == line[i] * Scale(SignalSpan) - signal[i]
  IN  [i \in DOMAIN closes |-> IF above(i) > 0 THEN 1 ELSE IF above(i) < 0 THEN -1 ELSE 0]

\* rsiSeries: the average of the gains or of the losses, times RsiPeriod and unit.
rsiAverage(changes) ==
  LET unit == RsiPeriod ^ MaxBars
      avg[j \in RsiPeriod + 1 .. Len(changes)] ==
        IF j = RsiPeriod + 1
        THEN BarSum([k \in 1 .. RsiPeriod |-> changes[k + 1]]) * unit
        ELSE (avg[j - 1] * (RsiPeriod - 1)) \div RsiPeriod + changes[j] * unit
  IN  avg

\* An RSI of at most 30 means that the average loss is at least 7/3 of the gain.
rsiIsLow(closes, i) ==
  LET rise(j) == IF j = 1 THEN 0 ELSE closes[j] - closes[j - 1]
      gains  == rsiAverage([j \in DOMAIN closes |-> IF rise(j) > 0 THEN rise(j) ELSE 0])
      losses == rsiAverage([j \in DOMAIN closes |-> IF rise(j) < 0 THEN - rise(j) ELSE 0])
  IN  i > RsiPeriod /\ losses[i] > 0 /\ 7 * gains[i] <= 3 * losses[i]

\* closeReturns and dailyReturnsFromCloses: the first return is 0.
closeReturns(closes) ==
  [i \in DOMAIN closes |->
     IF i = 1 THEN 0 ELSE (closes[i] - closes[i - 1]) * (Unit \div closes[i - 1])]

\* realizedVolAt and rankerAnnVol, as a variance.
realizedVolAt(returns, i, window) ==
  LET chunk == SubSeq(returns, i - window + 1, i)
  IN  window * BarSum([k \in DOMAIN chunk |-> chunk[k] * chunk[k]]) - BarSum(chunk) * BarSum(chunk)

\* medianVol of volatilityRegimeOpinion, over the whole series, and never below a floor.
volThreshold(series) ==
  LET returns == closeReturns(closesOf(series))
      vols    == [k \in 1 .. Len(series) - ShortWindow + 1 |->
                    realizedVolAt(returns, k + ShortWindow - 1, ShortWindow)]
  IN  IF vols = <<>> THEN VolFloor
      ELSE Max({VolFloor, SortSeq(vols, <)[Len(vols) \div 2 + 1]})

\* seasonalReadings: the months with the highest mean returns, over the whole series; a
\* month without a return has none, and of equal ones the earlier is better.
bestMonths(series) ==
  LET returns  == closeReturns(closesOf(series))
      daysIn(month) == {i \in 2 .. Len(series) : monthOfYear(i) = month}
      total(month)  == MapThenSumSet(LAMBDA i : returns[i], daysIn(month))
      count(month)  == Max({1, Cardinality(daysIn(month))})
      better(m, k)  == \/ total(m) * count(k) > total(k) * count(m)
                       \/ total(m) * count(k) = total(k) * count(m) /\ m < k
  IN  {m \in 1 .. YearMonths :
         Cardinality({k \in 1 .. YearMonths : better(k, m)}) < BestMonths}

\* alignRelativeStrength: the ratio of the two closes.
relativeStrength(series) ==
  [i \in DOMAIN series |-> series[i].close * (Unit \div series[i].other)]

\* priorHighNullable and priorDonchianHigh: above every one of the bars before.
abovePriorHigh(values, i, window) ==
  i > window /\ \A j \in i - window .. i - 1 : values[i] > values[j]

\* The 52-week high includes the bar itself.
highAt(closes, i) == Max({closes[j] : j \in (IF i > Lookback THEN i - Lookback + 1 ELSE 1) .. i})

\* A jump in the last bars.
jumpedAt(closes, i) ==
  \E j \in (IF i > ShortWindow THEN i - ShortWindow + 1 ELSE 2) .. i : j > 1 /\ closes[j] > closes[j - 1]

\* isTurnOfMonth: fewer than TurnDays bars of its month before it, or after it
\* among the bars there are.
isTurnOfMonth(series, i) ==
  LET month == {j \in DOMAIN series : monthOf(j) = monthOf(i)}
  IN  i - Min(month) < TurnDays \/ Max(month) - i < TurnDays

\* rankFactorValue: a factor of the bars up to end, and how many of them it asks for.
barsNeeded(factor) ==
  CASE factor = "momentum_12_1"       -> Max({Lookback, ShortWindow}) + 1
    [] factor = "short_term_reversal" -> ShortWindow + 1
    [] OTHER                          -> Lookback

rankFactorValue(closes, end, factor) ==
  IF end < barsNeeded(factor) THEN NOTHING
  ELSE CASE factor = "momentum_12_1"       -> closes[end - ShortWindow] * (Unit \div closes[end - Lookback + 1])
         [] factor = "low_volatility"      -> - realizedVolAt(closeReturns(closes), end, Lookback - 1)
         [] factor = "near_52w_high"       -> closes[end] * (Unit \div highAt(closes, end))
         [] factor = "short_term_reversal" -> - closes[end] * (Unit \div closes[end - ShortWindow])

\* computePairZSeries, with a hedge and a deviation of one: how far the spread is from
\* its average over the bars before.
computePairZSeries(series) ==
  LET spread == [i \in DOMAIN series |-> series[i].close - series[i].other]
  IN  [i \in DOMAIN series |->
         IF i <= Lookback THEN NOTHING ELSE spread[i] * Lookback - smaSum(spread, i - 1, Lookback)]

--------------------------------------------------------------------------------
(* The rules: at which bars one wants to be long.                          *)

technicalRule(series, verdict) ==
  LET closes == closesOf(series)
      macd   == macdSeries(closes)
  IN  [i \in DOMAIN series |->
         CASE verdict = "support"   -> TRUE
           [] verdict = "reject"    -> rsiIsLow(closes, i)
           [] verdict = "challenge" -> macd[i] = 1 /\ aboveSma(closes, i, ShortWindow)]

relativeRule(series, verdict) ==
  LET rs == relativeStrength(series)
  IN  [i \in DOMAIN series |->
         IF verdict = "support" THEN aboveSma(rs, i, MidWindow) ELSE abovePriorHigh(rs, i, Lookback)]

volatilityRule(series, verdict, threshold) ==
  LET closes  == closesOf(series)
      returns == closeReturns(closes)
      isCalm(i) == i >= ShortWindow /\ realizedVolAt(returns, i, ShortWindow) <= threshold
  IN  [i \in DOMAIN series |->
         isCalm(i) /\ (verdict = "support" => aboveSma(closes, i, LongWindow))]

seasonalWantLong(series, strategy, best) ==
  [i \in DOMAIN series |->
     CASE strategy = "buy_and_hold"  -> TRUE
       [] strategy = "best_months"   -> monthOfYear(i) \in best
       [] strategy = "sell_in_may"   -> monthOfYear(i) \in WinterMonths
       [] strategy = "turn_of_month" -> isTurnOfMonth(series, i)]

anomalyWantLong(series, strategy) ==
  LET closes == closesOf(series)
  IN  [i \in DOMAIN series |->
         CASE strategy = "buy_and_hold"      -> TRUE
           [] strategy = "near_52w_high"     -> closes[i] >= highAt(closes, i)
           [] strategy = "avoid_max_lottery" -> ~ jumpedAt(closes, i)
           [] strategy = "tax_loss_reversal" ->
                monthOfYear(i) \in {1, YearMonths} /\ i >= Lookback /\ closes[i] < closes[i - Lookback + 1]]

\* buildRankerMembership for the first of two names, of which one is chosen; a tie is
\* the first one's.
buildRankerMembership(series, factor) ==
  LET mine(i)   == rankFactorValue(closesOf(series), i - 1, factor)
      theirs(i) == rankFactorValue(othersOf(series), i - 1, factor)
  IN  [i \in DOMAIN series |-> mine(i) # NOTHING /\ mine(i) >= theirs(i)]

\* buildPortfolioSignals.
buildPortfolioSignals(series) ==
  LET closes == closesOf(series)
      macd   == macdSeries(closes)
  IN  [i \in DOMAIN series |-> aboveSma(closes, i, MidWindow) /\ macd[i] = 1]

--------------------------------------------------------------------------------
(* The engines: over which bars a rule is held.                            *)

TestStart(series) == IF Len(series) > TestWindow THEN Len(series) - TestWindow + 1 ELSE 1

\* The rule is asked about the bar at whose open the order fills.
MutantRunLongFlatBacktest(series, wantLong) ==
  [i \in DOMAIN series |-> i > TestStart(series) /\ wantLong[i]]

\* runLongFlatBacktest: what is wanted at a bar is executed at the next open, so it
\* is held over the next bar, if there is one.
runLongFlatBacktest(series, wantLong) ==
  [i \in DOMAIN series |-> i > TestStart(series) /\ wantLong[i - 1]]

\* runGapBacktest: the nights, the days, or the nights after an up day.
runGapBacktest(series, strategy) ==
  [i \in DOMAIN series |->
     /\ i > TestStart(series)
     /\ strategy = "overnight_after_up" =>
          i > TestStart(series) + 1 /\ series[i - 1].close > series[i - 2].close]

\* runPortfolioSizingBacktest: the longs of the last rebalance before the bar.
runPortfolioSizingBacktest(series) ==
  LET signals == buildPortfolioSignals(series)
      rebalances(i) == {r \in Step .. i - 1 : r % Step = 0}
  IN  [i \in DOMAIN series |-> rebalances(i) # {} /\ signals[Max(rebalances(i))]]

\* runPairsBacktest: opened when the spread is stretched, closed when it has
\* reverted, has run away, or has been held long enough.
pairsStates(z, entry, exit, stop, maxHoldingDays) ==
  LET far(i, bound) == z[i] # NOTHING /\ (z[i] >= bound \/ z[i] <= - bound)
      state[i \in 0 .. Len(z)] ==
        IF i = 0 THEN [position |-> 0, held |-> 0]
        ELSE LET was  == state[i - 1]
                 held == IF was.position # 0 THEN was.held + 1 ELSE was.held
                 reverted == z[i] # NOTHING /\ z[i] <= exit /\ z[i] >= - exit
                 over == reverted \/ far(i, stop) \/ held >= maxHoldingDays
             IN  CASE was.position = 0 /\ far(i, entry) -> [position |-> IF z[i] < 0 THEN 1 ELSE -1, held |-> 0]
                   [] was.position # 0 /\ over          -> [position |-> 0, held |-> held]
                   [] OTHER                             -> [was EXCEPT !.held = held]
  IN  state

runPairsBacktest(series, entry, exit, stop, maxHoldingDays) ==
  LET states == pairsStates(computePairZSeries(series), entry, exit, stop, maxHoldingDays)
  IN  [i \in DOMAIN series |-> states[i - 1].position]

--------------------------------------------------------------------------------
(* Bars arrive, one a day.                                                 *)

BacktestInit == bars \in {<<b>> : b \in BarValues}

NextBar ==
  /\ Len(bars) < MaxBars
  /\ \E bar \in BarValues : bars' = Append(bars, bar)

BacktestNext == NextBar

BacktestSpec == BacktestInit /\ [][BacktestNext]_bars

BacktestTypeOK == bars \in UNION {[1 .. n -> BarValues] : n \in 1 .. MaxBars}

--------------------------------------------------------------------------------
(* Properties.                                                             *)

Backtests ==
  [task : {"technical"}, choice : {"support", "reject", "challenge"}]
    \cup [task : {"relative"}, choice : {"support", "challenge"}]
    \cup [task : {"volatility"}, choice : {"support", "reject"}]
    \cup [task : {"seasonality"}, choice : {"buy_and_hold", "best_months", "sell_in_may",
                                            "turn_of_month"}]
    \cup [task : {"overnight"}, choice : {"intraday", "overnight_after_up"}]
    \cup [task : {"anomaly"}, choice : {"near_52w_high", "avoid_max_lottery", "tax_loss_reversal"}]
    \cup [task : {"ranker"}, choice : {"momentum_12_1", "low_volatility", "near_52w_high",
                                       "short_term_reversal"}]
    \cup [task : {"portfolio", "pairs"}, choice : {"any"}]

\* The bars a backtest holds the asset over, once its rule is chosen.
heldOver(test, series) ==
  CASE test.task = "technical" ->
         runLongFlatBacktest(series, technicalRule(series, test.choice))
    [] test.task = "relative" ->
         runLongFlatBacktest(series, relativeRule(series, test.choice))
    [] test.task = "volatility" ->
         runLongFlatBacktest(series, volatilityRule(series, test.choice, volThreshold(series)))
    [] test.task = "seasonality" ->
         runLongFlatBacktest(series, seasonalWantLong(series, test.choice, bestMonths(series)))
    [] test.task = "overnight" -> runGapBacktest(series, test.choice)
    [] test.task = "anomaly" ->
         runLongFlatBacktest(series, anomalyWantLong(series, test.choice))
    [] test.task = "ranker" ->
         runLongFlatBacktest(series, buildRankerMembership(series, test.choice))
    [] test.task = "portfolio" -> runPortfolioSizingBacktest(series)
    [] test.task = "pairs" -> runPairsBacktest(series, 2, 1, 4, 2)

\* What the rule of a backtest was fitted to the whole series for.
Fitted(test, series) ==
  IF test.task = "volatility" THEN volThreshold(series)
  ELSE IF test.choice = "best_months" THEN bestMonths(series)
  ELSE NOTHING

\* The same days with other closes of bar i.
OtherwiseFrom(series, i) == {[series EXCEPT ![i] = bar] : bar \in BarValues}

\* What a backtest holds over a bar was decided before that bar closed, except for what
\* its rule was fitted to: with other closes of the bar the same is held up to it, if
\* the fit is the same.  Most rules are fitted to nothing and do not look ahead; that
\* of volatility does through its threshold, and that of the best months through the
\* ranking of the months, and through nothing else.
PositionsPrecedeTheirBar ==
  Len(bars) > 1 =>
  \A test \in Backtests, i \in DOMAIN bars : \A other \in OtherwiseFrom(bars, i) :
    Fitted(test, bars) = Fitted(test, other) =>
      SubSeq(heldOver(test, bars), 1, i) = SubSeq(heldOver(test, other), 1, i)

================================================================================
