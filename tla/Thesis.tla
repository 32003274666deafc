--------------------------------- MODULE Thesis ---------------------------------
(***************************************************************************)
(* Why a position is sold before its exits: the tags that were true of the *)
(* market at the BUY (extractThesisTags), and the monitor that compares    *)
(* them with the market of now (evaluateThesis), every five minutes.       *)
(*                                                                         *)
(* Both read the indicators of computeIndicators, over the bars the        *)
(* history answers with.  Below FullWindow bars these are stand-ins; the   *)
(* BUY is not made on stand-ins, the monitor's SELL may be.  One position: *)
(* the monitor looks at each by itself.                                    *)
(***************************************************************************)
EXTENDS Naturals, FiniteSets, NoValue

CONSTANTS
  Levels,       \* of the price, the last close and the two averages
  Rsis,         \* of the momentum
  BarCounts,    \* how many bars an answer of the history may have
  FullWindow,   \* 50 bars: below, computeIndicators stands in
  ThinWindow    \* 20 bars: below, the monitor does not look

ASSUME ThesisAssumption ==
  Rsis \subseteq Nat /\ BarCounts \subseteq Nat /\ FullWindow \in Nat /\ ThinWindow \in Nat

VARIABLES
  reading,      \* what the bars and the price say
  tags,         \* thesisTags of the BUY, NOTHING before it
  flipped,      \* the invalidated tags of the live SELL, NOTHING without one
  barCount      \* how many bars that SELL was decided over

thesisVars == <<reading, tags, flipped, barCount>>

Markets == [rsi : Rsis, ma20 : Levels, ma50 : Levels, close : Levels, price : Levels, rising : BOOLEAN]

TREND    == {"price_above_ma20", "price_above_ma50", "ma20_above_ma50"}
TECHNICAL == {"macd_bullish", "macd_histogram_positive"}
MOMENTUM == {"rsi_oversold", "rsi_recovering", "rsi_neutral", "rsi_not_overbought"}
THESIS_TAGS == TREND \cup TECHNICAL \cup MOMENTUM

ThesisTypeOK ==
  /\ reading \in Markets
  /\ tags \in (SUBSET THESIS_TAGS) \cup {NOTHING}
  /\ flipped \in (SUBSET THESIS_TAGS) \cup {NOTHING}
  /\ barCount \in BarCounts \cup {NOTHING}

ThesisInit ==
  /\ reading \in Markets /\ reading.ma20 = reading.ma50 /\ reading.close = reading.price
  /\ tags = NOTHING /\ flipped = NOTHING /\ barCount = NOTHING

--------------------------------------------------------------------------------

\* The indicators of a market over n bars, as the snapshot the tags are asked of.
computeIndicators(m, n) ==
  IF n < FullWindow
  THEN [m EXCEPT !.rsi = 50, !.ma20 = m.close, !.ma50 = m.close, !.rising = FALSE]
  ELSE m

\* The registry: the predicate of each tag, on a snapshot.
predicate(tag, s) ==
  \/ tag = "rsi_oversold"            /\ s.rsi < 30
  \/ tag = "rsi_recovering"          /\ s.rsi >= 30 /\ s.rsi < 50
  \/ tag = "rsi_neutral"             /\ s.rsi >= 50 /\ s.rsi <= 70
  \/ tag = "rsi_not_overbought"      /\ s.rsi < 70
  \/ tag = "price_above_ma20"        /\ s.price > s.ma20
  \/ tag = "price_above_ma50"        /\ s.price > s.ma50
  \/ tag = "ma20_above_ma50"         /\ s.ma20 > s.ma50
  \/ tag = "macd_bullish"            /\ s.rising
  \/ tag = "macd_histogram_positive" /\ s.rising

extractThesisTags(s) == {tag \in THESIS_TAGS : predicate(tag, s)}

invalidatedBy(original, s) == {tag \in original : ~predicate(tag, s)}

\* Half the tags are enough to exit.
MutantShouldExit(original, s) ==
  original # {} /\ Cardinality(invalidatedBy(original, s)) * 2 >= Cardinality(original)

shouldExit(original, s) ==
  original # {} /\ Cardinality(invalidatedBy(original, s)) * 2 > Cardinality(original)

--------------------------------------------------------------------------------

\* The market moves, one number at a time.  Not while a SELL is live: nobody
\* looks then.
MarketMoves ==
  /\ flipped = NOTHING
  /\ \/ \E level \in Levels :
          reading' \in {[reading EXCEPT !.ma20 = level], [reading EXCEPT !.ma50 = level],
                       [reading EXCEPT !.close = level], [reading EXCEPT !.price = level]}
     \/ \E rsi \in Rsis : reading' = [reading EXCEPT !.rsi = rsi]
     \/ reading' = [reading EXCEPT !.rising = ~@]
  /\ UNCHANGED <<tags, flipped, barCount>>

\* runBaseMarketAnalysis refuses a short history; createProposal takes the tags.
Buy(n) ==
  /\ tags = NOTHING
  /\ n >= FullWindow
  /\ tags' = extractThesisTags(computeIndicators(reading, n))
  /\ UNCHANGED <<reading, flipped, barCount>>

\* getCurrentSnapshot, over as many bars as the history answers with, and
\* runThesisMonitor.
Monitor(n) ==
  /\ tags # NOTHING /\ tags # {}
  /\ flipped = NOTHING
  /\ n >= ThinWindow
  /\ LET snapshot == computeIndicators(reading, n)
     IN  /\ shouldExit(tags, snapshot)
         /\ flipped' = invalidatedBy(tags, snapshot)
  /\ barCount' = n
  /\ UNCHANGED <<reading, tags>>

\* The SELL is skipped, or lapses; or the position is closed.
SellLapses ==
  /\ flipped # NOTHING
  /\ flipped' = NOTHING /\ barCount' = NOTHING
  /\ tags' \in {tags, NOTHING}
  /\ UNCHANGED reading

ThesisNext ==
  \/ MarketMoves \/ SellLapses
  \/ \E n \in BarCounts : Buy(n) \/ Monitor(n)

ThesisSpec == ThesisInit /\ [][ThesisNext]_thesisVars

--------------------------------------------------------------------------------
(* Properties.                                                             *)

\* A SELL for a broken thesis, over a full history, tells of a market that got
\* worse: the trend or the MACD of the BUY is gone, or the RSI is overbought now.
\* An RSI that recovers leaves one band for the next and flips the tag of the band
\* it leaves, but that is never the majority that evaluateThesis asks for.  (A BUY
\* at an RSI of 70 or more has no rsi_not_overbought to hold it.)
SellHasCause ==
  flipped # NOTHING /\ barCount >= FullWindow =>
    \/ flipped \cap (TREND \cup TECHNICAL) # {}
    \/ reading.rsi >= 70
    \/ "rsi_not_overbought" \notin tags

================================================================================
