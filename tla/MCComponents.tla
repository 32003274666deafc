----------------------------- MODULE MCComponents -----------------------------
(***************************************************************************)
(* The components around the lifecycle.  They share no variable with it or *)
(* with each other, so one run checks them all: it picks its subject       *)
(* first, and the others stay in an initial state.                         *)
(***************************************************************************)
EXTENDS TriggerMonitor, SignalEngine, GrillDrafts, WithdrawPage, WalletSales,
        GrillCalendars, GrillBacktests, AgentPages, PositionPage, NotificationTab,
        PriceHistory, ProposalTerms, TriggerQuotes, PortfolioWeights, DevTools, SessionGate,
        Thesis, DevSwap

VARIABLE subject

components == <<subject, monitorVars, signalVars, grillVars, withdrawVars, saleVars, calendarVars,
                bars, agentVars, positionPageVars, tabVars, historyVars, termsVars, quoteVars,
                weightVars, devVars, gateVars, thesisVars, devSwapVars>>

UntouchedOrders == {[o \in TestOrders |-> [status |-> "OPEN", by |-> NOTHING]]}

\* Of a component that is not the subject one initial state is as good as another.
Parked(name, value, values) == subject # name => value = CHOOSE v \in values : TRUE

ComponentsInit ==
  /\ subject \in {"monitor", "signals", "grill", "withdraw", "sales", "calendars", "backtests",
                  "agent", "position", "tab", "history", "terms", "quotes", "weights", "devtools",
                  "session", "thesis", "devswap"}
  /\ MonitorInit
  /\ SignalInit    /\ Parked("signals", quote, [Assets -> Quotes])
  /\ GrillInit
  /\ WithdrawInit  /\ Parked("withdraw", usdc, [Accounts -> {0}])
  /\ SalesInit     /\ Parked("sales", home, DOMAIN SELL_BALANCE_TOKEN_PROGRAM_IDS)
  /\ CalendarInit  /\ Parked("calendars", anchor, Anchors)
  /\ BacktestInit  /\ Parked("backtests", bars, {<<b>> : b \in BarValues})
  /\ AgentInit     /\ Parked("agent", agentPage, AgentPageKinds)
  /\ PageInit      /\ Parked("position", seedPrice, {[leg \in Legs |-> CHOOSE p \in LegPrices[leg] : TRUE]})
  /\ TabInit
  /\ PriceHistoryInit
  /\ TermsInit     /\ Parked("terms", wallet, [cash : CashAmounts, asset : AssetAmounts])
  /\ QuotesInit    /\ Parked("quotes", <<openOrder, mark, funds>>, SyntheticOrders \X Marks \X WalletAmounts)
  /\ WeightsInit
  /\ DevInit
  /\ GateInit      /\ Parked("session", <<rows, jar>>, [Visitors -> {"none", "mandate"}] \X {NOTHING, FORMER})
  /\ ThesisInit    /\ Parked("thesis", reading, {m \in Markets : m.ma20 = m.ma50 /\ m.close = m.price})
  /\ DevSwapInit   /\ Parked("devswap", <<testOrder, signer>>, UntouchedOrders \X {TRUE})

\* Each component by name, with its own variables: those of the others are unchanged,
\* and said to be before the step, which TLC then evaluates once for all its outcomes.
firstHalf  == <<monitorVars, signalVars, grillVars, withdrawVars, saleVars, calendarVars, bars>>
otherVars  == <<gateVars, thesisVars, devSwapVars>>
secondHalf == <<agentVars, positionPageVars, tabVars, historyVars, termsVars, quoteVars, weightVars, devVars,
                otherVars>>

ComponentsNext ==
  \/ /\ UNCHANGED <<subject, secondHalf>>
     /\ \/ /\ subject = "monitor"
           /\ UNCHANGED <<signalVars, grillVars, withdrawVars, saleVars, calendarVars, bars>>
           /\ MonitorNext
        \/ /\ subject = "signals"
           /\ UNCHANGED <<monitorVars, grillVars, withdrawVars, saleVars, calendarVars, bars>>
           /\ SignalNext
        \/ /\ subject = "grill"
           /\ UNCHANGED <<monitorVars, signalVars, withdrawVars, saleVars, calendarVars, bars>>
           /\ GrillNext
        \/ /\ subject = "withdraw"
           /\ UNCHANGED <<monitorVars, signalVars, grillVars, saleVars, calendarVars, bars>>
           /\ WithdrawNext
        \/ /\ subject = "sales"
           /\ UNCHANGED <<monitorVars, signalVars, grillVars, withdrawVars, calendarVars, bars>>
           /\ SalesNext
        \/ /\ subject = "calendars"
           /\ UNCHANGED <<monitorVars, signalVars, grillVars, withdrawVars, saleVars, bars>>
           /\ NextDay
        \/ /\ subject = "backtests"
           /\ UNCHANGED <<monitorVars, signalVars, grillVars, withdrawVars, saleVars, calendarVars>>
           /\ BacktestNext
  \/ /\ UNCHANGED <<subject, firstHalf>>
     /\ \/ /\ subject = "agent"
           /\ UNCHANGED <<positionPageVars, tabVars, historyVars, termsVars, quoteVars, weightVars,
                          devVars, otherVars>>
           /\ AgentNext
        \/ /\ subject = "position"
           /\ UNCHANGED <<agentVars, tabVars, historyVars, termsVars, quoteVars, weightVars,
                          devVars, otherVars>>
           /\ PageNext
        \/ /\ subject = "tab"
           /\ UNCHANGED <<agentVars, positionPageVars, historyVars, termsVars, quoteVars,
                          weightVars, devVars, otherVars>>
           /\ TabNext
        \/ /\ subject = "history"
           /\ UNCHANGED <<agentVars, positionPageVars, tabVars, termsVars, quoteVars, weightVars,
                          devVars, otherVars>>
           /\ PriceHistoryNext
        \/ /\ subject = "terms"
           /\ UNCHANGED <<agentVars, positionPageVars, tabVars, historyVars, quoteVars, weightVars,
                          devVars, otherVars>>
           /\ TermsNext
        \/ /\ subject = "quotes"
           /\ UNCHANGED <<agentVars, positionPageVars, tabVars, historyVars, termsVars, weightVars,
                          devVars, otherVars>>
           /\ QuotesNext
        \/ /\ subject = "weights"
           /\ UNCHANGED <<agentVars, positionPageVars, tabVars, historyVars, termsVars, quoteVars,
                          devVars, otherVars>>
           /\ WeightsNext
        \/ /\ subject = "devtools"
           /\ UNCHANGED <<agentVars, positionPageVars, tabVars, historyVars, termsVars, quoteVars,
                          weightVars, otherVars>>
           /\ DevNext
        \/ /\ subject = "session"
           /\ UNCHANGED <<agentVars, positionPageVars, tabVars, historyVars, termsVars, quoteVars,
                          weightVars, devVars, thesisVars, devSwapVars>>
           /\ GateNext
        \/ /\ subject = "thesis"
           /\ UNCHANGED <<agentVars, positionPageVars, tabVars, historyVars, termsVars, quoteVars,
                          weightVars, devVars, gateVars, devSwapVars>>
           /\ ThesisNext
        \/ /\ subject = "devswap"
           /\ UNCHANGED <<agentVars, positionPageVars, tabVars, historyVars, termsVars, quoteVars,
                          weightVars, devVars, gateVars, thesisVars>>
           /\ DevSwapNext

ComponentsSpec == ComponentsInit /\ [][ComponentsNext]_components

\* Each component keeps its types.
ComponentsTypeOK ==
  /\ subject = "monitor" => MonitorTypeOK
  /\ subject = "signals" => SignalTypeOK
  /\ subject = "grill" => GrillTypeOK
  /\ subject = "withdraw" => WithdrawTypeOK
  /\ subject = "sales" => SalesTypeOK
  /\ subject = "calendars" => CalendarTypeOK
  /\ subject = "backtests" => BacktestTypeOK
  /\ subject = "agent" => AgentTypeOK
  /\ subject = "position" => PageTypeOK
  /\ subject = "tab" => TabTypeOK
  /\ subject = "history" => PriceHistoryTypeOK
  /\ subject = "terms" => TermsTypeOK
  /\ subject = "quotes" => QuotesTypeOK
  /\ subject = "weights" => WeightsTypeOK
  /\ subject = "devtools" => DevTypeOK
  /\ subject = "session" => GateTypeOK
  /\ subject = "thesis" => ThesisTypeOK
  /\ subject = "devswap" => DevSwapTypeOK

-------------------------------------------------------------------------------
(* The values of the constants that a configuration file cannot write.     *)

TickerOfOrder == [o \in Watched |-> o]

CONSTANTS astro, chart
OneAnalyst == <<astro>>
SizeOf == [h \in Holdings |-> 1]

FirstOfJanuary(y) == [year |-> y, month |-> 1, day |-> 1]
AnchorDates == {FirstOfJanuary(1999), FirstOfJanuary(2023), [year |-> 2099, month |-> 12, day |-> 20]}

PricesOfLeg == ("TAKE_PROFIT" :> {2}) @@ ("STOP_LOSS" :> {1})

LlmTerms(price, trigger, takeProfit, stopLoss, tpPct, slPct) ==
  [price |-> price, trigger |-> trigger, takeProfit |-> takeProfit, stopLoss |-> stopLoss,
   tpPct |-> tpPct, slPct |-> slPct]
SomeAnalyses ==
  {LlmTerms(102000, NOTHING, NOTHING, NOTHING, 40, 25), LlmTerms(30000, NOTHING, NOTHING, NOTHING, 40, 25),
   LlmTerms(105000, 104685, 109200, 98700, NOTHING, NOTHING),
   LlmTerms(103000, 102000, 101000, 103000, NOTHING, NOTHING)}
SomeDrawdowns == {NOTHING, 30}

Synthetic(kind, trigger, sizeUsd, tokens_) ==
  [kind |-> kind, trigger |-> trigger, sizeUsd |-> sizeUsd, tokenAmount |-> tokens_]
SomeOrders == {Synthetic("BUY_TRIGGER", 1000, 5000, 0), Synthetic("TAKE_PROFIT", 1000, 0, 20),
               Synthetic("STOP_LOSS", 1000, 0, 20), Synthetic("STOP_LOSS", 1000, 0, 0)}
===============================================================================
