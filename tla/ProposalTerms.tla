------------------------------ MODULE ProposalTerms ------------------------------
(***************************************************************************)
(* The terms of a BUY proposal: its size from what the wallet was read to  *)
(* hold (proposals/portfolio-context.ts, lifecycle/proposal-sizing.ts),    *)
(* its trigger, take-profit and stop-loss prices from the analysis and the *)
(* mandate (lifecycle/proposal-creation.ts).  The generator's reading of   *)
(* the wallet is kept for a while, also when one of the two token programs *)
(* did not answer; a Grill reads afresh.                                   *)
(*                                                                         *)
(* Amounts of money are tenths of a cent, prices thousandths of a cent,    *)
(* shares are per mille.  toFixed(2) goes to a nearest cent; a half goes   *)
(* either way, as the binary fraction nearest to it does.  Analyses are     *)
(* the BUYs of enough confidence.                                          *)
(***************************************************************************)
EXTENDS Integers, FiniteSets, FiniteSetsExt, NoValue

CONSTANTS
  CashAmounts, AssetAmounts,   \* what the wallet may hold: USDC, and the asset's worth
  MarketAnalyses,              \* analyses, see AnalysisShape
  Drawdowns,                   \* maxDrawdown of the mandate: none, or a share
  TradeLimits,                 \* maxTradeSize of the mandate
  BalanceTtl,                  \* ticks a reading of the wallet is kept
  LastBalanceTick              \* bound on the clock

VARIABLES
  balanceClock,
  wallet,                      \* what it holds
  balances,                    \* the generator's last reading, and when
  created                      \* the last proposal created, with what it was created from

termsVars == <<balanceClock, wallet, balances, created>>

Cent == 10                     \* in amounts
CentOfPrice == 1000            \* in prices

AnalysisShape ==
  [price : Nat, trigger : Nat \cup {NOTHING}, takeProfit : Nat \cup {NOTHING},
   stopLoss : Nat \cup {NOTHING}, tpPct : Nat \cup {NOTHING}, slPct : Nat \cup {NOTHING}]

ASSUME TermsAssumption ==
  /\ CashAmounts \subseteq Nat /\ AssetAmounts \subseteq Nat
  /\ \A a \in MarketAnalyses : a \in AnalysisShape /\ a.price % CentOfPrice = 0
  /\ Drawdowns \subseteq (30 .. 1000) \cup {NOTHING}
  /\ TradeLimits \subseteq Nat /\ \A limit \in TradeLimits : limit % Cent = 0
  /\ BalanceTtl \in Nat /\ LastBalanceTick \in Nat

Else(value, default) == IF value = NOTHING THEN default ELSE value

\* toFixed(2): the multiples of the unit that are nearest.
ToFixed(x, unit) == {(x \div unit + d) * unit : d \in {e \in {0, 1} :
                       LET off == x - (x \div unit + e) * unit IN 2 * off <= unit /\ - 2 * off <= unit}}

--------------------------------------------------------------------------------
(* Size.                                                                   *)

MinSuggestedSize == 5000
RoundIncrement   == 5000

\* suggestBuyProposalSizeUsd: a fifth of the cash, in steps of five dollars.
SuggestedSizes(availableUsdc, maxTradeSizeUsd) ==
  IF availableUsdc = 0 \/ maxTradeSizeUsd = 0 THEN {0}
  ELSE LET balanceSized ==
             IF availableUsdc < 5 * MinSuggestedSize
             THEN Min({availableUsdc, MinSuggestedSize})
             ELSE ((availableUsdc + 5 * RoundIncrement - 1) \div (5 * RoundIncrement)) * RoundIncrement
       IN  ToFixed(Min({balanceSized, availableUsdc, maxTradeSizeUsd}), Cent)

--------------------------------------------------------------------------------
(* Prices.                                                                 *)

Share(x, perMille) == (x * perMille) \div 1000

MutantBuildPrices(analysis, maxDrawdown) ==
  UNION {{[trigger |-> trigger, takeProfit |-> tp, stopLoss |-> sl] :
            tp \in ToFixed(Else(analysis.takeProfit, Share(trigger, 1000 + Else(analysis.tpPct, 40))), CentOfPrice),
            sl \in ToFixed(Else(analysis.stopLoss, Share(trigger, 1000 - Else(analysis.slPct, 25))), CentOfPrice)} :
         trigger \in ToFixed(Else(analysis.trigger, Share(analysis.price, 997)), CentOfPrice)}

\* buildPrices: the exits are moved away from the trigger by a least distance, then the
\* stop-loss up to the drawdown of the mandate.
BuildPrices(analysis, maxDrawdown) ==
  UNION {LET rawTp == Else(analysis.takeProfit, Share(trigger, 1000 + Else(analysis.tpPct, 40)))
             rawSl == Else(analysis.stopLoss, Share(trigger, 1000 - Else(analysis.slPct, 25)))
             belowTriggerSl == Min({rawSl, Share(trigger, 995)})
             cappedSl == IF maxDrawdown = NOTHING THEN belowTriggerSl
                         ELSE Max({belowTriggerSl, Share(trigger, 1000 - maxDrawdown)})
         IN  {[trigger |-> trigger, takeProfit |-> tp, stopLoss |-> sl] :
                tp \in ToFixed(Max({rawTp, Share(trigger, 1010)}), CentOfPrice),
                sl \in ToFixed(cappedSl, CentOfPrice)} :
         trigger \in ToFixed(Else(analysis.trigger, Share(analysis.price, 997)), CentOfPrice)}

\* buildPositionImpact: the weight of the asset before and after, in ten-thousandths.
BuildPositionImpact(size, context) ==
  [weightBefore |-> IF context.total > 0 THEN (10000 * context.exposure) \div context.total ELSE 0,
   weightAfter  |-> IF context.total > 0 THEN (10000 * (context.exposure + size)) \div context.total ELSE 0,
   cashAfter    |-> context.cash - size]

--------------------------------------------------------------------------------
TermsInit ==
  /\ balanceClock = 0
  /\ wallet \in [cash : CashAmounts, asset : AssetAmounts]
  /\ balances = NOTHING
  /\ created = NOTHING

\* The user deposits, withdraws or trades.
WalletChanges ==
  /\ wallet' \in [cash : CashAmounts, asset : AssetAmounts]
  /\ UNCHANGED <<balanceClock, balances, created>>

\* readBalances: USDC and the asset are accounts of different token programs; one that
\* does not answer is left out, and what was read is kept all the same.
ReadBalances(answering) ==
  [at    |-> balanceClock,
   cash  |-> IF "token" \in answering THEN wallet.cash ELSE 0,
   asset |-> IF "token2022" \in answering THEN wallet.asset ELSE 0]

Kept == balances # NOTHING /\ balanceClock - balances.at < BalanceTtl

\* computePositionImpact: nothing in the wallet makes every field zero.
PositionImpactContext(read) ==
  [total |-> read.cash + read.asset, cash |-> read.cash, exposure |-> read.asset]

\* createBuyProposalForUser with buildBuyProposalCreateData: no size or no price, no proposal.
CreateBuyProposal(context, analysis, maxDrawdown, maxTradeSize) ==
  \E size \in SuggestedSizes(context.cash, maxTradeSize), prices \in BuildPrices(analysis, maxDrawdown) :
    created' = IF size > 0 /\ prices.trigger > 0 /\ prices.takeProfit > 0 /\ prices.stopLoss > 0
               THEN [size |-> size, prices |-> prices, impact |-> BuildPositionImpact(size, context),
                     context |-> context, limit |-> maxTradeSize]
               ELSE created

\* generateProposalsForBaseAnalysis, for one user: the exits are percentages.
GenerateProposal ==
  \E answering \in SUBSET {"token", "token2022"} :
    LET read == IF Kept THEN balances ELSE ReadBalances(answering)
    IN  /\ balances' = read
        /\ \E a \in MarketAnalyses, d \in Drawdowns, limit \in TradeLimits :
             CreateBuyProposal(PositionImpactContext(read), a, d, limit)
        /\ UNCHANGED <<balanceClock, wallet>>

\* readUsdcBalance with forceFresh and throwOnFailure: the cash, or no proposal at all.
FreshContext == [total |-> wallet.cash, cash |-> wallet.cash, exposure |-> 0]

\* createGrillProposal and the proposal lab: cash is read afresh, other holdings are not.
CreateFromFreshCash ==
  /\ \E a \in MarketAnalyses, d \in Drawdowns, limit \in TradeLimits :
       CreateBuyProposal(FreshContext, a, d, limit)
  /\ UNCHANGED <<balanceClock, wallet, balances>>

BalanceTick ==
  /\ balanceClock < LastBalanceTick
  /\ balanceClock' = balanceClock + 1
  /\ UNCHANGED <<wallet, balances, created>>

TermsNext == WalletChanges \/ GenerateProposal \/ CreateFromFreshCash \/ BalanceTick

TermsSpec == TermsInit /\ [][TermsNext]_termsVars

--------------------------------------------------------------------------------
TermsTypeOK ==
  /\ balanceClock \in 0 .. LastBalanceTick
  /\ wallet \in [cash : CashAmounts, asset : AssetAmounts]
  /\ balances # NOTHING => balances \in [at : 0 .. LastBalanceTick, cash : Nat, asset : Nat]
  /\ created # NOTHING => created.size \in Nat /\ created.prices \in [trigger : Nat, takeProfit : Nat, stopLoss : Nat]

\* Whatever the analysis suggests, a proposal buys within the mandate's limit and its
\* exits lie on their sides of the trigger; above a dollar, where a cent is less than the
\* least distance, they are off the trigger itself.
ExitsBracketTheTrigger ==
  created # NOTHING =>
    LET p == created.prices
    IN  /\ created.size <= created.limit
        /\ p.stopLoss <= p.trigger /\ p.trigger <= p.takeProfit
        /\ p.trigger > 100 * CentOfPrice => p.stopLoss < p.trigger /\ p.trigger < p.takeProfit

================================================================================
