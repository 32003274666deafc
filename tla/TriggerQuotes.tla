------------------------------ MODULE TriggerQuotes ------------------------------
(***************************************************************************)
(* The arithmetic between an order and its swap                            *)
(* (packages/shared/src/synthetic-order-execution.ts, and prepareInput-    *)
(* Amount): the mark wakes an order inside a band, the amount to swap is   *)
(* planned and cut to what the wallet holds, a quote is asked for, and the *)
(* price it comes to is held against the trigger.  What is settled is the  *)
(* quote that was signed, whatever the swap returned within its slippage.  *)
(*                                                                         *)
(* One token is Token raw units; a price is USDC per token, in units of a  *)
(* raw unit of USDC per raw unit of the token times Token.                 *)
(***************************************************************************)
EXTENDS Integers, FiniteSets, FiniteSetsExt, NoValue

CONSTANTS
  SyntheticOrders,             \* open orders, see OrderShape
  Marks,                       \* prices of the oracle
  WalletAmounts,               \* raw balances of the input mint
  Token,                       \* raw units of a token
  Spread                       \* per mille the mark may be off a quote

VARIABLES
  openOrder, mark, funds,      \* the order, the oracle's price, the input mint in the wallet
  phase,                       \* "watched", "woken", "quoted", "swapped"
  wokenAt,                     \* the mark that woke it
  quoted, settlement           \* what the quote would swap, what was swapped

quoteVars == <<openOrder, mark, funds, phase, wokenAt, quoted, settlement>>

OrderShape == [kind : {"BUY_TRIGGER", "TAKE_PROFIT", "STOP_LOSS"}, trigger : Nat \ {0},
               sizeUsd : Nat, tokenAmount : Nat]

ASSUME QuotesAssumption ==
  /\ SyntheticOrders \subseteq OrderShape
  /\ Marks \subseteq Nat \ {0} /\ WalletAmounts \subseteq Nat
  /\ Token \in Nat \ {0} /\ Spread \in 0 .. 5

Buys(order) == order.kind = "BUY_TRIGGER"

--------------------------------------------------------------------------------
\* A take-profit is woken like the orders below the market.
MutantPythWakeUpBandHit(order, price) == 1000 * price <= 1005 * order.trigger

\* pythWakeUpBandHit: half a percent before the trigger.
PythWakeUpBandHit(order, price) ==
  IF order.kind = "TAKE_PROFIT" THEN 1000 * price >= 995 * order.trigger
  ELSE 1000 * price <= 1005 * order.trigger

\* buildTriggerUltraSwapPlan: USDC of its size for a buy, the tokens of the order for an
\* exit, which must have some.
RequestedRaw(order) == IF Buys(order) THEN order.sizeUsd ELSE order.tokenAmount

\* submittedInputRawForBalance: an exit sells what there is of it, a buy is all or nothing.
SubmittedInputRaw(order, walletRaw) ==
  LET requested == RequestedRaw(order)
  IN  CASE requested = 0                       -> NOTHING
        [] requested > 0 /\ walletRaw >= requested -> requested
        [] requested > walletRaw /\ ~ Buys(order) /\ walletRaw > 0 -> walletRaw
        [] OTHER -> NOTHING

\* settlementAmountsForTrigger: the tokens and the USDC of a swap.
SettlementAmounts(order, swap) ==
  IF Buys(order) THEN [tokens |-> swap.out, usd |-> swap.in] ELSE [tokens |-> swap.in, usd |-> swap.out]

\* executableTriggerDecision, without dividing: the price is usd per token, or the mark
\* when there are no tokens.
Triggerable(order, swap, price) ==
  LET amounts == SettlementAmounts(order, swap)
      usd     == IF amounts.tokens > 0 THEN amounts.usd * Token ELSE price
      at      == IF amounts.tokens > 0 THEN order.trigger * amounts.tokens ELSE order.trigger
  IN  IF order.kind = "TAKE_PROFIT" THEN usd >= at ELSE usd <= at

\* What a swap of so much may return when the mark is at most Spread off its price.
Returns(order, in, price) ==
  LET least(n, d) == (n + d - 1) \div d
  IN  IF Buys(order)
      THEN (least((1000 - Spread) * in * Token, 1000 * price) ..
              ((1000 + Spread) * in * Token) \div (1000 * price)) \ {0}
      ELSE least(1000 * price * in, (1000 + Spread) * Token) ..
              (1000 * price * in) \div ((1000 - Spread) * Token)

--------------------------------------------------------------------------------
QuotesInit ==
  /\ openOrder \in SyntheticOrders /\ mark \in Marks /\ funds \in WalletAmounts
  /\ phase = "watched" /\ wokenAt = NOTHING /\ quoted = NOTHING /\ settlement = NOTHING

PriceMoves ==
  /\ mark' \in Marks
  /\ UNCHANGED <<openOrder, funds, phase, wokenAt, quoted, settlement>>

WalletMoves ==
  /\ funds' \in WalletAmounts
  /\ UNCHANGED <<openOrder, mark, phase, wokenAt, quoted, settlement>>

\* The monitor's look at the order.
WakeOrder ==
  /\ phase = "watched" /\ PythWakeUpBandHit(openOrder, mark)
  /\ phase' = "woken" /\ wokenAt' = mark
  /\ UNCHANGED <<openOrder, mark, funds, quoted, settlement>>

\* quoteExecutableTrigger: an order that cannot be funded, or whose price is not there
\* yet, is watched again.
QuoteOrder ==
  /\ phase = "woken"
  /\ LET in == SubmittedInputRaw(openOrder, funds)
     IN  \/ /\ in = NOTHING
            /\ phase' = "watched" /\ UNCHANGED quoted
         \/ /\ in # NOTHING
            /\ \E out \in Returns(openOrder, in, mark) :
                 LET swap == [in |-> in, out |-> out]
                 IN  IF Triggerable(openOrder, swap, wokenAt)
                     THEN phase' = "quoted" /\ quoted' = swap
                     ELSE phase' = "watched" /\ UNCHANGED quoted
  /\ UNCHANGED <<openOrder, mark, funds, wokenAt, settlement>>

\* The signed transaction swaps the quoted input if it is still there, and the quote's
\* amounts are recorded.
SwapOrder ==
  /\ phase = "quoted"
  /\ IF funds < quoted.in
     THEN phase' = "watched" /\ UNCHANGED <<settlement, funds>>
     ELSE /\ settlement' = SettlementAmounts(openOrder, quoted)
          /\ funds' = funds - quoted.in
          /\ phase' = "swapped"
  /\ UNCHANGED <<openOrder, mark, wokenAt, quoted>>

QuotesNext == PriceMoves \/ WalletMoves \/ WakeOrder \/ QuoteOrder \/ SwapOrder

QuotesSpec == QuotesInit /\ [][QuotesNext]_quoteVars

--------------------------------------------------------------------------------
QuotesTypeOK ==
  /\ openOrder \in SyntheticOrders /\ mark \in Marks /\ funds \in Nat
  /\ phase \in {"watched", "woken", "quoted", "swapped"}
  /\ wokenAt \in Marks \cup {NOTHING}
  /\ quoted # NOTHING => quoted \in [in : Nat \ {0}, out : Nat]
  /\ settlement # NOTHING => settlement \in [tokens : Nat, usd : Nat]

\* The wake-up band loses nothing: whenever the wallet could be quoted a price within half
\* a percent of the mark at which the order may execute, the mark wakes the order.
BandCoversExecutableQuotes ==
  LET in == SubmittedInputRaw(openOrder, funds)
  IN  (in # NOTHING /\ \E out \in Returns(openOrder, in, mark) :
                          Triggerable(openOrder, [in |-> in, out |-> out], mark))
        => PythWakeUpBandHit(openOrder, mark)

================================================================================
