------------------------------- MODULE WalletSales -------------------------------
(***************************************************************************)
(* The sales a user's pages make of the positions of one asset             *)
(* (closePosition, executeJupiterUltraSwap): the positions share the       *)
(* tokens of the wallet, and a sale asks the chain how many there are,     *)
(* orders a swap of its part, has it signed and executed, and only then    *)
(* writes the close.  A position is closed from its own page, from the     *)
(* panic buttons of the desk and of the settings, which walk a list one by *)
(* one, or from a SELL proposal, which has to fetch the size of the        *)
(* position first.                                                         *)
(*                                                                         *)
(* The tokens of a mint are under one token program; a balance is read     *)
(* from each of the two programs.  TriggerExecution has the race of a      *)
(* close with the orders of its position; here it is amounts that matter.  *)
(***************************************************************************)
EXTENDS Naturals, Sequences, SequencesExt, FiniteSets, Amounts, NoValue

CONSTANTS
  Holdings,   \* ACTIVE positions of the asset
  Size,       \* Position.tokenAmount of each
  Dust,       \* tokens of the wallet that are no position's
  Closers,    \* pages
  MaxSales,   \* bound on the sales begun
  ALL

VARIABLES
  home,       \* the program that owns the mint
  tokens,     \* the wallet's tokens on the chain
  held,       \* Position.state = ACTIVE
  listed,     \* the positions each page shows as ACTIVE
  detail,     \* the positions whose size each page has fetched
  closing,    \* the sale each page is making
  panicList,  \* the positions the panic button has still to close
  begun,
  sold        \* the sales that landed (history)

pageState == <<listed, detail, closing, panicList, begun>>
saleVars  == <<home, tokens, held, pageState, sold>>

SELL_BALANCE_TOKEN_PROGRAM_IDS == <<"SPL_TOKEN", "TOKEN_2022">>

ASSUME SalesAssumption ==
  /\ IsFiniteSet(Holdings) /\ Size \in [Holdings -> Nat] /\ Dust \in Nat /\ MaxSales \in Nat

SaleSteps == {"balance", "order", "sign", "execute", "persist"}
Sales == [position : Holdings, want : Nat \cup {ALL}, step : SaleSteps,
          raw : Nat, asked : 0 .. Len(SELL_BALANCE_TOKEN_PROGRAM_IDS),
          amount : Nat, onChain : Nat]

SalesTypeOK ==
  /\ home \in DOMAIN SELL_BALANCE_TOKEN_PROGRAM_IDS /\ tokens \in 0 .. Total(Size, Holdings) + Dust
  /\ held \subseteq Holdings
  /\ listed \in [Closers -> SUBSET Holdings] /\ detail \in [Closers -> SUBSET Holdings]
  /\ \A c \in Closers : closing[c] = NOTHING \/ closing[c] \in Sales
  /\ panicList \in [Closers -> Seq(Holdings)]
  /\ begun \in 0 .. MaxSales
  /\ \A s \in sold : s \in Sales

SalesInit ==
  /\ home \in DOMAIN SELL_BALANCE_TOKEN_PROGRAM_IDS /\ tokens = Total(Size, Holdings) + Dust
  /\ held = Holdings
  /\ listed = [c \in Closers |-> Holdings] /\ detail = [c \in Closers |-> {}]
  /\ closing = [c \in Closers |-> NOTHING] /\ panicList = [c \in Closers |-> <<>>]
  /\ begun = 0 /\ sold = {}

--------------------------------------------------------------------------------

StartsSale(c, p, want) ==
  /\ begun < MaxSales /\ begun' = begun + 1
  /\ closing' = [closing EXCEPT ![c] =
       [position |-> p, want |-> want, step |-> "balance", raw |-> 0, asked |-> 0, amount |-> 0, onChain |-> 0]]

\* A query of the page returns: /api/positions, or the detail of one of them.
Refetch(c) ==
  /\ \/ listed' = [listed EXCEPT ![c] = held] /\ UNCHANGED detail
     \/ /\ \E p \in Holdings : detail' = [detail EXCEPT ![c] = @ \cup {p}]
        /\ UNCHANGED listed
  /\ UNCHANGED <<home, tokens, held, closing, panicList, begun, sold>>

\* handleClose of the position page: the size it shows.
HandleClose(c, p) ==
  /\ closing[c] = NOTHING /\ panicList[c] = <<>>
  /\ p \in listed[c]
  /\ StartsSale(c, p, Size[p])
  /\ UNCHANGED <<home, tokens, held, listed, detail, panicList, sold>>

\* handleConfirmSell of a SELL proposal: the size if it has been fetched, and the
\* button does not wait for it; closePosition sells all without a size.
HandleConfirmSell(c, p) ==
  /\ closing[c] = NOTHING /\ panicList[c] = <<>>
  /\ p \in listed[c]
  /\ StartsSale(c, p, IF p \in detail[c] THEN Size[p] ELSE ALL)
  /\ UNCHANGED <<home, tokens, held, listed, detail, panicList, sold>>

\* handleAll of PanicCloseAll: the positions that are listed now ...
HandleAll(c) ==
  /\ closing[c] = NOTHING /\ panicList[c] = <<>> /\ listed[c] # {}
  /\ panicList' \in {[panicList EXCEPT ![c] = order] : order \in SetToSeqs(listed[c])}
  /\ UNCHANGED <<home, tokens, held, listed, detail, closing, begun, sold>>

\* handleCloseAll of the settings: the positions the server says there are.
HandleCloseAll(c) ==
  /\ closing[c] = NOTHING /\ panicList[c] = <<>>
  /\ panicList' \in {[panicList EXCEPT ![c] = order] : order \in SetToSeqs(held)}
  /\ UNCHANGED <<home, tokens, held, listed, detail, closing, begun, sold>>

\* closeOne of either: each closed when the last one has been, or has failed.
NextOfAll(c) ==
  /\ closing[c] = NOTHING /\ panicList[c] # <<>>
  /\ panicList' = [panicList EXCEPT ![c] = Tail(@)]
  /\ \/ StartsSale(c, Head(panicList[c]), Size[Head(panicList[c])])
     \/ UNCHANGED <<closing, begun>>
  /\ UNCHANGED <<home, tokens, held, listed, detail, sold>>

SaleEnds(c) == closing' = [closing EXCEPT ![c] = NOTHING]

SaleGoes(c, step) == closing' = [closing EXCEPT ![c].step = step]

\* readOwnerMintBalanceRaw: one program after the other; a call that fails is
\* remembered, and adds nothing.
ReadProgram(c) ==
  /\ closing[c] # NOTHING /\ closing[c].step = "balance"
  /\ closing[c].asked < Len(SELL_BALANCE_TOKEN_PROGRAM_IDS)
  /\ \/ /\ closing[c].asked + 1 = home
        /\ closing' = [closing EXCEPT ![c].asked = @ + 1, ![c].raw = tokens, ![c].onChain = tokens]
     \/ closing' = [closing EXCEPT ![c].asked = @ + 1]
  /\ UNCHANGED <<home, tokens, held, listed, detail, panicList, begun, sold>>

\* The whole balance is sold, however much the position is.
MutantSellRaw(want, walletRaw) == walletRaw

\* The part of the balance that executeJupiterUltraSwap sells.
SellRaw(want, walletRaw) ==
  IF want = ALL THEN walletRaw ELSE IF want < walletRaw THEN want ELSE walletRaw

\* Nothing was read, or nothing was found and not everything was read, or there
\* is nothing to sell: it throws.
PrepareAmount(c) ==
  /\ closing[c] # NOTHING /\ closing[c].step = "balance" /\ closing[c].asked = Len(SELL_BALANCE_TOKEN_PROGRAM_IDS)
  /\ IF closing[c].raw = 0
     THEN SaleEnds(c)
     ELSE closing' = [closing EXCEPT
            ![c].step = "order", ![c].amount = SellRaw(closing[c].want, closing[c].raw)]
  /\ UNCHANGED <<home, tokens, held, listed, detail, panicList, begun, sold>>

\* requestUltraOrder, and then the signature of the wallet: each may fail.
RequestOrder(c) ==
  /\ closing[c] # NOTHING /\ closing[c].step = "order"
  /\ SaleGoes(c, "sign") \/ SaleEnds(c)
  /\ UNCHANGED <<home, tokens, held, listed, detail, panicList, begun, sold>>

SignOrder(c) ==
  /\ closing[c] # NOTHING /\ closing[c].step = "sign"
  /\ SaleGoes(c, "execute") \/ SaleEnds(c)
  /\ UNCHANGED <<home, tokens, held, listed, detail, panicList, begun, sold>>

\* executeUltraOrder: the swap lands if the wallet still has the amount, and the
\* answer brings the signature, or is lost, or has none; or the swap fails.
ExecuteOrder(c) ==
  /\ closing[c] # NOTHING /\ closing[c].step = "execute"
  /\ \/ /\ closing[c].amount <= tokens
        /\ tokens' = tokens - closing[c].amount
        /\ sold' = sold \cup {closing[c]}
        /\ SaleGoes(c, "persist") \/ SaleEnds(c)
     \/ SaleEnds(c) /\ UNCHANGED <<tokens, sold>>
  /\ UNCHANGED <<home, held, listed, detail, panicList, begun>>

\* POST .../close or .../sell-confirm: written, or refused or lost.
PersistClose(c) ==
  /\ closing[c] # NOTHING /\ closing[c].step = "persist"
  /\ held' \in {held, held \ {closing[c].position}}
  /\ SaleEnds(c)
  /\ UNCHANGED <<home, tokens, listed, detail, panicList, begun, sold>>

SalesNext ==
  \E c \in Closers :
    \/ Refetch(c) \/ HandleAll(c) \/ HandleCloseAll(c) \/ NextOfAll(c)
    \/ \E p \in Holdings : HandleClose(c, p) \/ HandleConfirmSell(c, p)
    \/ ReadProgram(c) \/ PrepareAmount(c) \/ RequestOrder(c) \/ SignOrder(c) \/ ExecuteOrder(c) \/ PersistClose(c)

SalesSpec == SalesInit /\ [][SalesNext]_saleVars

--------------------------------------------------------------------------------
(* Properties.                                                             *)

\* A sale that knows the size of its position sells exactly that, or, if the
\* wallet held less when it was asked, all of that: a token program that could not
\* be read never makes it sell less, and no other position makes it sell more.
SaleIsScoped ==
  \A s \in sold : s.want # ALL =>
    s.amount = IF Size[s.position] < s.onChain THEN Size[s.position] ELSE s.onChain

\* A close never sells more than its position, nor takes the tokens of another.
ClosingSellsOnlyItsPosition == \A s \in sold : s.amount <= Size[s.position]

================================================================================
