------------------------------ MODULE WithdrawPage ------------------------------
(***************************************************************************)
(* The withdraw page (WithdrawPage, useWalletTransfer): the user fills a   *)
(* form, a transfer is prepared from it and shown for review, sent, and    *)
(* its result shown.  Only some of the controls are disabled while an      *)
(* await is out: the form can be edited while a transfer is prepared or    *)
(* sent, and a maximum asked for earlier may arrive at any time.           *)
(*                                                                         *)
(* The wallet holds USDC in several token accounts, and SOL for fees; what *)
(* else happens to it (a deposit, a swap) is Outside.  An amount is in     *)
(* units of an asset and 0 is a field that is empty or is no amount.       *)
(***************************************************************************)
EXTENDS Naturals, Sequences, Functions, FiniteSets, Subsequences, Amounts, NoValue

CONSTANTS
  Accounts,      \* USDC token accounts of the wallet
  Destinations,  \* wallet addresses that are not the user's own
  MaxAmount,     \* bound on the amounts typed and on the balance of an account
  Fee, Rent,     \* estimated fee, rent of a token account of the recipient
  MaxSends       \* bound on the transfers sent

ASSUME WithdrawAssumption ==
  /\ IsFiniteSet(Accounts)
  /\ MaxAmount \in Nat \ {0} /\ Fee \in Nat /\ Rent \in Nat

VARIABLES
  form,          \* asset, destinationAddress, amount
  prepared,
  preparing,     \* the arguments of the prepare that is out (isPreparing)
  loadingMax,    \* the asset of the getMaxTransferAmount that is out
  sending,       \* the transfer of the send that is out (isSending)
  sendStep,
  result,
  usdc, sol,     \* the wallet on the chain
  reviewed,      \* the transfer on the card at each click on Send (history)
  landed         \* the transfers that landed, with what each took (history)

formVars     == <<form, prepared, preparing, loadingMax>>
sendVars     == <<sending, sendStep, result>>
chainVars    == <<usdc, sol>>
withdrawVars == <<formVars, sendVars, chainVars, reviewed, landed>>

Assets2   == {"USDC", "SOL"}
Forms     == [asset : Assets2, amount : 0 .. MaxAmount, destination : Destinations \cup {NOTHING}]
Transfers == [asset : Assets2, amount : 1 .. MaxAmount, destination : Destinations,
              chunks : [Accounts -> 0 .. MaxAmount], cost : {Fee, Fee + Rent}]

WithdrawTypeOK ==
  /\ form \in Forms
  /\ prepared \in Transfers \cup {NOTHING}
  /\ preparing \in Forms \cup {NOTHING}
  /\ loadingMax \in Assets2 \cup {NOTHING}
  /\ sending \in Transfers \cup {NOTHING}
  /\ sendStep \in {"idle", "sign", "confirm", "fails", "sync"}
  /\ result \in {NOTHING} \cup {[status |-> s] : s \in {"confirmed", "failed", "unknown"}}
  /\ usdc \in [Accounts -> 0 .. MaxAmount] /\ sol \in Nat
  /\ reviewed \in Seq(Transfers) /\ landed \in Seq(Transfers)

WithdrawInit ==
  /\ form = [asset |-> "USDC", amount |-> 0, destination |-> NOTHING]
  /\ prepared = NOTHING /\ preparing = NOTHING /\ loadingMax = NOTHING
  /\ sending = NOTHING /\ sendStep = "idle" /\ result = NOTHING
  /\ usdc \in [Accounts -> {0, 1}] /\ sol = Fee + Rent
  /\ reviewed = <<>> /\ landed = <<>>

--------------------------------------------------------------------------------

isSending   == sending # NOTHING
isSyncing   == sendStep = "sync"
canContinue == form.destination # NOTHING /\ form.amount > 0 /\ preparing = NOTHING /\ ~ isSending

\* changeAsset, changeAmount, changeDestination: resetReviewState, at any time.
ChangeForm ==
  /\ \E next \in Forms :
       /\ next # form
       /\ \/ next.asset # form.asset /\ next = [form EXCEPT !.asset = next.asset, !.amount = 0]
          \/ next = [form EXCEPT !.amount = next.amount]
          \/ next = [form EXCEPT !.destination = next.destination]
       /\ form' = next
  /\ prepared' = NOTHING /\ result' = NOTHING
  /\ UNCHANGED <<preparing, loadingMax, sending, sendStep, chainVars, reviewed, landed>>

\* fillMax, up to its await.
FillMax ==
  /\ loadingMax = NOTHING
  /\ loadingMax' = form.asset
  /\ UNCHANGED <<form, prepared, preparing, sendVars, chainVars, reviewed, landed>>

\* getMaxTransferAmount: the USDC of all accounts, the SOL above the fee and a
\* buffer; what it finds replaces the amount, whatever the asset is by now.
MaxArrives ==
  /\ loadingMax # NOTHING
  /\ loadingMax' = NOTHING
  /\ \/ UNCHANGED <<form, prepared, result>>
     \/ LET max == IF loadingMax = "USDC" THEN Total(usdc, Accounts) ELSE IF sol > Fee THEN sol - Fee ELSE 0
        IN  /\ form' = [form EXCEPT !.amount = IF max < MaxAmount THEN max ELSE MaxAmount]
            /\ prepared' = NOTHING /\ result' = NOTHING
  /\ UNCHANGED <<preparing, sending, sendStep, chainVars, reviewed, landed>>

\* prepareTransfer, up to its awaits: the card of an earlier transfer stays.
PrepareTransfer ==
  /\ canContinue
  /\ preparing' = form
  /\ result' = NOTHING
  /\ UNCHANGED <<form, prepared, loadingMax, sending, sendStep, chainVars, reviewed, landed>>

\* The order the accounts are listed in.
Listings == {place \in [Accounts -> 1 .. Cardinality(Accounts)] : IsInjective(place)}

\* The loop over the accounts: each gives what it has, until the amount is reached.
ChunksOf(amount, place) ==
  LET before(a) == Total(usdc, {b \in Accounts : place[b] < place[a]})
      left(a)   == IF before(a) < amount THEN amount - before(a) ELSE 0
  IN  [a \in Accounts |-> IF usdc[a] < left(a) THEN usdc[a] ELSE left(a)]

\* prepare: the transfer, or an error if the destination is not a wallet, the
\* balance does not cover the amount or the SOL does not cover the cost.
prepare(args, place, cost) ==
  IF args.asset = "SOL"
  THEN IF sol >= args.amount + Fee
       THEN {[asset |-> "SOL", amount |-> args.amount, destination |-> args.destination,
              chunks |-> [a \in Accounts |-> 0], cost |-> Fee]}
       ELSE {}
  ELSE IF Total(usdc, Accounts) >= args.amount /\ sol >= cost
       THEN {[asset |-> "USDC", amount |-> args.amount, destination |-> args.destination,
              chunks |-> ChunksOf(args.amount, place), cost |-> cost]}
       ELSE {}

Prepared ==
  /\ preparing # NOTHING
  /\ preparing' = NOTHING
  /\ \/ prepared' = NOTHING
     \/ \E place \in Listings, cost \in {Fee, Fee + Rent} :
          \E t \in prepare(preparing, place, cost) : prepared' = t
  /\ UNCHANGED <<form, loadingMax, sendVars, chainVars, reviewed, landed>>

\* The review card is there: onEdit, and onSend up to its await.
onReview == prepared # NOTHING /\ result = NOTHING /\ ~ isSyncing /\ ~ isSending

EditTransfer ==
  /\ onReview
  /\ prepared' = NOTHING
  /\ UNCHANGED <<form, preparing, loadingMax, sendVars, chainVars, reviewed, landed>>

SendTransfer ==
  /\ onReview /\ Len(reviewed) < MaxSends
  /\ sending' = prepared /\ sendStep' = "sign"
  /\ reviewed' = Append(reviewed, prepared)
  /\ UNCHANGED <<formVars, result, chainVars, landed>>

\* The transfer signed is the one prepared last.
MutantSigned == IF prepared # NOTHING THEN prepared ELSE sending

\* transfer.send(prepared): the transfer of the click.
Signed == sending

SendThrows == sending' = NOTHING /\ sendStep' = "idle" /\ result' = NOTHING

\* signAndSendTransaction: rejected, and nothing is submitted; or submitted, and it
\* lands or fails on the chain, whether the page is told the signature or an error.
Sign ==
  /\ sendStep = "sign"
  /\ \/ SendThrows /\ UNCHANGED <<chainVars, landed>>
     \/ LET t == Signed
            funded == /\ \A a \in Accounts : usdc[a] >= t.chunks[a]
                      /\ sol >= t.cost + (IF t.asset = "SOL" THEN t.amount ELSE 0)
        IN  IF funded
            THEN /\ usdc' = [a \in Accounts |-> usdc[a] - t.chunks[a]]
                 /\ sol' = sol - t.cost - (IF t.asset = "SOL" THEN t.amount ELSE 0)
                 /\ landed' = Append(landed, t)
                 /\ \/ sendStep' = "confirm" /\ UNCHANGED <<sending, result>>
                    \/ SendThrows
            ELSE /\ sol' = IF sol > Fee THEN sol - Fee ELSE 0
                 /\ sendStep' = "fails"
                 /\ UNCHANGED <<sending, result, usdc, landed>>
  /\ UNCHANGED <<formVars, reviewed>>

Finishes(status) ==
  /\ sending' = NOTHING /\ sendStep' = "idle"
  /\ result' = [status |-> status]

\* confirmTransaction: confirmed, failed, or it throws and the outcome is unknown.
Confirm ==
  /\ \/ sendStep = "confirm" /\ sendStep' = "sync" /\ UNCHANGED <<sending, result>>
     \/ sendStep = "fails" /\ Finishes("failed")
     \/ sendStep \in {"confirm", "fails"} /\ Finishes("unknown")
  /\ UNCHANGED <<formVars, chainVars, reviewed, landed>>

\* syncConfirmedBalance: some attempts, each an await; synced or not, it ends.
SyncBalance ==
  /\ isSyncing
  /\ Finishes("confirmed")
  /\ UNCHANGED <<formVars, chainVars, reviewed, landed>>

\* The result card: onNewTransfer.
NewTransfer ==
  /\ result # NOTHING /\ prepared # NOTHING
  /\ prepared' = NOTHING /\ result' = NOTHING
  /\ form' = [form EXCEPT !.amount = 0, !.destination = NOTHING]
  /\ UNCHANGED <<preparing, loadingMax, sending, sendStep, chainVars, reviewed, landed>>

\* A deposit into an account, or a swap that spends what is in it.
Outside ==
  /\ \E a \in Accounts : usdc' = [usdc EXCEPT ![a] = 1 - @] /\ usdc[a] \in {0, 1}
  /\ UNCHANGED <<formVars, sendVars, sol, reviewed, landed>>

WithdrawNext ==
  \/ ChangeForm \/ FillMax \/ MaxArrives \/ PrepareTransfer \/ Prepared \/ EditTransfer
  \/ SendTransfer \/ Sign \/ Confirm \/ SyncBalance \/ NewTransfer \/ Outside

WithdrawSpec == WithdrawInit /\ [][WithdrawNext]_withdrawVars

--------------------------------------------------------------------------------
(* Properties.                                                             *)

\* What lands is what the user saw when sending, one transfer a click, and takes
\* its amount from the accounts, no less and no more: whatever was edited, prepared
\* or filled in while it was signed.
LandsAsReviewed ==
  /\ \E clicks \in SUBSET DOMAIN reviewed : landed = Picked(reviewed, clicks)
  /\ \A i \in DOMAIN landed :
       landed[i].asset = "USDC" => Total(landed[i].chunks, Accounts) = landed[i].amount

================================================================================
