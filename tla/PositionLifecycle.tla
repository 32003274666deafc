--------------------------- MODULE PositionLifecycle ---------------------------
(***************************************************************************)
(* The transactions of packages/db/src/lifecycle/position-lifecycle.ts on  *)
(* the Proposal, Position, Order and Trade tables of one user, each        *)
(* transaction one atomic step.  (LifecycleStatements takes the            *)
(* transactions apart, statement by statement, and shows that they         *)
(* implement the steps of this module.)                                    *)
(*                                                                         *)
(* A table is a set of row identifiers, and a column a function on it; a   *)
(* row that has not been inserted has status "ABSENT".  Every WHERE clause *)
(* of the source also asks for the caller's userId: with one user the      *)
(* conjunct is always true and is left out.  Prices and amounts are        *)
(* positive (the zod schemas of the routes and the first guards of each    *)
(* function refuse the others) and no guard tells two of them apart; only  *)
(* whether a position has been given a token amount is kept.  A call that  *)
(* is refused changes nothing and is no step here; what it answers is      *)
(* SettleOutcome and the like, which the modules that call it use.         *)
(*                                                                         *)
(* An operator named Mutant... is the one defined after it with a bug put  *)
(* in.  Nothing uses it: it is there to show that a property would see     *)
(* the bug.                                                                *)
(***************************************************************************)
EXTENDS Naturals

CONSTANTS
  Proposals,    \* identifiers of Proposal rows
  Positions,    \* identifiers of Position rows
  Orders,       \* identifiers of Order rows
  Signatures,   \* transaction signatures of Solana swaps
  NULL          \* the null of a nullable column

VARIABLES
  proposalStatus,    \* Proposal.status
  proposalAction,    \* Proposal.action
  proposalPosition,  \* Proposal.positionId
  lapsed,            \* the proposals whose expiresAt is not after the clock
  state,             \* Position.state
  closedReason,      \* Position.closedReason
  hasTokens,         \* Position.tokenAmount > 0
  kind,              \* Order.kind
  status,            \* Order.status
  positionOf,        \* Order.positionId
  txSignature,       \* Order.txSignature, a unique column
  trades             \* the number of Trade rows of a position, by source

proposalVars == <<proposalStatus, proposalAction, proposalPosition, lapsed>>
positionVars == <<state, closedReason, hasTokens>>
orderVars    == <<kind, status, positionOf, txSignature>>
vars         == <<proposalVars, positionVars, orderVars, trades>>

--------------------------------------------------------------------------------
(* The enumerations of the schema, as far as the code uses them.           *)

ProposalStatuses == {"ABSENT", "ACTIVE", "EXECUTED", "EXPIRED", "SKIPPED"}
PositionStates   == {"ABSENT", "BUY_PENDING", "ENTERING", "ACTIVE", "CLOSING", "CLOSED"}
ClosedReasons    == {"BUY_CANCELLED", "TP_FILLED", "SL_FILLED", "USER_CLOSE"}
OrderStatuses    == {"ABSENT", "OPEN", "PENDING", "FILLED", "CANCELLED"}
ProtectionKinds  == {"TAKE_PROFIT", "STOP_LOSS"}
ExecutableKinds  == {"BUY_TRIGGER"} \cup ProtectionKinds
OrderKinds       == ExecutableKinds \cup {"CLOSE_SWAP"}
TradeSources     == {"BUY_APPROVAL", "TP_FILL", "SL_FILL", "USER_CLOSE"}

\* NULL is none of the values a nullable column holds.
ASSUME NullAssumption ==
  NULL \notin Positions \cup Signatures \cup OrderKinds \cup ClosedReasons \cup {"BUY", "SELL"}

\* executionStateFor: the state a claim of an order finds its position in,
\* and the state it leaves it in.
Before(k)  == IF k = "BUY_TRIGGER" THEN "BUY_PENDING" ELSE "ACTIVE"
Pending(k) == IF k = "BUY_TRIGGER" THEN "ENTERING" ELSE "CLOSING"

\* What a filled exit of each kind writes on the position and in the ledger.
ReasonOf(k)  == CASE k = "TAKE_PROFIT" -> "TP_FILLED"
                  [] k = "STOP_LOSS"   -> "SL_FILLED"
                  [] OTHER             -> "USER_CLOSE"
SourceOf(k)  == CASE k = "TAKE_PROFIT" -> "TP_FILL"
                  [] k = "STOP_LOSS"   -> "SL_FILL"
                  [] OTHER             -> "USER_CLOSE"
SiblingOf(k) == IF k = "TAKE_PROFIT" THEN "STOP_LOSS" ELSE "TAKE_PROFIT"

FreshOrders    == {o \in Orders : status[o] = "ABSENT"}
FreshPositions == {p \in Positions : state[p] = "ABSENT"}

\* The orders of a position with one of the kinds `ks` that still wait for a trigger.
OpenOrders(p, ks) ==
  {o \in Orders : positionOf[o] = p /\ kind[o] \in ks /\ status[o] = "OPEN"}

\* Only the exits are searched.
MutantSignatureUsed(s) == \E o \in Orders : txSignature[o] = s /\ kind[o] # "BUY_TRIGGER"

\* findOrderByTxSignature(s) # null
SignatureUsed(s) == \E o \in Orders : txSignature[o] = s

BookTrade(p, source) == trades' = [trades EXCEPT ![p][source] = @ + 1]

TypeOK ==
  /\ proposalStatus \in [Proposals -> ProposalStatuses]
  /\ proposalAction \in [Proposals -> {"BUY", "SELL", NULL}]
  /\ proposalPosition \in [Proposals -> Positions \cup {NULL}]
  /\ lapsed \subseteq Proposals
  /\ state \in [Positions -> PositionStates]
  /\ closedReason \in [Positions -> ClosedReasons \cup {NULL}]
  /\ hasTokens \in [Positions -> BOOLEAN]
  /\ kind \in [Orders -> OrderKinds \cup {NULL}]
  /\ status \in [Orders -> OrderStatuses]
  /\ positionOf \in [Orders -> Positions \cup {NULL}]
  /\ txSignature \in [Orders -> Signatures \cup {NULL}]
  /\ trades \in [Positions -> [TradeSources -> Nat]]

Init ==
  /\ proposalStatus = [x \in Proposals |-> "ABSENT"]
  /\ proposalAction = [x \in Proposals |-> NULL]
  /\ proposalPosition = [x \in Proposals |-> NULL]
  /\ lapsed = {}
  /\ state = [p \in Positions |-> "ABSENT"]
  /\ closedReason = [p \in Positions |-> NULL]
  /\ hasTokens = [p \in Positions |-> FALSE]
  /\ kind = [o \in Orders |-> NULL]
  /\ status = [o \in Orders |-> "ABSENT"]
  /\ positionOf = [o \in Orders |-> NULL]
  /\ txSignature = [o \in Orders |-> NULL]
  /\ trades = [p \in Positions |-> [s \in TradeSources |-> 0]]


--------------------------------------------------------------------------------
(* Proposals: their creation and their clock, as far as this module needs  *)
(* them.  ProposalLifecycle has everything else that writes the table.     *)

\* createBuyProposalForUser inserts an ACTIVE BUY row.
CreateBuyProposal(x) ==
  /\ proposalStatus[x] = "ABSENT"
  /\ proposalStatus' = [proposalStatus EXCEPT ![x] = "ACTIVE"]
  /\ proposalAction' = [proposalAction EXCEPT ![x] = "BUY"]
  /\ UNCHANGED <<proposalPosition, lapsed, positionVars, orderVars, trades>>

\* runThesisMonitor inserts an ACTIVE SELL row for a position that it read as
\* ACTIVE or ENTERING some awaits ago: by now it may be in any state.
CreateSellProposal(x, p) ==
  /\ proposalStatus[x] = "ABSENT"
  /\ state[p] # "ABSENT"
  /\ proposalStatus' = [proposalStatus EXCEPT ![x] = "ACTIVE"]
  /\ proposalAction' = [proposalAction EXCEPT ![x] = "SELL"]
  /\ proposalPosition' = [proposalPosition EXCEPT ![x] = p]
  /\ UNCHANGED <<lapsed, positionVars, orderVars, trades>>

\* The clock passes expiresAt.
Lapse(x) ==
  /\ proposalStatus[x] # "ABSENT"
  /\ x \notin lapsed
  /\ lapsed' = lapsed \cup {x}
  /\ UNCHANGED <<proposalStatus, proposalAction, proposalPosition,
                 positionVars, orderVars, trades>>

\* expireActiveProposals: what it leaves in Proposal.status.
Expired ==
  [x \in Proposals |-> IF proposalStatus[x] = "ACTIVE" /\ x \in lapsed
                         THEN "EXPIRED" ELSE proposalStatus[x]]

\* expireActiveProposals commits on its own: at the start of a read of the
\* feed, or in an acceptance that then finds its proposal gone.
ExpireActiveProposals ==
  /\ proposalStatus' = Expired
  /\ UNCHANGED <<proposalAction, proposalPosition, lapsed, positionVars, orderVars, trades>>

--------------------------------------------------------------------------------
(* Entering a position.                                                    *)

\* The claim of the proposal does not ask for ACTIVE.
MutantAcceptBuyProposal(x, p, b) ==
  /\ proposalAction[x] = "BUY"
  /\ p \in FreshPositions
  /\ b \in FreshOrders
  /\ proposalStatus' = [Expired EXCEPT ![x] = "EXECUTED"]
  /\ proposalPosition' = [proposalPosition EXCEPT ![x] = p]
  /\ state' = [state EXCEPT ![p] = "BUY_PENDING"]
  /\ kind' = [kind EXCEPT ![b] = "BUY_TRIGGER"]
  /\ status' = [status EXCEPT ![b] = "OPEN"]
  /\ positionOf' = [positionOf EXCEPT ![b] = p]
  /\ UNCHANGED <<proposalAction, lapsed, closedReason, hasTokens, txSignature, trades>>

\* The proposal is claimed, then the position p and its BUY order b inserted.
AcceptBuyProposal(x, p, b) ==
  /\ Expired[x] = "ACTIVE"
  /\ proposalAction[x] = "BUY"
  /\ p \in FreshPositions
  /\ b \in FreshOrders
  /\ proposalStatus' = [Expired EXCEPT ![x] = "EXECUTED"]
  /\ proposalPosition' = [proposalPosition EXCEPT ![x] = p]
  /\ state' = [state EXCEPT ![p] = "BUY_PENDING"]
  /\ kind' = [kind EXCEPT ![b] = "BUY_TRIGGER"]
  /\ status' = [status EXCEPT ![b] = "OPEN"]
  /\ positionOf' = [positionOf EXCEPT ![b] = p]
  /\ UNCHANGED <<proposalAction, lapsed, closedReason, hasTokens, txSignature, trades>>

\* cancelPendingBuyTx, which both cancelPendingBuy and cancelOpenOrder run.  If
\* the position were not BUY_PENDING the code throws a LifecycleInvariantError.
CancelPendingBuy(o) ==
  /\ kind[o] = "BUY_TRIGGER"
  /\ status[o] = "OPEN"
  /\ state[positionOf[o]] = "BUY_PENDING"
  /\ status' = [status EXCEPT ![o] = "CANCELLED"]
  /\ state' = [state EXCEPT ![positionOf[o]] = "CLOSED"]
  /\ closedReason' = [closedReason EXCEPT ![positionOf[o]] = "BUY_CANCELLED"]
  /\ UNCHANGED <<proposalVars, hasTokens, kind, positionOf, txSignature, trades>>

\* The BUY order is filled, the position becomes ACTIVE, the trade is booked
\* and the take-profit tp and the stop-loss sl are armed, whatever exits the
\* position already has.
ConfirmBuyFill(o, s, tp, sl) ==
  /\ kind[o] = "BUY_TRIGGER"
  /\ status[o] \in {"OPEN", "PENDING"}
  /\ state[positionOf[o]] \in {"BUY_PENDING", "ENTERING"}
  /\ ~ SignatureUsed(s)
  /\ tp \in FreshOrders /\ sl \in FreshOrders /\ tp # sl
  /\ state' = [state EXCEPT ![positionOf[o]] = "ACTIVE"]
  /\ hasTokens' = [hasTokens EXCEPT ![positionOf[o]] = TRUE]
  /\ kind' = [kind EXCEPT ![tp] = "TAKE_PROFIT", ![sl] = "STOP_LOSS"]
  /\ status' = [status EXCEPT ![o] = "FILLED", ![tp] = "OPEN", ![sl] = "OPEN"]
  /\ positionOf' = [positionOf EXCEPT ![tp] = positionOf[o], ![sl] = positionOf[o]]
  /\ txSignature' = [txSignature EXCEPT ![o] = s]
  /\ BookTrade(positionOf[o], "BUY_APPROVAL")
  /\ UNCHANGED <<proposalVars, closedReason>>

--------------------------------------------------------------------------------
(* The execution claim.                                                    *)

\* The claim takes the order without asking for the state of its position.
MutantClaimOrderExecution(o) ==
  /\ kind[o] \in ExecutableKinds
  /\ status[o] = "OPEN"
  /\ status' = [status EXCEPT ![o] = "PENDING"]
  /\ state' = [state EXCEPT ![positionOf[o]] = Pending(kind[o])]
  /\ UNCHANGED <<proposalVars, closedReason, hasTokens, kind, positionOf, txSignature, trades>>

\* claimOrderExecution.  The order and its position move together: a position
\* that has left Before(kind) rolls the claim back.
ClaimOrderExecution(o) ==
  /\ kind[o] \in ExecutableKinds
  /\ status[o] = "OPEN"
  /\ state[positionOf[o]] = Before(kind[o])
  /\ status' = [status EXCEPT ![o] = "PENDING"]
  /\ state' = [state EXCEPT ![positionOf[o]] = Pending(kind[o])]
  /\ UNCHANGED <<proposalVars, closedReason, hasTokens, kind, positionOf, txSignature, trades>>

\* releaseOrderExecutionClaim.  Nothing records who made the claim.
ReleaseOrderExecutionClaim(o) ==
  /\ kind[o] \in ExecutableKinds
  /\ status[o] = "PENDING"
  /\ txSignature[o] = NULL
  /\ state[positionOf[o]] = Pending(kind[o])
  /\ status' = [status EXCEPT ![o] = "OPEN"]
  /\ state' = [state EXCEPT ![positionOf[o]] = Before(kind[o])]
  /\ UNCHANGED <<proposalVars, closedReason, hasTokens, kind, positionOf, txSignature, trades>>

--------------------------------------------------------------------------------
(* Protection: the exits of a position.                                    *)

\* placeProtectionOrder.  No guard asks whether an exit of this kind is open.
PlaceProtectionOrder(p, k, o) ==
  /\ state[p] \in {"ACTIVE", "ENTERING"}
  /\ o \in FreshOrders
  /\ kind' = [kind EXCEPT ![o] = k]
  /\ status' = [status EXCEPT ![o] = "OPEN"]
  /\ positionOf' = [positionOf EXCEPT ![o] = p]
  /\ UNCHANGED <<proposalVars, positionVars, txSignature, trades>>

\* replaceProtectionOrders.  tps holds the new take-profit when a price was
\* given for it and is empty otherwise, and so does sls for the stop-loss.
ReplaceProtectionOrders(p, tps, sls) ==
  LET replaced == {k \in ProtectionKinds : IF k = "TAKE_PROFIT" THEN tps # {} ELSE sls # {}}
      stale    == OpenOrders(p, replaced)
      new      == tps \cup sls
  IN  /\ new # {}
      /\ new \subseteq FreshOrders
      /\ tps \cap sls = {}
      /\ state[p] = "ACTIVE"
      /\ hasTokens[p]
      /\ kind' = [o \in Orders |-> IF o \in tps THEN "TAKE_PROFIT"
                                   ELSE IF o \in sls THEN "STOP_LOSS" ELSE kind[o]]
      /\ status' = [o \in Orders |-> IF o \in new THEN "OPEN"
                                     ELSE IF o \in stale THEN "CANCELLED" ELSE status[o]]
      /\ positionOf' = [o \in Orders |-> IF o \in new THEN p ELSE positionOf[o]]
      /\ UNCHANGED <<proposalVars, positionVars, txSignature, trades>>

\* The update does not ask for OPEN: a filled exit can be cancelled.
MutantCancelProtectionOrder(o) ==
  /\ kind[o] \in ProtectionKinds
  /\ status' = [status EXCEPT ![o] = "CANCELLED"]
  /\ UNCHANGED <<proposalVars, positionVars, kind, positionOf, txSignature, trades>>

\* cancelOpenOrder on an exit: that leg alone, whatever the position's state.
CancelProtectionOrder(o) ==
  /\ kind[o] \in ProtectionKinds
  /\ status[o] = "OPEN"
  /\ status' = [status EXCEPT ![o] = "CANCELLED"]
  /\ UNCHANGED <<proposalVars, positionVars, kind, positionOf, txSignature, trades>>

\* cancelOpenOrder
CancelOpenOrder(o) == CancelPendingBuy(o) \/ CancelProtectionOrder(o)

--------------------------------------------------------------------------------
(* Leaving a position.                                                     *)

\* The orders confirmExitFill cancels beside the filled one: findFirst returns
\* one open order of the other kind, any one, or none if there is none.
SiblingChoices(o) ==
  LET siblings == OpenOrders(positionOf[o], {SiblingOf(kind[o])})
  IN  IF siblings = {} THEN {{}} ELSE {{x} : x \in siblings}

\* The position is updated whatever state it is in.
MutantConfirmExitFill(o, s, cancelled) ==
  /\ kind[o] \in ProtectionKinds
  /\ status[o] \in {"OPEN", "PENDING"}
  /\ ~ SignatureUsed(s)
  /\ cancelled \in SiblingChoices(o)
  /\ status' = [x \in Orders |-> IF x = o THEN "FILLED"
                                 ELSE IF x \in cancelled THEN "CANCELLED" ELSE status[x]]
  /\ txSignature' = [txSignature EXCEPT ![o] = s]
  /\ state' = [state EXCEPT ![positionOf[o]] = "CLOSED"]
  /\ closedReason' = [closedReason EXCEPT ![positionOf[o]] = ReasonOf(kind[o])]
  /\ BookTrade(positionOf[o], SourceOf(kind[o]))
  /\ UNCHANGED <<proposalVars, hasTokens, kind, positionOf>>

\* confirmExitFill, with `cancelled` the sibling it cancels.
ConfirmExitFill(o, s, cancelled) ==
  /\ kind[o] \in ProtectionKinds
  /\ status[o] \in {"OPEN", "PENDING"}
  /\ state[positionOf[o]] \in {"ACTIVE", "CLOSING"}
  /\ ~ SignatureUsed(s)
  /\ cancelled \in SiblingChoices(o)
  /\ status' = [x \in Orders |-> IF x = o THEN "FILLED"
                                 ELSE IF x \in cancelled THEN "CANCELLED" ELSE status[x]]
  /\ txSignature' = [txSignature EXCEPT ![o] = s]
  /\ state' = [state EXCEPT ![positionOf[o]] = "CLOSED"]
  /\ closedReason' = [closedReason EXCEPT ![positionOf[o]] = ReasonOf(kind[o])]
  /\ BookTrade(positionOf[o], SourceOf(kind[o]))
  /\ UNCHANGED <<proposalVars, hasTokens, kind, positionOf>>

\* A position that a claim holds is closed too.
MutantCloseClaimed(p, s, c) ==
  /\ ~ SignatureUsed(s)
  /\ state[p] \in {"ACTIVE", "CLOSING"}
  /\ c \in FreshOrders
  /\ state' = [state EXCEPT ![p] = "CLOSED"]
  /\ closedReason' = [closedReason EXCEPT ![p] = "USER_CLOSE"]
  /\ kind' = [kind EXCEPT ![c] = "CLOSE_SWAP"]
  /\ status' = [status EXCEPT ![c] = "FILLED"]
  /\ positionOf' = [positionOf EXCEPT ![c] = p]
  /\ txSignature' = [txSignature EXCEPT ![c] = s]
  /\ BookTrade(p, "USER_CLOSE")
  /\ UNCHANGED hasTokens

\* closeActivePositionTx: every open exit is cancelled and a CLOSE_SWAP order c,
\* filled from the start, carries the signature.
CloseActivePosition(p, s, c) ==
  /\ ~ SignatureUsed(s)
  /\ state[p] = "ACTIVE"
  /\ c \in FreshOrders
  /\ state' = [state EXCEPT ![p] = "CLOSED"]
  /\ closedReason' = [closedReason EXCEPT ![p] = "USER_CLOSE"]
  /\ kind' = [kind EXCEPT ![c] = "CLOSE_SWAP"]
  /\ status' = [o \in Orders |-> IF o = c THEN "FILLED"
                                 ELSE IF o \in OpenOrders(p, ProtectionKinds)
                                        THEN "CANCELLED" ELSE status[o]]
  /\ positionOf' = [positionOf EXCEPT ![c] = p]
  /\ txSignature' = [txSignature EXCEPT ![c] = s]
  /\ BookTrade(p, "USER_CLOSE")
  /\ UNCHANGED hasTokens

\* The signature is that of a CLOSE_SWAP of this position already: a replay.
CloseReplayed(p, s) ==
  \E c \in Orders : txSignature[c] = s /\ positionOf[c] = p /\ kind[c] = "CLOSE_SWAP"

\* userCloseActive
UserCloseActive(p, s, c) == CloseActivePosition(p, s, c) /\ UNCHANGED proposalVars

\* A SELL proposal that confirmSellProposalClose will act on.
SellConfirmable(x) ==
  /\ proposalStatus[x] = "ACTIVE"
  /\ proposalAction[x] = "SELL"
  /\ proposalPosition[x] # NULL
  /\ x \notin lapsed

\* confirmSellProposalClose: the position is closed, or was closed by this
\* very signature, and the proposal becomes EXECUTED.
ConfirmSellProposalClose(x, s, c) ==
  /\ SellConfirmable(x)
  /\ \/ CloseActivePosition(proposalPosition[x], s, c)
     \/ /\ CloseReplayed(proposalPosition[x], s)
        /\ UNCHANGED <<positionVars, orderVars, trades>>
  /\ proposalStatus' = [proposalStatus EXCEPT ![x] = "EXECUTED"]
  /\ UNCHANGED <<proposalAction, proposalPosition, lapsed>>

--------------------------------------------------------------------------------
(* What the settlement functions answer.  confirmBuyFill and               *)
(* confirmExitFill answer through buildDuplicateResult when the order is   *)
(* no longer claimable or the signature is taken.                          *)

SettlesBuy(o)  == /\ kind[o] = "BUY_TRIGGER"
                  /\ status[o] \in {"OPEN", "PENDING"}
                  /\ state[positionOf[o]] \in {"BUY_PENDING", "ENTERING"}
SettlesExit(o) == /\ kind[o] \in ProtectionKinds
                  /\ status[o] \in {"OPEN", "PENDING"}
                  /\ state[positionOf[o]] \in {"ACTIVE", "CLOSING"}

SettleOutcome(o, s) ==
  CASE txSignature[o] = s                                        -> "duplicate"
    [] ~ SignatureUsed(s) /\ (SettlesBuy(o) \/ SettlesExit(o))   -> "success"
    [] OTHER                                                     -> "conflict"

CloseOutcome(p, s) ==
  CASE CloseReplayed(p, s)                        -> "duplicate"
    [] ~ SignatureUsed(s) /\ state[p] = "ACTIVE"  -> "success"
    [] OTHER                                      -> "conflict"

--------------------------------------------------------------------------------

AtMostOneOf(S) == {{}} \cup {{x} : x \in S}

ProposalNext ==
  \/ \E x \in Proposals : CreateBuyProposal(x) \/ Lapse(x)
  \/ \E x \in Proposals, p \in Positions : CreateSellProposal(x, p)
  \/ ExpireActiveProposals

EntryNext ==
  \/ \E x \in Proposals, p \in Positions, b \in Orders : AcceptBuyProposal(x, p, b)
  \/ \E o, tp, sl \in Orders, s \in Signatures : ConfirmBuyFill(o, s, tp, sl)

ClaimNext ==
  \E o \in Orders : ClaimOrderExecution(o) \/ ReleaseOrderExecutionClaim(o)

ProtectionNext ==
  \/ \E p \in Positions, k \in ProtectionKinds, o \in Orders : PlaceProtectionOrder(p, k, o)
  \/ \E p \in Positions, tps, sls \in AtMostOneOf(Orders) : ReplaceProtectionOrders(p, tps, sls)
  \/ \E o \in Orders : CancelOpenOrder(o)

ExitNext ==
  \/ \E o \in Orders, s \in Signatures :
       \E cancelled \in AtMostOneOf(Orders) : ConfirmExitFill(o, s, cancelled)
  \/ \E p \in Positions, s \in Signatures, c \in Orders : UserCloseActive(p, s, c)
  \/ \E x \in Proposals, s \in Signatures, c \in Orders : ConfirmSellProposalClose(x, s, c)

Next == ProposalNext \/ EntryNext \/ ClaimNext \/ ProtectionNext \/ ExitNext

Spec == Init /\ [][Next]_vars

--------------------------------------------------------------------------------
(* Properties.                                                             *)

\* The columns agree on which rows exist: an order has a kind and a live parent
\* once inserted, only a CLOSE_SWAP is born filled, and a position has a closed
\* reason exactly when it is closed and trades only once it exists.
RowsWellFormed ==
  /\ \A o \in Orders :
       /\ status[o] = "ABSENT" <=> kind[o] = NULL
       /\ status[o] = "ABSENT" <=> positionOf[o] = NULL
       /\ status[o] # "ABSENT" => state[positionOf[o]] # "ABSENT"
       /\ kind[o] = "CLOSE_SWAP" => status[o] = "FILLED"
  /\ \A p \in Positions :
       /\ state[p] = "CLOSED" <=> closedReason[p] # NULL
       /\ state[p] \in {"ACTIVE", "CLOSING"} => hasTokens[p]

\* The status the state of a position entails for its BUY order.
EntryStatus(p) ==
  CASE state[p] = "BUY_PENDING"             -> "OPEN"
    [] state[p] = "ENTERING"                -> "PENDING"
    [] closedReason[p] = "BUY_CANCELLED"    -> "CANCELLED"
    [] OTHER                                -> "FILLED"

\* A position has exactly one BUY order, and the two never drift apart: this is
\* what makes the LifecycleInvariantError of cancelPendingBuyTx and the "not
\* BUY_PENDING" rollback of confirmBuyFill unreachable.
EntryOrderTracksPosition ==
  /\ \A b1, b2 \in Orders :
       /\ kind[b1] = "BUY_TRIGGER" /\ kind[b2] = "BUY_TRIGGER"
       /\ positionOf[b1] = positionOf[b2]
       => b1 = b2
  /\ \A p \in Positions : state[p] # "ABSENT" =>
       \E b \in Orders : /\ kind[b] = "BUY_TRIGGER"
                         /\ positionOf[b] = p
                         /\ status[b] = EntryStatus(p)

\* At most one order of a position is claimed; a position in ENTERING or CLOSING
\* has the claim that put it there, and a claim keeps its position there until
\* the position is closed under it.
ClaimIsExclusive ==
  /\ \A o1, o2 \in Orders :
       /\ status[o1] = "PENDING" /\ status[o2] = "PENDING"
       /\ positionOf[o1] = positionOf[o2]
       => o1 = o2
  /\ \A p \in Positions : state[p] \in {"ENTERING", "CLOSING"} =>
       \E o \in Orders : /\ positionOf[o] = p
                         /\ status[o] = "PENDING"
                         /\ state[p] = Pending(kind[o])
  /\ \A o \in Orders : status[o] = "PENDING" =>
       \/ state[positionOf[o]] = Pending(kind[o])
       \/ kind[o] \in ProtectionKinds /\ state[positionOf[o]] = "CLOSED"

\* The position was bought.
Bought(p) == \/ state[p] \in {"ACTIVE", "CLOSING"}
             \/ state[p] = "CLOSED" /\ closedReason[p] # "BUY_CANCELLED"

\* The position was sold by an exit of kind k.
SoldBy(p, k) == state[p] = "CLOSED" /\ closedReason[p] = ReasonOf(k)

\* The ledger: one BUY trade for a position that was bought, one exit trade, of
\* the source the closed reason names, for one that was sold, and no other row.
\* When a take-profit, a stop-loss and a manual close race, only one is booked.
LedgerMatchesPosition ==
  \A p \in Positions :
    /\ trades[p]["BUY_APPROVAL"] = IF Bought(p) THEN 1 ELSE 0
    /\ \A k \in OrderKinds \ {"BUY_TRIGGER"} :
         trades[p][SourceOf(k)] = IF SoldBy(p, k) THEN 1 ELSE 0

\* A sold position has exactly one filled exit, of the kind that closed it, and
\* a position that is not sold has none.
OneFilledExit ==
  /\ \A o \in Orders :
       status[o] = "FILLED" /\ kind[o] # "BUY_TRIGGER" => SoldBy(positionOf[o], kind[o])
  /\ \A p \in Positions : state[p] = "CLOSED" /\ closedReason[p] # "BUY_CANCELLED" =>
       \E o \in Orders : positionOf[o] = p /\ status[o] = "FILLED" /\ kind[o] # "BUY_TRIGGER"
  /\ \A o1, o2 \in Orders :
       /\ status[o1] = "FILLED" /\ kind[o1] # "BUY_TRIGGER"
       /\ status[o2] = "FILLED" /\ kind[o2] # "BUY_TRIGGER"
       /\ positionOf[o1] = positionOf[o2]
       => o1 = o2

\* Order.txSignature is the idempotency key: an order has one exactly when it is
\* filled, and no swap settles two orders.
SignatureSettlesOneOrder ==
  /\ \A o \in Orders : status[o] = "FILLED" <=> txSignature[o] # NULL
  /\ \A o1, o2 \in Orders :
       txSignature[o1] = txSignature[o2] /\ txSignature[o1] # NULL => o1 = o2

\* A BUY proposal is EXECUTED exactly when it has opened a position; no position
\* comes from two proposals, and none is left that its proposal has forgotten.
ProposalBuysOnce ==
  /\ \A x \in Proposals : proposalAction[x] = "BUY" =>
       (proposalStatus[x] = "EXECUTED" <=> proposalPosition[x] # NULL)
  /\ \A x, y \in Proposals :
       /\ proposalAction[x] = "BUY" /\ proposalAction[y] = "BUY"
       /\ proposalPosition[x] = proposalPosition[y] /\ proposalPosition[x] # NULL
       => x = y
  /\ \A p \in Positions : state[p] # "ABSENT" =>
       \E x \in Proposals : proposalAction[x] = "BUY" /\ proposalPosition[x] = p

\* A SELL proposal is EXECUTED only when its position was closed by a CLOSE_SWAP.
ExecutedSellClosedItsPosition ==
  \A x \in Proposals : proposalAction[x] = "SELL" /\ proposalStatus[x] = "EXECUTED" =>
    SoldBy(proposalPosition[x], "CLOSE_SWAP")

\* A claimed position waits for its claim: it leaves ENTERING or CLOSING only
\* by a release, which reopens the claimed order, or by a fill of one of its
\* orders, never by a manual close or a cancellation.
ClaimedPositionWaits ==
  [][\A p \in Positions : state[p] \in {"ENTERING", "CLOSING"} /\ state'[p] # state[p] =>
       \E o \in Orders :
         /\ positionOf[o] = p
         /\ \/ /\ status[o] = "PENDING" /\ status'[o] = "OPEN"
               /\ state'[p] = Before(kind[o])
            \/ /\ status[o] # "FILLED" /\ status'[o] = "FILLED"
               /\ state'[p] = IF state[p] = "ENTERING" THEN "ACTIVE" ELSE "CLOSED"]_vars

\* What is settled stays settled: a closed position keeps its reason and its
\* ledger, and a filled or cancelled order never changes again.
SettledIsFinal ==
  [][/\ \A p \in Positions : state[p] = "CLOSED" =>
          state'[p] = "CLOSED" /\ closedReason'[p] = closedReason[p] /\ trades'[p] = trades[p]
     /\ \A o \in Orders : status[o] \in {"FILLED", "CANCELLED"} =>
          status'[o] = status[o] /\ txSignature'[o] = txSignature[o]]_vars

--------------------------------------------------------------------------------
(* The lifecycle implements PositionAbstract.                              *)

StageOf(p) ==
  CASE state[p] = "ABSENT"                     -> "none"
    [] state[p] \in {"BUY_PENDING", "ENTERING"} -> "wanted"
    [] state[p] \in {"ACTIVE", "CLOSING"}      -> "held"
    [] state[p] = "CLOSED" /\ closedReason[p] = "BUY_CANCELLED" -> "dropped"
    [] state[p] = "CLOSED" /\ closedReason[p] # "BUY_CANCELLED" -> "sold"

\* The swaps that settled the BUY orders of a position, and those that settled its exits.
BuysOf(p)  == {s \in Signatures : \E o \in Orders :
                 positionOf[o] = p /\ txSignature[o] = s /\ kind[o] = "BUY_TRIGGER"}
SellsOf(p) == {s \in Signatures : \E o \in Orders :
                 positionOf[o] = p /\ txSignature[o] = s /\ kind[o] # "BUY_TRIGGER"}

Abstract == INSTANCE PositionAbstract
              WITH stage <- [p \in Positions |-> StageOf(p)],
                   buys  <- [p \in Positions |-> BuysOf(p)],
                   sells <- [p \in Positions |-> SellsOf(p)]

\* Every step of the lifecycle is a step of PositionAbstract or none at all: a
\* position is bought by one swap and sold by another, whatever claims,
\* releases, replacements and races come between.
ImplementsAbstract == Abstract!Spec

================================================================================
