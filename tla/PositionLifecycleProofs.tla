------------------------ MODULE PositionLifecycleProofs ------------------------
(***************************************************************************)
(* Proofs about PositionLifecycle, for every number of rows and            *)
(* signatures.  Each theorem rests on the ones before it:                  *)
(*   TypeCorrect, RowsCorrect        what the columns hold;                *)
(*   EntryCorrect, ClaimCorrect      the BUY order and the claim move with *)
(*                                   the position;                         *)
(*   SignatureCorrect, ExitCorrect,  one swap settles one order, and a     *)
(*   LedgerCorrect                   position is sold and booked once;     *)
(*   ProposalCorrect,                a proposal opens one position, and    *)
(*   SellCorrect                     closes its own;                       *)
(*   FinalCorrect, WaitsCorrect      no step takes back what was settled,  *)
(*                                   or moves a position past its claim;   *)
(*   Refinement                      it implements PositionAbstract: under *)
(*                                   StageOf, BuysOf and SellsOf each step *)
(*                                   of a function is one step of a        *)
(*                                   position's story, or none.            *)
(***************************************************************************)
EXTENDS PositionLifecycle, TLAPS

USE NullAssumption DEF ProposalStatuses, PositionStates, ClosedReasons, OrderStatuses,
                      ProtectionKinds, ExecutableKinds, OrderKinds, TradeSources

--------------------------------------------------------------------------------

\* Booking a trade keeps the type of the ledger, whatever p is.
LEMMA BookTradeType ==
  ASSUME TypeOK, NEW p, NEW source \in TradeSources, BookTrade(p, source)
  PROVE  trades' \in [Positions -> [TradeSources -> Nat]]
<1>1. CASE p \in Positions
  <2>1. trades[p] \in [TradeSources -> Nat]
    BY <1>1 DEF TypeOK
  <2>2. [trades[p] EXCEPT ![source] = @ + 1] \in [TradeSources -> Nat]
    BY <2>1
  <2>. QED
    BY <1>1, <2>2 DEF TypeOK, BookTrade
<1>2. CASE p \notin Positions
  BY <1>2 DEF TypeOK, BookTrade
<1>. QED
  BY <1>1, <1>2

\* Closing a position keeps the columns that it writes to their types.
LEMMA CloseType ==
  ASSUME TypeOK, NEW p, NEW s \in Signatures, NEW c \in Orders,
         p \in Positions \cup {NULL}, CloseActivePosition(p, s, c)
  PROVE  /\ state' \in [Positions -> PositionStates]
         /\ closedReason' \in [Positions -> ClosedReasons \cup {NULL}]
         /\ hasTokens' \in [Positions -> BOOLEAN]
         /\ kind' \in [Orders -> OrderKinds \cup {NULL}]
         /\ status' \in [Orders -> OrderStatuses]
         /\ positionOf' \in [Orders -> Positions \cup {NULL}]
         /\ txSignature' \in [Orders -> Signatures \cup {NULL}]
         /\ trades' \in [Positions -> [TradeSources -> Nat]]
<1>1. trades' \in [Positions -> [TradeSources -> Nat]]
  BY BookTradeType DEF CloseActivePosition
<1>. QED
  BY <1>1 DEF CloseActivePosition, TypeOK

\* A step of the lifecycle keeps the columns to their types.
LEMMA TypeStep == TypeOK /\ [Next]_vars => TypeOK'
<1> USE DEF proposalVars, positionVars, orderVars
<1> SUFFICES ASSUME TypeOK, [Next]_vars
             PROVE  TypeOK'
  OBVIOUS
<1>1. ASSUME ProposalNext PROVE TypeOK'
  <2>1. ASSUME NEW x \in Proposals, CreateBuyProposal(x) PROVE TypeOK'
    BY <2>1 DEF CreateBuyProposal, TypeOK
  <2>2. ASSUME NEW x \in Proposals, Lapse(x) PROVE TypeOK'
    BY <2>2 DEF Lapse, TypeOK
  <2>3. ASSUME NEW x \in Proposals, NEW p \in Positions, CreateSellProposal(x, p)
        PROVE  TypeOK'
    BY <2>3 DEF CreateSellProposal, TypeOK
  <2>4. ASSUME ExpireActiveProposals PROVE TypeOK'
    BY <2>4 DEF ExpireActiveProposals, Expired, TypeOK
  <2>. QED
    BY <1>1, <2>1, <2>2, <2>3, <2>4 DEF ProposalNext
<1>2. ASSUME NEW x \in Proposals, NEW p \in Positions, NEW b \in Orders,
             AcceptBuyProposal(x, p, b)
      PROVE  TypeOK'
  BY <1>2 DEF AcceptBuyProposal, Expired, TypeOK
<1>3. ASSUME NEW o \in Orders, NEW tp \in Orders, NEW sl \in Orders,
             NEW s \in Signatures, ConfirmBuyFill(o, s, tp, sl)
      PROVE  TypeOK'
  <2>1. trades' \in [Positions -> [TradeSources -> Nat]]
    BY <1>3, BookTradeType DEF ConfirmBuyFill
  <2>. QED
    BY <1>3, <2>1 DEF ConfirmBuyFill, TypeOK
<1>4. ASSUME ClaimNext PROVE TypeOK'
  <2>1. ASSUME NEW o \in Orders, ClaimOrderExecution(o) PROVE TypeOK'
    BY <2>1 DEF ClaimOrderExecution, Pending, TypeOK
  <2>2. ASSUME NEW o \in Orders, ReleaseOrderExecutionClaim(o) PROVE TypeOK'
    BY <2>2 DEF ReleaseOrderExecutionClaim, Before, TypeOK
  <2>. QED
    BY <1>4, <2>1, <2>2 DEF ClaimNext
<1>5. ASSUME NEW p \in Positions, NEW k \in ProtectionKinds, NEW o \in Orders,
             PlaceProtectionOrder(p, k, o)
      PROVE  TypeOK'
  BY <1>5 DEF PlaceProtectionOrder, TypeOK
<1>6. ASSUME NEW p \in Positions, NEW tps \in AtMostOneOf(Orders),
             NEW sls \in AtMostOneOf(Orders), ReplaceProtectionOrders(p, tps, sls)
      PROVE  TypeOK'
  BY <1>6 DEF ReplaceProtectionOrders, TypeOK
<1>7. ASSUME NEW o \in Orders, CancelOpenOrder(o) PROVE TypeOK'
  BY <1>7, ZenonT(30) DEF CancelOpenOrder, CancelPendingBuy, CancelProtectionOrder, TypeOK
<1>8. ASSUME NEW o \in Orders, NEW s \in Signatures, NEW c \in AtMostOneOf(Orders),
             ConfirmExitFill(o, s, c)
      PROVE  TypeOK'
  <2>1. trades' \in [Positions -> [TradeSources -> Nat]]
    BY <1>8, BookTradeType DEF ConfirmExitFill, SourceOf
  <2>. QED
    BY <1>8, <2>1 DEF ConfirmExitFill, ReasonOf, TypeOK
<1>9. ASSUME NEW p \in Positions, NEW s \in Signatures, NEW c \in Orders,
              UserCloseActive(p, s, c)
       PROVE  TypeOK'
  BY <1>9, CloseType DEF UserCloseActive, proposalVars, TypeOK
<1>10. ASSUME NEW x \in Proposals, NEW s \in Signatures, NEW c \in Orders,
              ConfirmSellProposalClose(x, s, c)
       PROVE  TypeOK'
  BY <1>10, CloseType DEF ConfirmSellProposalClose, TypeOK
<1>11. CASE UNCHANGED vars
  BY <1>11 DEF vars, TypeOK
<1>. QED
  BY <1>1, <1>2, <1>3, <1>4, <1>5, <1>6, <1>7, <1>8, <1>9, <1>10, <1>11
  DEF Next, EntryNext, ProtectionNext, ExitNext

\* Every column keeps to its type.
THEOREM TypeCorrect == Spec => []TypeOK
<1>1. Init => TypeOK
  BY DEF Init, TypeOK
<1>. QED
  BY <1>1, TypeStep, PTL DEF Spec


--------------------------------------------------------------------------------

\* Closing a position keeps the rows fitting together.
LEMMA CloseRows ==
  ASSUME TypeOK, RowsWellFormed, NEW p \in Positions, NEW s \in Signatures,
         NEW c \in Orders, CloseActivePosition(p, s, c)
  PROVE  RowsWellFormed'
<1>0. \A o \in Orders : status[o] # "ABSENT" => positionOf[o] \in Positions
  BY DEF TypeOK, RowsWellFormed
<1>. QED
  BY <1>0 DEF CloseActivePosition, FreshOrders, OpenOrders, TypeOK, RowsWellFormed

\* A step of the lifecycle keeps the rows fitting together.
LEMMA RowsStep ==
  TypeOK /\ RowsWellFormed /\ [Next]_vars
    => RowsWellFormed'
<1> USE DEF proposalVars, positionVars, orderVars
<1> SUFFICES ASSUME TypeOK, RowsWellFormed, [Next]_vars
             PROVE  RowsWellFormed'
  OBVIOUS
<1>0. \A o \in Orders : status[o] # "ABSENT" => positionOf[o] \in Positions
  BY DEF TypeOK, RowsWellFormed
<1>1. ASSUME ProposalNext PROVE RowsWellFormed'
  BY <1>1 DEF ProposalNext, CreateBuyProposal, CreateSellProposal, Lapse,
              ExpireActiveProposals, RowsWellFormed
<1>2. ASSUME NEW x \in Proposals, NEW p \in Positions, NEW b \in Orders,
             AcceptBuyProposal(x, p, b)
      PROVE  RowsWellFormed'
  BY <1>0, <1>2 DEF AcceptBuyProposal, FreshPositions, FreshOrders, TypeOK, RowsWellFormed
<1>3. ASSUME NEW o \in Orders, NEW tp \in Orders, NEW sl \in Orders,
             NEW s \in Signatures, ConfirmBuyFill(o, s, tp, sl)
      PROVE  RowsWellFormed'
  <2>1. ASSUME NEW x \in Orders
        PROVE  /\ status'[x] = "ABSENT" <=> kind'[x] = NULL
               /\ status'[x] = "ABSENT" <=> positionOf'[x] = NULL
               /\ status'[x] # "ABSENT" => state'[positionOf'[x]] # "ABSENT"
               /\ kind'[x] = "CLOSE_SWAP" => status'[x] = "FILLED"
    BY <1>0, <1>3 DEF ConfirmBuyFill, FreshOrders, TypeOK, RowsWellFormed
  <2>2. ASSUME NEW p \in Positions
        PROVE  state'[p] = "CLOSED" <=> closedReason'[p] # NULL
    BY <1>0, <1>3 DEF ConfirmBuyFill, TypeOK, RowsWellFormed
  <2>3. ASSUME NEW p \in Positions, state'[p] \in {"ACTIVE", "CLOSING"}
        PROVE  hasTokens'[p]
    <3>1. CASE p = positionOf[o]
      BY <1>3, <3>1 DEF ConfirmBuyFill, TypeOK
    <3>2. CASE p # positionOf[o]
      <4>1. state'[p] = state[p] /\ hasTokens'[p] = hasTokens[p]
        BY <1>3, <3>2 DEF ConfirmBuyFill, TypeOK
      <4>. QED
        BY <2>3, <4>1 DEF RowsWellFormed
    <3>. QED
      BY <3>1, <3>2
  <2>. QED
    BY <2>1, <2>2, <2>3 DEF RowsWellFormed
<1>4. ASSUME NEW o \in Orders, ClaimOrderExecution(o) PROVE RowsWellFormed'
  BY <1>0, <1>4 DEF ClaimOrderExecution, Before, Pending, TypeOK, RowsWellFormed
<1>5. ASSUME NEW o \in Orders, ReleaseOrderExecutionClaim(o) PROVE RowsWellFormed'
  BY <1>0, <1>5 DEF ReleaseOrderExecutionClaim, Before, Pending, TypeOK, RowsWellFormed
<1>6. ASSUME NEW p \in Positions, NEW k \in ProtectionKinds, NEW o \in Orders,
             PlaceProtectionOrder(p, k, o)
      PROVE  RowsWellFormed'
  BY <1>0, <1>6 DEF PlaceProtectionOrder, FreshOrders, TypeOK, RowsWellFormed
<1>7. ASSUME NEW p \in Positions, NEW tps \in AtMostOneOf(Orders),
             NEW sls \in AtMostOneOf(Orders), ReplaceProtectionOrders(p, tps, sls)
      PROVE  RowsWellFormed'
  BY <1>0, <1>7 DEF ReplaceProtectionOrders, OpenOrders, FreshOrders, TypeOK, RowsWellFormed
<1>8. ASSUME NEW o \in Orders, CancelOpenOrder(o) PROVE RowsWellFormed'
  BY <1>0, <1>8 DEF CancelOpenOrder, CancelPendingBuy, CancelProtectionOrder,
                    TypeOK, RowsWellFormed
<1>9. ASSUME NEW o \in Orders, NEW s \in Signatures, NEW c \in AtMostOneOf(Orders),
             ConfirmExitFill(o, s, c)
      PROVE  RowsWellFormed'
  BY <1>0, <1>9 DEF ConfirmExitFill, SiblingChoices, SiblingOf, OpenOrders, ReasonOf,
                    AtMostOneOf, TypeOK, RowsWellFormed
<1>10. ASSUME NEW p \in Positions, NEW s \in Signatures, NEW c \in Orders,
              CloseActivePosition(p, s, c)
       PROVE  RowsWellFormed'
  BY <1>10, CloseRows
<1>11. ASSUME NEW x \in Proposals, NEW s \in Signatures, NEW c \in Orders,
              ConfirmSellProposalClose(x, s, c)
       PROVE  RowsWellFormed'
  BY <1>10, <1>11 DEF ConfirmSellProposalClose, SellConfirmable, TypeOK, RowsWellFormed
<1>12. CASE UNCHANGED vars
  BY <1>12 DEF vars, RowsWellFormed
<1>. QED
  BY <1>1, <1>2, <1>3, <1>4, <1>5, <1>6, <1>7, <1>8, <1>9, <1>10, <1>11, <1>12
  DEF Next, EntryNext, ClaimNext, ProtectionNext, ExitNext, UserCloseActive

\* The rows of the tables fit together.
THEOREM RowsCorrect == Spec => []RowsWellFormed
<1>1. Init => RowsWellFormed
  BY DEF Init, RowsWellFormed
<1>. QED
  BY <1>1, RowsStep, TypeCorrect, PTL DEF Spec

--------------------------------------------------------------------------------

\* A step of the lifecycle keeps each BUY order with its position.
LEMMA EntryStep ==
  TypeOK /\ RowsWellFormed /\ EntryOrderTracksPosition /\ [Next]_vars
    => EntryOrderTracksPosition'
<1> USE DEF proposalVars, positionVars, orderVars
<1> SUFFICES ASSUME TypeOK, RowsWellFormed, EntryOrderTracksPosition, [Next]_vars
             PROVE  EntryOrderTracksPosition'
  OBVIOUS
<1>0. \A o \in Orders : status[o] # "ABSENT" => positionOf[o] \in Positions
  BY DEF TypeOK, RowsWellFormed
<1>1. ASSUME ProposalNext PROVE EntryOrderTracksPosition'
  BY <1>1 DEF ProposalNext, CreateBuyProposal, CreateSellProposal, Lapse,
              ExpireActiveProposals, TypeOK, RowsWellFormed, EntryOrderTracksPosition, EntryStatus
<1>2. ASSUME NEW x \in Proposals, NEW p \in Positions, NEW b \in Orders,
             AcceptBuyProposal(x, p, b)
      PROVE EntryOrderTracksPosition'
  BY <1>0, <1>2 DEF AcceptBuyProposal, FreshPositions, FreshOrders,
              TypeOK, RowsWellFormed, EntryOrderTracksPosition, EntryStatus
<1>3. ASSUME NEW o \in Orders, NEW tp \in Orders, NEW sl \in Orders,
             NEW s \in Signatures, ConfirmBuyFill(o, s, tp, sl)
      PROVE EntryOrderTracksPosition'
  <2>1. ASSUME NEW b1 \in Orders, NEW b2 \in Orders,
               kind'[b1] = "BUY_TRIGGER", kind'[b2] = "BUY_TRIGGER",
               positionOf'[b1] = positionOf'[b2]
        PROVE  b1 = b2
    BY <1>3, <2>1 DEF ConfirmBuyFill, FreshOrders, TypeOK, RowsWellFormed, EntryOrderTracksPosition
  <2>2. ASSUME NEW q \in Positions, state'[q] # "ABSENT"
        PROVE  \E b \in Orders : /\ kind'[b] = "BUY_TRIGGER"
                                 /\ positionOf'[b] = q
                                 /\ status'[b] = EntryStatus(q)'
    <3>1. state[q] # "ABSENT"
      BY <1>0, <1>3, <2>2 DEF ConfirmBuyFill, FreshOrders, TypeOK, RowsWellFormed
    <3>2. PICK b \in Orders : /\ kind[b] = "BUY_TRIGGER"
                             /\ positionOf[b] = q
                             /\ status[b] = EntryStatus(q)
      BY <3>1 DEF EntryOrderTracksPosition
    <3>3. kind'[b] = "BUY_TRIGGER" /\ positionOf'[b] = q
      BY <1>3, <3>2 DEF ConfirmBuyFill, FreshOrders, TypeOK, RowsWellFormed
    <3>4. status'[b] = EntryStatus(q)'
      <4>1. CASE q = positionOf[o]
        BY <1>3, <3>2, <4>1 DEF ConfirmBuyFill, FreshOrders, TypeOK, RowsWellFormed,
                                EntryOrderTracksPosition, EntryStatus
      <4>2. CASE q # positionOf[o]
        BY <1>3, <3>1, <3>2, <4>2 DEF ConfirmBuyFill, FreshOrders, TypeOK, RowsWellFormed,
                                EntryStatus
      <4>. QED
        BY <4>1, <4>2
    <3>. QED
      BY <3>3, <3>4
  <2>. QED
    BY <2>1, <2>2 DEF EntryOrderTracksPosition
<1>4. ASSUME NEW o \in Orders, ClaimOrderExecution(o) PROVE EntryOrderTracksPosition'
  BY <1>0, <1>4 DEF ClaimOrderExecution, Before, Pending,
              TypeOK, RowsWellFormed, EntryOrderTracksPosition, EntryStatus
<1>5. ASSUME NEW o \in Orders, ReleaseOrderExecutionClaim(o) PROVE EntryOrderTracksPosition'
  BY <1>0, <1>5 DEF ReleaseOrderExecutionClaim, Before, Pending,
              TypeOK, RowsWellFormed, EntryOrderTracksPosition, EntryStatus
<1>6. ASSUME NEW p \in Positions, NEW k \in ProtectionKinds, NEW o \in Orders,
             PlaceProtectionOrder(p, k, o)
      PROVE EntryOrderTracksPosition'
  <2>1. ASSUME NEW b1 \in Orders, NEW b2 \in Orders,
               kind'[b1] = "BUY_TRIGGER", kind'[b2] = "BUY_TRIGGER",
               positionOf'[b1] = positionOf'[b2]
        PROVE  b1 = b2
    BY <1>6, <2>1 DEF PlaceProtectionOrder, FreshOrders, TypeOK, RowsWellFormed, EntryOrderTracksPosition
  <2>2. ASSUME NEW q \in Positions, state'[q] # "ABSENT"
        PROVE  \E b \in Orders : /\ kind'[b] = "BUY_TRIGGER"
                                 /\ positionOf'[b] = q
                                 /\ status'[b] = EntryStatus(q)'
    <3>1. state[q] # "ABSENT"
      BY <1>0, <1>6, <2>2 DEF PlaceProtectionOrder, FreshOrders, TypeOK, RowsWellFormed
    <3>2. PICK b \in Orders : /\ kind[b] = "BUY_TRIGGER"
                             /\ positionOf[b] = q
                             /\ status[b] = EntryStatus(q)
      BY <3>1 DEF EntryOrderTracksPosition
    <3>3. kind'[b] = "BUY_TRIGGER" /\ positionOf'[b] = q
      BY <1>6, <3>2 DEF PlaceProtectionOrder, FreshOrders, TypeOK, RowsWellFormed
    <3>4. status'[b] = EntryStatus(q)'
      BY <1>6, <3>2 DEF PlaceProtectionOrder, FreshOrders, TypeOK, RowsWellFormed, EntryStatus
    <3>. QED
      BY <3>3, <3>4
  <2>. QED
    BY <2>1, <2>2 DEF EntryOrderTracksPosition
<1>7. ASSUME NEW p \in Positions, NEW tps \in AtMostOneOf(Orders),
             NEW sls \in AtMostOneOf(Orders), ReplaceProtectionOrders(p, tps, sls)
      PROVE EntryOrderTracksPosition'
  BY <1>0, <1>7 DEF ReplaceProtectionOrders, OpenOrders, FreshOrders,
              TypeOK, RowsWellFormed, EntryOrderTracksPosition, EntryStatus
<1>8. ASSUME NEW o \in Orders, CancelOpenOrder(o) PROVE EntryOrderTracksPosition'
  <2>1. ASSUME NEW b1 \in Orders, NEW b2 \in Orders,
               kind'[b1] = "BUY_TRIGGER", kind'[b2] = "BUY_TRIGGER",
               positionOf'[b1] = positionOf'[b2]
        PROVE  b1 = b2
    BY <1>8, <2>1 DEF CancelOpenOrder, CancelPendingBuy, CancelProtectionOrder, TypeOK, RowsWellFormed, EntryOrderTracksPosition
  <2>2. ASSUME NEW q \in Positions, state'[q] # "ABSENT"
        PROVE  \E b \in Orders : /\ kind'[b] = "BUY_TRIGGER"
                                 /\ positionOf'[b] = q
                                 /\ status'[b] = EntryStatus(q)'
    <3>1. state[q] # "ABSENT"
      BY <1>0, <1>8, <2>2 DEF CancelOpenOrder, CancelPendingBuy, CancelProtectionOrder, TypeOK, RowsWellFormed
    <3>2. PICK b \in Orders : /\ kind[b] = "BUY_TRIGGER"
                             /\ positionOf[b] = q
                             /\ status[b] = EntryStatus(q)
      BY <3>1 DEF EntryOrderTracksPosition
    <3>3. kind'[b] = "BUY_TRIGGER" /\ positionOf'[b] = q
      BY <1>8, <3>2 DEF CancelOpenOrder, CancelPendingBuy, CancelProtectionOrder, TypeOK, RowsWellFormed
    <3>4. status'[b] = EntryStatus(q)'
      <4>1. CASE q = positionOf[o] /\ kind[o] = "BUY_TRIGGER"
        BY <1>8, <3>2, <4>1 DEF CancelOpenOrder, CancelPendingBuy, CancelProtectionOrder,
                                TypeOK, RowsWellFormed, EntryOrderTracksPosition, EntryStatus
      <4>2. CASE ~ (q = positionOf[o] /\ kind[o] = "BUY_TRIGGER")
        BY <1>8, <3>2, <4>2 DEF CancelOpenOrder, CancelPendingBuy, CancelProtectionOrder,
                                TypeOK, RowsWellFormed, EntryOrderTracksPosition, EntryStatus
      <4>. QED
        BY <4>1, <4>2
    <3>. QED
      BY <3>3, <3>4
  <2>. QED
    BY <2>1, <2>2 DEF EntryOrderTracksPosition
<1>9. ASSUME NEW o \in Orders, NEW s \in Signatures, NEW c \in AtMostOneOf(Orders),
             ConfirmExitFill(o, s, c)
      PROVE EntryOrderTracksPosition'
  BY <1>0, <1>9 DEF ConfirmExitFill, SiblingChoices, SiblingOf, OpenOrders, ReasonOf,
              AtMostOneOf,
              TypeOK, RowsWellFormed, EntryOrderTracksPosition, EntryStatus
<1>10. ASSUME NEW p \in Positions, NEW s \in Signatures, NEW c \in Orders,
             CloseActivePosition(p, s, c)
      PROVE EntryOrderTracksPosition'
  BY <1>0, <1>10 DEF CloseActivePosition, FreshOrders, OpenOrders,
              TypeOK, RowsWellFormed, EntryOrderTracksPosition, EntryStatus
<1>11. ASSUME NEW x \in Proposals, NEW s \in Signatures, NEW c \in Orders,
             ConfirmSellProposalClose(x, s, c)
      PROVE EntryOrderTracksPosition'
  BY <1>10, <1>11 DEF ConfirmSellProposalClose, SellConfirmable, TypeOK, RowsWellFormed, EntryOrderTracksPosition, EntryStatus
<1>12. CASE UNCHANGED vars
  BY <1>12 DEF vars, TypeOK, RowsWellFormed, EntryOrderTracksPosition, EntryStatus
<1>. QED
  BY <1>1, <1>2, <1>3, <1>4, <1>5, <1>6, <1>7, <1>8, <1>9, <1>10, <1>11, <1>12
  DEF Next, EntryNext, ClaimNext, ProtectionNext, ExitNext, UserCloseActive

\* The BUY order moves with its position.
THEOREM EntryCorrect == Spec => []EntryOrderTracksPosition
<1>1. Init => EntryOrderTracksPosition
  BY DEF Init, TypeOK, EntryOrderTracksPosition, EntryStatus
<1>. QED
  BY <1>1, EntryStep, TypeCorrect, RowsCorrect, PTL DEF Spec

\* A step that makes, moves and ends no claim, and changes the state of no
\* position but an unclaimed one, keeps ClaimIsExclusive.
LEMMA ClaimFrame ==
  ASSUME TypeOK, RowsWellFormed, ClaimIsExclusive,
         \A o \in Orders : status'[o] = "PENDING" <=> status[o] = "PENDING",
         \A o \in Orders : status[o] = "PENDING" =>
           kind'[o] = kind[o] /\ positionOf'[o] = positionOf[o],
         \A p \in Positions :
           \/ state'[p] = state[p]
           \/ /\ state[p] \in {"ABSENT", "BUY_PENDING", "ACTIVE"}
              /\ state'[p] \notin {"ENTERING", "CLOSING"}
  PROVE  ClaimIsExclusive'
<1>1. ASSUME NEW o1 \in Orders, NEW o2 \in Orders,
             status'[o1] = "PENDING", status'[o2] = "PENDING",
             positionOf'[o1] = positionOf'[o2]
      PROVE  o1 = o2
  BY <1>1 DEF ClaimIsExclusive
<1>2. ASSUME NEW p \in Positions, state'[p] \in {"ENTERING", "CLOSING"}
      PROVE  \E o \in Orders : /\ positionOf'[o] = p
                               /\ status'[o] = "PENDING"
                               /\ state'[p] = Pending(kind'[o])
  <2>1. state'[p] = state[p]
    BY <1>2
  <2>2. PICK o \in Orders : /\ positionOf[o] = p
                            /\ status[o] = "PENDING"
                            /\ state[p] = Pending(kind[o])
    BY <1>2, <2>1 DEF ClaimIsExclusive
  <2>. QED
    BY <2>1, <2>2
<1>3. ASSUME NEW o \in Orders, status'[o] = "PENDING"
      PROVE  \/ state'[positionOf'[o]] = Pending(kind'[o])
             \/ kind'[o] \in ProtectionKinds /\ state'[positionOf'[o]] = "CLOSED"
  <2>1. positionOf[o] \in Positions
    BY <1>3 DEF TypeOK, RowsWellFormed
  <2>2. \/ state[positionOf[o]] = Pending(kind[o])
        \/ kind[o] \in ProtectionKinds /\ state[positionOf[o]] = "CLOSED"
    BY <1>3 DEF ClaimIsExclusive
  <2>3. state'[positionOf[o]] = state[positionOf[o]]
    BY <2>1, <2>2 DEF Pending
  <2>. QED
    BY <1>3, <2>2, <2>3
<1>. QED
  BY <1>1, <1>2, <1>3 DEF ClaimIsExclusive, Pending

\* A step of the lifecycle keeps the claims exclusive.
LEMMA ClaimStep ==
  TypeOK /\ RowsWellFormed /\ EntryOrderTracksPosition /\ ClaimIsExclusive /\ [Next]_vars
    => ClaimIsExclusive'
<1> USE DEF proposalVars, positionVars, orderVars
<1> SUFFICES ASSUME TypeOK, RowsWellFormed, EntryOrderTracksPosition, ClaimIsExclusive,
                    [Next]_vars
             PROVE  ClaimIsExclusive'
  OBVIOUS
<1>0. \A o \in Orders : status[o] # "ABSENT" => positionOf[o] \in Positions
  BY DEF TypeOK, RowsWellFormed
<1>1. ASSUME ProposalNext PROVE ClaimIsExclusive'
  BY <1>1 DEF ProposalNext, CreateBuyProposal, CreateSellProposal, Lapse,
              ExpireActiveProposals, ClaimIsExclusive, Pending
<1>2. ASSUME NEW x \in Proposals, NEW p \in Positions, NEW b \in Orders,
             AcceptBuyProposal(x, p, b)
      PROVE  ClaimIsExclusive'
  BY <1>2, ClaimFrame DEF AcceptBuyProposal, FreshPositions, FreshOrders, TypeOK
<1>3. ASSUME NEW o \in Orders, NEW tp \in Orders, NEW sl \in Orders,
             NEW s \in Signatures, ConfirmBuyFill(o, s, tp, sl)
      PROVE  ClaimIsExclusive'
  <2>1. ASSUME NEW x \in Orders, status[x] = "PENDING", positionOf[x] = positionOf[o]
        PROVE  x = o
    BY <1>0, <1>3, <2>1 DEF ConfirmBuyFill, RowsWellFormed, EntryOrderTracksPosition,
                            ClaimIsExclusive, Pending, TypeOK
  <2>2. ASSUME NEW x \in Orders, status'[x] = "PENDING"
        PROVE  /\ status[x] = "PENDING"
               /\ kind'[x] = kind[x] /\ positionOf'[x] = positionOf[x]
               /\ positionOf[x] # positionOf[o]
    BY <1>3, <2>1, <2>2 DEF ConfirmBuyFill, FreshOrders, TypeOK
  <2>3. ASSUME NEW p \in Positions, p # positionOf[o]
        PROVE  state'[p] = state[p]
    BY <1>3, <2>3 DEF ConfirmBuyFill, TypeOK
  <2>4. ASSUME NEW p \in Positions, state'[p] \in {"ENTERING", "CLOSING"}
        PROVE  \E x \in Orders : /\ positionOf'[x] = p
                                 /\ status'[x] = "PENDING"
                                 /\ state'[p] = Pending(kind'[x])
    <3>1. p # positionOf[o]
      BY <1>3, <2>4 DEF ConfirmBuyFill, TypeOK
    <3>2. PICK x \in Orders : /\ positionOf[x] = p
                              /\ status[x] = "PENDING"
                              /\ state[p] = Pending(kind[x])
      BY <2>3, <2>4, <3>1 DEF ClaimIsExclusive
    <3>3. status'[x] = "PENDING" /\ kind'[x] = kind[x] /\ positionOf'[x] = p
      BY <1>3, <3>1, <3>2 DEF ConfirmBuyFill, FreshOrders, TypeOK
    <3>. QED
      BY <2>3, <3>1, <3>2, <3>3
  <2>5. ASSUME NEW x \in Orders, status'[x] = "PENDING"
        PROVE  \/ state'[positionOf'[x]] = Pending(kind'[x])
               \/ kind'[x] \in ProtectionKinds /\ state'[positionOf'[x]] = "CLOSED"
    BY <1>0, <2>2, <2>3, <2>5 DEF ClaimIsExclusive
  <2>. QED
    BY <2>2, <2>4, <2>5 DEF ClaimIsExclusive, Pending
<1>4. ASSUME NEW o \in Orders, ClaimOrderExecution(o) PROVE ClaimIsExclusive'
  BY <1>0, <1>4 DEF ClaimOrderExecution, Before, Pending, TypeOK, RowsWellFormed,
                    ClaimIsExclusive
<1>5. ASSUME NEW o \in Orders, ReleaseOrderExecutionClaim(o) PROVE ClaimIsExclusive'
  BY <1>0, <1>5 DEF ReleaseOrderExecutionClaim, Before, Pending, TypeOK, RowsWellFormed,
                    ClaimIsExclusive
<1>6. ASSUME NEW p \in Positions, NEW k \in ProtectionKinds, NEW o \in Orders,
             PlaceProtectionOrder(p, k, o)
      PROVE  ClaimIsExclusive'
  BY <1>6, ClaimFrame DEF PlaceProtectionOrder, FreshOrders, TypeOK
<1>7. ASSUME NEW p \in Positions, NEW tps \in AtMostOneOf(Orders),
             NEW sls \in AtMostOneOf(Orders), ReplaceProtectionOrders(p, tps, sls)
      PROVE  ClaimIsExclusive'
  BY <1>7, ClaimFrame DEF ReplaceProtectionOrders, OpenOrders, FreshOrders, TypeOK
<1>8. ASSUME NEW o \in Orders, CancelOpenOrder(o) PROVE ClaimIsExclusive'
  BY <1>8, ClaimFrame DEF CancelOpenOrder, CancelPendingBuy, CancelProtectionOrder, TypeOK
<1>9. ASSUME NEW o \in Orders, NEW s \in Signatures, NEW c \in AtMostOneOf(Orders),
             ConfirmExitFill(o, s, c)
      PROVE  ClaimIsExclusive'
  <2>1. /\ kind' = kind /\ positionOf' = positionOf
        /\ positionOf[o] \in Positions
        /\ state[positionOf[o]] \in {"ACTIVE", "CLOSING"}
        /\ state' = [state EXCEPT ![positionOf[o]] = "CLOSED"]
    BY <1>0, <1>9 DEF ConfirmExitFill
  <2>2. \A x \in Orders : status'[x] = "PENDING" => status[x] = "PENDING"
    BY <1>9 DEF ConfirmExitFill, TypeOK
  <2>3. ASSUME NEW x \in Orders, status[x] = "PENDING", positionOf[x] # positionOf[o]
        PROVE  status'[x] = "PENDING"
    BY <1>9, <2>3 DEF ConfirmExitFill, SiblingChoices, OpenOrders, TypeOK
  <2>4. ASSUME NEW p \in Positions, state'[p] \in {"ENTERING", "CLOSING"}
        PROVE  \E x \in Orders : /\ positionOf'[x] = p
                                 /\ status'[x] = "PENDING"
                                 /\ state'[p] = Pending(kind'[x])
    <3>1. p # positionOf[o] /\ state'[p] = state[p]
      BY <2>1, <2>4 DEF TypeOK
    <3>. QED
      BY <2>1, <2>3, <2>4, <3>1 DEF ClaimIsExclusive
  <2>5. ASSUME NEW x \in Orders, status'[x] = "PENDING"
        PROVE  \/ state'[positionOf'[x]] = Pending(kind'[x])
               \/ kind'[x] \in ProtectionKinds /\ state'[positionOf'[x]] = "CLOSED"
    <3>1. status[x] = "PENDING" /\ positionOf[x] \in Positions
      BY <1>0, <2>2, <2>5
    <3>2. CASE positionOf[x] = positionOf[o]
      <4>1. state[positionOf[x]] = Pending(kind[x]) \/ kind[x] \in ProtectionKinds
        BY <3>1 DEF ClaimIsExclusive
      <4>2. kind[x] \in ProtectionKinds
        BY <2>1, <3>1, <3>2, <4>1 DEF Pending, TypeOK, RowsWellFormed
      <4>. QED
        BY <2>1, <3>2, <4>2 DEF TypeOK
    <3>3. CASE positionOf[x] # positionOf[o]
      BY <2>1, <3>1, <3>3 DEF ClaimIsExclusive, TypeOK
    <3>. QED
      BY <3>2, <3>3
  <2>. QED
    BY <2>1, <2>2, <2>4, <2>5 DEF ClaimIsExclusive, Pending
<1>10. ASSUME NEW p \in Positions, NEW s \in Signatures, NEW c \in Orders,
              CloseActivePosition(p, s, c)
       PROVE  ClaimIsExclusive'
  BY <1>10, ClaimFrame DEF CloseActivePosition, FreshOrders, OpenOrders, TypeOK
<1>11. ASSUME NEW x \in Proposals, NEW s \in Signatures, NEW c \in Orders,
              ConfirmSellProposalClose(x, s, c)
       PROVE  ClaimIsExclusive'
  BY <1>10, <1>11 DEF ConfirmSellProposalClose, SellConfirmable, TypeOK, ClaimIsExclusive,
                      Pending
<1>12. CASE UNCHANGED vars
  BY <1>12 DEF vars, ClaimIsExclusive, Pending
<1>. QED
  BY <1>1, <1>2, <1>3, <1>4, <1>5, <1>6, <1>7, <1>8, <1>9, <1>10, <1>11, <1>12
  DEF Next, EntryNext, ClaimNext, ProtectionNext, ExitNext, UserCloseActive

\* A position has at most one claim, and the claim holds the position.
THEOREM ClaimCorrect == Spec => []ClaimIsExclusive
<1>1. Init => ClaimIsExclusive
  BY DEF Init, ClaimIsExclusive
<1>. QED
  BY <1>1, ClaimStep, TypeCorrect, RowsCorrect, EntryCorrect, PTL DEF Spec

--------------------------------------------------------------------------------

\* Closing a position settles one order with a new signature.
LEMMA CloseSignature ==
  ASSUME TypeOK, RowsWellFormed, SignatureSettlesOneOrder, NEW p \in Positions, NEW s \in Signatures,
         NEW c \in Orders, CloseActivePosition(p, s, c)
  PROVE  SignatureSettlesOneOrder'
<1>0. \A o \in Orders : status[o] # "ABSENT" => positionOf[o] \in Positions
  BY DEF TypeOK, RowsWellFormed
<1>. QED
  BY <1>0 DEF CloseActivePosition, FreshOrders, OpenOrders,
              TypeOK, RowsWellFormed, SignatureSettlesOneOrder, SignatureUsed

\* A step of the lifecycle keeps signatures and filled orders together.
LEMMA SignatureStep ==
  TypeOK /\ RowsWellFormed /\ SignatureSettlesOneOrder /\ [Next]_vars
    => SignatureSettlesOneOrder'
<1> USE DEF proposalVars, positionVars, orderVars
<1> SUFFICES ASSUME TypeOK, RowsWellFormed, SignatureSettlesOneOrder, [Next]_vars
             PROVE  SignatureSettlesOneOrder'
  OBVIOUS
<1>0. \A o \in Orders : status[o] # "ABSENT" => positionOf[o] \in Positions
  BY DEF TypeOK, RowsWellFormed
<1>1. ASSUME ProposalNext PROVE SignatureSettlesOneOrder'
  BY <1>1 DEF ProposalNext, CreateBuyProposal, CreateSellProposal, Lapse,
              ExpireActiveProposals, TypeOK, RowsWellFormed, SignatureSettlesOneOrder, SignatureUsed
<1>2. ASSUME NEW x \in Proposals, NEW p \in Positions, NEW b \in Orders,
             AcceptBuyProposal(x, p, b)
      PROVE SignatureSettlesOneOrder'
  BY <1>0, <1>2 DEF AcceptBuyProposal, FreshPositions, FreshOrders,
              TypeOK, RowsWellFormed, SignatureSettlesOneOrder, SignatureUsed
<1>3. ASSUME NEW o \in Orders, NEW tp \in Orders, NEW sl \in Orders,
             NEW s \in Signatures, ConfirmBuyFill(o, s, tp, sl)
      PROVE SignatureSettlesOneOrder'
  BY <1>0, <1>3 DEF ConfirmBuyFill, FreshOrders,
              TypeOK, RowsWellFormed, SignatureSettlesOneOrder, SignatureUsed
<1>4. ASSUME NEW o \in Orders, ClaimOrderExecution(o) PROVE SignatureSettlesOneOrder'
  BY <1>0, <1>4 DEF ClaimOrderExecution, Before, Pending,
              TypeOK, RowsWellFormed, SignatureSettlesOneOrder, SignatureUsed
<1>5. ASSUME NEW o \in Orders, ReleaseOrderExecutionClaim(o) PROVE SignatureSettlesOneOrder'
  BY <1>0, <1>5 DEF ReleaseOrderExecutionClaim, Before, Pending,
              TypeOK, RowsWellFormed, SignatureSettlesOneOrder, SignatureUsed
<1>6. ASSUME NEW p \in Positions, NEW k \in ProtectionKinds, NEW o \in Orders,
             PlaceProtectionOrder(p, k, o)
      PROVE SignatureSettlesOneOrder'
  BY <1>0, <1>6 DEF PlaceProtectionOrder, FreshOrders,
              TypeOK, RowsWellFormed, SignatureSettlesOneOrder, SignatureUsed
<1>7. ASSUME NEW p \in Positions, NEW tps \in AtMostOneOf(Orders),
             NEW sls \in AtMostOneOf(Orders), ReplaceProtectionOrders(p, tps, sls)
      PROVE SignatureSettlesOneOrder'
  BY <1>0, <1>7 DEF ReplaceProtectionOrders, OpenOrders, FreshOrders,
              TypeOK, RowsWellFormed, SignatureSettlesOneOrder, SignatureUsed
<1>8. ASSUME NEW o \in Orders, CancelOpenOrder(o) PROVE SignatureSettlesOneOrder'
  BY <1>0, <1>8 DEF CancelOpenOrder, CancelPendingBuy, CancelProtectionOrder,
              TypeOK, RowsWellFormed, SignatureSettlesOneOrder, SignatureUsed
<1>9. ASSUME NEW o \in Orders, NEW s \in Signatures, NEW c \in AtMostOneOf(Orders),
             ConfirmExitFill(o, s, c)
      PROVE SignatureSettlesOneOrder'
  BY <1>0, <1>9 DEF ConfirmExitFill, SiblingChoices, SiblingOf, OpenOrders, ReasonOf,
              AtMostOneOf,
              TypeOK, RowsWellFormed, SignatureSettlesOneOrder, SignatureUsed
<1>10. ASSUME NEW p \in Positions, NEW s \in Signatures, NEW c \in Orders,
              CloseActivePosition(p, s, c)
       PROVE  SignatureSettlesOneOrder'
  BY <1>10, CloseSignature
<1>11. ASSUME NEW x \in Proposals, NEW s \in Signatures, NEW c \in Orders,
             ConfirmSellProposalClose(x, s, c)
      PROVE SignatureSettlesOneOrder'
  BY <1>10, <1>11 DEF ConfirmSellProposalClose, SellConfirmable, TypeOK, RowsWellFormed, SignatureSettlesOneOrder, SignatureUsed
<1>12. CASE UNCHANGED vars
  BY <1>12 DEF vars, TypeOK, RowsWellFormed, SignatureSettlesOneOrder, SignatureUsed
<1>. QED
  BY <1>1, <1>2, <1>3, <1>4, <1>5, <1>6, <1>7, <1>8, <1>9, <1>10, <1>11, <1>12
  DEF Next, EntryNext, ClaimNext, ProtectionNext, ExitNext, UserCloseActive

\* A swap settles at most one order, and an order is filled by a swap.
THEOREM SignatureCorrect == Spec => []SignatureSettlesOneOrder
<1>1. Init => SignatureSettlesOneOrder
  BY DEF Init, TypeOK, SignatureSettlesOneOrder, SignatureUsed
<1>. QED
  BY <1>1, SignatureStep, TypeCorrect, RowsCorrect, PTL DEF Spec

FilledExit(o) == status[o] = "FILLED" /\ kind[o] # "BUY_TRIGGER"

\* A step that fills no exit and leaves the sold positions alone keeps
\* OneFilledExit.
LEMMA ExitFrame ==
  ASSUME TypeOK, RowsWellFormed, OneFilledExit,
         \A o \in Orders : FilledExit(o)' <=> FilledExit(o),
         \A o \in Orders : FilledExit(o) => kind'[o] = kind[o] /\ positionOf'[o] = positionOf[o],
         \A p \in Positions :
           \/ state'[p] = state[p] /\ closedReason'[p] = closedReason[p]
           \/ /\ state[p] # "CLOSED"
              /\ state'[p] # "CLOSED" \/ closedReason'[p] = "BUY_CANCELLED"
  PROVE  OneFilledExit'
<1>1. ASSUME NEW o \in Orders, FilledExit(o)
      PROVE  SoldBy(positionOf[o], kind[o])' /\ positionOf'[o] = positionOf[o]
  <2>1. positionOf[o] \in Positions /\ SoldBy(positionOf[o], kind[o])
    BY <1>1 DEF FilledExit, TypeOK, RowsWellFormed, OneFilledExit
  <2>. QED
    BY <1>1, <2>1 DEF SoldBy, ReasonOf
<1>2. ASSUME NEW p \in Positions, state'[p] = "CLOSED", closedReason'[p] # "BUY_CANCELLED"
      PROVE  \E o \in Orders : positionOf'[o] = p /\ FilledExit(o)'
  <2>1. PICK o \in Orders : positionOf[o] = p /\ FilledExit(o)
    BY <1>2 DEF OneFilledExit, FilledExit
  <2>. QED
    BY <2>1
<1>3. ASSUME NEW o1 \in Orders, NEW o2 \in Orders, FilledExit(o1)', FilledExit(o2)',
             positionOf'[o1] = positionOf'[o2]
      PROVE  o1 = o2
  BY <1>3 DEF OneFilledExit, FilledExit
<1>4. \A o \in Orders : FilledExit(o)' => SoldBy(positionOf[o], kind[o])' /\ kind'[o] = kind[o]
  BY <1>1
<1>. QED
  BY <1>1, <1>2, <1>3, <1>4 DEF OneFilledExit, FilledExit, SoldBy, ReasonOf

\* Closing a position gives it its one filled exit.
LEMMA CloseExit ==
  ASSUME TypeOK, RowsWellFormed, OneFilledExit, NEW p \in Positions, NEW s \in Signatures,
         NEW c \in Orders, CloseActivePosition(p, s, c)
  PROVE  OneFilledExit'
<1>0. \A o \in Orders : status[o] # "ABSENT" => positionOf[o] \in Positions
  BY DEF TypeOK, RowsWellFormed
<1>. QED
  BY <1>0 DEF CloseActivePosition, FreshOrders, OpenOrders, ReasonOf, SoldBy,
                     TypeOK, RowsWellFormed, OneFilledExit

\* A step of the lifecycle keeps a position to one filled exit.
LEMMA ExitStep ==
  TypeOK /\ RowsWellFormed /\ OneFilledExit /\ [Next]_vars
    => OneFilledExit'
<1> USE DEF proposalVars, positionVars, orderVars
<1> SUFFICES ASSUME TypeOK, RowsWellFormed, OneFilledExit, [Next]_vars
             PROVE  OneFilledExit'
  OBVIOUS
<1>0. \A o \in Orders : status[o] # "ABSENT" => positionOf[o] \in Positions
  BY DEF TypeOK, RowsWellFormed
<1>1. ASSUME ProposalNext PROVE OneFilledExit'
  BY <1>1 DEF ProposalNext, CreateBuyProposal, CreateSellProposal, Lapse,
              ExpireActiveProposals, OneFilledExit, SoldBy, ReasonOf
<1>2. ASSUME NEW x \in Proposals, NEW p \in Positions, NEW b \in Orders,
             AcceptBuyProposal(x, p, b)
      PROVE  OneFilledExit'
  BY <1>2, ExitFrame DEF AcceptBuyProposal, FreshPositions, FreshOrders, FilledExit, TypeOK
<1>3. ASSUME NEW o \in Orders, NEW tp \in Orders, NEW sl \in Orders,
             NEW s \in Signatures, ConfirmBuyFill(o, s, tp, sl)
      PROVE  OneFilledExit'
  BY <1>0, <1>3, ExitFrame DEF ConfirmBuyFill, FreshOrders, FilledExit, TypeOK
<1>4. ASSUME NEW o \in Orders, ClaimOrderExecution(o) PROVE OneFilledExit'
  BY <1>0, <1>4, ExitFrame DEF ClaimOrderExecution, Before, Pending, FilledExit, TypeOK
<1>5. ASSUME NEW o \in Orders, ReleaseOrderExecutionClaim(o) PROVE OneFilledExit'
  BY <1>0, <1>5, ExitFrame DEF ReleaseOrderExecutionClaim, Before, Pending, FilledExit, TypeOK
<1>6. ASSUME NEW p \in Positions, NEW k \in ProtectionKinds, NEW o \in Orders,
             PlaceProtectionOrder(p, k, o)
      PROVE  OneFilledExit'
  BY <1>6, ExitFrame DEF PlaceProtectionOrder, FreshOrders, FilledExit, TypeOK
<1>7. ASSUME NEW p \in Positions, NEW tps \in AtMostOneOf(Orders),
             NEW sls \in AtMostOneOf(Orders), ReplaceProtectionOrders(p, tps, sls)
      PROVE  OneFilledExit'
  BY <1>7, ExitFrame DEF ReplaceProtectionOrders, OpenOrders, FreshOrders, FilledExit, TypeOK
<1>8. ASSUME NEW o \in Orders, CancelOpenOrder(o) PROVE OneFilledExit'
  BY <1>0, <1>8, ExitFrame DEF CancelOpenOrder, CancelPendingBuy, CancelProtectionOrder,
                               FilledExit, TypeOK
<1>9. ASSUME NEW o \in Orders, NEW s \in Signatures, NEW c \in AtMostOneOf(Orders),
             ConfirmExitFill(o, s, c)
      PROVE  OneFilledExit'
  BY <1>0, <1>9 DEF ConfirmExitFill, SiblingChoices, OpenOrders, ReasonOf, SoldBy,
                    TypeOK, RowsWellFormed, OneFilledExit
<1>10. ASSUME NEW p \in Positions, NEW s \in Signatures, NEW c \in Orders,
              CloseActivePosition(p, s, c)
       PROVE  OneFilledExit'
  BY <1>10, CloseExit
<1>11. ASSUME NEW x \in Proposals, NEW s \in Signatures, NEW c \in Orders,
              ConfirmSellProposalClose(x, s, c)
       PROVE  OneFilledExit'
  BY <1>10, <1>11 DEF ConfirmSellProposalClose, SellConfirmable, ReasonOf, SoldBy,
                      TypeOK, OneFilledExit
<1>12. CASE UNCHANGED vars
  BY <1>12 DEF vars, OneFilledExit, SoldBy, ReasonOf
<1>. QED
  BY <1>1, <1>2, <1>3, <1>4, <1>5, <1>6, <1>7, <1>8, <1>9, <1>10, <1>11, <1>12
  DEF Next, EntryNext, ClaimNext, ProtectionNext, ExitNext, UserCloseActive

\* A position is sold at most once, by an exit of the kind its closed reason names.
THEOREM ExitCorrect == Spec => []OneFilledExit
<1>1. Init => OneFilledExit
  BY DEF Init, OneFilledExit
<1>. QED
  BY <1>1, ExitStep, TypeCorrect, RowsCorrect, PTL DEF Spec

\* A step that books nothing keeps the ledger right when it neither buys a
\* position nor sells one.
LEMMA LedgerFrame ==
  ASSUME LedgerMatchesPosition, trades' = trades,
         \A p \in Positions : Bought(p)' <=> Bought(p),
         \A p \in Positions, k \in OrderKinds \ {"BUY_TRIGGER"} : SoldBy(p, k)' <=> SoldBy(p, k)
  PROVE  LedgerMatchesPosition'
BY DEF LedgerMatchesPosition

\* Booking one trade of a source adds one row to one position and one source.
LEMMA BookTradeAdds ==
  ASSUME TypeOK, NEW p \in Positions, NEW source \in TradeSources, BookTrade(p, source)
  PROVE  /\ \A q \in Positions \ {p} : trades'[q] = trades[q]
         /\ trades'[p][source] = trades[p][source] + 1
         /\ \A other \in TradeSources \ {source} : trades'[p][other] = trades[p][other]
<1>1. trades[p] \in [TradeSources -> Nat]
  BY DEF TypeOK
<1>2. trades'[p] = [trades[p] EXCEPT ![source] = @ + 1]
  BY DEF TypeOK, BookTrade
<1>3. \A q \in Positions \ {p} : trades'[q] = trades[q]
  BY DEF TypeOK, BookTrade
<1>. QED
  BY <1>1, <1>2, <1>3

\* Buying a position and booking its BUY trade keeps the ledger right.
LEMMA LedgerPurchase ==
  ASSUME TypeOK, LedgerMatchesPosition, NEW p \in Positions,
         state[p] \in {"BUY_PENDING", "ENTERING"},
         state' = [state EXCEPT ![p] = "ACTIVE"],
         closedReason' = closedReason,
         BookTrade(p, "BUY_APPROVAL")
  PROVE  LedgerMatchesPosition'
<1>1. ASSUME NEW q \in Positions \ {p}
      PROVE  /\ Bought(q)' <=> Bought(q)
             /\ \A j \in OrderKinds : SoldBy(q, j)' <=> SoldBy(q, j)
             /\ trades'[q] = trades[q]
  BY <1>1, BookTradeAdds DEF Bought, SoldBy, ReasonOf, TypeOK
<1>2. ~ Bought(p) /\ Bought(p)'
  BY DEF Bought, TypeOK
<1>3. trades'[p]["BUY_APPROVAL"] = 1
  BY <1>2, BookTradeAdds DEF LedgerMatchesPosition
<1>4. ASSUME NEW j \in OrderKinds \ {"BUY_TRIGGER"}
      PROVE  trades'[p][SourceOf(j)] = IF SoldBy(p, j)' THEN 1 ELSE 0
  <2>1. trades[p][SourceOf(j)] = 0
    BY DEF LedgerMatchesPosition, SoldBy
  <2>2. SourceOf(j) \in TradeSources \ {"BUY_APPROVAL"} /\ ~ SoldBy(p, j)'
    BY DEF SourceOf, SoldBy, TypeOK
  <2>. QED
    BY <2>1, <2>2, BookTradeAdds
<1>. QED
  BY <1>1, <1>2, <1>3, <1>4 DEF LedgerMatchesPosition

\* Selling a position that was bought and not yet sold, and booking the exit
\* trade of the kind that sold it, keeps the ledger right.
LEMMA LedgerSale ==
  ASSUME TypeOK, LedgerMatchesPosition, NEW p \in Positions,
         NEW k \in OrderKinds \ {"BUY_TRIGGER"},
         state[p] \in {"ACTIVE", "CLOSING"},
         state' = [state EXCEPT ![p] = "CLOSED"],
         closedReason' = [closedReason EXCEPT ![p] = ReasonOf(k)],
         BookTrade(p, SourceOf(k))
  PROVE  LedgerMatchesPosition'
<1>1. SourceOf(k) \in TradeSources \ {"BUY_APPROVAL"}
  BY DEF SourceOf
<1>2. ASSUME NEW q \in Positions \ {p}
      PROVE  /\ Bought(q)' <=> Bought(q)
             /\ \A j \in OrderKinds : SoldBy(q, j)' <=> SoldBy(q, j)
             /\ trades'[q] = trades[q]
  BY <1>1, <1>2, BookTradeAdds DEF Bought, SoldBy, ReasonOf, TypeOK
<1>3. Bought(p)' /\ Bought(p)
  BY DEF Bought, ReasonOf, TypeOK
<1>4. trades'[p]["BUY_APPROVAL"] = 1
  BY <1>1, <1>3, BookTradeAdds DEF LedgerMatchesPosition
<1>5. ASSUME NEW j \in OrderKinds \ {"BUY_TRIGGER"}
      PROVE  trades'[p][SourceOf(j)] = IF SoldBy(p, j)' THEN 1 ELSE 0
  <2>1. trades[p][SourceOf(j)] = 0
    BY DEF LedgerMatchesPosition, SoldBy
  <2>2. CASE j = k
    <3>1. SoldBy(p, j)'
      BY <2>2 DEF SoldBy, ReasonOf, TypeOK
    <3>. QED
      BY <1>1, <2>1, <2>2, <3>1, BookTradeAdds
  <2>3. CASE j # k
    <3>1. ~ SoldBy(p, j)' /\ SourceOf(j) # SourceOf(k) /\ SourceOf(j) \in TradeSources
      BY <2>3 DEF SoldBy, ReasonOf, SourceOf, TypeOK
    <3>. QED
      BY <1>1, <2>1, <3>1, BookTradeAdds
  <2>. QED
    BY <2>2, <2>3
<1>. QED
  BY <1>2, <1>3, <1>4, <1>5 DEF LedgerMatchesPosition

\* A step of the lifecycle keeps the ledger true to the positions.
LEMMA LedgerStep ==
  TypeOK /\ RowsWellFormed /\ LedgerMatchesPosition /\ [Next]_vars
    => LedgerMatchesPosition'
<1> USE DEF proposalVars, positionVars, orderVars
<1> SUFFICES ASSUME TypeOK, RowsWellFormed, LedgerMatchesPosition, [Next]_vars
             PROVE  LedgerMatchesPosition'
  OBVIOUS
<1> USE DEF Bought, SoldBy
<1>0. \A o \in Orders : status[o] # "ABSENT" => positionOf[o] \in Positions
  BY DEF TypeOK, RowsWellFormed
<1>1. ASSUME ProposalNext PROVE LedgerMatchesPosition'
  BY <1>1, LedgerFrame DEF ProposalNext, CreateBuyProposal, CreateSellProposal, Lapse,
                           ExpireActiveProposals, ReasonOf
<1>2. ASSUME NEW x \in Proposals, NEW p \in Positions, NEW b \in Orders,
             AcceptBuyProposal(x, p, b)
      PROVE  LedgerMatchesPosition'
  BY <1>2, LedgerFrame DEF AcceptBuyProposal, FreshPositions, ReasonOf, TypeOK
<1>3. ASSUME NEW o \in Orders, NEW tp \in Orders, NEW sl \in Orders,
             NEW s \in Signatures, ConfirmBuyFill(o, s, tp, sl)
      PROVE  LedgerMatchesPosition'
  <2>1. /\ positionOf[o] \in Positions
        /\ state[positionOf[o]] \in {"BUY_PENDING", "ENTERING"}
        /\ state' = [state EXCEPT ![positionOf[o]] = "ACTIVE"]
        /\ closedReason' = closedReason
        /\ BookTrade(positionOf[o], "BUY_APPROVAL")
    BY <1>0, <1>3 DEF ConfirmBuyFill
  <2>. QED
    BY <2>1, LedgerPurchase
<1>4. ASSUME NEW o \in Orders, ClaimOrderExecution(o) PROVE LedgerMatchesPosition'
  BY <1>0, <1>4, LedgerFrame DEF ClaimOrderExecution, Before, Pending, ReasonOf, TypeOK
<1>5. ASSUME NEW o \in Orders, ReleaseOrderExecutionClaim(o) PROVE LedgerMatchesPosition'
  BY <1>0, <1>5, LedgerFrame DEF ReleaseOrderExecutionClaim, Before, Pending, ReasonOf, TypeOK
<1>6. ASSUME NEW p \in Positions, NEW k \in ProtectionKinds, NEW o \in Orders,
             PlaceProtectionOrder(p, k, o)
      PROVE  LedgerMatchesPosition'
  BY <1>6, LedgerFrame DEF PlaceProtectionOrder, ReasonOf
<1>7. ASSUME NEW p \in Positions, NEW tps \in AtMostOneOf(Orders),
             NEW sls \in AtMostOneOf(Orders), ReplaceProtectionOrders(p, tps, sls)
      PROVE  LedgerMatchesPosition'
  BY <1>7, LedgerFrame DEF ReplaceProtectionOrders, ReasonOf
<1>8. ASSUME NEW o \in Orders, CancelOpenOrder(o) PROVE LedgerMatchesPosition'
  BY <1>0, <1>8, LedgerFrame DEF CancelOpenOrder, CancelPendingBuy, CancelProtectionOrder,
                                 ReasonOf, TypeOK, RowsWellFormed
<1>9. ASSUME NEW o \in Orders, NEW s \in Signatures, NEW c \in AtMostOneOf(Orders),
             ConfirmExitFill(o, s, c)
      PROVE  LedgerMatchesPosition'
  BY <1>0, <1>9, LedgerSale DEF ConfirmExitFill
<1>10. ASSUME NEW p \in Positions, NEW s \in Signatures, NEW c \in Orders,
              CloseActivePosition(p, s, c)
       PROVE  LedgerMatchesPosition'
  <2>1. /\ state' = [state EXCEPT ![p] = "CLOSED"]
        /\ closedReason' = [closedReason EXCEPT ![p] = ReasonOf("CLOSE_SWAP")]
        /\ BookTrade(p, SourceOf("CLOSE_SWAP"))
        /\ state[p] = "ACTIVE"
    BY <1>10 DEF CloseActivePosition, ReasonOf, SourceOf
  <2>. QED
    BY <2>1, LedgerSale
<1>11. ASSUME NEW x \in Proposals, NEW s \in Signatures, NEW c \in Orders,
              ConfirmSellProposalClose(x, s, c)
       PROVE  LedgerMatchesPosition'
  <2>1. proposalPosition[x] \in Positions
    BY <1>11 DEF ConfirmSellProposalClose, SellConfirmable, TypeOK
  <2>2. CASE CloseActivePosition(proposalPosition[x], s, c)
    BY <1>10, <2>1, <2>2
  <2>3. CASE UNCHANGED <<positionVars, orderVars, trades>>
    BY <2>3, LedgerFrame DEF ReasonOf
  <2>. QED
    BY <1>11, <2>2, <2>3 DEF ConfirmSellProposalClose
<1>12. CASE UNCHANGED vars
  BY <1>12, LedgerFrame DEF vars, ReasonOf
<1>. QED
  BY <1>1, <1>2, <1>3, <1>4, <1>5, <1>6, <1>7, <1>8, <1>9, <1>10, <1>11, <1>12
  DEF Next, EntryNext, ClaimNext, ProtectionNext, ExitNext, UserCloseActive

\* Every position has the trades its state and its closed reason call for.
THEOREM LedgerCorrect == Spec => []LedgerMatchesPosition
<1>1. Init => LedgerMatchesPosition
  BY DEF Init, LedgerMatchesPosition, Bought, SoldBy, SourceOf
<1>. QED
  BY <1>1, LedgerStep, TypeCorrect, RowsCorrect, PTL DEF Spec

--------------------------------------------------------------------------------
(* The Proposal table: a BUY proposal opens one position, and an executed  *)
(* SELL proposal has closed its own.                                       *)

\* A proposal that exists says what it asks for, one that does not has no
\* position, a SELL proposal has one, and a position a proposal names exists.
ProposalRowsWellFormed ==
  \A x \in Proposals :
    /\ proposalStatus[x] = "ABSENT" <=> proposalAction[x] = NULL
    /\ proposalStatus[x] = "ABSENT" => proposalPosition[x] = NULL
    /\ proposalAction[x] = "SELL" => proposalPosition[x] # NULL
    /\ proposalPosition[x] # NULL => state[proposalPosition[x]] # "ABSENT"

ProposalInv == ProposalRowsWellFormed /\ ProposalBuysOnce

\* What a step of the tables of orders and positions does to the states of the
\* positions: none appears and none disappears.
SamePositions ==
  \A p \in Positions : state'[p] = "ABSENT" <=> state[p] = "ABSENT"

--------------------------------------------------------------------------------

\* The steps that leave the proposals alone neither open nor remove a position.
LEMMA PositionsStay ==
  ASSUME TypeOK, RowsWellFormed, [Next]_vars
  PROVE  \/ SamePositions
         \/ \E x \in Proposals, p \in Positions, b \in Orders : AcceptBuyProposal(x, p, b)
<1> USE DEF proposalVars, positionVars, orderVars, SamePositions
<1>0. \A o \in Orders : status[o] # "ABSENT" =>
        positionOf[o] \in Positions /\ state[positionOf[o]] # "ABSENT"
  BY DEF TypeOK, RowsWellFormed
<1>1. ASSUME ProposalNext PROVE SamePositions
  BY <1>1 DEF ProposalNext, CreateBuyProposal, CreateSellProposal, Lapse, ExpireActiveProposals
<1>2. ASSUME NEW o \in Orders, NEW tp \in Orders, NEW sl \in Orders,
             NEW s \in Signatures, ConfirmBuyFill(o, s, tp, sl)
      PROVE  SamePositions
  BY <1>0, <1>2 DEF ConfirmBuyFill, TypeOK
<1>3. ASSUME ClaimNext PROVE SamePositions
  <2>1. ASSUME NEW o \in Orders, ClaimOrderExecution(o) PROVE SamePositions
    BY <1>0, <2>1 DEF ClaimOrderExecution, Pending, TypeOK
  <2>2. ASSUME NEW o \in Orders, ReleaseOrderExecutionClaim(o) PROVE SamePositions
    BY <1>0, <2>2 DEF ReleaseOrderExecutionClaim, Before, TypeOK
  <2>. QED
    BY <1>3, <2>1, <2>2 DEF ClaimNext
<1>4. ASSUME ProtectionNext PROVE SamePositions
  <2>1. ASSUME NEW o \in Orders, CancelOpenOrder(o) PROVE SamePositions
    BY <1>0, <2>1 DEF CancelOpenOrder, CancelPendingBuy, CancelProtectionOrder, TypeOK
  <2>. QED
    BY <1>4, <2>1 DEF ProtectionNext, PlaceProtectionOrder, ReplaceProtectionOrders
<1>5. ASSUME NEW o \in Orders, NEW s \in Signatures, NEW c \in AtMostOneOf(Orders),
             ConfirmExitFill(o, s, c)
      PROVE  SamePositions
  BY <1>0, <1>5 DEF ConfirmExitFill, TypeOK
<1>6. ASSUME NEW p, NEW s \in Signatures, NEW c \in Orders, CloseActivePosition(p, s, c)
      PROVE  SamePositions
  BY <1>6 DEF CloseActivePosition, TypeOK
<1>7. ASSUME NEW x \in Proposals, NEW s \in Signatures, NEW c \in Orders,
             ConfirmSellProposalClose(x, s, c)
      PROVE  SamePositions
  BY <1>6, <1>7 DEF ConfirmSellProposalClose
<1>8. CASE UNCHANGED vars
  BY <1>8 DEF vars
<1>. QED
  BY <1>1, <1>2, <1>3, <1>4, <1>5, <1>6, <1>7, <1>8
  DEF Next, EntryNext, ExitNext, UserCloseActive

\* The steps that write the Proposal table.
LEMMA ProposalWriters ==
  ASSUME [Next]_vars
  PROVE  \/ ProposalNext \/ UNCHANGED proposalVars
         \/ \E x \in Proposals, p \in Positions, b \in Orders : AcceptBuyProposal(x, p, b)
         \/ \E x \in Proposals, s \in Signatures, c \in Orders : ConfirmSellProposalClose(x, s, c)
BY DEF vars, Next, EntryNext, ConfirmBuyFill, ClaimNext, ClaimOrderExecution,
       ReleaseOrderExecutionClaim, ProtectionNext, PlaceProtectionOrder,
       ReplaceProtectionOrders, CancelOpenOrder, CancelPendingBuy, CancelProtectionOrder,
       ExitNext, ConfirmExitFill, UserCloseActive

\* A step that neither makes a proposal nor opens a position, and lets no BUY
\* proposal into or out of EXECUTED, keeps the invariant.
LEMMA ProposalFrame ==
  ASSUME TypeOK, ProposalInv, SamePositions,
         proposalAction' = proposalAction, proposalPosition' = proposalPosition,
         \A x \in Proposals :
           /\ proposalStatus'[x] = "ABSENT" <=> proposalStatus[x] = "ABSENT"
           /\ proposalAction[x] = "BUY" =>
                (proposalStatus'[x] = "EXECUTED" <=> proposalStatus[x] = "EXECUTED")
  PROVE  ProposalInv'
<1>1. ProposalRowsWellFormed'
  BY DEF TypeOK, ProposalInv, ProposalRowsWellFormed, SamePositions
<1>2. ProposalBuysOnce'
  BY DEF ProposalInv, ProposalBuysOnce, SamePositions
<1>. QED
  BY <1>1, <1>2 DEF ProposalInv

\* The rows of proposals fit, and a BUY proposal buys once: the two are inductive
\* together.
THEOREM ProposalInvCorrect == Spec => []ProposalInv
<1> USE DEF proposalVars, positionVars, orderVars
<1>1. Init => ProposalInv
  BY DEF Init, ProposalInv, ProposalRowsWellFormed, ProposalBuysOnce
<1>2. TypeOK /\ RowsWellFormed /\ ProposalInv /\ [Next]_vars => ProposalInv'
  <2> SUFFICES ASSUME TypeOK, RowsWellFormed, ProposalInv, [Next]_vars
               PROVE  ProposalInv'
    OBVIOUS
  <2>1. ASSUME NEW x \in Proposals, CreateBuyProposal(x) PROVE ProposalInv'
    BY <2>1 DEF CreateBuyProposal, TypeOK, ProposalInv, ProposalRowsWellFormed, ProposalBuysOnce
  <2>2. ASSUME NEW x \in Proposals, NEW p \in Positions, CreateSellProposal(x, p)
        PROVE  ProposalInv'
    BY <2>2 DEF CreateSellProposal, TypeOK, ProposalInv, ProposalRowsWellFormed, ProposalBuysOnce
  <2>3. ASSUME NEW x \in Proposals, Lapse(x) PROVE ProposalInv'
    BY <2>3, ProposalFrame DEF Lapse, SamePositions
  <2>4. ASSUME ExpireActiveProposals PROVE ProposalInv'
    BY <2>4, ProposalFrame DEF ExpireActiveProposals, Expired, SamePositions, TypeOK
  <2>5. ASSUME NEW x \in Proposals, NEW p \in Positions, NEW b \in Orders,
               AcceptBuyProposal(x, p, b)
        PROVE  ProposalInv'
    <3>1. /\ proposalStatus[x] = "ACTIVE" /\ proposalAction[x] = "BUY"
          /\ state[p] = "ABSENT"
          /\ state' = [state EXCEPT ![p] = "BUY_PENDING"]
          /\ proposalPosition' = [proposalPosition EXCEPT ![x] = p]
          /\ proposalAction' = proposalAction
          /\ proposalStatus'[x] = "EXECUTED"
      BY <2>5 DEF AcceptBuyProposal, FreshPositions, Expired, TypeOK
    <3>2. \A y \in Proposals \ {x} :
            /\ proposalStatus'[y] = "ABSENT" <=> proposalStatus[y] = "ABSENT"
            /\ proposalStatus'[y] = "EXECUTED" <=> proposalStatus[y] = "EXECUTED"
      BY <2>5 DEF AcceptBuyProposal, Expired, TypeOK
    <3>3. \A y \in Proposals : proposalPosition[y] # p
      BY <3>1 DEF ProposalInv, ProposalRowsWellFormed, TypeOK
    <3>4. ProposalRowsWellFormed'
      BY <3>1, <3>2, <3>3 DEF TypeOK, ProposalInv, ProposalRowsWellFormed
    <3>5. ProposalBuysOnce'
      BY <3>1, <3>2, <3>3 DEF TypeOK, ProposalInv, ProposalBuysOnce
    <3>. QED
      BY <3>4, <3>5 DEF ProposalInv
  <2>6. ASSUME UNCHANGED proposalVars, SamePositions PROVE ProposalInv'
    BY <2>6, ProposalFrame
  <2>7. ASSUME NEW x \in Proposals, NEW s \in Signatures, NEW c \in Orders,
               ConfirmSellProposalClose(x, s, c), SamePositions
        PROVE  ProposalInv'
    BY <2>7, ProposalFrame DEF ConfirmSellProposalClose, SellConfirmable, TypeOK
  <2>8. ASSUME ProposalNext PROVE ProposalInv'
    BY <2>1, <2>2, <2>3, <2>4, <2>8 DEF ProposalNext
  <2>. QED
    BY <2>5, <2>6, <2>7, <2>8, ProposalWriters, PositionsStay
<1>. QED
  BY <1>1, <1>2, TypeCorrect, RowsCorrect, PTL DEF Spec

\* A BUY proposal buys once: EXECUTED is the same as having a position, and each
\* position has its own proposal (acceptBuyProposal).
THEOREM ProposalCorrect == Spec => []ProposalBuysOnce
<1>1. ProposalInv => ProposalBuysOnce
  BY DEF ProposalInv
<1>. QED
  BY <1>1, ProposalInvCorrect, PTL

--------------------------------------------------------------------------------

\* Nothing changes how a position was closed.
LEMMA SoldStays ==
  ASSUME TypeOK, RowsWellFormed, [Next]_vars, NEW p \in Positions, state[p] = "CLOSED"
  PROVE  state'[p] = "CLOSED" /\ closedReason'[p] = closedReason[p]
<1> USE DEF proposalVars, positionVars, orderVars
<1> DEFINE Stays == state'[p] = "CLOSED" /\ closedReason'[p] = closedReason[p]
<1>0. \A o \in Orders : status[o] # "ABSENT" => positionOf[o] \in Positions
  BY DEF TypeOK, RowsWellFormed
<1>1. ASSUME ProposalNext PROVE Stays
  BY <1>1 DEF ProposalNext, CreateBuyProposal, CreateSellProposal, Lapse, ExpireActiveProposals
<1>2. ASSUME EntryNext PROVE Stays
  <2>1. ASSUME NEW x \in Proposals, NEW q \in Positions, NEW b \in Orders,
               AcceptBuyProposal(x, q, b)
        PROVE  Stays
    BY <2>1 DEF AcceptBuyProposal, FreshPositions, TypeOK
  <2>2. ASSUME NEW o \in Orders, NEW tp \in Orders, NEW sl \in Orders,
               NEW s \in Signatures, ConfirmBuyFill(o, s, tp, sl)
        PROVE  Stays
    BY <2>2 DEF ConfirmBuyFill, TypeOK
  <2>. QED
    BY <1>2, <2>1, <2>2 DEF EntryNext
<1>3. ASSUME ClaimNext PROVE Stays
  <2>1. ASSUME NEW o \in Orders, ClaimOrderExecution(o) PROVE Stays
    BY <2>1 DEF ClaimOrderExecution, Before, TypeOK
  <2>2. ASSUME NEW o \in Orders, ReleaseOrderExecutionClaim(o) PROVE Stays
    BY <2>2 DEF ReleaseOrderExecutionClaim, Pending, TypeOK
  <2>. QED
    BY <1>3, <2>1, <2>2 DEF ClaimNext
<1>4. ASSUME ProtectionNext PROVE Stays
  <2>1. ASSUME NEW o \in Orders, CancelOpenOrder(o) PROVE Stays
    BY <2>1 DEF CancelOpenOrder, CancelPendingBuy, CancelProtectionOrder, TypeOK
  <2>. QED
    BY <1>4, <2>1 DEF ProtectionNext, PlaceProtectionOrder, ReplaceProtectionOrders
<1>5. ASSUME NEW o \in Orders, NEW s \in Signatures, NEW c \in AtMostOneOf(Orders),
             ConfirmExitFill(o, s, c)
      PROVE  Stays
  BY <1>5 DEF ConfirmExitFill, TypeOK
<1>6. ASSUME NEW q, NEW s \in Signatures, NEW c \in Orders, CloseActivePosition(q, s, c)
      PROVE  Stays
  BY <1>6 DEF CloseActivePosition, TypeOK
<1>7. ASSUME NEW x \in Proposals, NEW s \in Signatures, NEW c \in Orders,
             ConfirmSellProposalClose(x, s, c)
      PROVE  Stays
  BY <1>6, <1>7 DEF ConfirmSellProposalClose
<1>8. CASE UNCHANGED vars
  BY <1>8 DEF vars
<1>. QED
  BY <1>1, <1>2, <1>3, <1>4, <1>5, <1>6, <1>7, <1>8 DEF Next, ExitNext, UserCloseActive

\* A SELL proposal is EXECUTED only with its position closed by a CLOSE_SWAP
\* (confirmSellProposalClose), also when its signature is a replay.
THEOREM SellCorrect == Spec => []ExecutedSellClosedItsPosition
<1> USE DEF proposalVars, positionVars, orderVars
<1>1. Init => ExecutedSellClosedItsPosition
  BY DEF Init, ExecutedSellClosedItsPosition
<1>2. TypeOK /\ RowsWellFormed /\ SignatureSettlesOneOrder /\ OneFilledExit /\ ProposalInv
      /\ ExecutedSellClosedItsPosition /\ [Next]_vars => ExecutedSellClosedItsPosition'
  <2> SUFFICES ASSUME TypeOK, RowsWellFormed, SignatureSettlesOneOrder, OneFilledExit,
                      ProposalInv, ExecutedSellClosedItsPosition, [Next]_vars,
                      NEW x \in Proposals,
                      proposalAction'[x] = "SELL", proposalStatus'[x] = "EXECUTED"
               PROVE  SoldBy(proposalPosition[x], "CLOSE_SWAP")' 
    BY DEF ExecutedSellClosedItsPosition
  <2>1. CASE /\ proposalAction[x] = "SELL" /\ proposalStatus[x] = "EXECUTED"
             /\ proposalPosition'[x] = proposalPosition[x]
    <3>1. proposalPosition[x] \in Positions /\ SoldBy(proposalPosition[x], "CLOSE_SWAP")
      BY <2>1 DEF TypeOK, ProposalInv, ProposalRowsWellFormed, ExecutedSellClosedItsPosition
    <3>. QED
      BY <2>1, <3>1, SoldStays DEF SoldBy, ReasonOf
  <2>2. ASSUME NEW s \in Signatures, NEW c \in Orders, ConfirmSellProposalClose(x, s, c)
        PROVE  SoldBy(proposalPosition[x], "CLOSE_SWAP")'
    <3> DEFINE p == proposalPosition[x]
    <3>1. p \in Positions /\ proposalPosition'[x] = p
      BY <2>2 DEF ConfirmSellProposalClose, SellConfirmable, TypeOK
    <3>2. CASE CloseActivePosition(p, s, c)
      BY <3>1, <3>2 DEF CloseActivePosition, SoldBy, ReasonOf, TypeOK
    <3>3. CASE CloseReplayed(p, s) /\ UNCHANGED <<positionVars, orderVars, trades>>
      <4>1. PICK o \in Orders : positionOf[o] = p /\ kind[o] = "CLOSE_SWAP"
        BY <3>3 DEF CloseReplayed
      <4>2. status[o] = "FILLED"
        BY <4>1 DEF RowsWellFormed
      <4>3. SoldBy(p, "CLOSE_SWAP")
        BY <4>1, <4>2 DEF OneFilledExit
      <4>. QED
        BY <3>1, <3>3, <4>3 DEF SoldBy, ReasonOf
    <3>. QED
      BY <2>2, <3>2, <3>3 DEF ConfirmSellProposalClose
  <2>3. ASSUME NEW y \in Proposals, NEW s \in Signatures, NEW c \in Orders,
               ConfirmSellProposalClose(y, s, c), y # x
        PROVE  /\ proposalAction[x] = "SELL" /\ proposalStatus[x] = "EXECUTED"
               /\ proposalPosition'[x] = proposalPosition[x]
    BY <2>3 DEF ConfirmSellProposalClose, TypeOK
  <2>4. ASSUME ProposalNext
        PROVE  /\ proposalAction[x] = "SELL" /\ proposalStatus[x] = "EXECUTED"
               /\ proposalPosition'[x] = proposalPosition[x]
    BY <2>4 DEF ProposalNext, CreateBuyProposal, CreateSellProposal, Lapse,
                ExpireActiveProposals, Expired, TypeOK
  <2>5. ASSUME NEW y \in Proposals, NEW p \in Positions, NEW b \in Orders,
               AcceptBuyProposal(y, p, b)
        PROVE  /\ proposalAction[x] = "SELL" /\ proposalStatus[x] = "EXECUTED"
               /\ proposalPosition'[x] = proposalPosition[x]
    BY <2>5 DEF AcceptBuyProposal, Expired, TypeOK
  <2>6. CASE UNCHANGED proposalVars
    BY <2>1, <2>6
  <2>. QED
    BY <2>1, <2>2, <2>3, <2>4, <2>5, <2>6, ProposalWriters
<1>. QED
  BY <1>1, <1>2, TypeCorrect, RowsCorrect, SignatureCorrect, ExitCorrect, ProposalInvCorrect,
     PTL DEF Spec

--------------------------------------------------------------------------------
(* What is settled stays settled.                                          *)

\* The step formula of SettledIsFinal.
Settled ==
  /\ \A p \in Positions : state[p] = "CLOSED" =>
       state'[p] = "CLOSED" /\ closedReason'[p] = closedReason[p] /\ trades'[p] = trades[p]
  /\ \A o \in Orders : status[o] \in {"FILLED", "CANCELLED"} =>
       status'[o] = status[o] /\ txSignature'[o] = txSignature[o]

\* A closed position keeps its reason and its trades, and a filled or cancelled
\* order its status and its signature, in every step of every function.
THEOREM FinalCorrect == Spec => SettledIsFinal
<1> USE DEF proposalVars, positionVars, orderVars
<1>1. TypeOK /\ RowsWellFormed /\ [Next]_vars => Settled
  <2> SUFFICES ASSUME TypeOK, RowsWellFormed, [Next]_vars
               PROVE  Settled
    OBVIOUS
  <2>0. \A o \in Orders : status[o] # "ABSENT" => positionOf[o] \in Positions
    BY DEF TypeOK, RowsWellFormed
  <2>1. ASSUME ProposalNext PROVE Settled
    BY <2>1 DEF ProposalNext, CreateBuyProposal, CreateSellProposal, Lapse,
                ExpireActiveProposals, Settled
  <2>2. ASSUME NEW x \in Proposals, NEW p \in Positions, NEW b \in Orders,
               AcceptBuyProposal(x, p, b)
        PROVE  Settled
    BY <2>2 DEF AcceptBuyProposal, FreshPositions, FreshOrders, TypeOK, Settled
  <2>3. ASSUME NEW o \in Orders, NEW tp \in Orders, NEW sl \in Orders,
               NEW s \in Signatures, ConfirmBuyFill(o, s, tp, sl)
        PROVE  Settled
    BY <2>0, <2>3 DEF ConfirmBuyFill, BookTrade, FreshOrders, TypeOK, Settled
  <2>4. ASSUME NEW o \in Orders, ClaimOrderExecution(o) PROVE Settled
    BY <2>0, <2>4 DEF ClaimOrderExecution, Before, TypeOK, Settled
  <2>5. ASSUME NEW o \in Orders, ReleaseOrderExecutionClaim(o) PROVE Settled
    BY <2>0, <2>5 DEF ReleaseOrderExecutionClaim, Pending, TypeOK, Settled
  <2>6. ASSUME NEW p \in Positions, NEW k \in ProtectionKinds, NEW o \in Orders,
               PlaceProtectionOrder(p, k, o)
        PROVE  Settled
    BY <2>6 DEF PlaceProtectionOrder, FreshOrders, TypeOK, Settled
  <2>7. ASSUME NEW p \in Positions, NEW tps \in AtMostOneOf(Orders),
               NEW sls \in AtMostOneOf(Orders), ReplaceProtectionOrders(p, tps, sls)
        PROVE  Settled
    BY <2>7 DEF ReplaceProtectionOrders, OpenOrders, FreshOrders, TypeOK, Settled
  <2>8. ASSUME NEW o \in Orders, CancelOpenOrder(o) PROVE Settled
    BY <2>0, <2>8 DEF CancelOpenOrder, CancelPendingBuy, CancelProtectionOrder, TypeOK, Settled
  <2>9. ASSUME NEW o \in Orders, NEW s \in Signatures, NEW c \in AtMostOneOf(Orders),
               ConfirmExitFill(o, s, c)
        PROVE  Settled
    BY <2>0, <2>9 DEF ConfirmExitFill, SiblingChoices, OpenOrders, BookTrade, TypeOK, Settled
  <2>10. ASSUME NEW p, NEW s \in Signatures, NEW c \in Orders, CloseActivePosition(p, s, c)
         PROVE  Settled
    BY <2>10 DEF CloseActivePosition, FreshOrders, OpenOrders, BookTrade, TypeOK, Settled
  <2>11. ASSUME NEW x \in Proposals, NEW s \in Signatures, NEW c \in Orders,
                ConfirmSellProposalClose(x, s, c)
         PROVE  Settled
    BY <2>10, <2>11 DEF ConfirmSellProposalClose, Settled
  <2>12. CASE UNCHANGED vars
    BY <2>12 DEF vars, Settled
  <2>. QED
    BY <2>1, <2>2, <2>3, <2>4, <2>5, <2>6, <2>7, <2>8, <2>9, <2>10, <2>11, <2>12
    DEF Next, EntryNext, ClaimNext, ProtectionNext, ExitNext, UserCloseActive
<1>. QED
  BY <1>1, TypeCorrect, RowsCorrect, PTL DEF Spec, SettledIsFinal, Settled

--------------------------------------------------------------------------------
(* A claimed position waits for its claim.                                 *)

\* The order o reopens, by the release of its claim, and its position with it.
Reopens(o, p) ==
  /\ status[o] = "PENDING" /\ status'[o] = "OPEN"
  /\ state'[p] = Before(kind[o])

\* The order o is filled, and its position is bought or sold with it.
Fills(o, p) ==
  /\ status[o] # "FILLED" /\ status'[o] = "FILLED"
  /\ state'[p] = IF state[p] = "ENTERING" THEN "ACTIVE" ELSE "CLOSED"

\* The step formula of ClaimedPositionWaits.
Waits ==
  \A p \in Positions : state[p] \in {"ENTERING", "CLOSING"} /\ state'[p] # state[p] =>
    \E o \in Orders :
      /\ positionOf[o] = p
      /\ \/ Reopens(o, p)
         \/ Fills(o, p)

\* A position leaves ENTERING or CLOSING with a release or a fill of one of its
\* orders; no cancellation, no manual close and no other order moves it.
THEOREM WaitsCorrect == Spec => ClaimedPositionWaits
<1> USE DEF proposalVars, positionVars, orderVars
<1>1. TypeOK /\ RowsWellFormed /\ [Next]_vars => Waits
  <2> SUFFICES ASSUME TypeOK, RowsWellFormed, [Next]_vars
               PROVE  Waits
    OBVIOUS
  <2>0. \A o \in Orders : status[o] # "ABSENT" => positionOf[o] \in Positions
    BY DEF TypeOK, RowsWellFormed
  <2>1. ASSUME ProposalNext PROVE Waits
    BY <2>1 DEF ProposalNext, CreateBuyProposal, CreateSellProposal, Lapse,
                ExpireActiveProposals, Waits
  <2>2. ASSUME NEW x \in Proposals, NEW p \in Positions, NEW b \in Orders,
               AcceptBuyProposal(x, p, b)
        PROVE  Waits
    BY <2>2 DEF AcceptBuyProposal, FreshPositions, TypeOK, Waits
  <2>3. ASSUME NEW o \in Orders, NEW tp \in Orders, NEW sl \in Orders,
               NEW s \in Signatures, ConfirmBuyFill(o, s, tp, sl)
        PROVE  Waits
    <3>1. positionOf[o] \in Positions
      BY <2>0, <2>3 DEF ConfirmBuyFill
    <3>2. /\ state' = [state EXCEPT ![positionOf[o]] = "ACTIVE"]
          /\ state[positionOf[o]] \in {"BUY_PENDING", "ENTERING"}
          /\ status[o] # "FILLED" /\ status'[o] = "FILLED"
      BY <2>3 DEF ConfirmBuyFill, FreshOrders, TypeOK
    <3>. QED
      BY <3>1, <3>2 DEF TypeOK, Waits, Fills
  <2>4. ASSUME NEW o \in Orders, ClaimOrderExecution(o) PROVE Waits
    BY <2>0, <2>4 DEF ClaimOrderExecution, Before, TypeOK, Waits
  <2>5. ASSUME NEW o \in Orders, ReleaseOrderExecutionClaim(o) PROVE Waits
    BY <2>0, <2>5 DEF ReleaseOrderExecutionClaim, TypeOK, Waits, Reopens
  <2>6. ASSUME NEW p \in Positions, NEW k \in ProtectionKinds, NEW o \in Orders,
               PlaceProtectionOrder(p, k, o)
        PROVE  Waits
    BY <2>6 DEF PlaceProtectionOrder, Waits
  <2>7. ASSUME NEW p \in Positions, NEW tps \in AtMostOneOf(Orders),
               NEW sls \in AtMostOneOf(Orders), ReplaceProtectionOrders(p, tps, sls)
        PROVE  Waits
    BY <2>7 DEF ReplaceProtectionOrders, Waits
  <2>8. ASSUME NEW o \in Orders, CancelOpenOrder(o) PROVE Waits
    BY <2>0, <2>8 DEF CancelOpenOrder, CancelPendingBuy, CancelProtectionOrder, TypeOK, Waits
  <2>9. ASSUME NEW o \in Orders, NEW s \in Signatures, NEW c \in AtMostOneOf(Orders),
               ConfirmExitFill(o, s, c)
        PROVE  Waits
    <3>1. positionOf[o] \in Positions
      BY <2>0, <2>9 DEF ConfirmExitFill
    <3>2. /\ state' = [state EXCEPT ![positionOf[o]] = "CLOSED"]
          /\ state[positionOf[o]] \in {"ACTIVE", "CLOSING"}
          /\ status[o] # "FILLED" /\ status'[o] = "FILLED"
      BY <2>9 DEF ConfirmExitFill, TypeOK
    <3>. QED
      BY <3>1, <3>2 DEF TypeOK, Waits, Fills
  <2>10. ASSUME NEW p, NEW s \in Signatures, NEW c \in Orders, CloseActivePosition(p, s, c)
         PROVE  Waits
    BY <2>10 DEF CloseActivePosition, TypeOK, Waits
  <2>11. ASSUME NEW x \in Proposals, NEW s \in Signatures, NEW c \in Orders,
                ConfirmSellProposalClose(x, s, c)
         PROVE  Waits
    BY <2>10, <2>11 DEF ConfirmSellProposalClose, Waits
  <2>12. CASE UNCHANGED vars
    BY <2>12 DEF vars, Waits
  <2>. QED
    BY <2>1, <2>2, <2>3, <2>4, <2>5, <2>6, <2>7, <2>8, <2>9, <2>10, <2>11, <2>12
    DEF Next, EntryNext, ClaimNext, ProtectionNext, ExitNext, UserCloseActive
<1>. QED
  BY <1>1, TypeCorrect, RowsCorrect, PTL DEF Spec, ClaimedPositionWaits, Waits, Reopens, Fills

--------------------------------------------------------------------------------
(* PositionLifecycle implements PositionAbstract.                          *)

\* The position p alone moves, between two stages; no position moves.
MovesAlone(p, from, to) ==
  /\ StageOf(p) = from /\ StageOf(p)' = to
  /\ \A q \in Positions \ {p} : StageOf(q)' = StageOf(q)
NoMove == \A q \in Positions : StageOf(q)' = StageOf(q)

\* No swap settles an order.
NoSwap == \A q \in Positions : BuysOf(q)' = BuysOf(q) /\ SellsOf(q)' = SellsOf(q)

\* The swap s becomes one more purchase, or one more sale, of p and of nothing else.
Purchased(p, s) ==
  /\ BuysOf(p)' = BuysOf(p) \cup {s} /\ SellsOf(p)' = SellsOf(p)
  /\ \A q \in Positions \ {p} : BuysOf(q)' = BuysOf(q) /\ SellsOf(q)' = SellsOf(q)
Sold(p, s) ==
  /\ SellsOf(p)' = SellsOf(p) \cup {s} /\ BuysOf(p)' = BuysOf(p)
  /\ \A q \in Positions \ {p} : BuysOf(q)' = BuysOf(q) /\ SellsOf(q)' = SellsOf(q)

--------------------------------------------------------------------------------
(* The steps of PositionAbstract, from what they do to each position.      *)

LEMMA AbstractStutter ==
  ASSUME NoMove, NoSwap
  PROVE  UNCHANGED Abstract!vars
BY DEF NoMove, NoSwap, Abstract!vars

LEMMA AbstractWant ==
  ASSUME NEW p \in Positions, MovesAlone(p, "none", "wanted"), NoSwap
  PROVE  Abstract!Want(p)
BY DEF MovesAlone, NoSwap, Abstract!Want

LEMMA AbstractDrop ==
  ASSUME NEW p \in Positions, MovesAlone(p, "wanted", "dropped"), NoSwap
  PROVE  Abstract!Drop(p)
BY DEF MovesAlone, NoSwap, Abstract!Drop

\* A swap that no order has names none that has served.
LEMMA UnusedIsUnspent ==
  ASSUME NEW s \in Signatures, ~ SignatureUsed(s)
  PROVE  s \notin Abstract!Spent
BY DEF SignatureUsed, BuysOf, SellsOf, Abstract!Spent

LEMMA AbstractBuy ==
  ASSUME NEW p \in Positions, NEW s \in Signatures, ~ SignatureUsed(s),
         MovesAlone(p, "wanted", "held"), BuysOf(p) = {}, Purchased(p, s)
  PROVE  Abstract!Buy(p, s)
BY UnusedIsUnspent DEF MovesAlone, Purchased, Abstract!Buy

LEMMA AbstractSell ==
  ASSUME NEW p \in Positions, NEW s \in Signatures, ~ SignatureUsed(s),
         MovesAlone(p, "held", "sold"), SellsOf(p) = {}, Sold(p, s)
  PROVE  Abstract!Sell(p, s)
BY UnusedIsUnspent DEF MovesAlone, Sold, Abstract!Sell

--------------------------------------------------------------------------------
(* What the steps of PositionLifecycle do to the swaps of a position.      *)

\* A step that writes no signature, and neither kind nor position of an order
\* that has one, settles nothing.
LEMMA SwapsStay ==
  ASSUME txSignature' = txSignature,
         \A o \in Orders : txSignature[o] # NULL =>
           kind'[o] = kind[o] /\ positionOf'[o] = positionOf[o]
  PROVE  NoSwap
BY DEF NoSwap, BuysOf, SellsOf

\* A step that signs the order o adds the swap to the purchases or to the sales
\* of its position, and to nothing else.
LEMMA SwapAdded ==
  ASSUME TypeOK, NEW o \in Orders, NEW s \in Signatures, NEW p \in Positions,
         txSignature[o] = NULL,
         txSignature' = [txSignature EXCEPT ![o] = s],
         positionOf'[o] = p,
         \A x \in Orders : txSignature[x] # NULL =>
           kind'[x] = kind[x] /\ positionOf'[x] = positionOf[x]
  PROVE  /\ kind'[o] = "BUY_TRIGGER" => Purchased(p, s)
         /\ kind'[o] # "BUY_TRIGGER" => Sold(p, s)
<1>1. \A x \in Orders \ {o} : txSignature'[x] = txSignature[x]
  BY DEF TypeOK
<1>2. txSignature'[o] = s
  BY DEF TypeOK
<1>3. ASSUME NEW q \in Positions, NEW t \in Signatures
      PROVE  /\ t \in BuysOf(q)' <=>
                  t \in BuysOf(q) \/ (t = s /\ q = p /\ kind'[o] = "BUY_TRIGGER")
             /\ t \in SellsOf(q)' <=>
                  t \in SellsOf(q) \/ (t = s /\ q = p /\ kind'[o] # "BUY_TRIGGER")
  BY <1>1, <1>2 DEF BuysOf, SellsOf
<1>4. \A q \in Positions : /\ BuysOf(q) \subseteq Signatures /\ BuysOf(q)' \subseteq Signatures
                           /\ SellsOf(q) \subseteq Signatures /\ SellsOf(q)' \subseteq Signatures
  BY DEF BuysOf, SellsOf
<1>5. ASSUME NEW q \in Positions \ {p}
      PROVE  BuysOf(q)' = BuysOf(q) /\ SellsOf(q)' = SellsOf(q)
  <2>1. BuysOf(q)' = BuysOf(q)
    BY <1>3, <1>4
  <2>2. SellsOf(q)' = SellsOf(q)
    BY <1>3, <1>4
  <2>. QED
    BY <2>1, <2>2
<1>6. ASSUME kind'[o] = "BUY_TRIGGER"
      PROVE  BuysOf(p)' = BuysOf(p) \cup {s} /\ SellsOf(p)' = SellsOf(p)
  <2>1. BuysOf(p)' = BuysOf(p) \cup {s}
    BY <1>3, <1>4, <1>6
  <2>2. SellsOf(p)' = SellsOf(p)
    BY <1>3, <1>4, <1>6
  <2>. QED
    BY <2>1, <2>2
<1>7. ASSUME kind'[o] # "BUY_TRIGGER"
      PROVE  BuysOf(p)' = BuysOf(p) /\ SellsOf(p)' = SellsOf(p) \cup {s}
  <2>1. BuysOf(p)' = BuysOf(p)
    BY <1>3, <1>4, <1>7
  <2>2. SellsOf(p)' = SellsOf(p) \cup {s}
    BY <1>3, <1>4, <1>7
  <2>. QED
    BY <2>1, <2>2
<1>. QED
  BY <1>5, <1>6, <1>7 DEF Purchased, Sold

\* A step that sets the state of p, and of no other position, moves p alone.
LEMMA StageMoves ==
  ASSUME TypeOK, NEW p \in Positions, NEW new \in PositionStates,
         state' = [state EXCEPT ![p] = new],
         \A q \in Positions \ {p} : closedReason'[q] = closedReason[q]
  PROVE  /\ \A q \in Positions \ {p} : StageOf(q)' = StageOf(q)
         /\ state[p] = "ABSENT" => StageOf(p) = "none"
         /\ state[p] \in {"BUY_PENDING", "ENTERING"} => StageOf(p) = "wanted"
         /\ state[p] \in {"ACTIVE", "CLOSING"} => StageOf(p) = "held"
         /\ new \in {"BUY_PENDING", "ENTERING"} => StageOf(p)' = "wanted"
         /\ new \in {"ACTIVE", "CLOSING"} => StageOf(p)' = "held"
         /\ new = "CLOSED" /\ closedReason'[p] = "BUY_CANCELLED" => StageOf(p)' = "dropped"
         /\ new = "CLOSED" /\ closedReason'[p] # "BUY_CANCELLED" => StageOf(p)' = "sold"
<1>1. \A q \in Positions \ {p} : state'[q] = state[q]
  BY DEF TypeOK
<1>2. state'[p] = new
  BY DEF TypeOK
<1>3. \A q \in Positions \ {p} : StageOf(q)' = StageOf(q)
  BY <1>1 DEF StageOf
<1>4. ASSUME state[p] = "ABSENT" PROVE StageOf(p) = "none"
  BY <1>4 DEF StageOf
<1>5. ASSUME state[p] \in {"BUY_PENDING", "ENTERING"} PROVE StageOf(p) = "wanted"
  BY <1>5 DEF StageOf
<1>6. ASSUME state[p] \in {"ACTIVE", "CLOSING"} PROVE StageOf(p) = "held"
  BY <1>6 DEF StageOf
<1>7. ASSUME new \in {"BUY_PENDING", "ENTERING"} PROVE StageOf(p)' = "wanted"
  BY <1>2, <1>7 DEF StageOf
<1>8. ASSUME new \in {"ACTIVE", "CLOSING"} PROVE StageOf(p)' = "held"
  BY <1>2, <1>8 DEF StageOf
<1>9. ASSUME new = "CLOSED", closedReason'[p] = "BUY_CANCELLED" PROVE StageOf(p)' = "dropped"
  BY <1>2, <1>9 DEF StageOf
<1>10. ASSUME new = "CLOSED", closedReason'[p] # "BUY_CANCELLED" PROVE StageOf(p)' = "sold"
  BY <1>2, <1>10 DEF StageOf
<1>. QED
  BY <1>3, <1>4, <1>5, <1>6, <1>7, <1>8, <1>9, <1>10

--------------------------------------------------------------------------------

\* What the refinement rests on.
Invariants ==
  TypeOK /\ RowsWellFormed /\ EntryOrderTracksPosition /\ SignatureSettlesOneOrder
  /\ OneFilledExit

\* Only a filled order has a signature, and every order that exists a position.
LEMMA SignedIsFilled ==
  ASSUME Invariants
  PROVE  /\ \A o \in Orders : txSignature[o] # NULL <=> status[o] = "FILLED"
         /\ \A o \in Orders : status[o] # "ABSENT" => positionOf[o] \in Positions
BY DEF Invariants, TypeOK, RowsWellFormed, SignatureSettlesOneOrder

\* A position that is wanted has been bought by no swap yet, and one that is not
\* sold has been sold by none.
LEMMA NoSwapYet ==
  ASSUME Invariants, NEW p \in Positions
  PROVE  /\ state[p] \in {"BUY_PENDING", "ENTERING"} => BuysOf(p) = {}
         /\ state[p] # "CLOSED" => SellsOf(p) = {}
<1>1. ASSUME state[p] \in {"BUY_PENDING", "ENTERING"}, NEW o \in Orders,
             positionOf[o] = p, kind[o] = "BUY_TRIGGER"
      PROVE  txSignature[o] = NULL
  <2>1. PICK b \in Orders : /\ kind[b] = "BUY_TRIGGER" /\ positionOf[b] = p
                            /\ status[b] = EntryStatus(p)
    BY <1>1 DEF Invariants, EntryOrderTracksPosition
  <2>2. b = o
    BY <1>1, <2>1 DEF Invariants, EntryOrderTracksPosition
  <2>3. EntryStatus(p) # "FILLED"
    BY <1>1 DEF EntryStatus
  <2>. QED
    BY <2>1, <2>2, <2>3, SignedIsFilled
<1>2. ASSUME state[p] # "CLOSED", NEW o \in Orders, positionOf[o] = p, kind[o] # "BUY_TRIGGER"
      PROVE  txSignature[o] = NULL
  BY <1>2, SignedIsFilled DEF Invariants, OneFilledExit, SoldBy
<1>. QED
  BY <1>1, <1>2 DEF BuysOf, SellsOf

\* The user's close and the SELL confirmation sell an ACTIVE position.
LEMMA CloseSells ==
  ASSUME Invariants, NEW p \in Positions, NEW s \in Signatures, NEW c \in Orders,
         CloseActivePosition(p, s, c)
  PROVE  Abstract!Sell(p, s)
<1>1. /\ state[p] = "ACTIVE" /\ ~ SignatureUsed(s)
      /\ status[c] = "ABSENT"
      /\ state' = [state EXCEPT ![p] = "CLOSED"]
      /\ closedReason' = [closedReason EXCEPT ![p] = "USER_CLOSE"]
      /\ kind' = [kind EXCEPT ![c] = "CLOSE_SWAP"]
      /\ positionOf' = [positionOf EXCEPT ![c] = p]
      /\ txSignature' = [txSignature EXCEPT ![c] = s]
  BY DEF CloseActivePosition, FreshOrders
<1>2. txSignature[c] = NULL
  BY <1>1, SignedIsFilled
<1>3. \A x \in Orders : txSignature[x] # NULL =>
        kind'[x] = kind[x] /\ positionOf'[x] = positionOf[x]
  BY <1>1, <1>2 DEF Invariants, TypeOK
<1>4. positionOf'[c] = p /\ kind'[c] = "CLOSE_SWAP"
  BY <1>1 DEF Invariants, TypeOK
<1>5. MovesAlone(p, "held", "sold")
  <2>1. /\ \A q \in Positions \ {p} : closedReason'[q] = closedReason[q]
        /\ closedReason'[p] = "USER_CLOSE"
    BY <1>1 DEF Invariants, TypeOK
  <2>. QED
    BY <1>1, <2>1, StageMoves DEF Invariants, MovesAlone
<1>6. Sold(p, s)
  BY <1>1, <1>2, <1>3, <1>4, SwapAdded DEF Invariants
<1>7. SellsOf(p) = {}
  BY <1>1, NoSwapYet
<1>. QED
  BY <1>1, <1>5, <1>6, <1>7, AbstractSell

\* A position is bought by one swap and sold by one other, and no swap serves
\* twice: each transaction of position-lifecycle.ts is a step of PositionAbstract
\* or none.
THEOREM Refinement == Spec => ImplementsAbstract
<1> USE DEF proposalVars, positionVars, orderVars
<1>1. Init => Abstract!Init
  BY DEF Init, Abstract!Init, StageOf, BuysOf, SellsOf
<1>2. Invariants /\ [Next]_vars => [Abstract!Next]_(Abstract!vars)
  <2> SUFFICES ASSUME Invariants, [Next]_vars
               PROVE  Abstract!Next \/ UNCHANGED Abstract!vars
    OBVIOUS
  <2>0. /\ TypeOK
        /\ \A o \in Orders : txSignature[o] # NULL <=> status[o] = "FILLED"
        /\ \A o \in Orders : status[o] # "ABSENT" => positionOf[o] \in Positions
    BY SignedIsFilled DEF Invariants
  <2>1. ASSUME UNCHANGED <<positionVars, orderVars>> PROVE UNCHANGED Abstract!vars
    BY <2>1, SwapsStay, AbstractStutter DEF NoMove, StageOf
  <2>2. ASSUME ProposalNext PROVE UNCHANGED Abstract!vars
    BY <2>1, <2>2 DEF ProposalNext, CreateBuyProposal, CreateSellProposal, Lapse,
                      ExpireActiveProposals
  <2>3. ASSUME NEW x \in Proposals, NEW p \in Positions, NEW b \in Orders,
               AcceptBuyProposal(x, p, b)
        PROVE  Abstract!Want(p)
    <3>1. NoSwap
      BY <2>0, <2>3, SwapsStay DEF AcceptBuyProposal, FreshOrders, TypeOK
    <3>2. MovesAlone(p, "none", "wanted")
      BY <2>0, <2>3, StageMoves DEF AcceptBuyProposal, FreshPositions, MovesAlone
    <3>. QED
      BY <3>1, <3>2, AbstractWant
  <2>4. ASSUME NEW o \in Orders, NEW tp \in Orders, NEW sl \in Orders,
               NEW s \in Signatures, ConfirmBuyFill(o, s, tp, sl)
        PROVE  Abstract!Next
    <3>0. PICK p \in Positions : positionOf[o] = p
      BY <2>0, <2>4 DEF ConfirmBuyFill
    <3>1. /\ kind[o] = "BUY_TRIGGER"
          /\ state[p] \in {"BUY_PENDING", "ENTERING"} /\ ~ SignatureUsed(s)
          /\ state' = [state EXCEPT ![p] = "ACTIVE"] /\ closedReason' = closedReason
          /\ txSignature[o] = NULL /\ txSignature' = [txSignature EXCEPT ![o] = s]
          /\ positionOf'[o] = p /\ kind'[o] = "BUY_TRIGGER"
      BY <2>0, <2>4, <3>0 DEF ConfirmBuyFill, FreshOrders, TypeOK
    <3>2. \A x \in Orders : txSignature[x] # NULL =>
            kind'[x] = kind[x] /\ positionOf'[x] = positionOf[x]
      BY <2>0, <2>4 DEF ConfirmBuyFill, FreshOrders, TypeOK
    <3>3. MovesAlone(p, "wanted", "held")
      BY <2>0, <3>1, StageMoves DEF MovesAlone
    <3>4. Purchased(p, s)
      BY <2>0, <3>1, <3>2, SwapAdded
    <3>5. BuysOf(p) = {}
      BY <3>1, NoSwapYet
    <3>6. Abstract!Buy(p, s)
      BY <3>1, <3>3, <3>4, <3>5, AbstractBuy
    <3>. QED
      BY <3>6 DEF Abstract!Next
  <2>5. ASSUME ClaimNext PROVE UNCHANGED Abstract!vars
    <3>1. NoSwap
      BY <2>5, SwapsStay DEF ClaimNext, ClaimOrderExecution, ReleaseOrderExecutionClaim
    <3>2. ASSUME NEW o \in Orders, ClaimOrderExecution(o) PROVE NoMove
      BY <2>0, <3>2 DEF ClaimOrderExecution, Before, Pending, TypeOK, NoMove, StageOf
    <3>3. ASSUME NEW o \in Orders, ReleaseOrderExecutionClaim(o) PROVE NoMove
      BY <2>0, <3>3 DEF ReleaseOrderExecutionClaim, Before, Pending, TypeOK, NoMove, StageOf
    <3>. QED
      BY <2>5, <3>1, <3>2, <3>3, AbstractStutter DEF ClaimNext
  <2>6. ASSUME NEW p \in Positions, NEW k \in ProtectionKinds, NEW o \in Orders,
               PlaceProtectionOrder(p, k, o)
        PROVE  UNCHANGED Abstract!vars
    <3>1. NoSwap
      BY <2>0, <2>6, SwapsStay DEF PlaceProtectionOrder, FreshOrders, TypeOK
    <3>. QED
      BY <2>6, <3>1, AbstractStutter DEF PlaceProtectionOrder, NoMove, StageOf
  <2>7. ASSUME NEW p \in Positions, NEW tps \in AtMostOneOf(Orders),
               NEW sls \in AtMostOneOf(Orders), ReplaceProtectionOrders(p, tps, sls)
        PROVE  UNCHANGED Abstract!vars
    <3>1. NoSwap
      BY <2>0, <2>7, SwapsStay DEF ReplaceProtectionOrders, FreshOrders, TypeOK
    <3>. QED
      BY <2>7, <3>1, AbstractStutter DEF ReplaceProtectionOrders, NoMove, StageOf
  <2>8. ASSUME NEW o \in Orders, CancelPendingBuy(o) PROVE Abstract!Drop(positionOf[o])
    <3>1. NoSwap
      BY <2>8, SwapsStay DEF CancelPendingBuy
    <3>2. positionOf[o] \in Positions
      BY <2>0, <2>8 DEF CancelPendingBuy
    <3>3. MovesAlone(positionOf[o], "wanted", "dropped")
      <4>1. /\ \A q \in Positions \ {positionOf[o]} : closedReason'[q] = closedReason[q]
            /\ closedReason'[positionOf[o]] = "BUY_CANCELLED"
        BY <2>0, <2>8, <3>2 DEF CancelPendingBuy, TypeOK
      <4>. QED
        BY <2>0, <2>8, <3>2, <4>1, StageMoves DEF CancelPendingBuy, MovesAlone
    <3>. QED
      BY <3>1, <3>2, <3>3, AbstractDrop
  <2>9. ASSUME NEW o \in Orders, CancelProtectionOrder(o) PROVE UNCHANGED Abstract!vars
    <3>1. NoSwap
      BY <2>9, SwapsStay DEF CancelProtectionOrder
    <3>. QED
      BY <2>9, <3>1, AbstractStutter DEF CancelProtectionOrder, NoMove, StageOf
  <2>10. ASSUME NEW o \in Orders, NEW s \in Signatures, NEW c \in AtMostOneOf(Orders),
                ConfirmExitFill(o, s, c)
         PROVE  Abstract!Next
    <3>0. PICK p \in Positions : positionOf[o] = p
      BY <2>0, <2>10 DEF ConfirmExitFill
    <3>1. /\ kind[o] \in ProtectionKinds
          /\ state[p] \in {"ACTIVE", "CLOSING"} /\ ~ SignatureUsed(s)
          /\ state' = [state EXCEPT ![p] = "CLOSED"]
          /\ closedReason' = [closedReason EXCEPT ![p] = ReasonOf(kind[o])]
          /\ txSignature[o] = NULL /\ txSignature' = [txSignature EXCEPT ![o] = s]
          /\ kind' = kind /\ positionOf' = positionOf
          /\ positionOf'[o] = p /\ kind'[o] # "BUY_TRIGGER"
          /\ \A x \in Orders : txSignature[x] # NULL =>
               kind'[x] = kind[x] /\ positionOf'[x] = positionOf[x]
      BY <2>0, <2>10, <3>0 DEF ConfirmExitFill
    <3>2. MovesAlone(p, "held", "sold")
      <4>1. /\ \A q \in Positions \ {p} : closedReason'[q] = closedReason[q]
            /\ closedReason'[p] # "BUY_CANCELLED"
        BY <2>0, <3>1 DEF TypeOK, ReasonOf
      <4>. QED
        BY <2>0, <3>1, <4>1, StageMoves DEF MovesAlone
    <3>3. Sold(p, s)
      BY <2>0, <3>1, SwapAdded
    <3>4. SellsOf(p) = {}
      BY <3>1, NoSwapYet
    <3>5. Abstract!Sell(p, s)
      BY <3>1, <3>2, <3>3, <3>4, AbstractSell
    <3>. QED
      BY <3>5 DEF Abstract!Next
  <2>11. ASSUME NEW x \in Proposals, NEW s \in Signatures, NEW c \in Orders,
                ConfirmSellProposalClose(x, s, c)
         PROVE  Abstract!Next \/ UNCHANGED Abstract!vars
    <3>1. proposalPosition[x] \in Positions
      BY <2>0, <2>11 DEF ConfirmSellProposalClose, SellConfirmable, TypeOK
    <3>2. CASE CloseActivePosition(proposalPosition[x], s, c)
      BY <3>1, <3>2, CloseSells DEF Abstract!Next
    <3>3. CASE UNCHANGED <<positionVars, orderVars, trades>>
      BY <2>1, <3>3
    <3>. QED
      BY <2>11, <3>2, <3>3 DEF ConfirmSellProposalClose
  <2>12. ASSUME UNCHANGED vars PROVE UNCHANGED Abstract!vars
    BY <2>1, <2>12 DEF vars
  <2>13. ASSUME EntryNext PROVE Abstract!Next
    BY <2>3, <2>4, <2>13 DEF EntryNext, Abstract!Next
  <2>14. ASSUME ProtectionNext PROVE Abstract!Next \/ UNCHANGED Abstract!vars
    <3>1. ASSUME NEW o \in Orders, CancelPendingBuy(o) PROVE Abstract!Next
      BY <2>0, <2>8, <3>1 DEF CancelPendingBuy, Abstract!Next
    <3>. QED
      BY <2>6, <2>7, <2>9, <2>14, <3>1 DEF ProtectionNext, CancelOpenOrder
  <2>15. ASSUME ExitNext PROVE Abstract!Next \/ UNCHANGED Abstract!vars
    <3>1. ASSUME NEW p \in Positions, NEW s \in Signatures, NEW c \in Orders,
                 CloseActivePosition(p, s, c)
          PROVE  Abstract!Next
      BY <3>1, CloseSells DEF Abstract!Next
    <3>. QED
      BY <2>10, <2>11, <2>15, <3>1 DEF ExitNext, UserCloseActive
  <2>. QED
    BY <2>2, <2>5, <2>12, <2>13, <2>14, <2>15 DEF Next
<1>3. Spec => []Invariants
  BY TypeCorrect, RowsCorrect, EntryCorrect, SignatureCorrect, ExitCorrect, PTL DEF Invariants
<1>. QED
  BY <1>1, <1>2, <1>3, PTL DEF Spec, ImplementsAbstract, Abstract!Spec

================================================================================
