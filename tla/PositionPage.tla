---------------------------- MODULE PositionPage ----------------------------
(***************************************************************************)
(* The page of one position in several tabs, and what it does to the       *)
(* exits: apps/web/app/positions/[id]/page.tsx over use-exit-orders.ts,    *)
(* the orders and protection routes, while the server or another tab       *)
(* executes the orders of the position.                                    *)
(*                                                                         *)
(* A page acts on what it last read: a view refetched every 20 seconds,    *)
(* and two drafts that are filled once, when the position first shows.     *)
(* Rows that are FILLED or CANCELLED are final and leave `exits`.          *)
(***************************************************************************)
EXTENDS NoValue, Naturals, Sequences, FiniteSetsExt, Subsequences

CONSTANTS
  Tabs,      \* the tabs that may show the position
  LegPrices  \* the prices a user types for each leg: a draft that is not a
             \* positive number is refused before anything is sent

Legs == DOMAIN LegPrices

ASSUME PageAssumption ==
  /\ Legs = {"TAKE_PROFIT", "STOP_LOSS"}
  /\ \A leg \in Legs : LegPrices[leg] \subseteq Nat \ {0}

VARIABLES
  positionState,  \* Position.state
  tokenAmount,    \* Position.tokenAmount, 0 until the BUY fills
  seedPrice,      \* Position.currentTpPrice and currentSlPrice
  exits,          \* the OPEN and PENDING exit orders, oldest first
  page            \* the page in each tab, NOTHING when it is not open

positionPageVars == <<positionState, tokenAmount, seedPrice, exits, page>>

OpenLeg(leg) == {i \in DOMAIN exits : exits[i].kind = leg /\ exits[i].status = "OPEN"}

\* The exits without those at some positions.
ExitsWithout(gone) == Picked(exits, DOMAIN exits \ gone)

\* `position`: the row, its prices taken from the OPEN exits where there
\* are some and from the row where there are none.
Shown ==
  [state  |-> positionState,
   amount |-> tokenAmount,
   price  |-> [leg \in Legs |-> IF OpenLeg(leg) = {} THEN seedPrice[leg]
                                                   ELSE exits[Min(OpenLeg(leg))].price]]

Row(leg, price) == [kind |-> leg, price |-> price, status |-> "OPEN"]

PageInit ==
  /\ positionState = "BUY_PENDING"
  /\ tokenAmount = 0
  /\ seedPrice \in {price \in [Legs -> UNION {LegPrices[leg] : leg \in Legs}] :
                     \A leg \in Legs : price[leg] \in LegPrices[leg]}
  /\ exits = <<>>
  /\ page = [t \in Tabs |-> NOTHING]

-----------------------------------------------------------------------------
(* The page in a tab.                                                      *)

PageGoes(t, at, body) == page' = [page EXCEPT ![t] = [@ EXCEPT !.at = at, !.body = body]]

Done(t) == PageGoes(t, "idle", NOTHING)

Idle(t) == page[t] # NOTHING /\ page[t].at = "idle"

LoadPage(t) ==
  /\ page[t] = NOTHING
  /\ page' = [page EXCEPT ![t] =
       [view |-> Shown, draft |-> Shown.price, at |-> "idle",
        body |-> NOTHING]]
  /\ UNCHANGED <<positionState, tokenAmount, seedPrice, exits>>

\* A reload in the middle of a call is taken after the call, or its loss.
LeavePage(t) ==
  /\ Idle(t)
  /\ page' = [page EXCEPT ![t] = NOTHING]
  /\ UNCHANGED <<positionState, tokenAmount, seedPrice, exits>>

\* The query refetches; the drafts stay, since neither the id nor the ticker
\* of the position changes.
RefetchPosition(t) ==
  /\ page[t] # NOTHING
  /\ page' = [page EXCEPT ![t] = [@ EXCEPT !.view = Shown]]
  /\ UNCHANGED <<positionState, tokenAmount, seedPrice, exits>>

\* A field of AdjustTpSlForm. A busy page lets the user type too, but what it
\* sends was taken at the click, so the key might as well come later.
TypeDraft(t, leg, draft) ==
  /\ Idle(t)
  /\ page[t].view.state = "ACTIVE"
  /\ page' = [page EXCEPT ![t].draft = [@ EXCEPT ![leg] = draft]]
  /\ UNCHANGED <<positionState, tokenAmount, seedPrice, exits>>

\* The button of EnterBanner.
HandleConfirmExit(t) ==
  /\ Idle(t)
  /\ page[t].view.state = "ENTERING"
  /\ PageGoes(t, "TAKE_PROFIT", page[t].view)
  /\ UNCHANGED <<positionState, tokenAmount, seedPrice, exits>>

\* One POST /api/orders of placeOcoExit: the schema wants a positive size,
\* the transaction a position that is ENTERING or ACTIVE. The take-profit
\* comes first and a refusal of it ends the call.
PlaceLeg(t) ==
  LET leg == page[t].at
      accepted == /\ page[t].body.price[leg] * page[t].body.amount > 0
                  /\ positionState \in {"ENTERING", "ACTIVE"}
  IN /\ page[t] # NOTHING
     /\ leg \in Legs
     /\ exits' = IF accepted THEN Append(exits, Row(leg, page[t].body.price[leg]))
                             ELSE exits
     /\ IF accepted /\ leg = "TAKE_PROFIT" THEN PageGoes(t, "STOP_LOSS", page[t].body)
                                            ELSE Done(t)
     /\ UNCHANGED <<positionState, tokenAmount, seedPrice>>

\* The Update button: both drafts are sent, whatever the view says by now;
\* an empty one is left out, and two empty ones send nothing.
HandleSubmitTpSl(t) ==
  /\ Idle(t)
  /\ page[t].view.state = "ACTIVE"
  /\ \E leg \in Legs : page[t].draft[leg] # NOTHING
  /\ PageGoes(t, "replacing", page[t].draft)
  /\ UNCHANGED <<positionState, tokenAmount, seedPrice, exits>>

\* MutantReplaceProtection trusts the page's view instead of the row's state.
MutantReplaceProtection(t) ==
  LET body     == page[t].body
      replaced == {leg \in Legs : body[leg] # NOTHING}
      kept     == ExitsWithout(UNION {OpenLeg(leg) : leg \in replaced})
      new(leg) == IF leg \in replaced THEN <<Row(leg, body[leg])>> ELSE <<>>
  IN /\ page[t] # NOTHING
     /\ page[t].at = "replacing"
     /\ exits' = kept \o new("TAKE_PROFIT") \o new("STOP_LOSS")
     /\ seedPrice' = [leg \in Legs |-> IF leg \in replaced THEN body[leg]
                                                           ELSE seedPrice[leg]]
     /\ PageGoes(t, "refetching", NOTHING)
     /\ UNCHANGED <<positionState, tokenAmount>>

\* PUT /api/positions/[id]/protection: one transaction that cancels the OPEN
\* orders of the legs it is given and creates theirs.
ReplaceProtection(t) ==
  LET body     == page[t].body
      replaced == {leg \in Legs : body[leg] # NOTHING}
      kept     == ExitsWithout(UNION {OpenLeg(leg) : leg \in replaced})
      new(leg) == IF leg \in replaced THEN <<Row(leg, body[leg])>> ELSE <<>>
      accepted == positionState = "ACTIVE" /\ tokenAmount > 0
  IN /\ page[t] # NOTHING
     /\ page[t].at = "replacing"
     /\ IF accepted
        THEN /\ exits' = kept \o new("TAKE_PROFIT") \o new("STOP_LOSS")
             /\ seedPrice' = [leg \in Legs |-> IF leg \in replaced THEN body[leg]
                                                                  ELSE seedPrice[leg]]
             /\ PageGoes(t, "refetching", NOTHING)
        ELSE Done(t) /\ UNCHANGED <<exits, seedPrice>>
     /\ UNCHANGED <<positionState, tokenAmount>>

\* A call that never arrives, or whose answer never does: the page shows the
\* error and is free again.
LoseCall(t) ==
  /\ page[t] # NOTHING
  /\ page[t].at # "idle"
  /\ Done(t)
  /\ UNCHANGED <<positionState, tokenAmount, seedPrice, exits>>

\* handleSubmitTpSl refetches before it is done.
SubmitEnds(t) ==
  /\ page[t] # NOTHING
  /\ page[t].at = "refetching"
  /\ page' = [page EXCEPT ![t] = [@ EXCEPT !.at = "idle", !.view = Shown]]
  /\ UNCHANGED <<positionState, tokenAmount, seedPrice, exits>>

\* The second button of CloseButton; handleClose swaps the size the page
\* shows, and then calls the route.
HandleClosePosition(t) ==
  /\ Idle(t)
  /\ page[t].view.state = "ACTIVE"
  /\ PageGoes(t, "closing", NOTHING)
  /\ UNCHANGED <<positionState, tokenAmount, seedPrice, exits>>

\* POST /api/positions/[id]/close: only an ACTIVE position is closed, and its
\* OPEN exits with it; the page goes home.
PersistManualClose(t) ==
  /\ page[t] # NOTHING
  /\ page[t].at = "closing"
  /\ IF positionState = "ACTIVE"
     THEN /\ positionState' = "CLOSED"
          /\ exits' = <<>>
          /\ page' = [page EXCEPT ![t] = NOTHING]
     ELSE /\ Done(t)
          /\ UNCHANGED <<positionState, exits>>
  /\ UNCHANGED <<tokenAmount, seedPrice>>

-----------------------------------------------------------------------------
(* The agents that execute the orders.                                     *)

ClaimBuy ==
  /\ positionState = "BUY_PENDING"
  /\ positionState' = "ENTERING"
  /\ UNCHANGED <<tokenAmount, seedPrice, exits, page>>

ReleaseBuy ==
  /\ positionState = "ENTERING"
  /\ positionState' = "BUY_PENDING"
  /\ UNCHANGED <<tokenAmount, seedPrice, exits, page>>

\* confirmBuyFill creates both exits from the prices of the position.
FillBuy ==
  /\ positionState \in {"BUY_PENDING", "ENTERING"}
  /\ positionState' = "ACTIVE"
  /\ tokenAmount' = 1
  /\ exits' = exits \o <<Row("TAKE_PROFIT", seedPrice["TAKE_PROFIT"]),
                         Row("STOP_LOSS", seedPrice["STOP_LOSS"])>>
  /\ UNCHANGED <<seedPrice, page>>

ClaimExit(i) ==
  /\ positionState = "ACTIVE"
  /\ exits[i].status = "OPEN"
  /\ positionState' = "CLOSING"
  /\ exits' = [exits EXCEPT ![i].status = "PENDING"]
  /\ UNCHANGED <<tokenAmount, seedPrice, page>>

ReleaseExit(i) ==
  /\ positionState = "CLOSING"
  /\ exits[i].status = "PENDING"
  /\ positionState' = "ACTIVE"
  /\ exits' = [exits EXCEPT ![i].status = "OPEN"]
  /\ UNCHANGED <<tokenAmount, seedPrice, page>>

\* confirmExitFill accepts an order that is not claimed too, and cancels the
\* first OPEN exit of the other kind.
FillExit(i) ==
  LET siblings == UNION {OpenLeg(leg) : leg \in Legs \ {exits[i].kind}}
  IN /\ positionState \in {"ACTIVE", "CLOSING"}
     /\ positionState' = "CLOSED"
     /\ exits' = ExitsWithout({i} \cup (IF siblings = {} THEN {} ELSE {Min(siblings)}))
     /\ UNCHANGED <<tokenAmount, seedPrice, page>>

ExecuteOrders ==
  \/ ClaimBuy \/ ReleaseBuy \/ FillBuy
  \/ \E i \in DOMAIN exits : ClaimExit(i) \/ ReleaseExit(i) \/ FillExit(i)

PageNext ==
  \/ ExecuteOrders
  \/ \E t \in Tabs :
       \/ LoadPage(t) \/ LeavePage(t) \/ RefetchPosition(t)
       \/ \E leg \in Legs :
            \E draft \in LegPrices[leg] \cup {NOTHING} : TypeDraft(t, leg, draft)
       \/ HandleConfirmExit(t) \/ PlaceLeg(t)
       \/ HandleSubmitTpSl(t) \/ ReplaceProtection(t) \/ SubmitEnds(t)
       \/ HandleClosePosition(t) \/ PersistManualClose(t)
       \/ LoseCall(t)

PageSpec == PageInit /\ [][PageNext]_positionPageVars

-----------------------------------------------------------------------------
\* The row, its exits and the pages keep their types; a page that is busy
\* holds what it sends.
PageTypeOK ==
  LET Typed    == UNION {LegPrices[leg] : leg \in Legs}
      LegPrice == [Legs -> Typed]
      States   == {"BUY_PENDING", "ENTERING", "ACTIVE", "CLOSING", "CLOSED"}
      Drafts   == [Legs -> Typed \cup {NOTHING}]
      Views    == [state : States, amount : {0, 1}, price : LegPrice]
  IN /\ positionState \in States
     /\ tokenAmount \in {0, 1}
     /\ seedPrice \in LegPrice
     /\ \A i \in DOMAIN exits :
          exits[i] \in [kind : Legs, price : Typed, status : {"OPEN", "PENDING"}]
     /\ \A t \in Tabs : page[t] # NOTHING =>
          /\ page[t].view \in Views
          /\ page[t].draft \in Drafts
          /\ page[t].at \in Legs => page[t].body \in Views
          /\ page[t].at = "replacing" => page[t].body \in Drafts

\* An ACTIVE position is guarded by exactly one OPEN take-profit and one OPEN
\* stop-loss, at the prices cached on its row, whatever the pages submit from
\* stale views and drafts while the exits are claimed, released and filled
\* (replaceProtectionOrders, the routes over it, and placeOcoExit).
ExitsStayArmed ==
  positionState = "ACTIVE" =>
    \A leg \in Legs : \E i \in DOMAIN exits : /\ OpenLeg(leg) = {i}
                                              /\ exits[i].price = seedPrice[leg]
=============================================================================
