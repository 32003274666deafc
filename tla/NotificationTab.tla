--------------------------- MODULE NotificationTab ---------------------------
(***************************************************************************)
(* One tab of the web app between the socket and its toasts:               *)
(* components/notifications/notification-client.tsx over                   *)
(* shared-worker/use-shared-worker.ts, and the rooms of ws-server.         *)
(*                                                                         *)
(* The server asks for a tap on an order whose trigger is met              *)
(* (trigger:hit), again and again while the order stays OPEN, and tells    *)
(* of the orders that it filled itself (trade:filled).  A tap runs         *)
(* executeTriggerOrder: claim, swap, settle, and a release of the claim    *)
(* when nothing was broadcast.                                             *)
(***************************************************************************)
EXTENDS Naturals, Sequences, TLC

CONSTANTS
  TabOrders,  \* the orders of the user whose triggers are met
  MaxWire     \* bound on the events on their way to the tab

VARIABLES
  orderStatus,  \* Order.status
  socketState,  \* the socket of the tab: off, open, or joined to its room
  wire,         \* the events on their way, in order
  hidden,       \* document.hidden
  attention,    \* what asks a hidden tab's user to return
  settled,      \* settledTriggers
  run,          \* inflightTriggers: where each order's run is
  slot,         \* the toast under the order's own id
  notes         \* its other toasts, `${orderId}:kind`

Pending == {"PENDING here", "PENDING elsewhere"}
Over    == {"FILLED", "CANCELLED"}

tabVars == <<orderStatus, socketState, wire, hidden, attention, settled, run, slot, notes>>

TabInit ==
  /\ orderStatus = [o \in TabOrders |-> "OPEN"]
  /\ socketState = "off" /\ wire = <<>>
  /\ hidden = FALSE /\ attention = {}
  /\ settled = {}
  /\ run = [o \in TabOrders |-> "none"]
  /\ slot = [o \in TabOrders |-> "none"]
  /\ notes = [o \in TabOrders |-> {}]

--------------------------------------------------------------------------------
(* The socket and the server behind it.                                    *)

ConnectSocket ==
  /\ socketState = "off"
  /\ socketState' = "open"
  /\ UNCHANGED <<orderStatus, wire, hidden, attention, settled, run, slot, notes>>

\* The answer to getAccessToken, and the server's to the token: without
\* either the socket stays open and in no room.
AuthSocket ==
  /\ socketState = "open"
  /\ socketState' \in {"joined", "refused"}
  /\ UNCHANGED <<orderStatus, wire, hidden, attention, settled, run, slot, notes>>

\* A broken connection, or the effect that opens another when the wallet
\* becomes ready: what was on its way is lost.
DisconnectSocket ==
  /\ socketState # "off"
  /\ socketState' = "off" /\ wire' = <<>>
  /\ UNCHANGED <<orderStatus, hidden, attention, settled, run, slot, notes>>

\* io.to(room).emit: an event reaches the sockets of the room, or nobody.
Emit(event) ==
  \/ socketState = "joined" /\ Len(wire) < MaxWire /\ wire' = Append(wire, event)
  \/ socketState # "joined" /\ UNCHANGED wire

EmitProposal ==
  /\ Emit([kind |-> "proposal"])
  /\ UNCHANGED <<orderStatus, socketState, hidden, attention, settled, run, slot, notes>>

TriggerHitSent(o) ==
  /\ orderStatus[o] = "OPEN"
  /\ Emit([kind |-> "hit", order |-> o])
  /\ UNCHANGED <<orderStatus, socketState, hidden, attention, settled, run, slot, notes>>

\* The user, or the fill of its sibling, cancels an order.
CancelOrder(o) ==
  /\ orderStatus[o] = "OPEN"
  /\ orderStatus' = [orderStatus EXCEPT ![o] = "CANCELLED"]
  /\ UNCHANGED <<socketState, wire, hidden, attention, settled, run, slot, notes>>

\* The delegated executor of the server claims an OPEN order, and fills it or
\* lets it go; another tab does the same, without the event.
ServerClaims(o) ==
  /\ orderStatus[o] = "OPEN"
  /\ orderStatus' = [orderStatus EXCEPT ![o] = "PENDING elsewhere"]
  /\ UNCHANGED <<socketState, wire, hidden, attention, settled, run, slot, notes>>

ServerEnds(o) ==
  /\ orderStatus[o] = "PENDING elsewhere"
  /\ \/ /\ orderStatus' = [orderStatus EXCEPT ![o] = "FILLED"]
        /\ UNCHANGED wire \/ Emit([kind |-> "filled", order |-> o])
     \/ orderStatus' = [orderStatus EXCEPT ![o] = "OPEN"] /\ UNCHANGED wire
  /\ UNCHANGED <<socketState, hidden, attention, settled, run, slot, notes>>

--------------------------------------------------------------------------------
(* The toasts.                                                             *)

\* dismissTriggerToasts, and the toast that takes their place, if any.
LeaveNote(o, left) ==
  /\ slot' = [slot EXCEPT ![o] = "none"]
  /\ notes' = [notes EXCEPT ![o] = left]

\* Every toast has a close button, and all but two kinds an end.
CloseToast(o) ==
  /\ \/ slot[o] # "none" /\ slot' = [slot EXCEPT ![o] = "none"] /\ UNCHANGED notes
     \/ notes[o] # {} /\ UNCHANGED slot
        /\ \E note \in notes[o] : notes' = [notes EXCEPT ![o] = @ \ {note}]
  /\ UNCHANGED <<orderStatus, socketState, wire, hidden, attention, settled, run>>

--------------------------------------------------------------------------------
(* The handlers of the socket's events: Take is the event handled next.    *)

Take(kind) ==
  /\ wire # <<>> /\ Head(wire).kind = kind
  /\ wire' = Tail(wire)
  /\ UNCHANGED <<orderStatus, socketState, hidden, run>>

\* handleProposal: a toast, or a call for attention when the tab is hidden;
\* the notice of the system needs a permission.
HandleProposal ==
  /\ Take("proposal")
  /\ \/ hidden /\ \E notice \in {{}, {"notice"}} :
                    attention' = attention \cup {"title", "favicon"} \cup notice
     \/ ~hidden /\ UNCHANGED attention
  /\ UNCHANGED <<settled, slot, notes>>

HandleTradeFilled ==
  /\ Take("filled")
  /\ LET o == Head(wire).order IN
       /\ settled' = settled \cup {o}
       /\ LeaveNote(o, {"success"})
  /\ UNCHANGED attention

\* MutantHandleTriggerHit shows the toast of an order that is settled too.
MutantHandleTriggerHit ==
  /\ Take("hit")
  /\ LET o == Head(wire).order IN
       IF run[o] # "none" THEN UNCHANGED <<slot, notes>>
       ELSE /\ slot' = [slot EXCEPT ![o] = "execute"]
            /\ notes' = [notes EXCEPT ![o] = @ \cap {"success"}]
  /\ UNCHANGED <<attention, settled>>

\* The toast with the Execute button, unless the order is settled or runs.
HandleTriggerHit ==
  /\ Take("hit")
  /\ LET o == Head(wire).order IN
       IF o \in settled \/ run[o] # "none" THEN UNCHANGED <<slot, notes>>
       ELSE /\ slot' = [slot EXCEPT ![o] = "execute"]
            /\ notes' = [notes EXCEPT ![o] = @ \cap {"success"}]
  /\ UNCHANGED <<attention, settled>>

HideTab ==
  /\ ~hidden /\ hidden' = TRUE
  /\ UNCHANGED <<orderStatus, socketState, wire, attention, settled, run, slot, notes>>

OnVisibility ==
  /\ hidden /\ hidden' = FALSE
  /\ attention' = {}
  /\ UNCHANGED <<orderStatus, socketState, wire, settled, run, slot, notes>>

--------------------------------------------------------------------------------
(* runTriggerExecute.                                                      *)

\* Execute, or Retry of the error: both close their toast.
RunTriggerExecute(o) ==
  /\ slot[o] = "execute" \/ "error" \in notes[o]
  /\ IF o \in settled \/ run[o] # "none"
     THEN /\ UNCHANGED <<run, slot>>
          /\ notes' = [notes EXCEPT ![o] = @ \ {"error"}]
     ELSE /\ run' = [run EXCEPT ![o] = "claim"]
          /\ slot' = [slot EXCEPT ![o] = "loading"]
          /\ notes' = [notes EXCEPT ![o] = {}]
  /\ UNCHANGED <<orderStatus, socketState, wire, hidden, attention, settled>>

\* The end of a run: what it left, and whether it settled the order.
Outcome(o, left, done) ==
  /\ run' = [run EXCEPT ![o] = "none"]
  /\ settled' = settled \cup (IF done THEN {o} ELSE {})
  /\ LeaveNote(o, left)

RunGoes(o, step) ==
  /\ run' = [run EXCEPT ![o] = step]
  /\ UNCHANGED <<settled, slot, notes>>

\* claimOrderExecution: refused by an order that is not OPEN, or whose position
\* another of its orders is closing; the request or its answer may be lost.
ClaimOrder(o) ==
  /\ run[o] = "claim"
  /\ \/ orderStatus[o] = "OPEN" /\ orderStatus' = [orderStatus EXCEPT ![o] = "PENDING here"]
        /\ (RunGoes(o, "swap") \/ Outcome(o, {"error"}, FALSE))
     \/ UNCHANGED orderStatus
        /\ \/ orderStatus[o] \in Over /\ Outcome(o, {}, TRUE)
           \/ /\ orderStatus[o] \notin Over
              /\ \E p \in TabOrders : orderStatus[p] \in Pending
              /\ Outcome(o, {"executing"}, FALSE)
           \/ Outcome(o, {"error"}, FALSE)
  /\ UNCHANGED <<socketState, wire, hidden, attention>>

SwapTapped(o) ==
  /\ run[o] = "swap"
  /\ RunGoes(o, "settle") \/ RunGoes(o, "release")
  /\ UNCHANGED <<orderStatus, socketState, wire, hidden, attention>>

ReleaseClaim(o) ==
  /\ run[o] = "release"
  /\ \/ orderStatus[o] = "PENDING here" /\ orderStatus' = [orderStatus EXCEPT ![o] = "OPEN"]
     \/ UNCHANGED orderStatus
  /\ Outcome(o, {"error"}, FALSE)
  /\ UNCHANGED <<socketState, wire, hidden, attention>>

\* The settlement, or a failure of the call on either side of the commit.
SettleOrder(o) ==
  /\ run[o] = "settle"
  /\ \/ orderStatus' = [orderStatus EXCEPT ![o] = "FILLED"]
        /\ (Outcome(o, {"success"}, TRUE) \/ Outcome(o, {"settle-error"}, FALSE))
     \/ UNCHANGED orderStatus /\ Outcome(o, {"settle-error"}, FALSE)
  /\ UNCHANGED <<socketState, wire, hidden, attention>>

TabNext ==
  \/ ConnectSocket \/ AuthSocket \/ DisconnectSocket \/ EmitProposal
  \/ HandleProposal \/ HandleTradeFilled \/ HandleTriggerHit
  \/ HideTab \/ OnVisibility
  \/ \E o \in TabOrders :
       \/ TriggerHitSent(o) \/ CancelOrder(o) \/ ServerClaims(o) \/ ServerEnds(o)
       \/ RunTriggerExecute(o) \/ CloseToast(o)
       \/ ClaimOrder(o) \/ SwapTapped(o) \/ ReleaseClaim(o) \/ SettleOrder(o)

TabSpec == TabInit /\ [][TabNext]_tabVars

--------------------------------------------------------------------------------
TabTypeOK ==
  /\ orderStatus \in [TabOrders -> {"OPEN"} \cup Pending \cup Over]
  /\ socketState \in {"off", "open", "joined", "refused"}
  /\ wire # <<>> => socketState = "joined"
  /\ attention \subseteq {"title", "favicon", "notice"}
  /\ settled \subseteq TabOrders
  /\ run \in [TabOrders -> {"none", "claim", "swap", "release", "settle"}]
  /\ slot \in [TabOrders -> {"none", "execute", "loading"}]
  /\ notes \in [TabOrders -> SUBSET {"success", "error", "settle-error", "executing"}]

\* What a tab shows of an order is true of it, in whatever order hits, fills,
\* taps and the answers of a run come: an order the tab calls settled is
\* FILLED or CANCELLED, and is not offered for a tap again by a hit that was on its way or
\* by an older toast; a loading toast, which has no end of its own, has a run
\* that will replace it; and nothing calls the user of a tab that is in view.
ToastsTellTheOrder ==
  /\ \A o \in TabOrders :
       /\ o \in settled => orderStatus[o] \in Over /\ slot[o] # "execute"
       /\ slot[o] = "loading" => run[o] # "none"
       /\ slot[o] = "execute" => run[o] = "none"
       /\ "success" \in notes[o] => o \in settled
  /\ ~hidden => attention = {}
================================================================================
