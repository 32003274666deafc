----------------------------- MODULE ComponentProofs -----------------------------
(***************************************************************************)
(* The components around the lifecycle, for every value of their           *)
(* constants: each theorem is about the specification of one component,    *)
(* and has the inductive invariant of that component before it.            *)
(***************************************************************************)
EXTENDS TriggerMonitor, NotificationTab, WalletSales, DevSwap, AgentPages, SignalEngine, DevTools,
        PriceHistory, TriggerQuotes, ProposalTerms, Thesis, GrillCalendars, FiniteSetTheorems,
        TLAPS

--------------------------------------------------------------------------------
(* The trigger monitor.                                                    *)

\* Only the current order of the walk is claimed by the tick, so a step that leaves
\* the walk where it is, or gives its order up by name, loses no claim; and no tick
\* begins in the middle of another, which would forget its current order.
MonitorInv ==
  /\ ~ busy => step = "idle"
  /\ book \in [Watched -> Statuses]
  /\ ClaimIsAccountedFor

\* The steps of a tick, one await each, keep account of every claim.
LEMMA TickStepAccounts ==
  MonitorInv /\ TickStep => MonitorInv'
<1> SUFFICES ASSUME MonitorInv, TickStep PROVE MonitorInv'
  OBVIOUS
<1>t. book \in [Watched -> Statuses]
  BY DEF MonitorInv
<1>1. CASE ReadOrders \/ ReadPrices \/ Walk
  <2> USE <1>t DEF MonitorInv, ClaimIsAccountedFor, Holds, Current
  <2>1. CASE ReadOrders
    BY <2>1 DEF ReadOrders, TickEnds, Throws, AllowsFault
  <2>2. CASE ReadPrices
    BY <2>2 DEF ReadPrices, TickEnds, Throws, AllowsFault
  <2>3. CASE Walk
    BY <2>3 DEF Walk, TickEnds, Goes, NextOrder
  <2> QED BY <1>1, <2>1, <2>2, <2>3
<1>2. CASE Quote \/ Preflight
  <2> USE <1>t DEF MonitorInv, ClaimIsAccountedFor, Holds, Current
  <2>1. CASE Quote
    BY <2>1 DEF Quote, Dispatch, NextOrder, Goes
  <2>2. CASE Preflight
    BY <2>2 DEF Preflight, NextOrder, Goes
  <2> QED BY <1>2, <2>1, <2>2
<1>3. CASE ClaimTrigger
  BY <1>t, <1>3 DEF MonitorInv, ClaimIsAccountedFor, Holds, Current, Statuses,
       ClaimTrigger, Goes, NextOrder, Throws, TickEnds
<1>4. CASE RequestSwap
  BY <1>t, <1>4 DEF MonitorInv, ClaimIsAccountedFor, Holds, Current,
       RequestSwap, Goes, ReleaseFor
<1>5. CASE ExecuteTrigger
  BY <1>t, <1>5 DEF MonitorInv, ClaimIsAccountedFor, Holds, Current,
       ExecuteTrigger, Goes, NextOrder, Abandons
<1>6. CASE SettleTrigger
  BY <1>t, <1>6 DEF MonitorInv, ClaimIsAccountedFor, Holds, Current, Statuses,
       SettleTrigger, NextOrder, Abandons, Throws, TickEnds
<1>7. CASE ReleaseTrigger
  BY <1>t, <1>7 DEF MonitorInv, ClaimIsAccountedFor, Holds, Current, Statuses,
       ReleaseTrigger, Answered, NextOrder, Abandons
<1> QED
  BY <1>1, <1>2, <1>3, <1>4, <1>5, <1>6, <1>7 DEF TickStep

\* Whatever the monitor's steps are, fair or not, they keep the account.
LEMMA MonitorAccounts == MonitorInit /\ [][MonitorNext]_monitorVars => []ClaimIsAccountedFor
<1>1. MonitorInit => MonitorInv
  BY DEF MonitorInit, MonitorInv, ClaimIsAccountedFor, Statuses
<1>2. MonitorInv /\ [MonitorNext]_monitorVars => MonitorInv'
  <2> SUFFICES ASSUME MonitorInv, [MonitorNext]_monitorVars PROVE MonitorInv'
    OBVIOUS
  <2> USE DEF MonitorInv, ClaimIsAccountedFor, Holds, Current
  <2>1. CASE TimerFires
    BY <2>1 DEF TimerFires
  <2>2. CASE TickStep
    BY <2>2, TickStepAccounts DEF MonitorInv
  <2>3. CASE StopAll
    BY <2>3 DEF StopAll
  <2>4. CASE Restart
    BY <2>4 DEF Restart, Abandons
  <2>5. CASE Elapse
    BY <2>5 DEF Elapse
  <2>6. ASSUME NEW o \in Watched, CrossTrigger(o) PROVE MonitorInv'
    BY <2>6 DEF CrossTrigger, taskVars
  <2>7. ASSUME NEW o \in Watched, TabTakes(o) PROVE MonitorInv'
    BY <2>7 DEF TabTakes, taskVars, Statuses
  <2>8. ASSUME NEW o \in Watched, TabEnds(o) PROVE MonitorInv'
    BY <2>8 DEF TabEnds, taskVars, Statuses
  <2>9. CASE UNCHANGED monitorVars
    BY <2>9 DEF monitorVars, taskVars
  <2> QED
    BY <2>1, <2>2, <2>3, <2>4, <2>5, <2>6, <2>7, <2>8, <2>9 DEF MonitorNext
<1>3. MonitorInv => ClaimIsAccountedFor
  BY DEF MonitorInv
<1> QED
  BY <1>1, <1>2, <1>3, PTL

\* Every claim on an order is the tick's, a tab's, or one the process gave up: whatever
\* the orders, the faults and the restarts (ClaimIsAccountedFor).
THEOREM MonitorCorrect == MonitorSpec => []ClaimIsAccountedFor
  BY MonitorAccounts, PTL DEF MonitorSpec

--------------------------------------------------------------------------------
(* The toasts of a tab.                                                    *)

Events == [kind : {"proposal"}] \cup [kind : {"hit", "filled"}, order : TabOrders]

\* What is on its way to the tab: an event tells of a fill after the fill.
WireTrue ==
  /\ wire \in Seq(Events)
  /\ \A i \in DOMAIN wire : wire[i].kind = "filled" => orderStatus[wire[i].order] \in Over

TabInv == TabTypeOK /\ WireTrue /\ ToastsTellTheOrder

\* An event that is taken is one of the wire, and leaves the others.
LEMMA TakeFromWire ==
  ASSUME WireTrue, NEW kind, Take(kind)
  PROVE  /\ Head(wire) \in Events /\ Head(wire).kind = kind
         /\ kind = "filled" => orderStatus[Head(wire).order] \in Over
         /\ kind \in {"hit", "filled"} => Head(wire).order \in TabOrders
         /\ WireTrue'
<1>1. wire \in Seq(Events) /\ wire # <<>> /\ Head(wire) = wire[1] /\ 1 \in DOMAIN wire
  BY DEF WireTrue, Take
<1>2. wire[1] \in Events
  BY <1>1
<1>3. Tail(wire) \in Seq(Events)
      /\ \A i \in DOMAIN Tail(wire) : i + 1 \in DOMAIN wire /\ Tail(wire)[i] = wire[i + 1]
  BY <1>1
<1>4. WireTrue'
  BY <1>3 DEF WireTrue, Take
<1> QED
  BY <1>1, <1>2, <1>4 DEF WireTrue, Take, Events

\* What is emitted is true of its order, and of the orders that no event is about.
LEMMA EmitOnWire ==
  ASSUME WireTrue, NEW event \in Events, Emit(event),
         \A o \in TabOrders : orderStatus[o] \in Over => orderStatus'[o] \in Over,
         event.kind = "filled" => orderStatus'[event.order] \in Over
  PROVE  WireTrue'
<1>1. CASE UNCHANGED wire
  BY <1>1 DEF WireTrue, Events
<1>2. CASE wire' = Append(wire, event)
  <2>1. wire \in Seq(Events) /\ wire' \in Seq(Events)
    BY <1>2 DEF WireTrue
  <2>2. \A i \in DOMAIN wire' : wire'[i] = event \/ (i \in DOMAIN wire /\ wire'[i] = wire[i])
    BY <1>2, <2>1
  <2>3. \A i \in DOMAIN wire : wire[i] \in Events
    BY <2>1
  <2>4. \A e \in Events : e.kind = "filled" => e.order \in TabOrders
    BY DEF Events
  <2> QED
    BY <2>1, <2>2, <2>3, <2>4 DEF WireTrue
<1> QED
  BY <1>1, <1>2 DEF Emit

\* An order that is over stays so, and so do the events that say it.
LEMMA WireStaysTrue ==
  ASSUME WireTrue, UNCHANGED wire,
         \A o \in TabOrders : orderStatus[o] \in Over => orderStatus'[o] \in Over
  PROVE  WireTrue'
<1>1. \A i \in DOMAIN wire : wire[i] \in Events
  BY DEF WireTrue
<1>2. \A e \in Events : e.kind = "filled" => e.order \in TabOrders
  BY DEF Events
<1> QED
  BY <1>1, <1>2 DEF WireTrue

\* The socket, the server behind it and the user's view of the tab.
LEMMA SocketSteps ==
  ASSUME TabInv,
         \/ ConnectSocket \/ AuthSocket \/ DisconnectSocket \/ EmitProposal \/ HideTab \/ OnVisibility
         \/ \E o \in TabOrders : TriggerHitSent(o) \/ CancelOrder(o) \/ ServerClaims(o) \/ ServerEnds(o)
  PROVE  TabInv'
<1> USE DEF TabInv
<1>1. CASE ConnectSocket
  BY <1>1 DEF ConnectSocket, TabTypeOK, WireTrue, ToastsTellTheOrder
<1>2. CASE AuthSocket
  BY <1>2 DEF AuthSocket, TabTypeOK, WireTrue, ToastsTellTheOrder
<1>3. CASE DisconnectSocket
  BY <1>3 DEF DisconnectSocket, TabTypeOK, WireTrue, ToastsTellTheOrder
<1>4. CASE EmitProposal
  <2>1. [kind |-> "proposal"] \in Events /\ [kind |-> "proposal"].kind = "proposal"
    BY DEF Events
  <2>2. WireTrue'
    BY <1>4, <2>1, EmitOnWire DEF EmitProposal
  <2> QED
    BY <1>4, <2>2 DEF EmitProposal, Emit, TabTypeOK, ToastsTellTheOrder
<1>5. CASE HideTab
  BY <1>5 DEF HideTab, TabTypeOK, WireTrue, ToastsTellTheOrder
<1>6. CASE OnVisibility
  BY <1>6 DEF OnVisibility, TabTypeOK, WireTrue, ToastsTellTheOrder
<1>7. ASSUME NEW o \in TabOrders, TriggerHitSent(o) PROVE TabInv'
  <2>1. [kind |-> "hit", order |-> o] \in Events /\ [kind |-> "hit", order |-> o].kind = "hit"
    BY DEF Events
  <2>2. WireTrue'
    BY <1>7, <2>1, EmitOnWire DEF TriggerHitSent
  <2> QED
    BY <1>7, <2>2 DEF TriggerHitSent, Emit, TabTypeOK, ToastsTellTheOrder
<1>8. ASSUME NEW o \in TabOrders, CancelOrder(o) \/ ServerClaims(o) PROVE TabInv'
  <2>1. \A p \in TabOrders : orderStatus[p] \in Over => orderStatus'[p] \in Over
    BY <1>8 DEF CancelOrder, ServerClaims, TabTypeOK, Over
  <2>2. WireTrue'
    BY <1>8, <2>1, WireStaysTrue DEF CancelOrder, ServerClaims
  <2> QED
    BY <1>8, <2>1, <2>2 DEF CancelOrder, ServerClaims, TabTypeOK, ToastsTellTheOrder, Over, Pending
<1>9. ASSUME NEW o \in TabOrders, ServerEnds(o) PROVE TabInv'
  <2>1. \A p \in TabOrders : orderStatus[p] \in Over => orderStatus'[p] \in Over
    BY <1>9 DEF ServerEnds, TabTypeOK, Over
  <2>2. [kind |-> "filled", order |-> o] \in Events
        /\ [kind |-> "filled", order |-> o].order = o
    BY DEF Events
  <2>3. WireTrue'
    <3>1. CASE UNCHANGED wire
      BY <3>1, <2>1, WireStaysTrue
    <3>2. CASE Emit([kind |-> "filled", order |-> o]) /\ orderStatus' = [orderStatus EXCEPT ![o] = "FILLED"]
      <4>1. orderStatus'[o] \in Over
        BY <3>2 DEF TabTypeOK, Over
      <4> QED BY <3>2, <2>1, <2>2, <4>1, EmitOnWire
    <3> QED BY <1>9, <3>1, <3>2 DEF ServerEnds
  <2>4. wire' # <<>> => socketState' = "joined"
    BY <1>9 DEF ServerEnds, Emit, TabTypeOK
  <2> QED
    BY <1>9, <2>1, <2>3, <2>4, ZenonT(30) DEF ServerEnds, TabTypeOK, ToastsTellTheOrder, Over, Pending
<1> QED
  BY <1>1, <1>2, <1>3, <1>4, <1>5, <1>6, <1>7, <1>8, <1>9

\* The handlers of the events.
LEMMA HandlerSteps ==
  ASSUME TabInv, HandleProposal \/ HandleTradeFilled \/ HandleTriggerHit
  PROVE  TabInv'
<1>1. CASE HandleProposal
  <2>1. WireTrue'
    BY <1>1, TakeFromWire DEF HandleProposal, TabInv
  <2> QED
    BY <1>1, <2>1 DEF TabInv, HandleProposal, Take, TabTypeOK, ToastsTellTheOrder
<1>2. CASE HandleTradeFilled
  <2> DEFINE o == Head(wire).order
  <2>1. WireTrue' /\ o \in TabOrders /\ orderStatus[o] \in Over
    BY <1>2, TakeFromWire DEF HandleTradeFilled, TabInv
  <2>2. /\ settled' = settled \cup {o}
        /\ slot' = [slot EXCEPT ![o] = "none"]
        /\ notes' = [notes EXCEPT ![o] = {"success"}]
        /\ wire # <<>> /\ UNCHANGED <<orderStatus, socketState, hidden, run, attention>>
    BY <1>2 DEF HandleTradeFilled, LeaveNote, Take
  <2> HIDE DEF o
  <2> QED
    BY <2>1, <2>2 DEF TabInv, TabTypeOK, ToastsTellTheOrder
<1>3. CASE HandleTriggerHit
  <2> DEFINE o == Head(wire).order
  <2>1. WireTrue' /\ o \in TabOrders
    BY <1>3, TakeFromWire DEF HandleTriggerHit, TabInv
  <2>2. /\ \/ UNCHANGED <<slot, notes>>
           \/ /\ o \notin settled /\ run[o] = "none"
              /\ slot' = [slot EXCEPT ![o] = "execute"]
              /\ notes' = [notes EXCEPT ![o] = @ \cap {"success"}]
        /\ wire # <<>> /\ UNCHANGED <<orderStatus, socketState, hidden, run, attention, settled>>
    BY <1>3 DEF HandleTriggerHit, Take
  <2> HIDE DEF o
  <2> QED
    BY <2>1, <2>2 DEF TabInv, TabTypeOK, ToastsTellTheOrder
<1> QED
  BY <1>1, <1>2, <1>3

\* The buttons of the toasts, and the run of a tap.
LEMMA RunSteps ==
  ASSUME TabInv, NEW o \in TabOrders,
         \/ RunTriggerExecute(o) \/ CloseToast(o)
         \/ ClaimOrder(o) \/ SwapTapped(o) \/ ReleaseClaim(o) \/ SettleOrder(o)
  PROVE  TabInv'
<1>1. \A p \in TabOrders : orderStatus[p] \in Over => orderStatus'[p] \in Over
  BY DEF TabInv, TabTypeOK, Over, RunTriggerExecute, CloseToast, ClaimOrder, SwapTapped, ReleaseClaim,
         SettleOrder
<1>2. UNCHANGED wire
  BY DEF RunTriggerExecute, CloseToast, ClaimOrder, SwapTapped, ReleaseClaim, SettleOrder
<1>3. WireTrue'
  BY <1>1, <1>2, WireStaysTrue DEF TabInv
<1> USE DEF TabInv, TabTypeOK, ToastsTellTheOrder
<1>4. CASE RunTriggerExecute(o)
  BY <1>1, <1>3, <1>4 DEF RunTriggerExecute
<1>5. CASE CloseToast(o)
  BY <1>1, <1>3, <1>5 DEF CloseToast
<1>6. CASE ClaimOrder(o)
  <2>1. CASE RunGoes(o, "swap")
    BY <1>1, <1>3, <1>6, <2>1 DEF ClaimOrder, RunGoes, Over, Pending
  <2>2. ASSUME NEW note \in {{}, {"error"}, {"executing"}}, NEW done \in BOOLEAN,
               Outcome(o, note, done), done => orderStatus'[o] \in Over
        PROVE  TabInv'
    <3>1. /\ run' = [run EXCEPT ![o] = "none"] /\ slot' = [slot EXCEPT ![o] = "none"]
          /\ notes' = [notes EXCEPT ![o] = note]
          /\ settled' = settled \/ (done /\ settled' = settled \cup {o})
      BY <2>2 DEF Outcome, LeaveNote
    <3>2. orderStatus' \in [TabOrders -> {"OPEN"} \cup Pending \cup Over]
      BY <1>6 DEF ClaimOrder, Pending
    <3> QED
      BY <1>1, <1>3, <1>6, <2>2, <3>1, <3>2 DEF ClaimOrder
  <2>3. \/ RunGoes(o, "swap")
        \/ \E note \in {{}, {"error"}, {"executing"}}, done \in BOOLEAN :
             Outcome(o, note, done) /\ (done => orderStatus'[o] \in Over)
    BY <1>6 DEF ClaimOrder
  <2> QED
    BY <2>1, <2>2, <2>3
<1>7. CASE SwapTapped(o)
  BY <1>1, <1>3, <1>7 DEF SwapTapped, RunGoes
<1>8. CASE ReleaseClaim(o)
  BY <1>1, <1>3, <1>8 DEF ReleaseClaim, Outcome, LeaveNote, Over, Pending
<1>9. CASE SettleOrder(o)
  <2>1. PICK done \in BOOLEAN :
          /\ Outcome(o, IF done THEN {"success"} ELSE {"settle-error"}, done)
          /\ done => orderStatus'[o] \in Over
    BY <1>9 DEF SettleOrder, Over
  <2>2. /\ run' = [run EXCEPT ![o] = "none"] /\ slot' = [slot EXCEPT ![o] = "none"]
        /\ notes' = [notes EXCEPT ![o] = IF done THEN {"success"} ELSE {"settle-error"}]
        /\ settled' = settled \cup IF done THEN {o} ELSE {}
    BY <2>1 DEF Outcome, LeaveNote
  <2>3. orderStatus' \in [TabOrders -> {"OPEN"} \cup Pending \cup Over]
    BY <1>9 DEF SettleOrder, Over
  <2> QED
    BY <1>1, <1>3, <1>9, <2>1, <2>2, <2>3 DEF SettleOrder
<1> QED
  BY <1>4, <1>5, <1>6, <1>7, <1>8, <1>9

\* The tab keeps its types, and what its toasts say of an order is true of it, for any
\* orders and any number of events on their way (ToastsTellTheOrder).
THEOREM TabCorrect == TabSpec => [](TabTypeOK /\ ToastsTellTheOrder)
<1>1. TabInit => TabInv
  BY DEF TabInit, TabInv, TabTypeOK, WireTrue, ToastsTellTheOrder, Events
<1>2. TabInv /\ [TabNext]_tabVars => TabInv'
  <2>1. ASSUME TabInv, UNCHANGED tabVars PROVE TabInv'
    BY <2>1 DEF tabVars, TabInv, TabTypeOK, WireTrue, ToastsTellTheOrder
  <2> QED
    BY <2>1, SocketSteps, HandlerSteps, RunSteps DEF TabNext
<1>3. TabInv => TabTypeOK /\ ToastsTellTheOrder
  BY DEF TabInv
<1> QED
  BY <1>1, <1>2, <1>3, PTL DEF TabSpec

--------------------------------------------------------------------------------
(* The sales of a wallet.                                                  *)

SaleFields == {"position", "want", "step", "raw", "asked", "amount", "onChain"}

\* A sale wants all, or the size of its position; what it read is what was on the chain;
\* and once it has asked for an order, its amount is what it wants of what it read.
Scoped(s) ==
  /\ s.want = ALL \/ s.want = Size[s.position]
  /\ s.raw = s.onChain
  /\ s.step # "balance" => s.amount = SellRaw(s.want, s.raw)

SaleInv ==
  /\ closing = [c \in Closers |-> closing[c]]
  /\ \A c \in Closers : closing[c] # NOTHING =>
       /\ closing[c] = [f \in SaleFields |-> closing[c][f]]
       /\ Scoped(closing[c])
  /\ \A s \in sold : Scoped(s) /\ s.step # "balance"

\* A step of one page's sale changes no other page's, and adds no sale but its own.
LEMMA OneSaleMoves ==
  ASSUME SaleInv, NEW c \in Closers, NEW sale,
         closing' = [closing EXCEPT ![c] = sale],
         sale # NOTHING => sale = [f \in SaleFields |-> sale[f]] /\ Scoped(sale),
         \A s \in sold' \ sold : Scoped(s) /\ s.step # "balance"
  PROVE  SaleInv'
<1>1. closing' = [d \in Closers |-> closing'[d]] /\ closing'[c] = sale
      /\ \A d \in Closers \ {c} : closing'[d] = closing[d]
  BY DEF SaleInv
<1> QED
  BY <1>1 DEF SaleInv, Scoped, SellRaw

\* A new sale wants what it is asked to.
LEMMA SaleStarts ==
  ASSUME SaleInv, NEW c \in Closers, NEW p, NEW want, want = ALL \/ want = Size[p],
         StartsSale(c, p, want), UNCHANGED sold
  PROVE  SaleInv'
<1> DEFINE sale == [position |-> p, want |-> want, step |-> "balance", raw |-> 0, asked |-> 0,
                    amount |-> 0, onChain |-> 0]
<1>1. sale = [f \in SaleFields |-> sale[f]]
  BY DEF SaleFields
<1>2. Scoped(sale)
  BY DEF Scoped
<1>3. closing' = [closing EXCEPT ![c] = sale]
  BY DEF StartsSale
<1> HIDE DEF sale
<1> QED
  BY <1>1, <1>2, <1>3, OneSaleMoves

\* The awaits of a sale.
LEMMA SaleStep ==
  ASSUME SaleInv, NEW c \in Closers,
         \/ ReadProgram(c) \/ PrepareAmount(c) \/ RequestOrder(c) \/ SignOrder(c)
         \/ ExecuteOrder(c) \/ PersistClose(c)
  PROVE  SaleInv'
<1> DEFINE was == closing[c]
<1>1. /\ was # NOTHING
      /\ was = [f \in SaleFields |-> was[f]]
      /\ Scoped(was)
  BY DEF SaleInv, ReadProgram, PrepareAmount, RequestOrder, SignOrder, ExecuteOrder, PersistClose
<1>2. /\ \A s \in sold' \ sold : s = was
      /\ sold' = sold \/ was.step # "balance"
  BY DEF ReadProgram, PrepareAmount, RequestOrder, SignOrder, ExecuteOrder, PersistClose
<1>3. PICK sale :
        /\ closing' = [closing EXCEPT ![c] = sale]
        /\ \/ sale = NOTHING
           \/ \E to : sale = [was EXCEPT !.step = to] /\ was.step # "balance"
           \/ \E n : /\ was.step = "balance"
                     /\ \/ sale = [was EXCEPT !.asked = n, !.raw = tokens, !.onChain = tokens]
                        \/ sale = [was EXCEPT !.asked = n]
           \/ sale = [was EXCEPT !.step = "order", !.amount = SellRaw(was.want, was.raw)]
  <2>1. CASE ReadProgram(c)
    <3>1. was.step = "balance" /\ c \in DOMAIN closing
      BY <2>1 DEF ReadProgram, SaleInv
    <3>2. \/ closing' = [closing EXCEPT ![c] = [was EXCEPT !.asked = @ + 1, !.raw = tokens, !.onChain = tokens]]
          \/ closing' = [closing EXCEPT ![c] = [was EXCEPT !.asked = @ + 1]]
      BY <1>1, <2>1, <3>1 DEF ReadProgram, SaleFields
    <3> HIDE DEF was
    <3> QED BY <3>1, <3>2
  <2>2. CASE PrepareAmount(c)
    <3>1. \/ closing' = [closing EXCEPT ![c] = NOTHING]
          \/ closing' = [closing EXCEPT ![c] =
               [was EXCEPT !.step = "order", !.amount = SellRaw(was.want, was.raw)]]
      BY <1>1, <2>2 DEF PrepareAmount, SaleEnds, SaleFields
    <3> HIDE DEF was
    <3> QED BY <3>1
  <2>3. CASE RequestOrder(c) \/ SignOrder(c)
    BY <2>3 DEF RequestOrder, SignOrder, SaleGoes, SaleEnds
  <2>4. CASE ExecuteOrder(c)
    BY <2>4 DEF ExecuteOrder, SaleGoes, SaleEnds
  <2>5. CASE PersistClose(c)
    BY <2>5 DEF PersistClose, SaleEnds
  <2> QED BY <2>1, <2>2, <2>3, <2>4, <2>5
<1> HIDE DEF was
<1>4. sale # NOTHING => sale = [f \in SaleFields |-> sale[f]] /\ Scoped(sale)
  BY <1>1, <1>3 DEF Scoped, SaleFields
<1> QED
  BY <1>1, <1>2, <1>3, <1>4, OneSaleMoves

\* A sale sells the size of its position, or all there was where that was less, for any
\* positions, sizes and pages (SaleIsScoped).
THEOREM SalesCorrect == SalesSpec => []SaleIsScoped
<1>1. SalesInit => SaleInv
  BY DEF SalesInit, SaleInv
<1>2. SaleInv /\ [SalesNext]_saleVars => SaleInv'
  <2> SUFFICES ASSUME SaleInv, [SalesNext]_saleVars PROVE SaleInv'
    OBVIOUS
  <2>1. CASE UNCHANGED <<closing, sold>>
    BY <2>1 DEF SaleInv, Scoped, SellRaw
  <2>2. ASSUME NEW c \in Closers,
               Refetch(c) \/ HandleAll(c) \/ HandleCloseAll(c)
        PROVE  SaleInv'
    BY <2>1, <2>2 DEF Refetch, HandleAll, HandleCloseAll
  <2>3. ASSUME NEW c \in Closers, NextOfAll(c) PROVE SaleInv'
    BY <2>1, <2>3, SaleStarts DEF NextOfAll
  <2>4. ASSUME NEW c \in Closers, NEW p \in Holdings, HandleClose(c, p) \/ HandleConfirmSell(c, p)
        PROVE  SaleInv'
    BY <2>4, SaleStarts DEF HandleClose, HandleConfirmSell
  <2>5. CASE UNCHANGED saleVars
    BY <2>1, <2>5 DEF saleVars, pageState
  <2> QED
    BY <2>2, <2>3, <2>4, <2>5, SaleStep DEF SalesNext
<1>3. SaleInv => SaleIsScoped
  BY DEF SaleInv, Scoped, SaleIsScoped, SellRaw
<1> QED
  BY <1>1, <1>2, <1>3, PTL DEF SalesSpec

--------------------------------------------------------------------------------
(* The test swap of the developer tools.                                   *)

BeforeClaim == {"idle", "status", "post", "resolve", "claim"}
WithClaim   == {"quote", "sign", "execute", "settle", "waiting", "problem", "failed"}
ToldOf   == {"reload", "done"}

RowHeldBy(t) == [status |-> "PENDING", by |-> t]

\* What the page was told of a test is so.
ToldRight(t) ==
  /\ trial[t].told = "settled" => testOrder[trial[t].order] = [status |-> "FILLED", by |-> t]
  /\ trial[t].told \in {"broadcastUnknown", "broadcastButSettleFailed"} => HoldsClaim(t)
  /\ trial[t].told \in {"alreadyTaken", "quoteWaiting", "notAvailable", "preBroadcastFailed", "blocked",
                        "refused", "settled"} => ~ HoldsClaim(t)

\* A test holds a claim from its own claim to its release or settlement and at no other
\* time, of its own order; and a swap that landed keeps the order its test's.
TrialInv(t) ==
  /\ trial[t].at = "idle" \/ trial[t].order \in TestOrders \ {NOTHING}
  /\ trial[t].told # NOTHING => trial[t].at \in ToldOf
  /\ trial[t].at \in WithClaim => HoldsClaim(t)
  /\ \A o \in TestOrders : testOrder[o] = RowHeldBy(t) =>
       trial[t].order = o /\ trial[t].at \notin BeforeClaim
  /\ trial[t].landed =>
       /\ trial[t].at \in {"settle"} \cup ToldOf
       /\ testOrder[trial[t].order].by = t
       /\ testOrder[trial[t].order].status \in {"PENDING", "FILLED"}
  /\ ToldRight(t)

DevSwapInv == DevSwapTypeOK /\ \A t \in Tests : TrialInv(t)

\* What the other tests and the rest of the system do to an order leaves what a test holds,
\* filled or was told.
LEMMA TrialKept ==
  ASSUME DevSwapInv, NEW t \in Tests,
         testOrder' \in [TestOrders -> Rows],
         trial'[t] = trial[t],
         \A o \in TestOrders : testOrder'[o] # testOrder[o] =>
           /\ testOrder[o].status # "FILLED" /\ testOrder[o] # RowHeldBy(t)
           /\ testOrder'[o] # RowHeldBy(t)
  PROVE  TrialInv(t)'
<1>1. testOrder \in [TestOrders -> Rows] /\ TrialInv(t)
      /\ trial[t] \in [at : TestSteps, order : TestOrders \cup {NOTHING},
                       landed : BOOLEAN, told : TestOutcomes \cup {NOTHING}]
  BY DEF DevSwapInv, DevSwapTypeOK
<1>2. \A o \in TestOrders : testOrder[o].by = t /\ testOrder[o].status = "PENDING" => testOrder[o] = RowHeldBy(t)
  BY <1>1 DEF Rows, RowHeldBy
<1>3. trial[t].at # "idle" => trial[t].order \in TestOrders \ {NOTHING}
  BY <1>1 DEF TrialInv
<1>4. HoldsClaim(t)' <=> trial[t].order # NOTHING /\ testOrder'[trial[t].order] = RowHeldBy(t)
  BY DEF HoldsClaim, RowHeldBy
<1>5. trial[t].at # "idle" => (HoldsClaim(t)' <=> HoldsClaim(t))
  BY <1>1, <1>3, <1>4 DEF HoldsClaim, RowHeldBy
<1>6. ToldRight(t)'
  BY <1>1, <1>3, <1>5, DevSwapAssumption DEF TrialInv, ToldRight, TestOutcomes, ToldOf
<1> QED
  BY <1>1, <1>2, <1>3, <1>5, <1>6 DEF TrialInv, WithClaim, ToldOf

\* The page around the test, the signer, and what others do to the orders.
LEMMA AroundTheTest ==
  ASSUME DevSwapInv,
         \/ \E o \in TestOrders :
              ChooseOrder(o) \/ ProposalAccepted(o) \/ PositionChanged(o) \/ OthersTake(o) \/ OthersEnd(o)
         \/ StartOperation \/ AskDevState \/ DevStateArrives
         \/ OrderExecuted \/ AccessEnabled \/ AccessRevoked \/ SignerChanges
         \/ UNCHANGED devSwapVars
  PROVE  DevSwapInv'
<1>1. UNCHANGED trial
  BY DEF ChooseOrder, ProposalAccepted, PositionChanged, OthersTake, OthersEnd, StartOperation,
         AskDevState, DevStateArrives, OrderExecuted, AccessEnabled, AccessRevoked, SignerChanges,
         OperationEnds, devSwapVars
<1>2. /\ testOrder' \in [TestOrders -> Rows]
      /\ \A o \in TestOrders : testOrder'[o] # testOrder[o] =>
           /\ testOrder[o].status # "FILLED"
           /\ \A t \in Tests : testOrder[o] # RowHeldBy(t) /\ testOrder'[o] # RowHeldBy(t)
  <2> USE DEF DevSwapInv, DevSwapTypeOK, Rows, RowHeldBy
  <2>1. CASE UNCHANGED testOrder
    BY <2>1
  <2>2. ASSUME NEW o \in TestOrders, ProposalAccepted(o) \/ PositionChanged(o) \/ OthersTake(o) \/ OthersEnd(o),
               ~ UNCHANGED testOrder
        PROVE  \E row \in Rows :
                 /\ testOrder' = [testOrder EXCEPT ![o] = row]
                 /\ row.status = "PENDING" => row.by = "other"
                 /\ testOrder[o].status \in {"ABSENT", "OPEN"} \/ testOrder[o].by = "other"
                 /\ testOrder[o].status # "FILLED"
    <3>1. CASE ProposalAccepted(o)
      BY <2>2, <3>1 DEF ProposalAccepted
    <3>2. CASE PositionChanged(o)
      BY <2>2, <3>2 DEF PositionChanged
    <3>3. CASE OthersTake(o)
      BY <3>3 DEF OthersTake
    <3>4. CASE OthersEnd(o)
      BY <3>4 DEF OthersEnd
    <3> QED BY <2>2, <3>1, <3>2, <3>3, <3>4
  <2>3. ASSUME NEW o \in TestOrders, NEW row \in Rows,
               testOrder' = [testOrder EXCEPT ![o] = row],
               row.status = "PENDING" => row.by = "other",
               testOrder[o].status \in {"ABSENT", "OPEN"} \/ testOrder[o].by = "other",
               testOrder[o].status # "FILLED"
        PROVE  <1>2!1 /\ <1>2!2
    BY <2>3, DevSwapAssumption
  <2>4. \/ UNCHANGED testOrder
        \/ \E o \in TestOrders : ProposalAccepted(o) \/ PositionChanged(o) \/ OthersTake(o) \/ OthersEnd(o)
    BY DEF ChooseOrder, StartOperation, AskDevState, DevStateArrives, OrderExecuted, AccessEnabled,
           AccessRevoked, SignerChanges, devSwapVars
  <2> QED BY <2>1, <2>2, <2>3, <2>4
<1>3. DevSwapTypeOK'
  <2> USE <1>1, <1>2 DEF DevSwapInv, DevSwapTypeOK
  <2>1. CASE DevStateArrives
    <3>1. listRead \in SUBSET TestOrders
      BY <2>1 DEF DevStateArrives
    <3>2. openOrders' \subseteq TestOrders /\ chosen' \in TestOrders \cup {NOTHING}
      BY <2>1, <3>1 DEF DevStateArrives, Listed
    <3> QED BY <2>1, <3>2 DEF DevStateArrives
  <2>2. CASE AskDevState
    BY <2>2 DEF AskDevState, OpenNow
  <2>3. ASSUME NEW o \in TestOrders,
               ChooseOrder(o) \/ ProposalAccepted(o) \/ PositionChanged(o) \/ OthersTake(o) \/ OthersEnd(o)
        PROVE  DevSwapTypeOK'
    BY <2>3 DEF ChooseOrder, ProposalAccepted, PositionChanged, OthersTake, OthersEnd, OperationEnds,
           devPageVars, OperationNames
  <2>4. CASE StartOperation \/ OrderExecuted \/ AccessEnabled \/ AccessRevoked \/ SignerChanges
    BY <2>4 DEF StartOperation, OrderExecuted, AccessEnabled, AccessRevoked, SignerChanges, OperationEnds,
           devPageVars, OperationNames
  <2>5. CASE UNCHANGED devSwapVars
    BY <2>5 DEF devSwapVars, devPageVars
  <2> QED BY <2>1, <2>2, <2>3, <2>4, <2>5
<1>4. ASSUME NEW t \in Tests PROVE TrialInv(t)'
  BY <1>1, <1>2, TrialKept
<1> QED
  BY <1>3, <1>4 DEF DevSwapInv

\* A step of one test that leaves the orders alone.
LEMMA TestMoves ==
  ASSUME DevSwapInv, NEW t \in Tests, NEW now,
         trial' = [trial EXCEPT ![t] = now],
         now \in [at : TestSteps, order : TestOrders \cup {NOTHING},
                  landed : BOOLEAN, told : TestOutcomes \cup {NOTHING}],
         UNCHANGED testOrder,
         TrialInv(t)'
  PROVE  \A u \in Tests : TrialInv(u)'
<1>1. trial \in [Tests -> [at : TestSteps, order : TestOrders \cup {NOTHING},
                           landed : BOOLEAN, told : TestOutcomes \cup {NOTHING}]]
      /\ testOrder \in [TestOrders -> Rows]
  BY DEF DevSwapInv, DevSwapTypeOK
<1> SUFFICES ASSUME NEW u \in Tests, u # t PROVE TrialInv(u)'
  OBVIOUS
<1>2. trial'[u] = trial[u]
  BY <1>1
<1> QED
  BY <1>1, <1>2, TrialKept

\* A step of one test that writes its own order, which it holds or which is OPEN.
LEMMA TestWrites ==
  ASSUME DevSwapInv, NEW t \in Tests, NEW now, NEW row \in Rows,
         trial' = [trial EXCEPT ![t] = now],
         testOrder' = [testOrder EXCEPT ![trial[t].order] = row],
         trial[t].order \in TestOrders,
         testOrder[trial[t].order].status = "OPEN" \/ testOrder[trial[t].order] = RowHeldBy(t),
         row.status = "PENDING" => row.by = t,
         TrialInv(t)'
  PROVE  \A u \in Tests : TrialInv(u)'
<1>1. trial \in [Tests -> [at : TestSteps, order : TestOrders \cup {NOTHING},
                           landed : BOOLEAN, told : TestOutcomes \cup {NOTHING}]]
      /\ testOrder \in [TestOrders -> Rows] /\ testOrder' \in [TestOrders -> Rows]
  BY DEF DevSwapInv, DevSwapTypeOK
<1> SUFFICES ASSUME NEW u \in Tests, u # t PROVE TrialInv(u)'
  OBVIOUS
<1>2. trial'[u] = trial[u]
  BY <1>1
<1>3. \A o \in TestOrders : testOrder'[o] # testOrder[o] =>
        /\ testOrder[o].status # "FILLED" /\ testOrder[o] # RowHeldBy(u)
        /\ testOrder'[o] # RowHeldBy(u)
  BY <1>1 DEF RowHeldBy
<1> QED
  BY <1>1, <1>2, <1>3, TrialKept

\* The steps before the claim, and those between it and the end of the swap, leave the
\* orders alone, and what they tell is of a test that holds nothing.
LEMMA TestWithoutWrite ==
  ASSUME DevSwapInv, NEW t \in Tests,
         \/ RunDelegatedUltraSwap(t) \/ PreflightTest(t) \/ TestEnds(t) \/ BuildPayload(t)
         \/ ResolveWallet(t) \/ QuoteTest(t) \/ SignTest(t) \/ ExecuteTest(t)
  PROVE  DevSwapInv'
<1> DEFINE Trials == [at : TestSteps, order : TestOrders \cup {NOTHING},
                      landed : BOOLEAN, told : TestOutcomes \cup {NOTHING}]
<1>1. /\ trial \in [Tests -> Trials] /\ TrialInv(t) /\ trial[t] \in Trials
      /\ testOrder \in [TestOrders -> Rows]
  BY DEF DevSwapInv, DevSwapTypeOK
<1>2. UNCHANGED testOrder
  BY DEF RunDelegatedUltraSwap, PreflightTest, TestEnds, BuildPayload, ResolveWallet, QuoteTest,
         SignTest, ExecuteTest
<1>3. PICK now \in Trials :
        /\ trial' = [trial EXCEPT ![t] = now]
        /\ \/ /\ trial[t].at = "idle" /\ now.at = "status" /\ now.order \in TestOrders \ {NOTHING}
              /\ now.told = trial[t].told /\ now.landed = trial[t].landed
           \/ /\ trial[t].at \in {"status", "post", "resolve"} /\ now.at \in {"post", "resolve", "claim"}
              /\ now.order = trial[t].order /\ now.told = trial[t].told /\ now.landed = trial[t].landed
           \/ /\ trial[t].at \in {"status", "post", "resolve"} /\ now.at = "reload"
              /\ now.told \in {"blocked", "refused", "notAvailable", "preBroadcastFailed"}
              /\ now.order = trial[t].order /\ now.landed = trial[t].landed
           \/ /\ trial[t].at \in {"quote", "sign"} /\ now.at \in WithClaim \ {"settle"}
              /\ now.order = trial[t].order /\ now.told = trial[t].told /\ now.landed = trial[t].landed
           \/ /\ trial[t].at = "execute"
              /\ \/ now.at = "settle" /\ now.told = trial[t].told
                 \/ now.at = "reload" /\ now.told = "broadcastUnknown"
              /\ now.order = trial[t].order
           \/ /\ trial[t].at = "reload" /\ now.at = "done"
              /\ now.order = trial[t].order /\ now.told = trial[t].told /\ now.landed = trial[t].landed
  <2> USE <1>1 DEF Trials, TestSteps, TestOutcomes, WithClaim
  <2>1. CASE RunDelegatedUltraSwap(t)
    <3> WITNESS [trial[t] EXCEPT !.at = "status", !.order = chosen] \in Trials
    <3> QED BY <2>1 DEF RunDelegatedUltraSwap, DevSwapInv, DevSwapTypeOK
  <2>2. CASE PreflightTest(t)
    BY <2>2 DEF PreflightTest, Moves, Told
  <2>3. CASE TestEnds(t)
    <3>1. trial' = [trial EXCEPT ![t] = [trial[t] EXCEPT !.at = "done"]] /\ trial[t].at = "reload"
      BY <2>3 DEF TestEnds, Moves
    <3> WITNESS [trial[t] EXCEPT !.at = "done"] \in Trials
    <3> QED BY <3>1
  <2>4. CASE BuildPayload(t)
    BY <2>4 DEF BuildPayload, Moves, Told
  <2>5. CASE ResolveWallet(t)
    <3>1. CASE Moves(t, "claim")
      <4> WITNESS [trial[t] EXCEPT !.at = "claim"] \in Trials
      <4> QED BY <2>5, <3>1 DEF ResolveWallet, Moves
    <3>2. CASE \E telling \in {"notAvailable", "preBroadcastFailed"} : Told(t, telling)
      <4>1. PICK telling \in {"notAvailable", "preBroadcastFailed"} : Told(t, telling)
        BY <3>2
      <4> WITNESS [trial[t] EXCEPT !.at = "reload", !.told = telling] \in Trials
      <4> QED BY <2>5, <4>1 DEF ResolveWallet, Told
    <3> QED BY <2>5, <3>1, <3>2 DEF ResolveWallet
  <2>6. CASE QuoteTest(t)
    <3>1. PICK next \in {"sign", "waiting", "problem", "failed"} :
            trial' = [trial EXCEPT ![t] = [trial[t] EXCEPT !.at = next]] /\ trial[t].at = "quote"
      BY <2>6 DEF QuoteTest, Moves
    <3> WITNESS [trial[t] EXCEPT !.at = next] \in Trials
    <3> QED BY <3>1
  <2>7. CASE SignTest(t)
    BY <2>7 DEF SignTest, Moves
  <2>8. CASE ExecuteTest(t)
    BY <2>8 DEF ExecuteTest
  <2> QED BY <2>1, <2>2, <2>3, <2>4, <2>5, <2>6, <2>7, <2>8
<1>4. trial'[t] = now
  BY <1>1, <1>3
<1>5. TrialInv(t)'
  BY <1>1, <1>2, <1>3, <1>4, DevSwapAssumption
     DEF TrialInv, ToldRight, HoldsClaim, RowHeldBy, WithClaim, BeforeClaim, ToldOf, Trials, TestOutcomes, Rows
<1>6. \A u \in Tests : TrialInv(u)'
  BY <1>2, <1>3, <1>5, TestMoves
<1>7. DevSwapTypeOK'
  BY <1>1, <1>2, <1>3 DEF DevSwapInv, DevSwapTypeOK, RunDelegatedUltraSwap, PreflightTest, TestEnds,
     BuildPayload, ResolveWallet, QuoteTest, SignTest, ExecuteTest, devPageVars, Listed, OpenNow, OperationNames
<1> QED
  BY <1>6, <1>7 DEF DevSwapInv

\* The claim, its release and the settlement write the order that the test holds or takes,
\* and what is told of them is what was written.
LEMMA TestWithWrite ==
  ASSUME DevSwapInv, NEW t \in Tests,
         ClaimForTest(t) \/ ReleaseTest(t) \/ SettleTest(t)
  PROVE  DevSwapInv'
<1> DEFINE Trials == [at : TestSteps, order : TestOrders \cup {NOTHING},
                      landed : BOOLEAN, told : TestOutcomes \cup {NOTHING}]
           o == trial[t].order
           Written(row) ==
             \/ /\ testOrder' = [testOrder EXCEPT ![o] = row]
                /\ testOrder[o].status = "OPEN" \/ testOrder[o] = RowHeldBy(t)
                /\ row.status = "PENDING" => row.by = t
             \/ UNCHANGED testOrder /\ row = testOrder[o]
<1>1. /\ trial \in [Tests -> Trials] /\ TrialInv(t) /\ trial[t] \in Trials
      /\ testOrder \in [TestOrders -> Rows]
  BY DEF DevSwapInv, DevSwapTypeOK
<1>2. o \in TestOrders \ {NOTHING} /\ trial[t].told = NOTHING
  BY <1>1 DEF TrialInv, ClaimForTest, ReleaseTest, SettleTest, ToldOf
<1>3. trial[t].at \in WithClaim => testOrder[o] = RowHeldBy(t)
  BY <1>1 DEF TrialInv, HoldsClaim, RowHeldBy
<1> HIDE DEF o
<1>4. PICK now \in Trials, row \in Rows :
        /\ trial' = [trial EXCEPT ![t] = now] /\ now.order = o
        /\ Written(row)
        /\ \/ /\ now.at = "quote" /\ now.told = NOTHING
              /\ row = RowHeldBy(t) /\ ~ now.landed
           \/ /\ now.at = "reload" /\ now.told \in {"rejected", "unreleased"}
              /\ now.landed => row.by = t /\ row.status \in {"PENDING", "FILLED"}
           \/ /\ now.at = "reload" /\ now.told \in {"alreadyTaken", "quoteWaiting", "notAvailable", "preBroadcastFailed"}
              /\ row # RowHeldBy(t) /\ ~ now.landed
           \/ /\ now.at = "reload" /\ now.told = "settled"
              /\ row = [status |-> "FILLED", by |-> t]
  <2> DEFINE Ends(telling) == [trial[t] EXCEPT !.at = "reload", !.told = telling]
             Open   == [status |-> "OPEN", by |-> NOTHING]
             Filled == [status |-> "FILLED", by |-> t]
  <2> USE <1>1, <1>2, <1>3 DEF WithClaim, Rows, RowHeldBy, TestSteps, TestOutcomes
  <2>1. \A telling \in TestOutcomes : Ends(telling) \in Trials
    OBVIOUS
  <2>2. trial[t].at # "settle" => ~ trial[t].landed
    <3>1. trial[t].at \in {"claim", "waiting", "problem", "failed", "settle"}
      BY DEF ClaimForTest, ReleaseTest, SettleTest
    <3> QED BY <3>1 DEF TrialInv, ToldOf
  <2>3. trial[t].at = "claim" => testOrder[o] # RowHeldBy(t)
    BY DEF TrialInv, BeforeClaim
  <2>4. CASE ClaimForTest(t)
    <3> USE <2>4 DEF ClaimForTest, o
    <3>1. CASE testOrder' = [testOrder EXCEPT ![o] = RowHeldBy(t)] /\ testOrder[o].status = "OPEN" /\ Moves(t, "quote")
      <4> WITNESS [trial[t] EXCEPT !.at = "quote"] \in Trials, RowHeldBy(t) \in Rows
      <4> QED BY <3>1, <2>2 DEF Moves
    <3>2. CASE testOrder' = [testOrder EXCEPT ![o] = RowHeldBy(t)] /\ testOrder[o].status = "OPEN" /\ Told(t, "rejected")
      <4> WITNESS Ends("rejected") \in Trials, RowHeldBy(t) \in Rows
      <4> QED BY <3>2, <2>2 DEF Told
    <3>3. CASE UNCHANGED testOrder /\ Told(t, "rejected")
      <4> WITNESS Ends("rejected") \in Trials, testOrder[o] \in Rows
      <4> QED BY <3>3, <2>2 DEF Told
    <3>4. CASE UNCHANGED testOrder /\ Told(t, "alreadyTaken")
      <4> WITNESS Ends("alreadyTaken") \in Trials, testOrder[o] \in Rows
      <4> QED BY <3>4, <2>2, <2>3 DEF Told
    <3> QED BY <3>1, <3>2, <3>3, <3>4
  <2>5. CASE ReleaseTest(t)
    <3>1. trial[t].at \in {"waiting", "problem", "failed"}
      BY <2>5 DEF ReleaseTest
    <3>2. OutcomeOf(trial[t].at) \in {"quoteWaiting", "notAvailable", "preBroadcastFailed"}
      BY <3>1 DEF OutcomeOf
    <3>3. CASE testOrder' = [testOrder EXCEPT ![o] = Open] /\ Told(t, OutcomeOf(trial[t].at))
      <4> WITNESS Ends(OutcomeOf(trial[t].at)) \in Trials, Open \in Rows
      <4> QED BY <3>1, <3>2, <3>3, <2>2 DEF Told, o
    <3>4. CASE testOrder' = [testOrder EXCEPT ![o] = Open] /\ Told(t, "unreleased")
      <4> WITNESS Ends("unreleased") \in Trials, Open \in Rows
      <4> QED BY <3>1, <3>4, <2>2 DEF Told, o
    <3>5. CASE UNCHANGED testOrder /\ Told(t, "unreleased")
      <4> WITNESS Ends("unreleased") \in Trials, testOrder[o] \in Rows
      <4> QED BY <3>1, <3>5, <2>2 DEF Told, o
    <3> QED BY <2>5, <3>3, <3>4, <3>5 DEF ReleaseTest, o
  <2>6. CASE SettleTest(t)
    <3>1. trial[t].at = "settle" /\ testOrder[o] = RowHeldBy(t)
      BY <2>6 DEF SettleTest
    <3>2. CASE testOrder' = [testOrder EXCEPT ![o] = Filled] /\ Told(t, "settled")
      <4> WITNESS Ends("settled") \in Trials, Filled \in Rows
      <4> QED BY <3>1, <3>2 DEF Told, o
    <3>3. CASE testOrder' = [testOrder EXCEPT ![o] = Filled] /\ Told(t, "rejected")
      <4> WITNESS Ends("rejected") \in Trials, Filled \in Rows
      <4> QED BY <3>1, <3>3 DEF Told, o
    <3>4. CASE UNCHANGED testOrder /\ Told(t, "rejected")
      <4>1. testOrder[o].by = t /\ testOrder[o].status = "PENDING" /\ testOrder[o] \in Rows
        BY <3>1
      <4>2. trial' = [trial EXCEPT ![t] = Ends("rejected")] /\ UNCHANGED testOrder
        BY <3>4 DEF Told
      <4>3. Ends("rejected").order = o /\ Ends("rejected").at = "reload" /\ Ends("rejected").told = "rejected"
        BY DEF o
      <4> WITNESS Ends("rejected") \in Trials, testOrder[o] \in Rows
      <4> QED BY <4>1, <4>2, <4>3
    <3> QED BY <2>6, <3>1, <3>2, <3>3, <3>4 DEF SettleTest, o
  <2> QED BY <2>4, <2>5, <2>6
<1>5. trial'[t] = now /\ testOrder'[o] = row /\ testOrder' \in [TestOrders -> Rows]
      /\ \A p \in TestOrders \ {o} : testOrder'[p] = testOrder[p]
  <2>1. trial'[t] = now
    BY <1>1, <1>4
  <2>2. Written(row)
    BY <1>4
  <2> QED BY <1>1, <1>2, <2>1, <2>2
<1>6. \A p \in TestOrders \ {o} : testOrder'[p] # RowHeldBy(t)
  BY <1>1, <1>2, <1>5 DEF TrialInv, o
<1>7. HoldsClaim(t)' <=> row = RowHeldBy(t)
  BY <1>2, <1>4, <1>5 DEF HoldsClaim, RowHeldBy
<1>8. TrialInv(t)'
  BY <1>2, <1>4, <1>5, <1>6, <1>7, DevSwapAssumption
     DEF TrialInv, ToldRight, RowHeldBy, WithClaim, BeforeClaim, ToldOf, Trials, TestOutcomes
<1>9. \A u \in Tests : TrialInv(u)'
  <2>1. CASE UNCHANGED testOrder
    BY <2>1, <1>4, <1>8, TestMoves
  <2>2. CASE /\ testOrder' = [testOrder EXCEPT ![o] = row]
             /\ testOrder[o].status = "OPEN" \/ testOrder[o] = RowHeldBy(t)
             /\ row.status = "PENDING" => row.by = t
    BY <2>2, <1>2, <1>4, <1>8, TestWrites DEF o
  <2>3. Written(row)
    BY <1>4
  <2> QED BY <2>1, <2>2, <2>3
<1>10. DevSwapTypeOK'
  BY <1>1, <1>4, <1>5 DEF DevSwapInv, DevSwapTypeOK, ClaimForTest, ReleaseTest, SettleTest, devPageVars
<1> QED
  BY <1>9, <1>10 DEF DevSwapInv

\* What the operator is told of a test is so, then and later, and no two tests swap one
\* order, for any orders and any number of clicks (TestTellsTheClaim).
THEOREM DevSwapCorrect == DevSwapSpec => [](DevSwapTypeOK /\ TestTellsTheClaim)
<1>1. DevSwapInit => DevSwapInv
  <2> SUFFICES ASSUME DevSwapInit PROVE DevSwapInv
    OBVIOUS
  <2>1. DevSwapTypeOK
    BY DEF DevSwapInit, DevSwapTypeOK, Rows, TestSteps
  <2>2. ASSUME NEW t \in Tests PROVE TrialInv(t)
    BY DevSwapAssumption DEF DevSwapInit, TrialInv, ToldRight, RowHeldBy, WithClaim, BeforeClaim, ToldOf,
       TestOutcomes
  <2> QED BY <2>1, <2>2 DEF DevSwapInv
<1>2. DevSwapInv /\ [DevSwapNext]_devSwapVars => DevSwapInv'
  BY AroundTheTest, TestWithoutWrite, TestWithWrite DEF DevSwapNext
<1>3. DevSwapInv => DevSwapTypeOK /\ TestTellsTheClaim
  <2> SUFFICES ASSUME DevSwapInv PROVE TestTellsTheClaim
    BY DEF DevSwapInv
  <2>1. ASSUME NEW t \in Tests
        PROVE  /\ trial[t].told = "settled" => testOrder[trial[t].order] = [status |-> "FILLED", by |-> t]
               /\ claimRetained(trial[t].told) /\ trial[t].told # "quoteWaiting" => HoldsClaim(t)
               /\ trial[t].told \notin {NOTHING, "unreleased", "rejected"} /\ ~ claimRetained(trial[t].told)
                    => ~ HoldsClaim(t)
    BY DEF DevSwapInv, DevSwapTypeOK, TrialInv, ToldRight, claimRetained, TestOutcomes
  <2>2. ASSUME NEW t \in Tests, NEW u \in Tests, trial[t].landed, trial[u].landed, trial[t].order = trial[u].order
        PROVE  t = u
    BY <2>2 DEF DevSwapInv, TrialInv
  <2> QED BY <2>1, <2>2 DEF TestTellsTheClaim
<1> QED
  BY <1>1, <1>2, <1>3, PTL DEF DevSwapSpec

--------------------------------------------------------------------------------
(* The pages of the fundamental analysis agent.                            *)

Following(j) == followers[j] \notin {"none", "stopped"}

\* A page follows at most its last job, which it shows as not over yet; while it submits
\* a task it follows and shows none.
AgentPageInv ==
  /\ AgentTypeOK
  /\ agentPage \in AgentPageKinds
  /\ \A j \in DOMAIN agentJobs : agentJobs[j] \in {"pending", "running", Lost} \cup agentPage.ends
  /\ \A j \in JobIds : Following(j) =>
       /\ j = Len(agentJobs) /\ agentBusy /\ submitting = "no"
       /\ agentJob \in [id : {j}, status : {"pending", "running"}]
       /\ followers[j] = "listens" <=> agentPage.stops = {}
       /\ followers[j] \in {"asks", "listens", "pending", "running"} \cup agentPage.ends
  /\ submitting # "no" => agentBusy /\ agentJob = NOTHING /\ Len(agentJobs) < MaxJobs
  /\ agentJob # NOTHING => agentJob.id = Len(agentJobs)

\* A poller stops at every status its page's job may end with, and at no other.
LEMMA PollersStopAtTheEnd ==
  \A kind \in AgentPageKinds :
    /\ kind.ends \subseteq JobOver /\ kind.stops \subseteq JobOver
    /\ kind.stops # {} => kind.ends \subseteq kind.stops
<1> USE DEF JobOver
<1>1. /\ \A stops : Poller(stops).stops = stops /\ Poller(stops).ends = {"succeeded", "failed"}
      /\ StrategyPage.stops = pollStrategy /\ StrategyPage.ends = {"succeeded", "failed", "quarantined"}
      /\ Task1Page.stops = {} /\ Task1Page.ends = {"succeeded", "failed", "escalated"}
      /\ Task2Page.stops = pollExtraction /\ Task2Page.ends = {"succeeded", "failed", "quarantined"}
  BY DEF Poller, StrategyPage, Task1Page, Task2Page
<1>2. ASSUME NEW kind \in AgentPageKinds
      PROVE  \/ kind \in {StrategyPage, Task1Page, Task2Page}
             \/ kind \in {Poller(poll), Poller(pollEarnings), Poller(pollEnsemble), Poller(pollInsider),
                          Poller(pollInstitutional), Poller(pollPortfolio), Poller(pollRelative),
                          Poller(pollAnalysis)}
  BY DEF AgentPageKinds, AnomalyPage, AstroPage, BaziPage, BuybackPage, CongressPage, ContagionPage,
    EarningsPage, EnsemblePage, EventsPage, FundamentalsPage, InsiderPage, InstitutionalPage, JyotishPage,
    LiurenPage, MeihuaPage, OvernightPage, PairsPage, PortfolioPage, QimenPage, QizhengPage, QualityPage,
    RankerPage, RelativePage, ScannerPage, SeasonalityPage, ShortPage, SuimeiPage, TaiyiPage, TechnicalPage,
    TiebanPage, VixPage, VolatilityPage, ZiweiPage, ScannerBook
<1> QED
  BY <1>1, <1>2 DEF poll, pollEarnings, pollEnsemble, pollInsider, pollInstitutional, pollPortfolio,
    pollRelative, pollAnalysis, pollStrategy, pollExtraction

\* The page submits a task, which is parsed, and made or refused.
LEMMA SubmitSteps ==
  ASSUME AgentPageInv, SubmitTask \/ ParseInput \/ CreateTask
  PROVE  AgentPageInv'
<1> USE AgentAssumption DEF AgentPageInv, AgentTypeOK, Following, JobIds
<1>1. CASE SubmitTask
  BY <1>1 DEF SubmitTask
<1>2. CASE ParseInput
  BY <1>2 DEF ParseInput, Refused
<1>3. CASE CreateTask
  <2> DEFINE n == Len(agentJobs) + 1
  <2>1. n \in JobIds /\ \A j \in JobIds : ~ Following(j)
    BY <1>3 DEF CreateTask
  <2>2. ASSUME agentJobs' = Append(agentJobs, "pending")
        PROVE  /\ agentJobs' \in Seq(JobStatuses \cup {Lost}) /\ Len(agentJobs') = n
               /\ \A j \in DOMAIN agentJobs' : agentJobs'[j] \in {"pending", "running", Lost} \cup agentPage.ends
    BY <2>2 DEF JobStatuses
  <2>3. CASE Refused
    <3>1. /\ UNCHANGED <<agentPage, agentJob, followers, restarts>> /\ agentJob = NOTHING
          /\ submitting' = "no" /\ agentBusy' = FALSE /\ agentFailed' = TRUE
          /\ UNCHANGED agentJobs \/ agentJobs' = Append(agentJobs, "pending")
      BY <1>3, <2>1, <2>3 DEF CreateTask, Refused
    <3>2. /\ agentJobs' \in Seq(JobStatuses \cup {Lost}) /\ Len(agentJobs') <= MaxJobs
          /\ \A j \in DOMAIN agentJobs' : agentJobs'[j] \in {"pending", "running", Lost} \cup agentPage.ends
      BY <2>1, <2>2, <3>1
    <3> QED BY <2>1, <3>1, <3>2
  <2>4. CASE /\ agentJobs' = Append(agentJobs, "pending")
             /\ agentJob' = [id |-> n, status |-> "pending"]
             /\ followers' = [followers EXCEPT ![n] = IF agentPage.stops = {} THEN "listens" ELSE "asks"]
             /\ submitting' = "no"
             /\ UNCHANGED <<agentBusy, agentFailed>>
    <3>1. UNCHANGED <<agentPage, restarts>> /\ agentBusy
      BY <1>3 DEF CreateTask
    <3>2. agentJob' \in [id : {n}, status : {"pending"}] /\ agentJob' \in [id : JobIds, status : JobStatuses]
      BY <2>1, <2>4 DEF JobStatuses
    <3>3. followers'[n] = (IF agentPage.stops = {} THEN "listens" ELSE "asks")
          /\ \A j \in JobIds \ {n} : followers'[j] = followers[j]
          /\ followers' \in [JobIds -> {"none", "asks", "listens", "stopped"} \cup JobStatuses]
      BY <2>1, <2>4
    <3> HIDE DEF n
    <3> QED BY <2>1, <2>2, <2>4, <3>1, <3>2, <3>3
  <2> QED BY <1>3, <2>3, <2>4 DEF CreateTask
<1> QED
  BY <1>1, <1>2, <1>3

\* What follows a job is answered; the server runs it, and may forget it.
LEMMA JobSteps ==
  ASSUME AgentPageInv,
         \/ ResetPage \/ RestartAgent
         \/ \E j \in DOMAIN agentJobs : AskJob(j) \/ JobAnswered(j) \/ StreamEnds(j) \/ RunJob(j)
  PROVE  AgentPageInv'
<1>p. agentPage.ends \subseteq JobOver /\ agentPage.stops \subseteq JobOver
      /\ (agentPage.stops # {} => agentPage.ends \subseteq agentPage.stops)
  BY PollersStopAtTheEnd DEF AgentPageInv
<1> USE AgentAssumption, <1>p DEF AgentPageInv, AgentTypeOK, Following, JobIds, JobOver, JobStatuses
<1>1. CASE ResetPage
  BY <1>1 DEF ResetPage
<1>2. CASE RestartAgent
  <2>1. agentJobs' \in Seq(JobStatuses \cup {Lost}) /\ Len(agentJobs') = Len(agentJobs)
        /\ \A j \in DOMAIN agentJobs' : agentJobs'[j] = Lost
    BY <1>2 DEF RestartAgent
  <2>2. /\ UNCHANGED <<agentPage, agentBusy, agentFailed, agentJob, submitting, followers>>
        /\ restarts' \in 0 .. MaxRestarts
    BY <1>2 DEF RestartAgent
  <2> QED BY <2>1, <2>2
<1>3. ASSUME NEW j \in DOMAIN agentJobs, AskJob(j) PROVE AgentPageInv'
  <2>1. j \in JobIds
    BY <1>3
  <2> QED BY <1>3, <2>1 DEF AskJob, Lost
<1>4. ASSUME NEW j \in DOMAIN agentJobs, JobAnswered(j) PROVE AgentPageInv'
  <2>1. j \in JobIds /\ Following(j) /\ followers[j] \in {"pending", "running"} \cup agentPage.ends
        /\ agentPage.stops # {}
    BY <1>4 DEF JobAnswered
  <2> QED BY <1>4, <2>1 DEF JobAnswered, ShowJob
<1>5. ASSUME NEW j \in DOMAIN agentJobs, StreamEnds(j) PROVE AgentPageInv'
  <2>1. j \in JobIds /\ Following(j)
    BY <1>5 DEF StreamEnds
  <2>2. /\ followers' \in [JobIds -> {"none", "asks", "listens", "stopped"} \cup JobStatuses]
        /\ \A k \in JobIds : followers'[k] \in {"none", "stopped"}
    BY <1>5, <2>1 DEF StreamEnds
  <2>3. /\ UNCHANGED <<agentPage, agentFailed, submitting, agentJobs, restarts>>
        /\ \/ UNCHANGED <<agentBusy, agentJob>>
           \/ agentJob' \in [id : {j}, status : JobOver] /\ agentBusy' \in BOOLEAN
    <3>1. CASE UNCHANGED <<agentBusy, agentJob>>
      BY <1>5, <3>1 DEF StreamEnds
    <3>2. CASE agentJobs[j] \in JobOver /\ ShowJob(j, agentJobs[j])
      <4>1. agentJob' = [id |-> j, status |-> agentJobs[j]]
        BY <3>2 DEF ShowJob
      <4>2. agentBusy' \in BOOLEAN
        BY <3>2 DEF ShowJob
      <4> QED BY <1>5, <3>2, <4>1, <4>2 DEF StreamEnds
    <3> QED BY <1>5, <3>1, <3>2 DEF StreamEnds
  <2> QED BY <2>1, <2>2, <2>3
<1>6. ASSUME NEW j \in DOMAIN agentJobs, RunJob(j) PROVE AgentPageInv'
  <2>1. PICK status \in {"running"} \cup agentPage.ends : agentJobs' = [agentJobs EXCEPT ![j] = status]
    BY <1>6 DEF RunJob
  <2>2. status \in JobStatuses
    BY <2>1
  <2>3. agentJobs' \in Seq(JobStatuses \cup {Lost}) /\ Len(agentJobs') = Len(agentJobs)
    BY <2>1, <2>2
  <2>4. \A k \in DOMAIN agentJobs' : agentJobs'[k] \in {"pending", "running", Lost} \cup agentPage.ends
    BY <2>1
  <2> QED BY <1>6, <2>3, <2>4 DEF RunJob
<1> QED
  BY <1>1, <1>2, <1>3, <1>4, <1>5, <1>6

\* A page that offers its button follows no job, and the job it shows is the last one made,
\* for any number of jobs and restarts of the server (OneJobAtATime).
THEOREM AgentPagesCorrect == AgentSpec => [](AgentTypeOK /\ OneJobAtATime)
<1>1. AgentInit => AgentPageInv
  <2> SUFFICES ASSUME AgentInit PROVE AgentPageInv
    OBVIOUS
  <2>1. agentJobs = <<>> /\ <<>> \in Seq(JobStatuses \cup {Lost}) /\ Len(<<>>) = 0 /\ DOMAIN <<>> = {}
    BY DEF AgentInit
  <2>2. AgentTypeOK
    <3>1. agentJobs \in Seq(JobStatuses \cup {Lost}) /\ Len(agentJobs) <= MaxJobs
      BY <2>1, AgentAssumption
    <3>2. followers \in [JobIds -> {"none", "asks", "listens", "stopped"} \cup JobStatuses]
      BY DEF AgentInit
    <3>3. /\ agentBusy \in BOOLEAN /\ agentFailed \in BOOLEAN
          /\ agentJob = NOTHING /\ submitting \in {"no", "parse", "create"}
      BY DEF AgentInit
    <3>4. restarts \in 0 .. MaxRestarts
      BY AgentAssumption DEF AgentInit
    <3> QED BY <3>1, <3>2, <3>3, <3>4 DEF AgentTypeOK
  <2> QED
    BY <2>1, <2>2 DEF AgentInit, AgentPageInv, Following
<1>2. AgentPageInv /\ [AgentNext]_agentVars => AgentPageInv'
  <2>1. ASSUME AgentPageInv, UNCHANGED agentVars PROVE AgentPageInv'
    BY <2>1 DEF agentVars, AgentPageInv, AgentTypeOK, Following
  <2> QED
    BY <2>1, SubmitSteps, JobSteps DEF AgentNext
<1>3. AgentPageInv => AgentTypeOK /\ OneJobAtATime
  BY DEF AgentPageInv, OneJobAtATime, Following
<1> QED
  BY <1>1, <1>2, <1>3, PTL DEF AgentSpec

--------------------------------------------------------------------------------
(* The signal engine and the mandate it works for.                         *)

\* An edit that went through as PUT has expired all that was live in its last statement,
\* and what came since came with no edit under way.
EditInv ==
  saved = "PUT" => editing = 0 /\ \A x \in live : x.afterEdit

LEMMA EditMandateExpires ==
  ASSUME EditInv, NEW method \in {"PUT", "POST"}, EditMandate(method)
  PROVE  EditInv'
<1>1. CASE editing + 1 = Len(StatementsOf(method))
  <2>1. CASE method = "PUT"
    <3>1. editing + 1 = 2 /\ StatementsOf(method)[editing + 1] = "expire"
      BY <1>1, <2>1 DEF StatementsOf, EditStatements
    <3> QED
      BY <1>1, <3>1 DEF EditInv, EditMandate
  <2>2. CASE method = "POST"
    BY <1>1, <2>2 DEF EditInv, EditMandate
  <2> QED BY <2>1, <2>2
<1>2. CASE editing + 1 # Len(StatementsOf(method))
  BY <1>2 DEF EditInv, EditMandate
<1> QED
  BY <1>1, <1>2

\* An edit of the mandate leaves no live proposal of an older one, but what a generator that
\* had read it inserts after, for any assets, ticks and edits (EditExpiresOldProposals).
THEOREM SignalCorrect == SignalSpec => []EditExpiresOldProposals
<1>1. SignalInit => EditInv
  BY DEF SignalInit, EditInv
<1>2. EditInv /\ [SignalNext]_signalVars => EditInv'
  <2> SUFFICES ASSUME EditInv, [SignalNext]_signalVars PROVE EditInv'
    OBVIOUS
  <2>1. ASSUME NEW t \in Loops, StartTick(t) \/ SignalStep(t) PROVE EditInv'
    <3>1. CASE InsertProposal(t)
      <4> SUFFICES ASSUME saved = "PUT" PROVE editing = 0 /\ \A x \in live' : x.afterEdit
        BY <3>1 DEF InsertProposal, EditInv, mandateVars
      <4>1. editing = 0 /\ \A x \in live : x.afterEdit
        BY DEF EditInv
      <4> DEFINE rec == [asset |-> Asset(t), version |-> mandateOf[t], afterEdit |-> editing = 0]
      <4>2. rec.afterEdit = (editing = 0)
        BY Zenon
      <4>3. live' \in {live, live \cup {rec}} /\ editing' = editing
        BY <3>1 DEF InsertProposal, mandateVars
      <4> HIDE DEF rec
      <4>4. \A x \in live' : x \in live \/ x = rec
        BY <4>3
      <4> QED BY <4>1, <4>2, <4>4, Zenon
    <3>2. CASE ~ InsertProposal(t)
      BY <2>1, <3>2 DEF StartTick, SignalStep, FetchPrice, FetchBars, AskLlm, LlmAnswers, ReadMandate,
         ReadProposals, EditInv, mandateVars
    <3> QED BY <3>1, <3>2
  <2>2. ASSUME NEW x \in live, Leaves(x) PROVE EditInv'
    BY <2>2 DEF Leaves, EditInv, mandateVars
  <2>3. CASE Publish \/ OpenForm \/ FormAnswered \/ EditFails
    BY <2>3 DEF Publish, OpenForm, FormAnswered, EditFails, EditInv, mandateVars
  <2>4. CASE UNCHANGED signalVars
    BY <2>4 DEF signalVars, mandateVars, EditInv
  <2> QED
    BY <2>1, <2>2, <2>3, <2>4, EditMandateExpires DEF SignalNext
<1>3. EditInv => EditExpiresOldProposals
  BY DEF EditInv, EditExpiresOldProposals
<1> QED
  BY <1>1, <1>2, <1>3, PTL DEF SignalSpec

--------------------------------------------------------------------------------
(* The developer tools.                                                    *)

\* A proposal that is not live at a time is not live at any later one.
DeadDev(p, now) == made[p].status # "ACTIVE" \/ made[p].expiresAt <= now

\* What a transaction had seen when it looked is dead by the time it inserts, and ever after.
DevInv ==
  /\ DevTypeOK
  /\ \A r \in Operators : request[r].at \in {"expire", "look", "insert"} => request[r].now <= devClock
  /\ \A r \in Operators : request[r].at \in {"quote", "emit"} => request[r].for <= Len(made)
  /\ \A r \in Operators : request[r].at = "insert" =>
       /\ request[r].knew <= Len(made)
       /\ \A p \in DevIds : p <= request[r].knew => DeadDev(p, devClock)
  /\ \A q \in DevIds :
       /\ made[q].knew < q
       /\ \A p \in DevIds : p <= made[q].knew => DeadDev(p, devClock)

\* How the rows move in a step that makes none.
Older(old, new) ==
  /\ new.expiresAt = old.expiresAt /\ new.knew = old.knew
  /\ old.status # "ACTIVE" => new.status # "ACTIVE"

LEMMA ExpireDevKeeps ==
  ASSUME DevTypeOK, NEW now \in Nat
  PROVE  /\ expireDev(now) \in Seq(DevProposals) /\ Len(expireDev(now)) = Len(made)
         /\ DOMAIN expireDev(now) = DevIds
         /\ \A p \in DevIds : Older(made[p], expireDev(now)[p])
<1>1. \A p \in DevIds : made[p] \in DevProposals
  BY DEF DevTypeOK, DevIds
<1>2. \A p \in DevIds : /\ expireDev(now)[p] \in DevProposals
                        /\ Older(made[p], expireDev(now)[p])
  BY <1>1 DEF expireDev, DevProposals, Older
<1>3. DOMAIN expireDev(now) = 1 .. Len(made) /\ DevIds = 1 .. Len(made) /\ Len(made) \in Nat
  BY DEF expireDev, DevIds, DevTypeOK
<1> QED
  BY <1>2, <1>3 DEF expireDev

\* No row comes back to life, and no request knows more than there is.
LEMMA DevRowsAge ==
  ASSUME DevInv, DevTypeOK', devClock <= devClock', UNCHANGED request,
         Len(made') = Len(made), \A p \in DevIds : Older(made[p], made'[p])
  PROVE  DevInv'
<1>1. devClock \in Nat /\ devClock' \in Nat /\ DevIds = 1 .. Len(made) /\ DevIds' = 1 .. Len(made')
      /\ \A p \in DevIds : made[p] \in DevProposals /\ made'[p] \in DevProposals
  BY DEF DevInv, DevTypeOK, DevIds
<1>2. \A p \in DevIds : DeadDev(p, devClock) => DeadDev(p, devClock)'
  BY <1>1 DEF DeadDev, Older, DevProposals
<1>3. \A r \in Operators : request[r] \in DevCalls
  BY DEF DevInv, DevTypeOK
<1>4. \A r \in Operators : request[r].at \in {"expire", "look", "insert"} => request[r].now \in Nat
  BY <1>3 DEF DevCalls
<1> QED
  BY <1>1, <1>2, <1>4 DEF DevInv, Older

\* A request goes on, and the rows stay.
LEMMA DevRequestGoes ==
  ASSUME DevInv, NEW r \in Operators, NEW call \in DevCalls,
         request' = [request EXCEPT ![r] = call], UNCHANGED <<devClock, made>>, hits' \subseteq DevIds,
         call.at \in {"expire", "look", "insert"} => call.now <= devClock,
         call.at \in {"quote", "emit"} => call.for <= Len(made),
         call.at = "insert" =>
           /\ call.knew <= Len(made)
           /\ \A p \in DevIds : p <= call.knew => DeadDev(p, devClock)
  PROVE  DevInv'
<1>1. request' \in [Operators -> DevCalls] /\ request'[r] = call
      /\ \A s \in Operators \ {r} : request'[s] = request[s]
  BY DEF DevInv, DevTypeOK
<1>2. DevTypeOK'
  BY <1>1 DEF DevInv, DevTypeOK, DevIds
<1> QED
  BY <1>1, <1>2 DEF DevInv, DevIds, DeadDev

\* The transaction inserts a row that knows what it had looked at.
LEMMA DevRowInserted ==
  ASSUME DevInv, NEW r \in Operators, InsertDevProposal(r)
  PROVE  DevInv'
<1>1. request[r].at = "insert" /\ request[r] \in DevCalls /\ [at |-> "idle"] \in DevCalls
  BY DEF InsertDevProposal, DevInv, DevTypeOK, DevCalls
<1>2. CASE UNCHANGED made
  BY <1>1, <1>2, DevRequestGoes DEF InsertDevProposal, RequestEnds, RequestGoes, DevInv, DevTypeOK
<1>3. CASE ~ UNCHANGED made
  <2> DEFINE now == request[r].now
             row == [status |-> "ACTIVE", expiresAt |-> now + DevLife, order |-> "none",
                     knew |-> request[r].knew]
             n   == Len(made) + 1
  <2>1. /\ Len(made) < MaxMade /\ made' = Append(expireDev(now), row)
        /\ request' = [request EXCEPT ![r] = [at |-> "idle"]] /\ UNCHANGED <<devClock, hits>>
    BY <1>3 DEF InsertDevProposal, RequestEnds, RequestGoes
  <2>2. now \in 0 .. LastDevTime /\ request[r].knew \in 0 .. MaxMade
    BY <1>1 DEF DevCalls
  <2>3. row \in DevProposals
    BY <2>2, DevAssumption DEF DevProposals
  <2>4. /\ expireDev(now) \in Seq(DevProposals) /\ Len(expireDev(now)) = Len(made)
        /\ \A p \in DevIds : Older(made[p], expireDev(now)[p])
    BY <2>2, ExpireDevKeeps DEF DevInv
  <2>5. DevIds = 1 .. Len(made) /\ Len(made) \in Nat
    BY DEF DevIds, DevInv, DevTypeOK
  <2>6. /\ made' \in Seq(DevProposals) /\ Len(made') = n /\ DevIds' = 1 .. n
        /\ made'[n] = row /\ \A p \in DevIds : made'[p] = expireDev(now)[p]
    BY <2>1, <2>3, <2>4, <2>5 DEF DevIds
  <2>7. request' \in [Operators -> DevCalls] /\ request'[r].at = "idle"
        /\ \A s \in Operators \ {r} : request'[s] = request[s]
    BY <1>1, <2>1 DEF DevInv, DevTypeOK
  <2>8. DevTypeOK'
    BY <2>1, <2>5, <2>6, <2>7, DevAssumption DEF DevInv, DevTypeOK
  <2>9. \A p \in DevIds : DeadDev(p, devClock) => DeadDev(p, devClock)'
    BY <2>1, <2>4, <2>6 DEF DeadDev, Older
  <2>10. \A s \in Operators : request'[s] \in DevCalls /\ (request'[s].at = "insert" => request'[s].knew \in Nat)
    BY <2>7 DEF DevCalls
  <2>11. \A q \in DevIds : made[q].knew \in Nat /\ made'[q].knew = made[q].knew
    <3>1. \A q \in DevIds : made[q] \in DevProposals
      BY DEF DevInv, DevTypeOK, DevIds
    <3>2. \A q \in DevIds : made'[q].knew = made[q].knew
      BY <2>4, <2>6 DEF Older
    <3> QED BY <3>1, <3>2 DEF DevProposals
  <2>12. row.knew <= Len(made) /\ row.knew \in Nat /\ \A p \in DevIds : p <= row.knew => DeadDev(p, devClock)
    BY <1>1, <2>2 DEF DevInv
  <2> HIDE DEF row, n, now
  <2>13. \A s \in Operators :
           /\ request'[s].at \in {"expire", "look", "insert"} => request'[s].now <= devClock'
           /\ request'[s].at \in {"quote", "emit"} => request'[s].for <= Len(made')
           /\ request'[s].at = "insert" =>
                /\ request'[s].knew <= Len(made')
                /\ \A p \in DevIds' : p <= request'[s].knew => DeadDev(p, devClock)'
    <3> SUFFICES ASSUME NEW s \in Operators, s # r
                 PROVE  /\ request'[s].at \in {"expire", "look", "insert"} => request'[s].now <= devClock'
                        /\ request'[s].at \in {"quote", "emit"} => request'[s].for <= Len(made')
                        /\ request'[s].at = "insert" =>
                             /\ request'[s].knew <= Len(made')
                             /\ \A p \in DevIds' : p <= request'[s].knew => DeadDev(p, devClock)'
      BY <2>7
    <3>1. request'[s] = request[s] /\ UNCHANGED devClock
      BY <2>1, <2>7
    <3>2. request[s].at = "insert" => request[s].knew \in Nat /\ request[s].knew <= Len(made)
      BY <2>10, <3>1 DEF DevInv
    <3>3. request[s].at \in {"quote", "emit"} => request[s].for \in Nat /\ request[s].for <= Len(made)
      <4>1. request[s] \in DevCalls
        BY DEF DevInv, DevTypeOK
      <4> QED BY <4>1 DEF DevInv, DevCalls
    <3> QED BY <2>5, <2>6, <2>9, <3>1, <3>2, <3>3 DEF DevInv, n
  <2>14. ASSUME NEW q \in DevIds'
         PROVE  made'[q].knew < q /\ \A p \in DevIds' : p <= made'[q].knew => DeadDev(p, devClock)'
    <3>1. CASE q = n
      BY <3>1, <2>5, <2>6, <2>9, <2>12 DEF n
    <3>2. CASE q \in DevIds
      BY <3>2, <2>5, <2>6, <2>9, <2>11 DEF DevInv, n
    <3> QED BY <2>5, <2>6, <3>1, <3>2 DEF n
  <2> QED
    BY <2>8, <2>13, <2>14 DEF DevInv
<1> QED
  BY <1>2, <1>3

\* The steps of a request before it inserts, and those of the forced trigger.
LEMMA DevRequestSteps ==
  ASSUME DevInv, NEW r \in Operators,
         \/ ReadMarket(r) \/ AskGemini(r) \/ ExpireInTransaction(r) \/ LookAgain(r)
         \/ QuoteDevTrigger(r) \/ EmitDevTrigger(r)
         \/ \E p \in DevIds : BuildOwnedDevTriggerPayload(r, p)
  PROVE  DevInv'
<1>1. /\ request[r] \in DevCalls /\ devClock \in 0 .. LastDevTime
      /\ DevIds = 1 .. Len(made) /\ Len(made) \in 0 .. MaxMade /\ hits \subseteq DevIds
  BY DevAssumption DEF DevInv, DevTypeOK, DevIds
<1>2. [at |-> "idle"] \in DevCalls /\ [at |-> "begin"] \in DevCalls
  BY DEF DevCalls
<1>3. CASE ReadMarket(r)
  BY <1>1, <1>2, <1>3, DevRequestGoes DEF ReadMarket, RequestGoes, RequestEnds
<1>4. CASE AskGemini(r)
  <2>1. [at |-> "expire", now |-> devClock] \in DevCalls /\ devClock <= devClock
    BY <1>1 DEF DevCalls
  <2> QED BY <1>1, <1>4, <2>1, DevRequestGoes DEF AskGemini, RequestGoes
<1>5. CASE ExpireInTransaction(r)
  <2>1. request[r].now \in 0 .. LastDevTime /\ request[r].now <= devClock
    BY <1>1, <1>5 DEF ExpireInTransaction, DevCalls, DevInv
  <2>2. [at |-> "look", now |-> request[r].now] \in DevCalls
    BY <2>1 DEF DevCalls
  <2> QED BY <1>1, <1>5, <2>1, <2>2, DevRequestGoes DEF ExpireInTransaction, RequestGoes
<1>6. CASE LookAgain(r)
  <2>1. request[r].now \in 0 .. LastDevTime /\ request[r].now <= devClock
    BY <1>1, <1>6 DEF LookAgain, DevCalls, DevInv
  <2>2. [at |-> "insert", now |-> request[r].now, knew |-> Len(made)] \in DevCalls
    BY <1>1, <2>1 DEF DevCalls
  <2>3. ASSUME LiveDev(request[r].now) = {}, NEW p \in DevIds PROVE DeadDev(p, devClock)
    <3>1. made[p] \in DevProposals
      BY DEF DevInv, DevTypeOK, DevIds
    <3> QED BY <1>1, <2>1, <2>3, <3>1, DevAssumption DEF LiveDev, DeadDev, DevProposals
  <2>4. CASE LiveDev(request[r].now) = {}
    BY <1>1, <1>6, <2>1, <2>2, <2>3, <2>4, DevRequestGoes DEF LookAgain, RequestGoes
  <2>5. CASE LiveDev(request[r].now) # {}
    BY <1>1, <1>2, <1>6, <2>5, DevRequestGoes DEF LookAgain, RequestGoes, RequestEnds
  <2> QED BY <2>4, <2>5
<1>7. CASE QuoteDevTrigger(r)
  <2>1. request[r].for \in 1 .. MaxMade
    BY <1>1, <1>7 DEF QuoteDevTrigger, DevCalls
  <2>2. [at |-> "emit", for |-> request[r].for] \in DevCalls
    BY <2>1 DEF DevCalls
  <2>3. request[r].for <= Len(made)
    BY <1>7 DEF QuoteDevTrigger, DevInv
  <2> QED BY <1>1, <1>2, <1>7, <2>2, <2>3, DevRequestGoes DEF QuoteDevTrigger, RequestGoes, RequestEnds
<1>8. CASE EmitDevTrigger(r)
  <2>1. request[r].for \in DevIds
    BY <1>1, <1>8 DEF EmitDevTrigger, DevInv, DevCalls
  <2> QED BY <1>1, <1>2, <1>8, <2>1, DevRequestGoes DEF EmitDevTrigger, RequestGoes, RequestEnds
<1>9. ASSUME NEW p \in DevIds, BuildOwnedDevTriggerPayload(r, p) PROVE DevInv'
  <2>1. p \in 1 .. MaxMade /\ p <= Len(made)
    BY <1>1, DevAssumption
  <2>2. [at |-> "quote", for |-> p] \in DevCalls
    BY <2>1 DEF DevCalls
  <2> QED BY <1>1, <1>9, <2>1, <2>2, DevRequestGoes DEF BuildOwnedDevTriggerPayload, RequestGoes
<1> QED
  BY <1>3, <1>4, <1>5, <1>6, <1>7, <1>8, <1>9

\* The rows age: they lapse, are decided or taken, and time passes.
LEMMA DevRowSteps ==
  ASSUME DevInv,
         \/ \E r \in Operators : CheckActiveProposal(r)
         \/ \E p \in DevIds : DevProposalDecided(p) \/ DevOrderTaken(p)
         \/ ListDevToolsState \/ DevTimePasses \/ UNCHANGED devVars
  PROVE  DevInv'
<1>1. /\ devClock \in 0 .. LastDevTime /\ DevIds = 1 .. Len(made) /\ Len(made) \in 0 .. MaxMade
      /\ \A p \in DevIds : made[p] \in DevProposals
      /\ hits \subseteq DevIds /\ made \in Seq(DevProposals) /\ request \in [Operators -> DevCalls]
  BY DevAssumption DEF DevInv, DevTypeOK, DevIds
<1>2. ASSUME NEW rows, rows \in Seq(DevProposals), Len(rows) = Len(made),
             \A p \in DevIds : Older(made[p], rows[p]),
             made' = rows, UNCHANGED <<devClock, request, hits>>
      PROVE  DevInv'
  <2>1. DevTypeOK'
    BY <1>1, <1>2 DEF DevInv, DevTypeOK, DevIds
  <2> QED BY <1>1, <1>2, <2>1, DevRowsAge
<1>3. ASSUME NEW r \in Operators, CheckActiveProposal(r) PROVE DevInv'
  <2>1. /\ expireDev(devClock) \in Seq(DevProposals) /\ Len(expireDev(devClock)) = Len(made)
        /\ \A p \in DevIds : Older(made[p], expireDev(devClock)[p])
    BY <1>1, ExpireDevKeeps DEF DevInv
  <2>2. made' = expireDev(devClock) /\ UNCHANGED <<devClock, hits>>
        /\ (UNCHANGED request \/ request' = [request EXCEPT ![r] = [at |-> "ask"]])
    BY <1>3 DEF CheckActiveProposal, RequestGoes
  <2>3. CASE UNCHANGED request
    BY <1>2, <2>1, <2>2, <2>3
  <2>4. CASE request' = [request EXCEPT ![r] = [at |-> "ask"]]
    <3>1. [at |-> "ask"] \in DevCalls
      BY DEF DevCalls
    <3>2. /\ request' \in [Operators -> DevCalls] /\ request'[r].at = "ask"
          /\ \A s \in Operators \ {r} : request'[s] = request[s]
      BY <1>1, <2>4, <3>1
    <3>3. DevIds' = DevIds /\ \A p \in DevIds : made'[p] \in DevProposals
      BY <1>1, <2>1, <2>2 DEF DevIds
    <3>4. DevTypeOK'
      BY <1>1, <2>1, <2>2, <3>2, <3>3 DEF DevInv, DevTypeOK
    <3>5. \A p \in DevIds : DeadDev(p, devClock) => DeadDev(p, devClock)'
      BY <2>1, <2>2 DEF DeadDev, Older
    <3> QED BY <2>1, <2>2, <3>2, <3>3, <3>4, <3>5 DEF DevInv, Older
  <2> QED BY <2>2, <2>3, <2>4
<1>4. ASSUME NEW p \in DevIds, DevProposalDecided(p) PROVE DevInv'
  <2>1. PICK row \in DevProposals : made' = [made EXCEPT ![p] = row] /\ Older(made[p], row)
    <3>1. CASE made' = [made EXCEPT ![p] = [made[p] EXCEPT !.status = "EXECUTED", !.order = "OPEN"]]
      <4> USE <1>1 DEF DevProposals, Older
      <4> WITNESS [made[p] EXCEPT !.status = "EXECUTED", !.order = "OPEN"] \in DevProposals
      <4> QED BY <1>1, <3>1 DEF DevProposals, Older
    <3>2. CASE made' = [made EXCEPT ![p] = [made[p] EXCEPT !.status = "SKIPPED"]]
      <4> USE <1>1 DEF DevProposals, Older
      <4> WITNESS [made[p] EXCEPT !.status = "SKIPPED"] \in DevProposals
      <4> QED BY <1>1, <3>2 DEF DevProposals, Older
    <3> QED BY <1>1, <1>4, <3>1, <3>2 DEF DevProposalDecided, DevProposals
  <2>2. made' \in Seq(DevProposals) /\ Len(made') = Len(made) /\ \A q \in DevIds : Older(made[q], made'[q])
    BY <1>1, <2>1 DEF Older
  <2> QED BY <1>2, <1>4, <2>2 DEF DevProposalDecided
<1>5. ASSUME NEW p \in DevIds, DevOrderTaken(p) PROVE DevInv'
  <2>1. made' = [made EXCEPT ![p] = [made[p] EXCEPT !.order = "TAKEN"]]
    BY <1>5 DEF DevOrderTaken
  <2>2. [made[p] EXCEPT !.order = "TAKEN"] \in DevProposals /\ Older(made[p], [made[p] EXCEPT !.order = "TAKEN"])
    BY <1>1 DEF DevProposals, Older
  <2>3. made' \in Seq(DevProposals) /\ Len(made') = Len(made) /\ \A q \in DevIds : Older(made[q], made'[q])
    BY <1>1, <2>1, <2>2 DEF Older
  <2> QED BY <1>2, <1>5, <2>3 DEF DevOrderTaken
<1>6. CASE ListDevToolsState
  <2>1. /\ expireDev(devClock) \in Seq(DevProposals) /\ Len(expireDev(devClock)) = Len(made)
        /\ \A p \in DevIds : Older(made[p], expireDev(devClock)[p])
    BY <1>1, ExpireDevKeeps DEF DevInv
  <2> QED BY <1>2, <1>6, <2>1 DEF ListDevToolsState
<1>7. CASE DevTimePasses
  <2>1. DevTypeOK' /\ devClock <= devClock' /\ \A p \in DevIds : Older(made[p], made'[p])
    BY <1>1, <1>7, DevAssumption DEF DevTimePasses, DevTypeOK, DevIds, DevInv, Older
  <2> QED BY <1>7, <2>1, DevRowsAge DEF DevTimePasses
<1>8. CASE UNCHANGED devVars
  BY <1>1, <1>2, <1>8 DEF devVars, Older
<1> QED
  BY <1>3, <1>4, <1>5, <1>6, <1>7, <1>8

\* Two test proposals are live together only if the transaction of the later had looked
\* before the earlier was committed, for any number of requests and any lifetime
\* (SecondProposalOverlapped).
THEOREM DevToolsCorrect == DevSpec => [](DevTypeOK /\ SecondProposalOverlapped)
<1>1. DevInit => DevInv
  <2> SUFFICES ASSUME DevInit PROVE DevInv
    OBVIOUS
  <2>1. made = <<>> /\ <<>> \in Seq(DevProposals) /\ Len(<<>>) = 0 /\ DevIds = {}
    BY DEF DevInit, DevIds
  <2>2. request \in [Operators -> DevCalls] /\ \A r \in Operators : request[r].at = "idle"
    BY DEF DevInit, DevCalls
  <2>3. devClock \in 0 .. LastDevTime /\ Len(made) <= MaxMade /\ hits \subseteq DevIds
    BY <2>1, DevAssumption DEF DevInit
  <2>4. made \in Seq(DevProposals)
    BY <2>1
  <2> QED BY <2>1, <2>2, <2>3, <2>4 DEF DevInv, DevTypeOK
<1>2. DevInv /\ [DevNext]_devVars => DevInv'
  BY DevRequestSteps, DevRowInserted, DevRowSteps DEF DevNext
<1>3. DevInv => DevTypeOK /\ SecondProposalOverlapped
  <2> SUFFICES ASSUME DevInv, NEW p \in LiveDev(devClock), NEW q \in LiveDev(devClock), p < q
               PROVE  made[q].knew < p
    BY DEF DevInv, SecondProposalOverlapped
  <2>1. /\ p \in DevIds /\ q \in DevIds /\ DevIds = 1 .. Len(made) /\ devClock \in Nat
        /\ made[p] \in DevProposals /\ made[q] \in DevProposals
    BY DEF LiveDev, DevInv, DevTypeOK, DevIds
  <2>2. ~ DeadDev(p, devClock) /\ made[q].knew \in Nat
    BY <2>1, DevAssumption DEF LiveDev, DeadDev, DevProposals
  <2>3. ~ (p <= made[q].knew)
    BY <2>1, <2>2 DEF DevInv
  <2> QED BY <2>1, <2>2, <2>3
<1> QED
  BY <1>1, <1>2, <1>3, PTL DEF DevSpec

--------------------------------------------------------------------------------
(* Arithmetic that the components below share.                             *)

\* The greater of two numbers, and the lesser.
LEMMA MaxOfTwo ==
  ASSUME NEW a \in Int, NEW b \in Int
  PROVE  Max({a, b}) = IF a >= b THEN a ELSE b
<1>1. \A x \in {a, b} : (\A y \in {a, b} : x >= y) <=> x = (IF a >= b THEN a ELSE b)
  OBVIOUS
<1> QED
  BY <1>1 DEF Max

LEMMA MinOfTwo ==
  ASSUME NEW a \in Int, NEW b \in Int
  PROVE  Min({a, b}) = IF a <= b THEN a ELSE b
<1>1. \A x \in {a, b} : (\A y \in {a, b} : x =< y) <=> x = (IF a <= b THEN a ELSE b)
  OBVIOUS
<1> QED
  BY <1>1 DEF Min

\* Multiplication keeps an order, strict or not, and so loses none.
LEMMA ProductsKeepOrder ==
  ASSUME NEW a \in Nat, NEW b \in Nat, NEW c \in Nat
  PROVE  /\ b <= c => a * b <= a * c
         /\ a > 0 /\ a * b <= a * c => b <= c
         /\ a > 0 /\ a * b < a * c => b < c
<1>1. ASSUME NEW x \in Nat, NEW y \in Nat, x <= y PROVE a * x <= a * y
  <2>1. a * (y - x) >= 0
    BY <1>1
  <2>2. a * (y - x) = a * y - a * x
    BY <1>1
  <2> QED BY <1>1, <2>1, <2>2
<1>2. ASSUME a > 0, b > c PROVE a * b > a * c
  <2>1. a * (c + 1) <= a * b
    BY <1>1, <1>2
  <2>2. a * (c + 1) = a * c + a
    OBVIOUS
  <2> QED BY <1>2, <2>1, <2>2
<1> QED
  BY <1>1, <1>2

\* A quotient is the greatest number of divisors that fit.
LEMMA QuotientBounds ==
  ASSUME NEW n \in Nat, NEW d \in Nat \ {0}
  PROVE  /\ n \div d \in Nat
         /\ d * (n \div d) <= n
         /\ n < d * (n \div d) + d
  OBVIOUS

LEMMA QuotientsKeepOrder ==
  ASSUME NEW m \in Nat, NEW n \in Nat, NEW d \in Nat \ {0}, m <= n
  PROVE  m \div d <= n \div d
<1> DEFINE p == m \div d
           q == n \div d
<1>1. p \in Nat /\ q \in Nat /\ d * p <= m /\ n < d * q + d
  BY QuotientBounds
<1> HIDE DEF p, q
<1>2. d * (q + 1) = d * q + d
  BY <1>1
<1>3. d * p < d * (q + 1) => p < q + 1
  BY <1>1, ProductsKeepOrder
<1>4. d * p \in Nat /\ d * q \in Nat /\ d * (q + 1) \in Nat
  BY <1>1
<1>5. d * p < d * (q + 1)
  BY <1>1, <1>2, <1>4
<1> QED
  BY <1>1, <1>3, <1>5 DEF p, q

--------------------------------------------------------------------------------
(* The client of the price history service.                                *)

BarRequests == [key : BarKeys, attempt : 1 .. MaxAttempts, at : {"turn", "sent", "backoff"}, until : Nat]

\* A call of a window is the one in flight for it, its caller waits for that window, and
\* the turn it has reserved comes a spacing before the next free one; bars are cached, and
\* were served, within their times.
HistoryInv ==
  /\ PriceHistoryTypeOK
  /\ \A k \in BarKeys : barCache[k] # NOTHING =>
       /\ barCache[k].bars \in Nat
       /\ barCache[k].expires = barCache[k].bars + CacheTtl
       /\ barCache[k].staleUntil = barCache[k].bars + StaleTtl
  /\ \A r \in BarReaders : requests[r] # NOTHING =>
       /\ requests[r] \in BarRequests
       /\ inFlight[requests[r].key] = r
       /\ readers[r].at = "waiting" /\ readers[r].key = requests[r].key
       /\ requests[r].at # "backoff" => requests[r].until + RequestSpacing <= nextRequestAt
       /\ requests[r].at = "backoff" => requests[r].attempt < MaxAttempts
  /\ HistoryIsPacedAndCurrent

\* The window of now is one of those the model has.
LEMMA WindowOfNow ==
  ASSUME barClock \in 0 .. LastBarTick, NEW asset \in BarAssets
  PROVE  <<asset, barClock \div WindowSpan>> \in BarKeys
<1>0. LastBarTick \in Nat /\ WindowSpan \in Nat \ {0}
  BY HistoryAssumption
<1>1. barClock \in Nat /\ LastBarTick \in Nat /\ barClock <= LastBarTick /\ WindowSpan \in Nat \ {0}
  BY <1>0
<1>2. barClock \div WindowSpan \in Nat /\ LastBarTick \div WindowSpan \in Nat
      /\ barClock \div WindowSpan <= LastBarTick \div WindowSpan
  BY <1>1, QuotientBounds, QuotientsKeepOrder
<1> QED
  BY <1>2 DEF BarKeys

\* A reader that reserves a turn comes a spacing after every other.
LEMMA TurnReserved ==
  ASSUME HistoryInv, NEW r \in BarReaders, NEW key \in BarKeys, NEW attempt \in 1 .. MaxAttempts,
         WaitForRequestTurn(r, key, attempt), UNCHANGED <<barClock, barCache, rateLimitedUntil>>,
         inFlight' \in [BarKeys -> BarReaders \cup {NOTHING}], inFlight'[key] = r,
         \A k \in BarKeys : k # key => inFlight'[k] = inFlight[k],
         \A q \in BarReaders \ {r} : requests[q] # NOTHING => requests[q].key # key,
         DOMAIN readers' = BarReaders, \A q \in BarReaders \ {r} : readers'[q] = readers[q],
         readers'[r].at = "waiting", readers'[r].key = key
  PROVE  HistoryInv'
<1> DEFINE turn == Max({barClock, nextRequestAt})
           call == [key |-> key, attempt |-> attempt, at |-> "turn", until |-> turn]
<1>1. turn \in Nat /\ nextRequestAt <= turn /\ RequestSpacing \in Nat /\ nextRequestAt \in Nat
  BY MaxOfTwo, HistoryAssumption DEF HistoryInv, PriceHistoryTypeOK
<1>2. /\ requests' = [requests EXCEPT ![r] = call] /\ nextRequestAt' = turn + RequestSpacing
      /\ DOMAIN requests = BarReaders
  BY DEF WaitForRequestTurn, HistoryInv, PriceHistoryTypeOK
<1>3. call \in BarRequests /\ call.key = key /\ call.at = "turn" /\ call.until = turn
  BY <1>1 DEF BarRequests
<1> HIDE DEF turn, call
<1>4. /\ DOMAIN requests' = BarReaders /\ requests'[r] = call
      /\ \A q \in BarReaders \ {r} : requests'[q] = requests[q]
  BY <1>2
<1>5. \A q \in BarReaders \ {r} : requests[q] # NOTHING =>
        /\ requests[q] \in BarRequests
        /\ inFlight'[requests[q].key] = q
        /\ readers'[q].at = "waiting" /\ readers'[q].key = requests[q].key
        /\ requests[q].at # "backoff" => requests[q].until + RequestSpacing <= nextRequestAt
        /\ requests[q].at = "backoff" => requests[q].attempt < MaxAttempts
  BY DEF HistoryInv, BarRequests
<1>6. PriceHistoryTypeOK'
  BY <1>1, <1>2, <1>3, <1>4 DEF HistoryInv, PriceHistoryTypeOK, BarRequests
<1>7. \A q \in BarReaders \ {r} : requests[q] # NOTHING /\ requests[q].at # "backoff" =>
        requests[q].until \in Nat /\ requests[q].until + RequestSpacing <= turn
  BY <1>1, <1>5 DEF BarRequests
<1>8. \A q \in BarReaders : requests'[q] # NOTHING =>
        /\ requests'[q] \in BarRequests
        /\ inFlight'[requests'[q].key] = q
        /\ readers'[q].at = "waiting" /\ readers'[q].key = requests'[q].key
        /\ requests'[q].at # "backoff" => requests'[q].until + RequestSpacing <= nextRequestAt'
        /\ requests'[q].at = "backoff" => requests'[q].attempt < MaxAttempts
  <2> TAKE q \in BarReaders
  <2>1. CASE q = r
    BY <1>1, <1>2, <1>3, <1>4, <2>1
  <2>2. CASE q # r
    BY <1>1, <1>2, <1>4, <1>5, <1>7, <2>2
  <2> QED BY <2>1, <2>2
<1>9. HistoryIsPacedAndCurrent'
  <2>1. \A p, q \in Reserved' : p # q =>
          \/ requests'[p].until >= requests'[q].until + RequestSpacing
          \/ requests'[q].until >= requests'[p].until + RequestSpacing
    BY <1>1, <1>3, <1>4, <1>7 DEF HistoryInv, HistoryIsPacedAndCurrent, Reserved
  <2>2. \A p, q \in BarReaders :
          p # q /\ requests'[p] # NOTHING /\ requests'[q] # NOTHING => requests'[p].key # requests'[q].key
    BY <1>3, <1>4 DEF HistoryInv, HistoryIsPacedAndCurrent
  <2>3. \A q \in BarReaders : readers'[q].at = "served" =>
          readers'[q].since = readers'[q].bars \/ readers'[q].since < readers'[q].bars + StaleTtl
    BY DEF HistoryInv, HistoryIsPacedAndCurrent
  <2> QED BY <2>1, <2>2, <2>3 DEF HistoryIsPacedAndCurrent
<1> QED
  BY <1>6, <1>8, <1>9 DEF HistoryInv

\* A reader that is answered, or done, and waits for nothing.
LEMMA ReaderAnswered ==
  ASSUME HistoryInv, NEW r \in BarReaders, requests[r] = NOTHING, NEW now,
         readers' = [readers EXCEPT ![r] = now], now.at \in {"idle", "waiting", "served"},
         now.at = "served" => now.since = now.bars \/ now.since < now.bars + StaleTtl,
         UNCHANGED <<barClock, barCache, inFlight, requests, nextRequestAt, rateLimitedUntil>>
  PROVE  HistoryInv'
<1>1. /\ DOMAIN readers' = BarReaders /\ readers'[r] = now
      /\ \A q \in BarReaders \ {r} : readers'[q] = readers[q]
  BY DEF HistoryInv, PriceHistoryTypeOK
<1> QED
  BY <1>1 DEF HistoryInv, PriceHistoryTypeOK, HistoryIsPacedAndCurrent, Reserved

\* The call of a window ends, with an answer to all that wait for it.
LEMMA CallSettled ==
  ASSUME HistoryInv, NEW r \in BarReaders, requests[r] # NOTHING, NEW answer,
         Settle(r, answer), answer.at \in {"idle", "served"},
         answer.at = "served" => answer.since = answer.bars \/ answer.since < answer.bars + StaleTtl,
         UNCHANGED <<barClock, nextRequestAt>>, rateLimitedUntil' \in Nat,
         DOMAIN barCache' = BarKeys,
         \A k \in BarKeys : barCache'[k] # NOTHING =>
           /\ barCache'[k].bars \in Nat
           /\ barCache'[k].expires = barCache'[k].bars + CacheTtl
           /\ barCache'[k].staleUntil = barCache'[k].bars + StaleTtl
  PROVE  HistoryInv'
<1> DEFINE key == requests[r].key
<1>1. /\ requests' = [requests EXCEPT ![r] = NOTHING]
      /\ inFlight' = [inFlight EXCEPT ![key] = NOTHING]
      /\ readers'  = [q \in BarReaders |->
                        IF readers[q].at = "waiting" /\ readers[q].key = key THEN answer ELSE readers[q]]
  BY DEF Settle
<1>2. /\ DOMAIN requests' = BarReaders /\ requests'[r] = NOTHING
      /\ \A q \in BarReaders \ {r} : requests'[q] = requests[q]
  BY <1>1 DEF HistoryInv, PriceHistoryTypeOK
<1>3. key \in BarKeys /\ inFlight[key] = r
      /\ \A q \in BarReaders \ {r} : requests[q] # NOTHING => requests[q].key # key
  BY DEF HistoryInv, HistoryIsPacedAndCurrent, BarRequests
<1>4. inFlight' \in [BarKeys -> BarReaders \cup {NOTHING}]
      /\ \A k \in BarKeys : k # key => inFlight'[k] = inFlight[k]
  BY <1>1, <1>3 DEF HistoryInv, PriceHistoryTypeOK
<1>5. /\ DOMAIN readers' = BarReaders
      /\ \A q \in BarReaders : readers'[q] = answer \/ readers'[q] = readers[q]
      /\ \A q \in BarReaders : requests'[q] # NOTHING => readers'[q] = readers[q]
  BY <1>1, <1>2, <1>3 DEF HistoryInv
<1> HIDE DEF key
<1>6. PriceHistoryTypeOK'
  BY <1>2, <1>4, <1>5 DEF HistoryInv, PriceHistoryTypeOK
<1>7. HistoryIsPacedAndCurrent'
  BY <1>2, <1>5 DEF HistoryInv, HistoryIsPacedAndCurrent, Reserved
<1>8. \A q \in BarReaders : requests'[q] # NOTHING =>
        q # r /\ requests[q] # NOTHING /\ requests'[q] = requests[q]
        /\ requests[q].key \in BarKeys /\ inFlight'[requests[q].key] = q
  BY <1>2, <1>3, <1>4 DEF HistoryInv, BarRequests
<1> QED
  BY <1>5, <1>6, <1>7, <1>8 DEF HistoryInv

LEMMA HistorySteps ==
  ASSUME HistoryInv, NEW r \in BarReaders,
         \/ \E asset \in BarAssets : GetRecentBars(r, asset)
         \/ SendRequest(r) \/ HandleBars(r)
         \/ \E failure \in {"status", "limited", "body", "transport"} : HandleFailure(r, failure)
         \/ \E delay \in 0 .. MaxRetryAfter : HandleRetry(r, delay)
         \/ NextAttempt(r) \/ UseBars(r)
  PROVE  HistoryInv'
<1>1. /\ barClock \in 0 .. LastBarTick /\ barClock \in Nat /\ nextRequestAt \in Nat /\ rateLimitedUntil \in Nat
      /\ DOMAIN barCache = BarKeys /\ DOMAIN requests = BarReaders /\ DOMAIN readers = BarReaders
      /\ CacheTtl \in Nat /\ StaleTtl \in Nat /\ CacheTtl <= StaleTtl /\ RequestSpacing \in Nat
      /\ MaxAttempts \in Nat \ {0} /\ RateLimitCooldown \in Nat
  BY HistoryAssumption DEF HistoryInv, PriceHistoryTypeOK
<1>2. requests[r] # NOTHING => requests[r] \in BarRequests /\ readers[r].at = "waiting"
  BY DEF HistoryInv
<1>3. ASSUME NEW asset \in BarAssets, GetRecentBars(r, asset) PROVE HistoryInv'
  <2> DEFINE key == <<asset, barClock \div WindowSpan>>
  <2>1. key \in BarKeys /\ requests[r] = NOTHING /\ readers[r].at = "idle"
    BY <1>1, <1>2, <1>3, WindowOfNow DEF GetRecentBars, ReaderIdle
  <2>2. CASE /\ Fresh(key) \/ (RateLimited /\ StandsIn(key))
             /\ Serve(r, barCache[key].bars)
             /\ UNCHANGED <<barClock, barCache, rateLimitedUntil, inFlight, requests, nextRequestAt>>
    <3>1. barCache[key].bars \in Nat /\ barClock < barCache[key].bars + StaleTtl
      BY <1>1, <2>1, <2>2 DEF Fresh, StandsIn, HistoryInv
    <3> QED BY <2>1, <2>2, <3>1, ReaderAnswered DEF Serve
  <2>3. CASE /\ readers' = [readers EXCEPT ![r] = [at |-> "waiting", key |-> key]]
             /\ UNCHANGED <<barClock, barCache, rateLimitedUntil, inFlight, requests, nextRequestAt>>
    BY <2>1, <2>3, ReaderAnswered
  <2>4. CASE /\ inFlight[key] = NOTHING
             /\ readers' = [readers EXCEPT ![r] = [at |-> "waiting", key |-> key]]
             /\ inFlight' = [inFlight EXCEPT ![key] = r]
             /\ WaitForRequestTurn(r, key, 1)
             /\ UNCHANGED <<barClock, barCache, rateLimitedUntil>>
    <3>1. \A q \in BarReaders \ {r} : requests[q] # NOTHING => requests[q].key # key
      BY <2>4, HistoryAssumption DEF HistoryInv
    <3>2. inFlight' \in [BarKeys -> BarReaders \cup {NOTHING}] /\ inFlight'[key] = r
          /\ \A k \in BarKeys : k # key => inFlight'[k] = inFlight[k]
      BY <2>1, <2>4 DEF HistoryInv, PriceHistoryTypeOK
    <3>3. DOMAIN readers' = BarReaders /\ \A q \in BarReaders \ {r} : readers'[q] = readers[q]
          /\ readers'[r].at = "waiting" /\ readers'[r].key = key
      BY <1>1, <2>4
    <3>4. 1 \in 1 .. MaxAttempts
      BY <1>1
    <3> HIDE DEF key
    <3> QED BY <2>1, <2>4, <3>1, <3>2, <3>3, <3>4, TurnReserved
  <2> HIDE DEF key
  <2> QED BY <1>3, <2>2, <2>3, <2>4 DEF GetRecentBars, key
<1>4. ASSUME NEW call \in BarRequests, requests[r] # NOTHING, call.key = requests[r].key,
             call.at \in {"sent", "backoff"},
             call.at = "sent" => requests[r].at = "turn" /\ call.until = requests[r].until,
             call.at = "backoff" => call.attempt < MaxAttempts,
             requests' = [requests EXCEPT ![r] = call],
             UNCHANGED <<barClock, barCache, inFlight, readers, nextRequestAt, rateLimitedUntil>>
      PROVE  HistoryInv'
  <2>1. /\ DOMAIN requests' = BarReaders /\ requests'[r] = call
        /\ \A q \in BarReaders \ {r} : requests'[q] = requests[q]
    BY <1>1, <1>4
  <2>2. PriceHistoryTypeOK'
    BY <1>4, <2>1 DEF HistoryInv, PriceHistoryTypeOK, BarRequests
  <2>3. HistoryIsPacedAndCurrent'
    <3>1. \A q \in Reserved' : q \in Reserved /\ requests'[q].until = requests[q].until
      BY <1>4, <2>1 DEF Reserved
    <3>2. \A q \in BarReaders : requests'[q] # NOTHING =>
            requests[q] # NOTHING /\ requests'[q].key = requests[q].key
      BY <1>4, <2>1
    <3> QED BY <1>4, <3>1, <3>2 DEF HistoryInv, HistoryIsPacedAndCurrent
  <2> QED
    BY <1>4, <2>1, <2>2, <2>3 DEF HistoryInv
<1>5. CASE SendRequest(r)
  <2>1. [requests[r] EXCEPT !.at = "sent"] \in BarRequests
    BY <1>2, <1>5 DEF SendRequest, BarRequests
  <2>2. /\ [requests[r] EXCEPT !.at = "sent"].at = "sent"
        /\ [requests[r] EXCEPT !.at = "sent"].key = requests[r].key
        /\ [requests[r] EXCEPT !.at = "sent"].until = requests[r].until
    BY <1>2, <1>5 DEF SendRequest, BarRequests
  <2>3. requests' = [requests EXCEPT ![r] = [requests[r] EXCEPT !.at = "sent"]]
    BY <1>5 DEF SendRequest
  <2> QED BY <1>4, <1>5, <2>1, <2>2, <2>3 DEF SendRequest
<1>6. ASSUME NEW delay \in 0 .. MaxRetryAfter, HandleRetry(r, delay) PROVE HistoryInv'
  <2> DEFINE call == [requests[r] EXCEPT !.at = "backoff", !.until = barClock + delay]
  <2>1. MaxRetryAfter \in Nat
    BY HistoryAssumption
  <2>2. call \in BarRequests /\ call.at = "backoff" /\ call.key = requests[r].key
        /\ call.attempt < MaxAttempts
    <3>1. barClock + delay \in Nat
      BY <1>1, <2>1
    <3>2. requests[r] \in BarRequests /\ requests[r].attempt < MaxAttempts
      BY <1>2, <1>6 DEF HandleRetry
    <3> QED BY <3>1, <3>2 DEF BarRequests
  <2>3. requests' = [requests EXCEPT ![r] = call]
    BY <1>6 DEF HandleRetry
  <2> HIDE DEF call
  <2> QED BY <1>4, <1>6, <2>2, <2>3 DEF HandleRetry
<1>7. CASE HandleBars(r)
  <2> DEFINE row == [bars |-> barClock, expires |-> barClock + CacheTtl, staleUntil |-> barClock + StaleTtl]
  <2>1. barCache' = [barCache EXCEPT ![requests[r].key] = row] /\ requests[r] # NOTHING
        /\ row.bars \in Nat /\ row.expires = row.bars + CacheTtl /\ row.staleUntil = row.bars + StaleTtl
    BY <1>1, <1>7 DEF HandleBars
  <2> HIDE DEF row
  <2>2. DOMAIN barCache' = BarKeys
        /\ \A k \in BarKeys : barCache'[k] = row \/ barCache'[k] = barCache[k]
    BY <1>1, <2>1
  <2>3. \A k \in BarKeys : barCache'[k] # NOTHING =>
           /\ barCache'[k].bars \in Nat
           /\ barCache'[k].expires = barCache'[k].bars + CacheTtl
           /\ barCache'[k].staleUntil = barCache'[k].bars + StaleTtl
    BY <2>1, <2>2 DEF HistoryInv
  <2> QED BY <1>1, <1>7, <2>1, <2>2, <2>3, CallSettled DEF HandleBars
<1>8. ASSUME NEW failure \in {"status", "limited", "body", "transport"}, HandleFailure(r, failure)
      PROVE  HistoryInv'
  <2> DEFINE key == requests[r].key
             answer == IF failure # "transport" /\ StandsIn(key)
                       THEN [at |-> "served", bars |-> barCache[key].bars, since |-> barClock]
                       ELSE ReaderIdle
  <2>1. key \in BarKeys /\ requests[r] # NOTHING /\ UNCHANGED <<barClock, barCache, nextRequestAt>>
        /\ Settle(r, answer)
    BY <1>2, <1>8 DEF HandleFailure, BarRequests
  <2>2. rateLimitedUntil' \in Nat
    <3>1. barClock + RateLimitCooldown \in Nat
      BY <1>1
    <3> QED BY <1>1, <1>8, <3>1, MaxOfTwo DEF HandleFailure
  <2>3. /\ answer.at \in {"idle", "served"}
        /\ answer.at = "served" => answer.since < answer.bars + StaleTtl
    BY <1>1, <2>1 DEF StandsIn, ReaderIdle, HistoryInv
  <2> HIDE DEF answer
  <2>4. DOMAIN barCache' = BarKeys
        /\ \A k \in BarKeys : barCache'[k] # NOTHING =>
             /\ barCache'[k].bars \in Nat
             /\ barCache'[k].expires = barCache'[k].bars + CacheTtl
             /\ barCache'[k].staleUntil = barCache'[k].bars + StaleTtl
    BY <1>1, <2>1 DEF HistoryInv
  <2>5. UNCHANGED <<barClock, nextRequestAt>>
    BY <2>1
  <2> QED BY <2>1, <2>2, <2>3, <2>4, <2>5, CallSettled
<1>9. CASE NextAttempt(r)
  <2>1. requests[r] # NOTHING /\ requests[r] \in BarRequests /\ requests[r].at = "backoff"
        /\ requests[r].attempt < MaxAttempts /\ inFlight[requests[r].key] = r
        /\ readers[r].at = "waiting" /\ readers[r].key = requests[r].key
    BY <1>9 DEF NextAttempt, HistoryInv
  <2>2. requests[r].key \in BarKeys /\ requests[r].attempt + 1 \in 1 .. MaxAttempts
    BY <1>1, <2>1 DEF BarRequests
  <2>3. \A q \in BarReaders \ {r} : requests[q] # NOTHING => requests[q].key # requests[r].key
    BY <2>1 DEF HistoryInv
  <2>4. UNCHANGED <<inFlight, readers, barClock, barCache, rateLimitedUntil>>
        /\ WaitForRequestTurn(r, requests[r].key, requests[r].attempt + 1)
    BY <1>9 DEF NextAttempt
  <2>5. inFlight \in [BarKeys -> BarReaders \cup {NOTHING}] /\ DOMAIN readers = BarReaders
    BY DEF HistoryInv, PriceHistoryTypeOK
  <2> QED BY <2>1, <2>2, <2>3, <2>4, <2>5, TurnReserved
<1>10. CASE UseBars(r)
  BY <1>2, <1>10, ReaderAnswered DEF UseBars, ReaderIdle
<1> QED
  BY <1>3, <1>5, <1>6, <1>7, <1>8, <1>9, <1>10

\* However many callers ask at once and however their retries fall, for any spacing and any
\* times: no two requests to the service are closer than the spacing or for one window, and
\* no bars older than the stale time are served (HistoryIsPacedAndCurrent).
THEOREM HistoryCorrect == PriceHistorySpec => [](PriceHistoryTypeOK /\ HistoryIsPacedAndCurrent)
<1>1. PriceHistoryInit => HistoryInv
  <2> SUFFICES ASSUME PriceHistoryInit PROVE HistoryInv
    OBVIOUS
  <2>1. \A k \in BarKeys : barCache[k] = NOTHING
    BY DEF PriceHistoryInit
  <2>2. \A r \in BarReaders : requests[r] = NOTHING /\ readers[r].at = "idle"
    BY DEF PriceHistoryInit, ReaderIdle
  <2>3. PriceHistoryTypeOK
    BY <2>1, <2>2, HistoryAssumption DEF PriceHistoryInit, PriceHistoryTypeOK
  <2> QED BY <2>1, <2>2, <2>3 DEF HistoryInv, HistoryIsPacedAndCurrent, Reserved
<1>2. HistoryInv /\ [PriceHistoryNext]_historyVars => HistoryInv'
  <2>1. ASSUME HistoryInv, BarTick PROVE HistoryInv'
    <3>1. barClock' \in 0 .. LastBarTick
      BY <2>1, HistoryAssumption DEF BarTick, HistoryInv, PriceHistoryTypeOK
    <3> QED BY <2>1, <3>1 DEF BarTick, HistoryInv, PriceHistoryTypeOK, HistoryIsPacedAndCurrent, Reserved
  <2>2. ASSUME HistoryInv, UNCHANGED historyVars PROVE HistoryInv'
    BY <2>2 DEF historyVars, HistoryInv, PriceHistoryTypeOK, HistoryIsPacedAndCurrent, Reserved
  <2> QED BY <2>1, <2>2, HistorySteps DEF PriceHistoryNext
<1>3. HistoryInv => PriceHistoryTypeOK /\ HistoryIsPacedAndCurrent
  BY DEF HistoryInv
<1> QED
  BY <1>1, <1>2, <1>3, PTL DEF PriceHistorySpec

--------------------------------------------------------------------------------
(* The thesis of a position.                                               *)

\* The bands of the RSI: it is in one of them at most.
Bands == {"rsi_oversold", "rsi_recovering", "rsi_neutral"}

\* The tags of a BUY name one band at most, and a live SELL is what the monitor's rule
\* says of the market of now.
ThesisInv ==
  /\ ThesisTypeOK
  /\ tags # NOTHING => \A x, y \in tags \cap Bands : x = y
  /\ flipped # NOTHING =>
       /\ tags # NOTHING /\ barCount \in BarCounts
       /\ shouldExit(tags, computeIndicators(reading, barCount))
       /\ flipped = invalidatedBy(tags, computeIndicators(reading, barCount))

LEMMA ThesisTagsAreFinite == IsFiniteSet(THESIS_TAGS)
<1>1. /\ IsFiniteSet({"price_above_ma20"}) /\ IsFiniteSet({"price_above_ma50"})
      /\ IsFiniteSet({"ma20_above_ma50"}) /\ IsFiniteSet({"macd_bullish"})
      /\ IsFiniteSet({"macd_histogram_positive"}) /\ IsFiniteSet({"rsi_oversold"})
      /\ IsFiniteSet({"rsi_recovering"}) /\ IsFiniteSet({"rsi_neutral"})
      /\ IsFiniteSet({"rsi_not_overbought"})
  BY FS_Singleton
<1>2. IsFiniteSet({"price_above_ma20"} \cup {"price_above_ma50"} \cup {"ma20_above_ma50"})
  BY <1>1, FS_Union
<1>3. IsFiniteSet({"macd_bullish"} \cup {"macd_histogram_positive"})
  BY <1>1, FS_Union
<1>4. IsFiniteSet({"rsi_oversold"} \cup {"rsi_recovering"} \cup {"rsi_neutral"} \cup {"rsi_not_overbought"})
  BY <1>1, FS_Union
<1>5. /\ TREND = {"price_above_ma20"} \cup {"price_above_ma50"} \cup {"ma20_above_ma50"}
      /\ TECHNICAL = {"macd_bullish"} \cup {"macd_histogram_positive"}
      /\ MOMENTUM = {"rsi_oversold"} \cup {"rsi_recovering"} \cup {"rsi_neutral"} \cup {"rsi_not_overbought"}
  BY DEF TREND, TECHNICAL, MOMENTUM
<1> QED
  BY <1>2, <1>3, <1>4, <1>5, FS_Union DEF THESIS_TAGS

\* One tag is never the majority of several.
LEMMA OneTagIsNoMajority ==
  ASSUME NEW T, IsFiniteSet(T), NEW S \in SUBSET T, NEW other \in T \ S, \A x, y \in S : x = y
  PROVE  Cardinality(S) * 2 <= Cardinality(T)
<1>1. IsFiniteSet(S) /\ Cardinality(S) \in Nat /\ Cardinality(T) \in Nat
  BY FS_Subset, FS_CardinalityType
<1>2. CASE S = {}
  BY <1>1, <1>2, FS_EmptySet
<1>3. ASSUME NEW x \in S PROVE Cardinality(S) * 2 <= Cardinality(T)
  <2>1. S = {x} /\ Cardinality(S) = 1
    <3>1. S = {x}
      OBVIOUS
    <3> QED BY <3>1, FS_Singleton
  <2>2. /\ IsFiniteSet({x} \cup {other})
        /\ Cardinality({x} \cup {other}) = 2
    <3>1. IsFiniteSet({x}) /\ Cardinality({x}) = 1
      BY FS_Singleton
    <3>2. other \notin {x}
      OBVIOUS
    <3>3. IsFiniteSet({x} \cup {other})
          /\ Cardinality({x} \cup {other})
               = (IF other \in {x} THEN Cardinality({x}) ELSE Cardinality({x}) + 1)
      BY <3>1, FS_AddElement, Zenon
    <3> QED BY <3>1, <3>2, <3>3
  <2>3. {x} \cup {other} \in SUBSET T
    OBVIOUS
  <2>4. 2 <= Cardinality(T)
    BY <2>2, <2>3, FS_Subset
  <2> QED BY <1>1, <2>1, <2>4
<1> QED
  BY <1>2, <1>3

\* What the BUY noted names one band.
LEMMA ExtractedTagsNameOneBand ==
  ASSUME NEW s, s.rsi \in Nat
  PROVE  /\ extractThesisTags(s) \in SUBSET THESIS_TAGS
         /\ \A x, y \in extractThesisTags(s) \cap Bands : x = y
BY DEF extractThesisTags, Bands, predicate

\* Over a full history a position is sold before its exits for a cause: the trend or the
\* MACD is gone, or the RSI is overbought, for any readings and any windows (SellHasCause).
THEOREM ThesisCorrect == ThesisSpec => [](ThesisTypeOK /\ SellHasCause)
<1>1. ThesisInit => ThesisInv
  BY DEF ThesisInit, ThesisInv, ThesisTypeOK
<1>2. ThesisInv /\ [ThesisNext]_thesisVars => ThesisInv'
  <2> SUFFICES ASSUME ThesisInv, [ThesisNext]_thesisVars PROVE ThesisInv'
    OBVIOUS
  <2>1. CASE MarketMoves
    <3>1. reading' \in Markets
      <4>1. reading \in Markets
        BY DEF ThesisInv, ThesisTypeOK
      <4>2. ASSUME NEW level \in Levels
            PROVE  {[reading EXCEPT !.ma20 = level], [reading EXCEPT !.ma50 = level],
                    [reading EXCEPT !.close = level], [reading EXCEPT !.price = level]} \subseteq Markets
        BY <4>1 DEF Markets
      <4>3. ASSUME NEW rsi \in Rsis PROVE [reading EXCEPT !.rsi = rsi] \in Markets
        BY <4>1 DEF Markets
      <4>4. [reading EXCEPT !.rising = ~ reading.rising] \in Markets
        BY <4>1 DEF Markets
      <4> QED BY <2>1, <4>2, <4>3, <4>4 DEF MarketMoves
    <3> QED BY <2>1, <3>1 DEF MarketMoves, ThesisInv, ThesisTypeOK
  <2>2. ASSUME NEW n \in BarCounts, Buy(n) PROVE ThesisInv'
    <3>1. n >= FullWindow /\ n \in Nat /\ FullWindow \in Nat /\ reading \in Markets /\ reading.rsi \in Nat
      BY <2>2, ThesisAssumption DEF Buy, ThesisInv, ThesisTypeOK, Markets
    <3>2. computeIndicators(reading, n) = reading
      BY <3>1 DEF computeIndicators
    <3>3. tags' = extractThesisTags(reading) /\ tags = NOTHING /\ UNCHANGED <<reading, flipped, barCount>>
      BY <2>2, <3>2 DEF Buy
    <3>4. flipped = NOTHING
      BY <3>3 DEF ThesisInv
    <3> QED BY <3>1, <3>3, <3>4, ExtractedTagsNameOneBand DEF ThesisInv, ThesisTypeOK
  <2>3. ASSUME NEW n \in BarCounts, Monitor(n) PROVE ThesisInv'
    <3>1. /\ tags # NOTHING /\ shouldExit(tags, computeIndicators(reading, n))
          /\ flipped' = invalidatedBy(tags, computeIndicators(reading, n))
          /\ barCount' = n /\ UNCHANGED <<reading, tags>>
      BY <2>3 DEF Monitor
    <3>2. flipped' \in SUBSET THESIS_TAGS
      BY <3>1 DEF invalidatedBy, ThesisInv, ThesisTypeOK
    <3> QED BY <3>1, <3>2 DEF ThesisInv, ThesisTypeOK
  <2>4. CASE SellLapses
    BY <2>4 DEF SellLapses, ThesisInv, ThesisTypeOK
  <2>5. CASE UNCHANGED thesisVars
    BY <2>5 DEF thesisVars, ThesisInv, ThesisTypeOK
  <2> QED
    BY <2>1, <2>2, <2>3, <2>4, <2>5 DEF ThesisNext
<1>3. ThesisInv => ThesisTypeOK /\ SellHasCause
  <2> SUFFICES ASSUME ThesisInv, flipped # NOTHING, barCount >= FullWindow,
                      flipped \cap (TREND \cup TECHNICAL) = {},
                      ~ (reading.rsi >= 70), "rsi_not_overbought" \in tags
               PROVE  FALSE
    BY DEF ThesisInv, SellHasCause
  <2>1. /\ tags # NOTHING /\ tags \in SUBSET THESIS_TAGS /\ barCount \in Nat /\ FullWindow \in Nat
        /\ reading.rsi \in Nat
    BY ThesisAssumption DEF ThesisInv, ThesisTypeOK, Markets
  <2>2. computeIndicators(reading, barCount) = reading
    BY <2>1 DEF computeIndicators
  <2>3. flipped = invalidatedBy(tags, reading) /\ shouldExit(tags, reading)
    BY <2>2 DEF ThesisInv
  <2>4. flipped \in SUBSET tags /\ "rsi_not_overbought" \in tags \ flipped
    BY <2>1, <2>3 DEF invalidatedBy, predicate
  <2>5. \A x \in flipped : x \in Bands
    BY <2>1, <2>4 DEF THESIS_TAGS, MOMENTUM, Bands
  <2>6. \A x, y \in flipped : x = y
    BY <2>1, <2>4, <2>5 DEF ThesisInv
  <2>7. IsFiniteSet(tags)
    BY <2>1, ThesisTagsAreFinite, FS_Subset
  <2>8. /\ Cardinality(flipped) * 2 <= Cardinality(tags)
        /\ Cardinality(flipped) \in Nat /\ Cardinality(tags) \in Nat
    BY <2>4, <2>6, <2>7, OneTagIsNoMajority, FS_Subset, FS_CardinalityType
  <2>9. Cardinality(flipped) * 2 > Cardinality(tags)
    BY <2>3 DEF shouldExit
  <2> QED BY <2>8, <2>9
<1> QED
  BY <1>1, <1>2, <1>3, PTL DEF ThesisSpec

--------------------------------------------------------------------------------
(* The arithmetic between an order and its swap.                           *)

LEMMA CeilingBound ==
  ASSUME NEW n \in Nat, NEW d \in Nat \ {0}
  PROVE  (n + d - 1) \div d \in Nat /\ n <= d * ((n + d - 1) \div d)
<1> DEFINE m == n + d - 1
           q == m \div d
<1>1. m \in Nat
  OBVIOUS
<1>2. q \in Nat /\ m < d * q + d
  BY <1>1, QuotientBounds
<1>3. d * q \in Nat
  BY <1>2
<1> HIDE DEF q
<1>4. n <= d * q
  BY <1>2, <1>3
<1> QED
  BY <1>2, <1>4 DEF q, m

LEMMA ProductsAreNat ==
  ASSUME NEW a \in Nat, NEW b \in Nat
  PROVE  a * b \in Nat
OBVIOUS

\* What a swap returns is within the spread of the oracle's price, on both sides.
LEMMA BuyReturnsWithinSpread ==
  ASSUME NEW order \in OrderShape, Buys(order), NEW in \in Nat, NEW price \in Nat \ {0},
         NEW out \in Returns(order, in, price)
  PROVE  out \in Nat \ {0} /\ (1000 * price) * out <= (1000 + Spread) * in * Token
<1> DEFINE d == 1000 * price
           most == (1000 + Spread) * in * Token
           few == (1000 - Spread) * in * Token
<1>1. Spread \in 0 .. 5 /\ Token \in Nat \ {0}
  BY QuotesAssumption
<1>2. d \in Nat \ {0} /\ most \in Nat /\ few \in Nat
  <2>1. d \in Nat \ {0}
    OBVIOUS
  <2>2. 1000 + Spread \in Nat /\ 1000 - Spread \in Nat
    BY <1>1
  <2>3. (1000 + Spread) * in \in Nat /\ (1000 - Spread) * in \in Nat
    BY <2>2, ProductsAreNat
  <2> QED BY <1>1, <2>1, <2>3, ProductsAreNat
<1>3. out \in ((few + d - 1) \div d .. most \div d) \ {0}
  BY DEF Returns
<1> HIDE DEF d, most, few
<1>4. (few + d - 1) \div d \in Nat /\ most \div d \in Nat /\ d * (most \div d) <= most
  BY <1>2, CeilingBound, QuotientBounds
<1>5. out \in Nat \ {0} /\ out <= most \div d
  BY <1>3, <1>4
<1>6. d * out <= d * (most \div d)
  BY <1>2, <1>4, <1>5, ProductsKeepOrder
<1>7. d * out \in Nat /\ d * (most \div d) \in Nat
  BY <1>2, <1>4, <1>5, ProductsAreNat
<1>8. d * out <= most
  BY <1>2, <1>4, <1>6, <1>7
<1> QED
  BY <1>5, <1>8 DEF d, most

LEMMA ExitReturnsWithinSpread ==
  ASSUME NEW order \in OrderShape, ~ Buys(order), NEW in \in Nat, NEW price \in Nat \ {0},
         NEW out \in Returns(order, in, price)
  PROVE  /\ out \in Nat
         /\ ((1000 - Spread) * Token) * out <= 1000 * price * in
         /\ 1000 * price * in <= ((1000 + Spread) * Token) * out
<1> DEFINE n == 1000 * price * in
           more == (1000 + Spread) * Token
           less == (1000 - Spread) * Token
<1>1. Spread \in 0 .. 5 /\ Token \in Nat \ {0}
  BY QuotesAssumption
<1>2. n \in Nat /\ more \in Nat \ {0} /\ less \in Nat \ {0}
  <2>1. 1000 + Spread \in Nat \ {0} /\ 1000 - Spread \in Nat \ {0} /\ 1000 * price \in Nat
    BY <1>1
  <2>2. \A a, b \in Nat \ {0} : a * b \in Nat \ {0}
    OBVIOUS
  <2> QED BY <1>1, <2>1, <2>2, ProductsAreNat
<1>3. out \in (n + more - 1) \div more .. n \div less
  BY DEF Returns
<1> HIDE DEF n, more, less
<1>4. /\ (n + more - 1) \div more \in Nat /\ n <= more * ((n + more - 1) \div more)
      /\ n \div less \in Nat /\ less * (n \div less) <= n
  BY <1>2, CeilingBound, QuotientBounds
<1>5. out \in Nat /\ (n + more - 1) \div more <= out /\ out <= n \div less
  BY <1>3, <1>4
<1>6. more * ((n + more - 1) \div more) <= more * out /\ less * out <= less * (n \div less)
  BY <1>2, <1>4, <1>5, ProductsKeepOrder
<1>7. /\ more * out \in Nat /\ less * out \in Nat
      /\ more * ((n + more - 1) \div more) \in Nat /\ less * (n \div less) \in Nat
  BY <1>2, <1>4, <1>5, ProductsAreNat
<1>8. n <= more * out /\ less * out <= n
  BY <1>2, <1>4, <1>6, <1>7
<1> QED
  BY <1>5, <1>8 DEF n, more, less

\* Whatever may execute at a price within the spread of the mark is inside the band.
LEMMA ExecutableIsInsideTheBand ==
  ASSUME NEW order \in OrderShape, NEW in \in Nat \ {0}, NEW price \in Nat \ {0},
         NEW out \in Returns(order, in, price),
         Triggerable(order, [in |-> in, out |-> out], price)
  PROVE  PythWakeUpBandHit(order, price)
<1> DEFINE t == order.trigger
<1>1. /\ t \in Nat \ {0} /\ order.kind \in {"BUY_TRIGGER", "TAKE_PROFIT", "STOP_LOSS"}
      /\ Spread \in 0 .. 5 /\ Token \in Nat \ {0}
  BY QuotesAssumption DEF OrderShape
<1>2. CASE Buys(order)
  <2>1. out \in Nat \ {0} /\ (1000 * price) * out <= (1000 + Spread) * in * Token
    BY <1>2, BuyReturnsWithinSpread
  <2>2. in * Token <= t * out
    BY <1>2, <2>1 DEF Triggerable, SettlementAmounts, Buys
  <2> HIDE DEF t
  <2>3. in * Token \in Nat /\ t * out \in Nat /\ 1000 + Spread \in Nat /\ 1000 * price \in Nat /\ 1005 * t \in Nat
    BY <1>1, <2>1, ProductsAreNat
  <2>4. (1000 + Spread) * (in * Token) <= (1000 + Spread) * (t * out)
    BY <2>2, <2>3, ProductsKeepOrder
  <2>5. (t * out) * (1000 + Spread) <= (t * out) * 1005
    <3>1. 1000 + Spread <= 1005
      BY <1>1
    <3> QED BY <2>3, <3>1, ProductsKeepOrder
  <2>6. /\ (1000 + Spread) * in * Token = (1000 + Spread) * (in * Token)
        /\ (1000 + Spread) * (t * out) = (t * out) * (1000 + Spread)
        /\ (t * out) * 1005 = out * (1005 * t)
        /\ (1000 * price) * out = out * (1000 * price)
    BY <1>1, <2>1
  <2>7. out * (1000 * price) <= out * (1005 * t)
    <3>1. /\ (1000 + Spread) * (in * Token) \in Nat /\ (1000 + Spread) * (t * out) \in Nat
          /\ out * (1005 * t) \in Nat /\ out * (1000 * price) \in Nat
      BY <2>1, <2>3, ProductsAreNat
    <3> QED BY <2>1, <2>4, <2>5, <2>6, <3>1
  <2>8. 1000 * price <= 1005 * t
    BY <2>1, <2>3, <2>7, ProductsKeepOrder
  <2> QED BY <1>2, <2>8 DEF PythWakeUpBandHit, Buys, t
<1>3. CASE ~ Buys(order)
  <2>1. /\ out \in Nat
        /\ ((1000 - Spread) * Token) * out <= 1000 * price * in
        /\ 1000 * price * in <= ((1000 + Spread) * Token) * out
    BY <1>3, ExitReturnsWithinSpread
  <2>2. /\ out * Token \in Nat /\ t * in \in Nat /\ 1000 * price \in Nat
        /\ 1005 * t \in Nat /\ 995 * t \in Nat /\ 1000 + Spread \in Nat /\ 1000 - Spread \in Nat
    BY <1>1, <2>1, ProductsAreNat
  <2>3. CASE order.kind = "TAKE_PROFIT"
    <3>1. t * in <= out * Token
      BY <1>3, <2>2, <2>3 DEF Triggerable, SettlementAmounts
    <3> HIDE DEF t
    <3>2. (1000 - Spread) * (t * in) <= (1000 - Spread) * (out * Token)
      BY <2>2, <3>1, ProductsKeepOrder
    <3>3. (t * in) * 995 <= (t * in) * (1000 - Spread)
      <4>1. 995 <= 1000 - Spread
        BY <1>1
      <4> QED BY <2>2, <4>1, ProductsKeepOrder
    <3>4. /\ (1000 - Spread) * (out * Token) = ((1000 - Spread) * Token) * out
          /\ (1000 - Spread) * (t * in) = (t * in) * (1000 - Spread)
          /\ (t * in) * 995 = in * (995 * t)
          /\ 1000 * price * in = in * (1000 * price)
      BY <1>1, <2>1
    <3>5. in * (995 * t) <= in * (1000 * price)
      <4>1. /\ (1000 - Spread) * (out * Token) \in Nat /\ (1000 - Spread) * (t * in) \in Nat
            /\ in * (995 * t) \in Nat /\ in * (1000 * price) \in Nat
        BY <2>2, ProductsAreNat
      <4> QED BY <2>1, <3>2, <3>3, <3>4, <4>1
    <3>6. 995 * t <= 1000 * price
      BY <2>2, <3>5, ProductsKeepOrder
    <3> QED BY <2>2, <2>3, <3>6 DEF PythWakeUpBandHit, t
  <2>4. CASE order.kind # "TAKE_PROFIT"
    <3>1. out * Token <= t * in
      BY <1>3, <2>2, <2>4 DEF Triggerable, SettlementAmounts
    <3> HIDE DEF t
    <3>2. (1000 + Spread) * (out * Token) <= (1000 + Spread) * (t * in)
      BY <2>2, <3>1, ProductsKeepOrder
    <3>3. (t * in) * (1000 + Spread) <= (t * in) * 1005
      <4>1. 1000 + Spread <= 1005
        BY <1>1
      <4> QED BY <2>2, <4>1, ProductsKeepOrder
    <3>4. /\ (1000 + Spread) * (out * Token) = ((1000 + Spread) * Token) * out
          /\ (1000 + Spread) * (t * in) = (t * in) * (1000 + Spread)
          /\ (t * in) * 1005 = in * (1005 * t)
          /\ 1000 * price * in = in * (1000 * price)
      BY <1>1, <2>1
    <3>5. in * (1000 * price) <= in * (1005 * t)
      <4>1. /\ (1000 + Spread) * (out * Token) \in Nat /\ (1000 + Spread) * (t * in) \in Nat
            /\ in * (1005 * t) \in Nat /\ in * (1000 * price) \in Nat
        BY <2>2, ProductsAreNat
      <4> QED BY <2>1, <3>2, <3>3, <3>4, <4>1
    <3>6. 1000 * price <= 1005 * t
      BY <2>2, <3>5, ProductsKeepOrder
    <3> QED BY <2>4, <3>6 DEF PythWakeUpBandHit, t
  <2> QED BY <2>3, <2>4
<1> QED
  BY <1>2, <1>3

\* What is submitted is an amount, when it is anything.
LEMMA SubmittedIsAnAmount ==
  ASSUME NEW order \in OrderShape, NEW walletRaw \in Nat, SubmittedInputRaw(order, walletRaw) # NOTHING
  PROVE  SubmittedInputRaw(order, walletRaw) \in Nat \ {0}
<1>1. RequestedRaw(order) \in Nat
  BY DEF RequestedRaw, OrderShape
<1> QED
  BY <1>1 DEF SubmittedInputRaw

\* A quote is there when there is something to sign.
QuotesInv ==
  /\ QuotesTypeOK
  /\ phase = "quoted" => quoted \in [in : Nat \ {0}, out : Nat]

\* The wake-up band loses no price at which an order may execute, for any prices, sizes,
\* balances and decimals of a token, as long as a quote is within half a percent of the
\* mark (BandCoversExecutableQuotes).
THEOREM QuotesCorrect == QuotesSpec => [](QuotesTypeOK /\ BandCoversExecutableQuotes)
<1> USE QuotesAssumption
<1>1. QuotesInit => QuotesInv
  BY DEF QuotesInit, QuotesInv, QuotesTypeOK
<1>2. QuotesInv /\ [QuotesNext]_quoteVars => QuotesInv'
  <2> SUFFICES ASSUME QuotesInv, [QuotesNext]_quoteVars PROVE QuotesInv'
    OBVIOUS
  <2>1. CASE PriceMoves \/ WalletMoves \/ WakeOrder \/ UNCHANGED quoteVars
    BY <2>1 DEF PriceMoves, WalletMoves, WakeOrder, quoteVars, QuotesInv, QuotesTypeOK
  <2>2. CASE QuoteOrder
    <3> DEFINE in == SubmittedInputRaw(openOrder, funds)
    <3>1. openOrder \in OrderShape /\ mark \in Nat \ {0} /\ funds \in Nat
      BY DEF QuotesInv, QuotesTypeOK
    <3>2. CASE in = NOTHING
      BY <2>2, <3>2 DEF QuoteOrder, QuotesInv, QuotesTypeOK
    <3>3. CASE in # NOTHING
      <4>1. in \in Nat \ {0}
        BY <3>1, <3>3, SubmittedIsAnAmount
      <4>2. ASSUME NEW out \in Returns(openOrder, in, mark) PROVE out \in Nat
        BY <3>1, <4>1, <4>2, BuyReturnsWithinSpread, ExitReturnsWithinSpread
      <4>3. PICK out \in Returns(openOrder, in, mark) :
              \/ phase' = "quoted" /\ quoted' = [in |-> in, out |-> out]
              \/ phase' = "watched" /\ UNCHANGED quoted
        BY <2>2, <3>3 DEF QuoteOrder
      <4>4. [in |-> in, out |-> out] \in [in : Nat \ {0}, out : Nat]
        BY <4>1, <4>2
      <4> HIDE DEF in
      <4> QED BY <2>2, <4>3, <4>4 DEF QuoteOrder, QuotesInv, QuotesTypeOK
    <3> QED BY <3>2, <3>3
  <2>3. CASE SwapOrder
    BY <2>3 DEF SwapOrder, QuotesInv, QuotesTypeOK, SettlementAmounts
  <2> QED
    BY <2>1, <2>2, <2>3 DEF QuotesNext
<1>3. QuotesInv => QuotesTypeOK /\ BandCoversExecutableQuotes
  <2> SUFFICES ASSUME QuotesInv, SubmittedInputRaw(openOrder, funds) # NOTHING,
                      NEW out \in Returns(openOrder, SubmittedInputRaw(openOrder, funds), mark),
                      Triggerable(openOrder, [in |-> SubmittedInputRaw(openOrder, funds), out |-> out], mark)
               PROVE  PythWakeUpBandHit(openOrder, mark)
    BY DEF QuotesInv, BandCoversExecutableQuotes
  <2>1. openOrder \in OrderShape /\ mark \in Nat \ {0} /\ funds \in Nat
    BY DEF QuotesInv, QuotesTypeOK
  <2> QED BY <2>1, SubmittedIsAnAmount, ExecutableIsInsideTheBand
<1> QED
  BY <1>1, <1>2, <1>3, PTL DEF QuotesSpec

--------------------------------------------------------------------------------
(* The terms of a BUY proposal.                                            *)

\* toFixed gives a multiple of the unit, within half a unit, and crosses no other multiple.
LEMMA ToFixedIsNear ==
  ASSUME NEW x \in Int, NEW unit \in Nat \ {0}, NEW y \in ToFixed(x, unit)
  PROVE  /\ \E k \in Int : y = k * unit
         /\ 2 * (x - y) <= unit /\ 2 * (y - x) <= unit
<1>1. x \div unit \in Int
  OBVIOUS
<1>2. PICK d \in {0, 1} :
        /\ y = (x \div unit + d) * unit
        /\ 2 * (x - (x \div unit + d) * unit) <= unit /\ - 2 * (x - (x \div unit + d) * unit) <= unit
  BY DEF ToFixed
<1> DEFINE k == x \div unit + d
<1>3. k \in Int /\ k * unit \in Int
  BY <1>1
<1>4. y = k * unit /\ 2 * (x - k * unit) <= unit /\ - 2 * (x - k * unit) <= unit
  BY <1>2
<1> HIDE DEF k
<1>5. 2 * (x - y) <= unit /\ 2 * (y - x) <= unit
  BY <1>3, <1>4
<1> QED
  BY <1>3, <1>4, <1>5

LEMMA ToFixedKeepsMultiples ==
  ASSUME NEW x \in Int, NEW unit \in Nat \ {0}, NEW y \in ToFixed(x, unit), NEW m \in Int
  PROVE  /\ x <= m * unit => y <= m * unit
         /\ x >= m * unit => y >= m * unit
<1>1. PICK k \in Int : y = k * unit
  BY ToFixedIsNear
<1>2. 2 * (x - y) <= unit /\ 2 * (y - x) <= unit
  BY ToFixedIsNear
<1>3. m * unit \in Int /\ k * unit \in Int
  OBVIOUS
<1>4. k > m => k * unit >= m * unit + unit
  <2> SUFFICES ASSUME k > m PROVE k * unit >= m * unit + unit
    OBVIOUS
  <2>1. (k - m - 1) * unit \in Nat
    OBVIOUS
  <2>2. (k - m - 1) * unit = k * unit - m * unit - unit
    OBVIOUS
  <2> QED BY <1>3, <2>1, <2>2
<1>5. k < m => k * unit + unit <= m * unit
  <2> SUFFICES ASSUME k < m PROVE k * unit + unit <= m * unit
    OBVIOUS
  <2>1. (m - k - 1) * unit \in Nat
    OBVIOUS
  <2>2. (m - k - 1) * unit = m * unit - k * unit - unit
    OBVIOUS
  <2> QED BY <1>3, <2>1, <2>2
<1>6. (k = m => k * unit = m * unit) /\ (k = m \/ k < m \/ k > m)
  OBVIOUS
<1> HIDE DEF ToFixed
<1> QED
  BY <1>1, <1>2, <1>3, <1>4, <1>5, <1>6

\* The size is within the limit of the mandate, which is in whole cents.
LEMMA SizeIsWithinTheLimit ==
  ASSUME NEW cash \in Nat, NEW limit \in Nat, limit % Cent = 0, NEW size \in SuggestedSizes(cash, limit)
  PROVE  size \in Nat /\ size <= limit
<1>1. CASE cash = 0 \/ limit = 0
  BY <1>1 DEF SuggestedSizes
<1>2. CASE ~ (cash = 0 \/ limit = 0)
  <2> DEFINE sized == IF cash < 5 * MinSuggestedSize
                      THEN Min({cash, MinSuggestedSize})
                      ELSE ((cash + 5 * RoundIncrement - 1) \div (5 * RoundIncrement)) * RoundIncrement
             least == Min({sized, cash, limit})
  <2>1. sized \in Nat
    <3>1. Min({cash, MinSuggestedSize}) \in Nat
      BY MinOfTwo DEF MinSuggestedSize
    <3>2. ((cash + 5 * RoundIncrement - 1) \div (5 * RoundIncrement)) * RoundIncrement \in Nat
      BY DEF RoundIncrement
    <3> QED BY <3>1, <3>2
  <2>2. size \in ToFixed(least, Cent)
    BY <1>2 DEF SuggestedSizes
  <2> HIDE DEF sized
  <2>3. least \in Nat /\ least <= limit
    <3>1. \E x \in {sized, cash, limit} : \A y \in {sized, cash, limit} : x =< y
      BY <2>1
    <3>2. least \in {sized, cash, limit} /\ \A y \in {sized, cash, limit} : least =< y
      BY <3>1 DEF Min
    <3> QED BY <2>1, <3>2
  <2> HIDE DEF least
  <2>4. 10 \in Nat \ {0} /\ 0 * 10 = 0 /\ limit = (limit \div 10) * 10 /\ limit \div 10 \in Int
    BY DEF Cent
  <2>5. PICK k \in Int : size = k * 10
    BY <2>2, <2>3, <2>4, ToFixedIsNear DEF Cent
  <2>6. size >= 0 * 10 /\ size <= (limit \div 10) * 10
    BY <2>2, <2>3, <2>4, ToFixedKeepsMultiples DEF Cent
  <2> QED BY <2>4, <2>5, <2>6
<1> QED
  BY <1>1, <1>2

\* A share of a price in whole cents.
LEMMA ShareOfCents ==
  ASSUME NEW k \in Int, NEW p \in Int
  PROVE  Share(k * CentOfPrice, p) = k * p
<1>1. k * p \in Int
  OBVIOUS
<1>2. (k * 1000) * p = 1000 * (k * p)
  OBVIOUS
<1>3. \A n \in Int : (1000 * n) \div 1000 = n
  OBVIOUS
<1> QED
  BY <1>1, <1>2, <1>3 DEF Share, CentOfPrice

\* The exits that are built lie on their sides of the trigger.
LEMMA PricesBracketTheTrigger ==
  ASSUME NEW a \in MarketAnalyses, NEW d \in Drawdowns, NEW p \in BuildPrices(a, d), p.trigger > 0
  PROVE  /\ p.trigger \in Nat /\ p.takeProfit \in Int /\ p.stopLoss \in Int
         /\ p = [trigger |-> p.trigger, takeProfit |-> p.takeProfit, stopLoss |-> p.stopLoss]
         /\ p.stopLoss <= p.trigger /\ p.trigger <= p.takeProfit
         /\ p.trigger > 100 * CentOfPrice => p.stopLoss < p.trigger /\ p.trigger < p.takeProfit
<1> DEFINE fixed == Else(a.trigger, Share(a.price, 997))
           rawTp(t) == Else(a.takeProfit, Share(t, 1000 + Else(a.tpPct, 40)))
           rawSl(t) == Else(a.stopLoss, Share(t, 1000 - Else(a.slPct, 25)))
           below(t) == Min({rawSl(t), Share(t, 995)})
           capped(t) == IF d = NOTHING THEN below(t) ELSE Max({below(t), Share(t, 1000 - d)})
<1>1. a \in AnalysisShape /\ d \in (30 .. 1000) \cup {NOTHING}
  BY TermsAssumption
<1> DEFINE terms(t) == {[trigger |-> t, takeProfit |-> tp, stopLoss |-> sl] :
                          tp \in ToFixed(Max({rawTp(t), Share(t, 1010)}), CentOfPrice),
                          sl \in ToFixed(capped(t), CentOfPrice)}
<1>b. BuildPrices(a, d) = UNION {terms(t) : t \in ToFixed(fixed, CentOfPrice)}
  BY DEF BuildPrices
<1> HIDE DEF terms, fixed, rawTp, rawSl, below, capped
<1>p. PICK t \in ToFixed(fixed, CentOfPrice) : p \in terms(t)
  BY <1>b
<1>0. \E tp \in ToFixed(Max({rawTp(t), Share(t, 1010)}), CentOfPrice), sl \in ToFixed(capped(t), CentOfPrice) :
        p = [trigger |-> t, takeProfit |-> tp, stopLoss |-> sl]
  <2> DEFINE T == ToFixed(Max({rawTp(t), Share(t, 1010)}), CentOfPrice)
             S == ToFixed(capped(t), CentOfPrice)
  <2>1. p \in {[trigger |-> t, takeProfit |-> tp, stopLoss |-> sl] : tp \in T, sl \in S}
    BY <1>p DEF terms
  <2> HIDE DEF T, S
  <2>2. \E tp \in T, sl \in S : p = [trigger |-> t, takeProfit |-> tp, stopLoss |-> sl]
    BY <2>1
  <2> QED BY <2>2 DEF T, S
<1>2. PICK tp \in ToFixed(Max({rawTp(t), Share(t, 1010)}), CentOfPrice), sl \in ToFixed(capped(t), CentOfPrice) :
        p = [trigger |-> t, takeProfit |-> tp, stopLoss |-> sl]
  BY <1>0
<1>3. fixed \in Int
  BY <1>1 DEF AnalysisShape, Else, Share, fixed
<1>4. PICK k \in Int : t = k * CentOfPrice
  BY <1>3, ToFixedIsNear DEF CentOfPrice
<1>5. t = 1000 * k /\ t > 0 /\ k \in Nat \ {0} /\ t \in Nat
  BY <1>2, <1>4 DEF CentOfPrice
<1>6. Share(t, 995) = k * 995 /\ Share(t, 1010) = k * 1010
      /\ (d # NOTHING => Share(t, 1000 - d) = k * (1000 - d))
  BY <1>1, <1>4, ShareOfCents
<1>7. rawTp(t) \in Int /\ rawSl(t) \in Int
  <2>1. Else(a.tpPct, 40) \in Int /\ Else(a.slPct, 25) \in Int
    BY <1>1 DEF AnalysisShape, Else
  <2>2. Share(t, 1000 + Else(a.tpPct, 40)) = k * (1000 + Else(a.tpPct, 40))
        /\ Share(t, 1000 - Else(a.slPct, 25)) = k * (1000 - Else(a.slPct, 25))
    <3>1. \A q \in Int : Share(t, q) = k * q
      BY <1>4, ShareOfCents
    <3>2. 1000 + Else(a.tpPct, 40) \in Int /\ 1000 - Else(a.slPct, 25) \in Int
      BY <2>1
    <3> QED BY <3>1, <3>2
  <2>3. Share(t, 1000 + Else(a.tpPct, 40)) \in Int /\ Share(t, 1000 - Else(a.slPct, 25)) \in Int
    BY <2>1, <2>2
  <2> QED BY <1>1, <2>3 DEF AnalysisShape, Else, rawTp, rawSl
<1>8. below(t) \in Int /\ below(t) <= 995 * k
  BY <1>5, <1>6, <1>7, MinOfTwo DEF below
<1>9. capped(t) \in Int /\ capped(t) <= 995 * k
  <2>1. CASE d = NOTHING
    BY <1>8, <2>1 DEF capped
  <2>2. CASE d # NOTHING
    <3>1. d \in 30 .. 1000
      BY <1>1, <2>2
    <3>2. 1000 - d \in Nat /\ 1000 - d <= 995
      BY <3>1
    <3>3. k * (1000 - d) <= k * 995 /\ k * (1000 - d) \in Int
      BY <1>5, <3>2, ProductsKeepOrder
    <3>4. Share(t, 1000 - d) = k * (1000 - d)
      BY <1>6, <2>2
    <3> QED BY <1>5, <1>8, <2>2, <3>3, <3>4, MaxOfTwo DEF capped
  <2> QED BY <2>1, <2>2
<1>10. Max({rawTp(t), Share(t, 1010)}) \in Int /\ Max({rawTp(t), Share(t, 1010)}) >= 1010 * k
  BY <1>5, <1>6, <1>7, MaxOfTwo
<1>11. /\ tp \in Int /\ 2 * (Max({rawTp(t), Share(t, 1010)}) - tp) <= 1000 /\ tp >= k * 1000
  BY <1>5, <1>10, ToFixedIsNear, ToFixedKeepsMultiples DEF CentOfPrice
<1>12. /\ sl \in Int /\ 2 * (sl - capped(t)) <= 1000 /\ sl <= k * 1000
  BY <1>5, <1>9, ToFixedIsNear, ToFixedKeepsMultiples DEF CentOfPrice
<1>13. t > 100 * CentOfPrice => sl < t /\ t < tp
  <2> SUFFICES ASSUME t > 100000 PROVE sl < t /\ t < tp
    BY DEF CentOfPrice
  <2>1. k > 100
    BY <1>5
  <2> QED BY <1>5, <1>9, <1>10, <1>11, <1>12, <2>1
<1> QED
  BY <1>2, <1>5, <1>11, <1>12, <1>13

\* A proposal created from any reading of the wallet.
LEMMA CreationKeepsTerms ==
  ASSUME NEW context, context.cash \in Nat, NEW a \in MarketAnalyses, NEW d \in Drawdowns,
         NEW limit \in TradeLimits, CreateBuyProposal(context, a, d, limit),
         ExitsBracketTheTrigger,
         created # NOTHING => /\ created.size \in Nat
                              /\ created.prices \in [trigger : Nat, takeProfit : Nat, stopLoss : Nat]
  PROVE  /\ ExitsBracketTheTrigger'
         /\ created' # NOTHING => /\ created'.size \in Nat
                                  /\ created'.prices \in [trigger : Nat, takeProfit : Nat, stopLoss : Nat]
<1>1. limit \in Nat /\ limit % Cent = 0
  BY TermsAssumption
<1>2. PICK size \in SuggestedSizes(context.cash, limit), prices \in BuildPrices(a, d) :
        created' = IF size > 0 /\ prices.trigger > 0 /\ prices.takeProfit > 0 /\ prices.stopLoss > 0
                   THEN [size |-> size, prices |-> prices, impact |-> BuildPositionImpact(size, context),
                         context |-> context, limit |-> limit]
                   ELSE created
  BY DEF CreateBuyProposal
<1>3. size \in Nat /\ size <= limit
  BY <1>1, SizeIsWithinTheLimit
<1>4. CASE created' = created
  BY <1>4 DEF ExitsBracketTheTrigger
<1>5. CASE created' # created
  <2>1. /\ prices.trigger > 0 /\ prices.takeProfit > 0 /\ prices.stopLoss > 0
        /\ created'.size = size /\ created'.prices = prices /\ created'.limit = limit
    BY <1>2, <1>5
  <2>2. /\ prices.trigger \in Nat /\ prices.takeProfit \in Int /\ prices.stopLoss \in Int
        /\ prices = [trigger |-> prices.trigger, takeProfit |-> prices.takeProfit, stopLoss |-> prices.stopLoss]
        /\ prices.stopLoss <= prices.trigger /\ prices.trigger <= prices.takeProfit
        /\ prices.trigger > 100 * CentOfPrice =>
             prices.stopLoss < prices.trigger /\ prices.trigger < prices.takeProfit
    BY <2>1, PricesBracketTheTrigger
  <2>3. prices \in [trigger : Nat, takeProfit : Nat, stopLoss : Nat]
    BY <2>1, <2>2
  <2> QED BY <1>3, <2>1, <2>2, <2>3 DEF ExitsBracketTheTrigger
<1> QED
  BY <1>4, <1>5

\* The exits of a proposal bracket its trigger and its size is within the mandate's limit,
\* for any analyses, drawdowns, limits and readings of the wallet (ExitsBracketTheTrigger).
THEOREM TermsCorrect == TermsSpec => [](TermsTypeOK /\ ExitsBracketTheTrigger)
<1> DEFINE Inv == TermsTypeOK /\ ExitsBracketTheTrigger
<1>1. TermsInit => Inv
  BY TermsAssumption DEF TermsInit, TermsTypeOK, ExitsBracketTheTrigger
<1>2. Inv /\ [TermsNext]_termsVars => Inv'
  <2> SUFFICES ASSUME Inv, [TermsNext]_termsVars PROVE Inv'
    OBVIOUS
  <2>t. /\ wallet.cash \in Nat /\ wallet.asset \in Nat /\ balanceClock \in 0 .. LastBalanceTick
        /\ LastBalanceTick \in Nat
    <3>1. wallet \in [cash : CashAmounts, asset : AssetAmounts] /\ balanceClock \in 0 .. LastBalanceTick
      BY DEF TermsTypeOK
    <3>2. CashAmounts \subseteq Nat /\ AssetAmounts \subseteq Nat /\ LastBalanceTick \in Nat
      BY TermsAssumption
    <3> HIDE DEF Inv
    <3> QED BY <3>1, <3>2
  <2>1. CASE WalletChanges \/ BalanceTick \/ UNCHANGED termsVars
    BY <2>1, <2>t DEF WalletChanges, BalanceTick, termsVars, TermsTypeOK, ExitsBracketTheTrigger
  <2>2. CASE GenerateProposal
    <3>1. PICK answering \in SUBSET {"token", "token2022"} :
            /\ balances' = IF Kept THEN balances ELSE ReadBalances(answering)
            /\ \E a \in MarketAnalyses, d \in Drawdowns, limit \in TradeLimits :
                 CreateBuyProposal(PositionImpactContext(IF Kept THEN balances ELSE ReadBalances(answering)),
                                   a, d, limit)
            /\ UNCHANGED <<balanceClock, wallet>>
      BY <2>2 DEF GenerateProposal
    <3> DEFINE read == IF Kept THEN balances ELSE ReadBalances(answering)
    <3>2. read \in [at : 0 .. LastBalanceTick, cash : Nat, asset : Nat]
      BY <2>t DEF Kept, ReadBalances, TermsTypeOK
    <3> HIDE DEF read
    <3>3. PositionImpactContext(read).cash \in Nat
      BY <3>2 DEF PositionImpactContext
    <3>4. balances' = read /\ \E a \in MarketAnalyses, d \in Drawdowns, limit \in TradeLimits :
                                CreateBuyProposal(PositionImpactContext(read), a, d, limit)
      BY <3>1 DEF read
    <3> QED BY <3>1, <3>2, <3>3, <3>4, CreationKeepsTerms DEF TermsTypeOK
  <2>3. CASE CreateFromFreshCash
    <3>1. FreshContext.cash \in Nat
      BY <2>t DEF FreshContext
    <3> QED BY <2>3, <3>1, CreationKeepsTerms DEF CreateFromFreshCash, TermsTypeOK
  <2> QED
    BY <2>1, <2>2, <2>3 DEF TermsNext
<1> QED
  BY <1>1, <1>2, PTL DEF TermsSpec

--------------------------------------------------------------------------------
(* The calendars of the null controls.                                     *)

\* Every month reaches its term, and December has 31 days.
LEMMA MonthsAreLong ==
  ASSUME NEW y \in Nat, NEW m \in 1 .. 12
  PROVE  DaysOfMonth(y, m) \in 28 .. 31 /\ DaysOfMonth(y, 12) = 31
  BY DEF DaysOfMonth

\* The next day is the next of the month, the first of the next month, or New Year.
LEMMA DayAfterIs ==
  ASSUME NEW d, CivilDate(d)
  PROVE  \E y \in Nat, m \in 1 .. 12, t \in 1 .. 31 :
           /\ d = Date(y, m, t) /\ t <= DaysOfMonth(y, m) /\ DaysOfMonth(y, m) \in 28 .. 31
           /\ \/ t < DaysOfMonth(y, m) /\ DayAfter(d) = Date(y, m, t + 1)
              \/ m < 12 /\ t = DaysOfMonth(y, m) /\ DayAfter(d) = Date(y, m + 1, 1)
              \/ m = 12 /\ t = 31 /\ DayAfter(d) = Date(y + 1, 1, 1)
<1>1. PICK y \in Nat, m \in 1 .. 12, t \in 1 .. 31 : d = Date(y, m, t) /\ t <= DaysOfMonth(y, m)
  BY DEF CivilDate, Date
<1>2. d.year = y /\ d.month = m /\ d.day = t
  BY <1>1 DEF Date
<1>3. DaysOfMonth(y, m) \in 28 .. 31 /\ DaysOfMonth(y, 12) = 31
  BY MonthsAreLong
<1>4. DayAfter(d) = IF t < DaysOfMonth(y, m) THEN Date(y, m, t + 1)
                    ELSE IF m < 12 THEN Date(y, m + 1, 1) ELSE Date(y + 1, 1, 1)
  BY <1>2 DEF DayAfter
<1>5. /\ d = Date(y, m, t) /\ t <= DaysOfMonth(y, m) /\ DaysOfMonth(y, m) \in 28 .. 31
      /\ \/ t < DaysOfMonth(y, m) /\ DayAfter(d) = Date(y, m, t + 1)
         \/ m < 12 /\ t = DaysOfMonth(y, m) /\ DayAfter(d) = Date(y, m + 1, 1)
         \/ m = 12 /\ t = 31 /\ DayAfter(d) = Date(y + 1, 1, 1)
  <2>1. DaysOfMonth(y, m) \in Int /\ (m = 12 => DaysOfMonth(y, m) = 31)
    BY <1>3
  <2> QED BY <1>1, <1>3, <1>4, <2>1
<1> QED BY <1>5

\* A day within its month is a civil date.
LEMMA DateIsCivil ==
  ASSUME NEW y \in Nat, NEW m \in 1 .. 12, NEW t \in Nat, t >= 1, t <= DaysOfMonth(y, m)
  PROVE  CivilDate(Date(y, m, t))
<1>1. t \in 1 .. 31
  BY MonthsAreLong
<1> QED BY <1>1 DEF CivilDate, Date

\* ... and is a civil date again.
LEMMA DayAfterIsCivil ==
  ASSUME NEW d, CivilDate(d)
  PROVE  CivilDate(DayAfter(d))
<1>1. PICK y \in Nat, m \in 1 .. 12, t \in 1 .. 31 :
        \/ t < DaysOfMonth(y, m) /\ DayAfter(d) = Date(y, m, t + 1)
        \/ m < 12 /\ DayAfter(d) = Date(y, m + 1, 1)
        \/ DayAfter(d) = Date(y + 1, 1, 1)
  BY DayAfterIs
<1>2. \A yy \in Nat, mm \in 1 .. 12 : DaysOfMonth(yy, mm) \in 28 .. 31
  BY MonthsAreLong
<1>3. CASE t < DaysOfMonth(y, m) /\ DayAfter(d) = Date(y, m, t + 1)
  <2>1. t + 1 \in Nat /\ t + 1 >= 1 /\ t + 1 <= DaysOfMonth(y, m)
    BY <1>2, <1>3
  <2> QED BY <1>3, <2>1, DateIsCivil
<1>4. CASE m < 12 /\ DayAfter(d) = Date(y, m + 1, 1)
  <2>1. m + 1 \in 1 .. 12 /\ 1 <= DaysOfMonth(y, m + 1)
    BY <1>2, <1>4
  <2> QED BY <1>4, <2>1, DateIsCivil
<1>5. CASE DayAfter(d) = Date(y + 1, 1, 1)
  <2>1. y + 1 \in Nat /\ 1 <= DaysOfMonth(y + 1, 1)
    BY <1>2
  <2> QED BY <1>5, <2>1, DateIsCivil
<1> QED BY <1>1, <1>3, <1>4, <1>5

\* The Julian day number within a month, from one month to the next, and at New Year.
LEMMA JulianSameMonth ==
  ASSUME NEW y \in Nat, NEW m \in 1 .. 12, NEW t \in Nat
  PROVE  julianDayNumber(Date(y, m, t + 1)) = julianDayNumber(Date(y, m, t)) + 1
  BY DEF julianDayNumber, Date

LEMMA JulianNextMonth ==
  ASSUME NEW y \in Nat, NEW m \in 1 .. 11
  PROVE  julianDayNumber(Date(y, m + 1, 1)) = julianDayNumber(Date(y, m, DaysOfMonth(y, m))) + 1
<1>1. CASE m = 1
  BY <1>1 DEF julianDayNumber, DaysOfMonth, Date
<1>2. CASE m = 2
  BY <1>2 DEF julianDayNumber, DaysOfMonth, isLeap, Date
<1>3. CASE m \in {3, 4, 5}
  BY <1>3 DEF julianDayNumber, DaysOfMonth, Date
<1>4. CASE m \in {6, 7, 8}
  BY <1>4 DEF julianDayNumber, DaysOfMonth, Date
<1>5. CASE m \in {9, 10, 11}
  BY <1>5 DEF julianDayNumber, DaysOfMonth, Date
<1> QED BY <1>1, <1>2, <1>3, <1>4, <1>5

LEMMA JulianNextYear ==
  ASSUME NEW y \in Nat
  PROVE  julianDayNumber(Date(y + 1, 1, 1)) = julianDayNumber(Date(y, 12, 31)) + 1
  BY DEF julianDayNumber, Date

\* The Julian day number counts the days.
LEMMA JulianCountsDays ==
  ASSUME NEW d, CivilDate(d)
  PROVE  /\ julianDayNumber(d) \in Int
         /\ julianDayNumber(DayAfter(d)) = julianDayNumber(d) + 1
<1>1. PICK y \in Nat, m \in 1 .. 12, t \in 1 .. 31 :
        /\ d = Date(y, m, t) /\ t <= DaysOfMonth(y, m) /\ DaysOfMonth(y, m) \in 28 .. 31
        /\ \/ t < DaysOfMonth(y, m) /\ DayAfter(d) = Date(y, m, t + 1)
           \/ m < 12 /\ t = DaysOfMonth(y, m) /\ DayAfter(d) = Date(y, m + 1, 1)
           \/ m = 12 /\ t = 31 /\ DayAfter(d) = Date(y + 1, 1, 1)
  BY DayAfterIs
<1>2. julianDayNumber(d) \in Int
  BY <1>1 DEF julianDayNumber, Date
<1>3. CASE DayAfter(d) = Date(y, m, t + 1)
  <2>1. julianDayNumber(Date(y, m, t + 1)) = julianDayNumber(Date(y, m, t)) + 1
    BY JulianSameMonth
  <2> QED BY <1>1, <1>2, <1>3, <2>1, Zenon
<1>4. CASE m < 12 /\ t = DaysOfMonth(y, m) /\ DayAfter(d) = Date(y, m + 1, 1)
  <2>1. julianDayNumber(Date(y, m + 1, 1)) = julianDayNumber(Date(y, m, DaysOfMonth(y, m))) + 1
    BY <1>4, JulianNextMonth
  <2> QED BY <1>1, <1>2, <1>4, <2>1, Zenon
<1>5. CASE m = 12 /\ t = 31 /\ DayAfter(d) = Date(y + 1, 1, 1)
  <2>1. julianDayNumber(Date(y + 1, 1, 1)) = julianDayNumber(Date(y, 12, 31)) + 1
    BY JulianNextYear
  <2> QED BY <1>1, <1>2, <1>5, <2>1, Zenon
<1> QED BY <1>1, <1>2, <1>3, <1>4, <1>5

\* The day of the year counts them too, from New Year on.
LEMMA DayOfYearCountsDays ==
  ASSUME NEW d, CivilDate(d)
  PROVE  dayOfYearUtc(DayAfter(d)) = IF DayAfter(d).year = d.year THEN dayOfYearUtc(d) + 1 ELSE 1
<1>1. PICK y \in Nat, m \in 1 .. 12, t \in 1 .. 31 :
        /\ d = Date(y, m, t) /\ t <= DaysOfMonth(y, m) /\ DaysOfMonth(y, m) \in 28 .. 31
        /\ \/ t < DaysOfMonth(y, m) /\ DayAfter(d) = Date(y, m, t + 1)
           \/ m < 12 /\ t = DaysOfMonth(y, m) /\ DayAfter(d) = Date(y, m + 1, 1)
           \/ m = 12 /\ t = 31 /\ DayAfter(d) = Date(y + 1, 1, 1)
  BY DayAfterIs
<1>2. \A yy, mm, tt : Date(yy, mm, tt).year = yy
  BY DEF Date
<1>3. \A yy \in Nat : julianDayNumber(Date(yy, 1, 1)) \in Int
  BY DEF julianDayNumber, Date
<1>4. CASE DayAfter(d) = Date(y, m, t + 1) \/ DayAfter(d) = Date(y, m + 1, 1)
  <2>1. DayAfter(d).year = y /\ d.year = y
    BY <1>1, <1>2, <1>4
  <2> QED BY <2>1, <1>3, JulianCountsDays DEF dayOfYearUtc
<1>5. CASE DayAfter(d) = Date(y + 1, 1, 1)
  <2>1. DayAfter(d).year = y + 1 /\ d.year = y
    BY <1>1, <1>2, <1>5
  <2>2. julianDayNumber(DayAfter(d)) = julianDayNumber(Date(y + 1, 1, 1))
    BY <1>5
  <2>3. y + 1 \in Nat /\ y + 1 # y
    OBVIOUS
  <2>4. julianDayNumber(Date(y + 1, 1, 1)) \in Int
    BY <2>3, <1>3
  <2> QED BY <2>1, <2>2, <2>3, <2>4 DEF dayOfYearUtc
<1> QED BY <1>1, <1>4, <1>5
--------------------------------------------------------------------------------

\* A stem and a branch of one parity are a pair of the cycle.
LEMMA PairsOfOneParity ==
  ASSUME NEW stem \in 0 .. 9, NEW branch \in 0 .. 11, stem % 2 = branch % 2
  PROVE  Sexagenary(Pillar(stem, branch)) # {}
<1> DEFINE index == (6 * stem - 5 * branch) % 60
<1>1. index \in 0 .. 59 /\ index % 10 = stem /\ index % 12 = branch
  OBVIOUS
<1>2. Pillar(stem, branch).stem = stem /\ Pillar(stem, branch).branch = branch
  BY DEF Pillar
<1> QED BY <1>1, <1>2 DEF Sexagenary

\* The day pillars follow the days.
LEMMA DayPillarsFollow ==
  ASSUME NEW d, CivilDate(d)
  PROVE  /\ baziDayPillar(DayAfter(d)) = After(baziDayPillar(d))
         /\ baziDayPillar(d).stem \in 0 .. 9
         /\ Sexagenary(baziDayPillar(d)) # {}
<1>1. PICK j \in Int : j = julianDayNumber(d) /\ julianDayNumber(DayAfter(d)) = j + 1
  BY JulianCountsDays
<1> DEFINE i == (j + 49) % 60
<1>2. baziDayPillar(d) = Pillar(i % 10, i % 12)
  BY <1>1 DEF baziDayPillar
<1>3. baziDayPillar(DayAfter(d)) = Pillar(((j + 1 + 49) % 60) % 10, ((j + 1 + 49) % 60) % 12)
  BY <1>1 DEF baziDayPillar
<1>4. /\ ((j + 1 + 49) % 60) % 10 = ((i % 10) + 1) % 10
      /\ ((j + 1 + 49) % 60) % 12 = ((i % 12) + 1) % 12
      /\ i \in 0 .. 59 /\ i % 10 \in 0 .. 9 /\ i % 12 \in 0 .. 11
  OBVIOUS
<1>5. \A stem, branch : Pillar(stem, branch).stem = stem /\ Pillar(stem, branch).branch = branch
  BY DEF Pillar
<1> HIDE DEF i
<1>6. After(Pillar(i % 10, i % 12)) = Pillar(((i % 10) + 1) % 10, ((i % 12) + 1) % 12)
  BY <1>5 DEF After
<1>7. i \in Sexagenary(Pillar(i % 10, i % 12))
  BY <1>4, <1>5 DEF Sexagenary
<1> QED BY <1>2, <1>3, <1>4, <1>5, <1>6, <1>7

\* The month branch of a civil date: that of its month from the day of its term on, and
\* before that the branch of the month before.
TermDays == <<6, 4, 6, 5, 6, 6, 7, 8, 8, 8, 7, 7>>

LEMMA MonthBranchIs ==
  ASSUME NEW y \in Nat, NEW m \in 1 .. 12, NEW t \in 1 .. 31
  PROVE  /\ TermDays[m] \in 4 .. 8
         /\ baziMonthBranch(Date(y, m, t)) = IF t >= TermDays[m] THEN m % 12 ELSE m - 1
<1> DEFINE passed == {i \in 1 .. 12 : m > i \/ (m = i /\ t >= TermDays[i])}
           last == IF t >= TermDays[m] THEN m ELSE m - 1
<1>1. \A i \in 1 .. 12 : /\ BAZI_MONTH_TERMS[i][1] = i /\ BAZI_MONTH_TERMS[i][2] = TermDays[i]
                         /\ BAZI_MONTH_TERMS[i][3] = i % 12 /\ TermDays[i] \in 4 .. 8
  <2>1. ASSUME NEW i \in 1 .. 12
        PROVE  /\ BAZI_MONTH_TERMS[i][1] = i /\ BAZI_MONTH_TERMS[i][2] = TermDays[i]
               /\ BAZI_MONTH_TERMS[i][3] = i % 12 /\ TermDays[i] \in 4 .. 8
    <3>1. i \in {1, 2, 3, 4, 5, 6} \/ i \in {7, 8, 9, 10, 11, 12}
      OBVIOUS
    <3> QED BY <3>1 DEF BAZI_MONTH_TERMS, TermDays
  <2> QED BY <2>1
<1>2. DOMAIN BAZI_MONTH_TERMS = 1 .. 12
  BY DEF BAZI_MONTH_TERMS
<1>3. Date(y, m, t).month = m /\ Date(y, m, t).day = t
  BY DEF Date
<1> DEFINE terms == {i \in DOMAIN BAZI_MONTH_TERMS :
                       OnOrAfter(Date(y, m, t), BAZI_MONTH_TERMS[i][1], BAZI_MONTH_TERMS[i][2])}
<1>4. terms = passed
  BY <1>1, <1>2, <1>3 DEF OnOrAfter
<1>5. baziMonthBranch(Date(y, m, t)) =
        IF passed = {} THEN 0
        ELSE BAZI_MONTH_TERMS[CHOOSE i \in passed : \A j \in passed : j <= i][3]
  <2>1. baziMonthBranch(Date(y, m, t)) =
          IF terms = {} THEN 0
          ELSE BAZI_MONTH_TERMS[CHOOSE i \in terms : \A j \in terms : j <= i][3]
    BY Zenon DEF baziMonthBranch
  <2> HIDE DEF terms, passed
  <2> QED BY <1>4, <2>1, Zenon
<1>6. TermDays[m] \in 4 .. 8 /\ last \in 0 .. 12
  BY <1>1
<1>7. passed = 1 .. last
  BY <1>1, <1>6
<1> HIDE DEF passed, last
<1>8. CASE last = 0
  <2>1. passed = {}
    BY <1>7, <1>8
  <2>2. t < TermDays[m] /\ m = 1
    BY <1>6, <1>8 DEF last
  <2> QED BY <1>5, <1>6, <2>1, <2>2
<1>9. CASE last # 0
  <2>1. last \in passed /\ \A j \in passed : j <= last
    BY <1>6, <1>7, <1>9
  <2>2. \A i \in passed : (\A j \in passed : j <= i) => i = last
    BY <2>1, <1>6, <1>7
  <2>3. (CHOOSE i \in passed : \A j \in passed : j <= i) = last
    BY <2>1, <2>2
  <2>4. baziMonthBranch(Date(y, m, t)) = last % 12
    <3>1. last \in 1 .. 12 /\ passed # {}
      BY <1>6, <1>9, <2>1
    <3>2. baziMonthBranch(Date(y, m, t)) = BAZI_MONTH_TERMS[last][3]
      BY <1>5, <2>3, <3>1, Zenon
    <3> QED BY <1>1, <3>1, <3>2
  <2> QED BY <2>4, <1>6, <1>9 DEF last
<1> QED BY <1>8, <1>9
\* From one day to the next the terms stay, or the next begins, and with Lichun the year.
LEMMA TermsFollow ==
  ASSUME NEW d, CivilDate(d)
  PROVE  LET s == baziSolarYear(d)   b == baziMonthBranch(d)
             ss == baziSolarYear(DayAfter(d))   bb == baziMonthBranch(DayAfter(d))
         IN  /\ s \in Int /\ b \in 0 .. 11
             /\ \/ ss = s /\ bb = b
                \/ ss = s /\ bb = (b + 1) % 12 /\ b # 1
                \/ ss = s + 1 /\ b = 1 /\ bb = 2
<1>1. PICK y \in Nat, m \in 1 .. 12, t \in 1 .. 31 :
        /\ d = Date(y, m, t) /\ t <= DaysOfMonth(y, m) /\ DaysOfMonth(y, m) \in 28 .. 31
        /\ \/ t < DaysOfMonth(y, m) /\ DayAfter(d) = Date(y, m, t + 1)
           \/ m < 12 /\ t = DaysOfMonth(y, m) /\ DayAfter(d) = Date(y, m + 1, 1)
           \/ m = 12 /\ t = 31 /\ DayAfter(d) = Date(y + 1, 1, 1)
  BY DayAfterIs
<1>2. \A yy \in Nat, mm \in 1 .. 12, tt \in 1 .. 31 :
        /\ TermDays[mm] \in 4 .. 8
        /\ baziMonthBranch(Date(yy, mm, tt)) = IF tt >= TermDays[mm] THEN mm % 12 ELSE mm - 1
  BY MonthBranchIs
<1>3. \A yy \in Nat, mm \in 1 .. 12, tt \in 1 .. 31 :
        baziSolarYear(Date(yy, mm, tt)) = IF mm > 2 \/ (mm = 2 /\ tt >= 4) THEN yy ELSE yy - 1
  BY DEF baziSolarYear, OnOrAfter, Date
<1>4. TermDays[2] = 4
  BY DEF TermDays
<1>5. CASE t < DaysOfMonth(y, m) /\ DayAfter(d) = Date(y, m, t + 1)
  <2>1. t + 1 \in 1 .. 31
    BY <1>1, <1>5
  <2>2. /\ baziMonthBranch(d) = IF t >= TermDays[m] THEN m % 12 ELSE m - 1
        /\ baziMonthBranch(DayAfter(d)) = IF t + 1 >= TermDays[m] THEN m % 12 ELSE m - 1
        /\ TermDays[m] \in 4 .. 8
    <3>1. /\ TermDays[m] \in 4 .. 8
          /\ baziMonthBranch(Date(y, m, t)) = IF t >= TermDays[m] THEN m % 12 ELSE m - 1
      BY <1>2
    <3>2. baziMonthBranch(Date(y, m, t + 1)) = IF t + 1 >= TermDays[m] THEN m % 12 ELSE m - 1
      BY <1>2, <2>1
    <3> QED BY <1>1, <1>5, <3>1, <3>2, Zenon
  <2>3. /\ baziSolarYear(d) = IF m > 2 \/ (m = 2 /\ t >= 4) THEN y ELSE y - 1
        /\ baziSolarYear(DayAfter(d)) = IF m > 2 \/ (m = 2 /\ t + 1 >= 4) THEN y ELSE y - 1
    BY <1>1, <1>3, <1>5, <2>1
  <2>4. CASE t + 1 = TermDays[m]
    <3>1. /\ baziMonthBranch(d) = m - 1 /\ baziMonthBranch(DayAfter(d)) = m % 12
      BY <2>2, <2>4
    <3>2. CASE m = 2
      BY <1>4, <2>3, <2>4, <3>1, <3>2
    <3>3. CASE m # 2
      BY <2>3, <2>4, <3>1, <3>3
    <3> QED BY <3>2, <3>3
  <2>5. CASE t + 1 # TermDays[m]
    <3>1. baziMonthBranch(DayAfter(d)) = baziMonthBranch(d) /\ baziMonthBranch(d) \in 0 .. 11
      BY <2>2, <2>5
    <3>2. baziSolarYear(DayAfter(d)) = baziSolarYear(d) /\ baziSolarYear(d) \in Int
      BY <1>4, <2>3, <2>5
    <3> QED BY <3>1, <3>2
  <2> QED BY <2>4, <2>5
<1>6. CASE m < 12 /\ t = DaysOfMonth(y, m) /\ DayAfter(d) = Date(y, m + 1, 1)
  <2>1. m + 1 \in 1 .. 12 /\ 1 \in 1 .. 31 /\ t >= 28
    BY <1>1, <1>6
  <2>2. /\ baziMonthBranch(d) = m % 12
        /\ baziMonthBranch(DayAfter(d)) = (m + 1) - 1
    <3>1. TermDays[m] \in 4 .. 8 /\ TermDays[m + 1] \in 4 .. 8
      BY <1>2, <2>1
    <3>2. t >= TermDays[m] /\ ~ (1 >= TermDays[m + 1])
      BY <2>1, <3>1
    <3>3. baziMonthBranch(Date(y, m, t)) = m % 12
      BY <1>2, <3>2
    <3>4. baziMonthBranch(Date(y, m + 1, 1)) = (m + 1) - 1
      BY <1>2, <2>1, <3>2
    <3> QED BY <1>1, <1>6, <3>3, <3>4, Zenon
  <2>3. /\ baziSolarYear(d) = IF m > 2 \/ (m = 2 /\ t >= 4) THEN y ELSE y - 1
        /\ baziSolarYear(DayAfter(d)) = IF m + 1 > 2 \/ (m + 1 = 2 /\ 1 >= 4) THEN y ELSE y - 1
    BY <1>1, <1>3, <1>6, <2>1
  <2> QED BY <1>6, <2>1, <2>2, <2>3
<1>7. CASE m = 12 /\ t = 31 /\ DayAfter(d) = Date(y + 1, 1, 1)
  <2>1. y + 1 \in Nat /\ 1 \in 1 .. 12 /\ 1 \in 1 .. 31
    OBVIOUS
  <2>2. baziMonthBranch(d) = 0 /\ baziMonthBranch(DayAfter(d)) = 0
    <3>1. TermDays[12] \in 4 .. 8 /\ TermDays[1] \in 4 .. 8
      BY <1>2
    <3>2. baziMonthBranch(Date(y, 12, 31)) = 12 % 12
      BY <1>2, <3>1
    <3>3. baziMonthBranch(Date(y + 1, 1, 1)) = 1 - 1
      BY <1>2, <2>1, <3>1
    <3> QED BY <1>1, <1>7, <3>2, <3>3
  <2>3. baziSolarYear(d) = y /\ baziSolarYear(DayAfter(d)) = (y + 1) - 1
    BY <1>1, <1>3, <1>7, <2>1
  <2> QED BY <2>2, <2>3
<1> QED BY <1>1, <1>5, <1>6, <1>7

\* The stem of the month of branch b in the solar year s.
MonthStem(s, b) == (((2 + 2 * (((s - 4) % 10) % 5)) % 10) + ((b - 2 + 12) % 12)) % 10

\* The pillars, from the solar year and the branch of the month.
LEMMA PillarsOfDate ==
  ASSUME NEW d
  PROVE  /\ baziYearPillar(d) = Pillar((baziSolarYear(d) - 4) % 10, (baziSolarYear(d) - 4) % 12)
         /\ baziMonthPillar(d) = Pillar(MonthStem(baziSolarYear(d), baziMonthBranch(d)), baziMonthBranch(d))
<1>1. \A stem, branch : Pillar(stem, branch).stem = stem
  BY DEF Pillar
<1>2. baziYearPillar(d).stem = (baziSolarYear(d) - 4) % 10
  BY <1>1 DEF baziYearPillar
<1> QED BY <1>2 DEF baziYearPillar, baziMonthPillar, MonthStem

\* Year and month pillars are pairs of the cycle, and follow the terms.
LEMMA YearAndMonthFollow ==
  ASSUME NEW d, CivilDate(d)
  PROVE  LET ys == baziYearPillar(d)   yn == baziYearPillar(DayAfter(d))
             ms == baziMonthPillar(d)   mn == baziMonthPillar(DayAfter(d))
         IN  /\ Sexagenary(ys) # {} /\ Sexagenary(ms) # {}
             /\ mn \in {ms, After(ms)}
             /\ yn = IF mn # ms /\ mn.branch = 2 THEN After(ys) ELSE ys
<1> DEFINE s == baziSolarYear(d)
           b == baziMonthBranch(d)
           ss == baziSolarYear(DayAfter(d))
           bb == baziMonthBranch(DayAfter(d))
<1>1. /\ s \in Int /\ b \in 0 .. 11
      /\ \/ ss = s /\ bb = b
         \/ ss = s /\ bb = (b + 1) % 12 /\ b # 1
         \/ ss = s + 1 /\ b = 1 /\ bb = 2
  BY TermsFollow
<1>2. /\ baziYearPillar(d) = Pillar((s - 4) % 10, (s - 4) % 12)
      /\ baziMonthPillar(d) = Pillar(MonthStem(s, b), b)
      /\ baziYearPillar(DayAfter(d)) = Pillar((ss - 4) % 10, (ss - 4) % 12)
      /\ baziMonthPillar(DayAfter(d)) = Pillar(MonthStem(ss, bb), bb)
  BY PillarsOfDate
<1> HIDE DEF s, b, ss, bb
<1>3. \A stem, branch : /\ Pillar(stem, branch).stem = stem /\ Pillar(stem, branch).branch = branch
                       /\ After(Pillar(stem, branch)) = Pillar((stem + 1) % 10, (branch + 1) % 12)
  BY DEF Pillar, After
<1>4. Sexagenary(baziYearPillar(d)) # {}
  <2>1. /\ (s - 4) % 10 \in 0 .. 9 /\ (s - 4) % 12 \in 0 .. 11
        /\ ((s - 4) % 10) % 2 = ((s - 4) % 12) % 2
    BY <1>1
  <2> QED BY <1>2, <2>1, PairsOfOneParity
<1>5. Sexagenary(baziMonthPillar(d)) # {}
  <2>1. MonthStem(s, b) \in 0 .. 9 /\ MonthStem(s, b) % 2 = b % 2
    BY <1>1 DEF MonthStem
  <2> QED BY <1>1, <1>2, <2>1, PairsOfOneParity
<1>6. CASE ss = s /\ bb = b
  BY <1>2, <1>4, <1>5, <1>6
<1>7. CASE ss = s /\ bb = (b + 1) % 12 /\ b # 1
  <2>1. MonthStem(ss, bb) = (MonthStem(s, b) + 1) % 10
    BY <1>1, <1>7 DEF MonthStem
  <2>2. baziMonthPillar(DayAfter(d)) = After(baziMonthPillar(d))
    BY <1>2, <1>3, <1>7, <2>1
  <2>3. bb # 2
    BY <1>1, <1>7
  <2>4. baziYearPillar(DayAfter(d)) = baziYearPillar(d) /\ baziMonthPillar(DayAfter(d)).branch # 2
    BY <1>2, <1>3, <1>7, <2>3
  <2> QED BY <1>4, <1>5, <2>2, <2>4
<1>8. CASE ss = s + 1 /\ b = 1 /\ bb = 2
  <2>1. MonthStem(ss, bb) = (MonthStem(s, b) + 1) % 10
    BY <1>1, <1>8 DEF MonthStem
  <2>2. baziMonthPillar(DayAfter(d)) = After(baziMonthPillar(d))
    BY <1>2, <1>3, <1>8, <2>1
  <2>3. (ss - 4) % 10 = (((s - 4) % 10) + 1) % 10 /\ (ss - 4) % 12 = (((s - 4) % 12) + 1) % 12
    BY <1>1, <1>8
  <2>4. baziYearPillar(DayAfter(d)) = After(baziYearPillar(d))
    BY <1>2, <1>3, <2>3
  <2>5. /\ baziMonthPillar(DayAfter(d)).branch = 2
        /\ baziMonthPillar(DayAfter(d)) # baziMonthPillar(d)
    BY <1>2, <1>3, <1>8
  <2> QED BY <1>4, <1>5, <2>2, <2>4, <2>5
<1> QED BY <1>1, <1>4, <1>5, <1>6, <1>7, <1>8

\* The hour pillar is a pair of the cycle, whatever the day.
LEMMA HourPillarIsPair ==
  ASSUME NEW stem \in 0 .. 9
  PROVE  Sexagenary(baziHourPillar(stem)) # {}
<1>1. /\ (2 * (stem % 5) + 5) % 10 \in 0 .. 9 /\ 5 \in 0 .. 11
      /\ ((2 * (stem % 5) + 5) % 10) % 2 = 5 % 2
  OBVIOUS
<1> QED BY <1>1, PairsOfOneParity DEF baziHourPillar

\* The step formula of CyclesAdvance.
Advances(now, next, date, nextDate) ==
  /\ \A key \in DOMAIN next : Sexagenary(next[key]) # {}
  /\ next.day = After(now.day)
  /\ next.month \in {now.month, After(now.month)}
  /\ next.year = IF next.month # now.month /\ next.month.branch = 2
                 THEN After(now.year) ELSE now.year
  /\ dayOfYearUtc(nextDate) = IF nextDate.year = date.year THEN dayOfYearUtc(date) + 1 ELSE 1

\* ... which every civil date satisfies with the day after it.
LEMMA DaysAdvance ==
  ASSUME NEW d, CivilDate(d)
  PROVE  Advances(baziFourPillars(d), baziFourPillars(DayAfter(d)), d, DayAfter(d))
<1>1. CivilDate(DayAfter(d))
  BY DayAfterIsCivil
<1>2. ASSUME NEW e
      PROVE  /\ DOMAIN baziFourPillars(e) = {"year", "month", "day", "hour"}
             /\ baziFourPillars(e).year = baziYearPillar(e)
             /\ baziFourPillars(e).month = baziMonthPillar(e)
             /\ baziFourPillars(e).day = baziDayPillar(e)
             /\ baziFourPillars(e).hour = baziHourPillar(baziDayPillar(e).stem)
  BY DEF baziFourPillars
<1>3. \A key \in DOMAIN baziFourPillars(DayAfter(d)) : Sexagenary(baziFourPillars(DayAfter(d))[key]) # {}
  <2>1. /\ Sexagenary(baziYearPillar(DayAfter(d))) # {} /\ Sexagenary(baziMonthPillar(DayAfter(d))) # {}
        /\ Sexagenary(baziDayPillar(DayAfter(d))) # {} /\ baziDayPillar(DayAfter(d)).stem \in 0 .. 9
    BY <1>1, YearAndMonthFollow, DayPillarsFollow
  <2>2. Sexagenary(baziHourPillar(baziDayPillar(DayAfter(d)).stem)) # {}
    BY <2>1, HourPillarIsPair
  <2> QED BY <1>2, <2>1, <2>2
<1>4. /\ baziDayPillar(DayAfter(d)) = After(baziDayPillar(d))
      /\ baziMonthPillar(DayAfter(d)) \in {baziMonthPillar(d), After(baziMonthPillar(d))}
      /\ baziYearPillar(DayAfter(d)) =
           IF baziMonthPillar(DayAfter(d)) # baziMonthPillar(d) /\ baziMonthPillar(DayAfter(d)).branch = 2
           THEN After(baziYearPillar(d)) ELSE baziYearPillar(d)
  BY YearAndMonthFollow, DayPillarsFollow
<1> QED BY <1>2, <1>3, <1>4, DayOfYearCountsDays DEF Advances

\* From every civil date on, the pillars of the day, the month and the year go through
\* their cycles without a gap and without a pair the code would throw on, and the day
\* of the year counts the days: for any anchors, whatever centuries and leap years lie
\* between.
THEOREM CalendarsAdvance == CalendarSpec => CyclesAdvance
<1>1. CalendarInit => CivilDate(today)
  BY CalendarAssumption DEF CalendarInit
<1>2. CivilDate(today) /\ [NextDay]_calendarVars => CivilDate(today)'
  BY DayAfterIsCivil DEF NextDay, calendarVars
<1>3. CivilDate(today) /\ [NextDay]_calendarVars =>
        [today' # today => Advances(baziFourPillars(today), baziFourPillars(today'), today, today')]_calendarVars
  <2> SUFFICES ASSUME CivilDate(today), NextDay
               PROVE  Advances(baziFourPillars(today), baziFourPillars(today'), today, today')
    BY DEF calendarVars
  <2>1. today' = DayAfter(today)
    BY DEF NextDay
  <2> QED BY <2>1, DaysAdvance
<1>4. CalendarSpec => [][today' # today =>
        Advances(baziFourPillars(today), baziFourPillars(today'), today, today')]_calendarVars
  BY <1>1, <1>2, <1>3, PTL DEF CalendarSpec
<1> QED BY <1>4 DEF CyclesAdvance, Advances

================================================================================
