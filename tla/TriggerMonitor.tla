----------------------------- MODULE TriggerMonitor -----------------------------
(***************************************************************************)
(* The trigger monitor of a ws-server process: a scheduled task            *)
(* (registerTask) whose tick reads the open orders and the prices once     *)
(* (runTriggerMonitor), walks the orders one await after another, and      *)
(* executes each that the market would fill (dispatchTriggeredOrder-       *)
(* Execution, tryExecuteDelegatedTriggerOrder) or leaves it to the tabs of *)
(* its user with a trigger:hit toast.                                      *)
(*                                                                         *)
(* TriggerExecution has what an execution does to the lifecycle of its     *)
(* position; here an order is only its status, and the tick around the     *)
(* executions is whole: the busy flag, the walk over a list that grows     *)
(* stale, the outcomes of each await and what each does to the rest of the *)
(* walk, the cooldown in memory, restarts.                                 *)
(*                                                                         *)
(* Faults bounds the failures that cost a tick, an order or a process: a   *)
(* database or price call that throws, a release that fails, a crash.  A   *)
(* delegation or a quote that fails every time is no such fault: it may    *)
(* happen at every tick.                                                   *)
(***************************************************************************)
EXTENDS Naturals, Sequences, SequencesExt, FiniteSets

CONSTANTS
  Watched,   \* orders with a trigger price
  TickerOf,  \* the asset of each
  Cooldown,  \* DELEGATED_RUNTIME_COOLDOWN_MS, in units of Elapse
  Faults     \* bound on the failures of a behaviour

VARIABLES
  busy, stopped,  \* of the task's closure
  step,           \* the await at which its tick is
  queue,          \* the orders the tick has still to walk, the current one first
  seen,           \* the orders whose price was inside the wake-up band at the read
  cooling,        \* time left until delegatedRuntimeCooldownUntil of each order
  elapsed,        \* time since `now` was read for the current dispatch
  outcome,        \* what the release of the current claim will be answered with
  book,           \* Order.status
  market,         \* orders the market would fill with what the wallet holds
  offers,         \* orders with a trigger:hit toast in some tab
  tabs,           \* orders claimed by a tab
  left,           \* orders whose claim the process gave up without a release
  faults

taskVars    == <<busy, stopped, step, queue, seen, cooling, elapsed, outcome>>
monitorVars == <<taskVars, book, market, offers, tabs, left, faults>>

ASSUME MonitorAssumption == IsFiniteSet(Watched) /\ Cooldown \in Nat /\ Faults \in Nat

Statuses == {"OPEN", "PENDING", "FILLED", "CANCELLED"}
Waits    == {"idle", "orders", "prices", "walk", "quote", "preflight", "claim",
             "order", "execute", "settle", "release"}
Outcomes == {"none", "quoteWaiting", "notAvailable", "preBroadcastFailed"}

Current == Head(queue)

\* The tick believes it owns the claim of its current order.
Holds(o) == step \in {"order", "execute", "settle", "release"} /\ Current = o

MonitorTypeOK ==
  /\ busy \in BOOLEAN /\ stopped \in BOOLEAN
  /\ step \in Waits
  /\ queue \in Seq(Watched) /\ (step \in Waits \ {"idle", "orders", "walk"} => queue # <<>>)
  /\ seen \subseteq Watched
  /\ cooling \in [Watched -> 0 .. Cooldown]
  /\ elapsed \in 0 .. Cooldown
  /\ outcome \in Outcomes
  /\ book \in [Watched -> Statuses]
  /\ market \subseteq Watched /\ offers \subseteq Watched
  /\ tabs \subseteq {o \in Watched : book[o] = "PENDING"}
  /\ left \subseteq Watched
  /\ faults \in 0 .. Faults

MonitorInit ==
  /\ busy = FALSE /\ stopped = FALSE
  /\ step = "idle" /\ queue = <<>> /\ seen = {}
  /\ cooling = [o \in Watched |-> 0] /\ elapsed = 0 /\ outcome = "none"
  /\ book = [o \in Watched |-> "OPEN"]
  /\ market = {} /\ offers = {} /\ tabs = {} /\ left = {}
  /\ faults = 0

--------------------------------------------------------------------------------

AllowsFault == faults < Faults /\ faults' = faults + 1

\* The busy flag outlives a handler that throws.
MutantTickEnds(thrown) ==
  /\ step' = "idle" /\ queue' = <<>> /\ seen' = {} /\ outcome' = "none" /\ elapsed' = 0
  /\ busy' = thrown
  /\ UNCHANGED <<stopped, cooling>>

\* The finally of tick: the handler has returned, or thrown.
TickEnds(thrown) ==
  /\ step' = "idle" /\ queue' = <<>> /\ seen' = {} /\ outcome' = "none" /\ elapsed' = 0
  /\ busy' = FALSE
  /\ UNCHANGED <<stopped, cooling>>

Throws == AllowsFault /\ TickEnds(TRUE)

Goes(wait) ==
  /\ step' = wait
  /\ UNCHANGED <<busy, stopped, queue, seen, cooling, elapsed, outcome>>

\* `continue` of the loop over the orders.
NextOrder ==
  /\ step' = "walk" /\ queue' = Tail(queue) /\ outcome' = "none" /\ elapsed' = 0
  /\ UNCHANGED <<busy, stopped, seen>>

EmitTriggerHit == offers' = offers \cup {Current}

\* The kickoff timeout or the interval fires.
TimerFires ==
  /\ ~ busy /\ ~ stopped
  /\ busy' = TRUE
  /\ step' = "orders"
  /\ UNCHANGED <<stopped, queue, seen, cooling, elapsed, outcome,
                 book, market, offers, tabs, left, faults>>

\* Whatever the order of the rows, the orders of an asset are walked together.
ByTicker(rows) ==
  {q \in SetToSeqs(rows) :
     \A i, j, k \in 1 .. Len(q) :
       i < j /\ j < k /\ TickerOf[q[i]] = TickerOf[q[k]] => TickerOf[q[j]] = TickerOf[q[i]]}

\* prisma.order.findMany
ReadOrders ==
  /\ step = "orders"
  /\ LET open == {o \in Watched : book[o] = "OPEN"}
     IN  \/ open = {} /\ TickEnds(FALSE) /\ UNCHANGED faults
         \/ /\ open # {}
            /\ queue' \in ByTicker(open)
            /\ step' = "prices"
            /\ UNCHANGED <<busy, stopped, seen, cooling, elapsed, outcome, faults>>
         \/ Throws
  /\ UNCHANGED <<book, market, offers, tabs, left>>

\* getLatestPrices: an asset may have no snapshot, and an order that the market
\* would fill is inside the band around its trigger; others may be, too.
ReadPrices ==
  /\ step = "prices"
  /\ \/ /\ \E missing \in {t \in SUBSET {TickerOf[o] : o \in Watched} : t # {} => faults < Faults} :
             /\ faults' = IF missing = {} THEN faults ELSE faults + 1
             /\ \E near \in {s \in SUBSET Watched : market \subseteq s} :
                  seen' = {o \in near : TickerOf[o] \notin missing}
        /\ step' = "walk"
        /\ UNCHANGED <<busy, stopped, queue, cooling, elapsed, outcome>>
     \/ Throws
  /\ UNCHANGED <<book, market, offers, tabs, left>>

\* The loops over byTicker and its orders: shouldWakeUp, buildPayload.
Walk ==
  /\ step = "walk"
  /\ \/ queue = <<>> /\ TickEnds(FALSE)
     \/ queue # <<>> /\ Current \in seen /\ Goes("quote")
     \/ queue # <<>> /\ Current \notin seen /\ NextOrder /\ UNCHANGED cooling
  /\ UNCHANGED <<book, market, offers, tabs, left, faults>>

\* dispatchTriggeredOrderExecution up to its first await.
Dispatch ==
  IF cooling[Current] > 0
  THEN NextOrder /\ EmitTriggerHit /\ UNCHANGED cooling
  ELSE Goes("preflight") /\ UNCHANGED offers

\* quoteExecutableTrigger: waiting or triggerable, or it throws, which costs the
\* order this tick: at every tick if the wallet lacks the input of the swap.
Quote ==
  /\ step = "quote"
  /\ \/ Current \notin market /\ NextOrder /\ UNCHANGED <<cooling, offers, faults>>
     \/ Current \in market /\ Dispatch /\ UNCHANGED faults
     \/ AllowsFault /\ NextOrder /\ UNCHANGED <<cooling, offers>>
  /\ UNCHANGED <<book, market, tabs, left>>

\* The time that the attempt took moves the deadline the wrong way.
MutantCool == cooling' = [cooling EXCEPT ![Current] = Cooldown + elapsed]

\* shouldCooldown: the deadline counts from the `now` of the dispatch.
Cool == cooling' = [cooling EXCEPT ![Current] = Cooldown - elapsed]

\* resolveDelegatedWalletByAddress and prepareInputAmount: the wallet is
\* delegated and funded, or is not (notAvailable), or cannot be asked about
\* (preBroadcastFailed, nothing to release).
Preflight ==
  /\ step = "preflight"
  /\ \/ Goes("claim") /\ UNCHANGED offers
     \/ NextOrder /\ EmitTriggerHit /\ UNCHANGED cooling
     \/ NextOrder /\ EmitTriggerHit /\ Cool
  /\ UNCHANGED <<book, market, tabs, left, faults>>

\* claimOrderExecution: granted, refused (alreadyHandled, alreadyExecuting: the
\* dispatch is suppressed), or it throws, done or not done: no catch is around it.
ClaimTrigger ==
  /\ step = "claim"
  /\ \/ /\ book[Current] = "OPEN"
        /\ book' = [book EXCEPT ![Current] = "PENDING"]
        /\ Goes("order") /\ UNCHANGED <<left, faults>>
     \/ /\ book[Current] # "OPEN"
        /\ NextOrder /\ UNCHANGED <<book, cooling, left, faults>>
     \/ Throws /\ UNCHANGED <<book, left>>
     \/ /\ book[Current] = "OPEN"
        /\ book' = [book EXCEPT ![Current] = "PENDING"]
        /\ left' = left \cup {Current}
        /\ Throws
  /\ UNCHANGED <<market, offers, tabs>>

ReleaseFor(result) ==
  /\ step' = "release" /\ outcome' = result
  /\ UNCHANGED <<busy, stopped, queue, seen, cooling, elapsed>>

\* An executable quote that waits keeps the claim.
MutantRequestSwap ==
  /\ step = "order"
  /\ \/ Current \in market /\ Goes("execute")
     \/ Current \notin market /\ NextOrder /\ UNCHANGED cooling
     \/ ReleaseFor("notAvailable")
     \/ ReleaseFor("preBroadcastFailed")
  /\ UNCHANGED <<book, market, offers, tabs, left, faults>>

\* requestUltraOrder, getUltraOrderProblem, executableTriggerDecision and the
\* signature: everything before /execute gives the claim back.
RequestSwap ==
  /\ step = "order"
  /\ \/ Current \in market /\ Goes("execute")
     \/ Current \notin market /\ ReleaseFor("quoteWaiting")
     \/ ReleaseFor("notAvailable")
     \/ ReleaseFor("preBroadcastFailed")
  /\ UNCHANGED <<book, market, offers, tabs, left, faults>>

Abandons(orders) == left' = left \cup orders

\* executeUltraOrder: a signature, or broadcastUnknown, which keeps the claim.
ExecuteTrigger ==
  /\ step = "execute"
  /\ \/ Goes("settle") /\ UNCHANGED left
     \/ NextOrder /\ Abandons({Current}) /\ UNCHANGED cooling
  /\ UNCHANGED <<book, market, offers, tabs, faults>>

\* settleOrder: settled, a conflict (broadcastButSettleFailed), or a rejection:
\* it is returned and not awaited inside the try, so it leaves the dispatch, the
\* walk and the handler.
SettleTrigger ==
  /\ step = "settle"
  /\ \/ /\ book' = [book EXCEPT ![Current] = "FILLED"]
        /\ NextOrder /\ UNCHANGED <<cooling, left, faults>>
     \/ AllowsFault /\ NextOrder /\ Abandons({Current}) /\ UNCHANGED <<book, cooling>>
     \/ Throws /\ Abandons({Current}) /\ UNCHANGED book
  /\ UNCHANGED <<market, offers, tabs>>

\* What the dispatch does with the outcome once the release has been tried; a
\* failed release of a quote or of missing funds asks for no cooldown.
Answered(released) ==
  /\ NextOrder
  /\ IF outcome = "preBroadcastFailed" THEN Cool ELSE UNCHANGED cooling
  /\ IF released /\ outcome # "quoteWaiting" THEN EmitTriggerHit ELSE UNCHANGED offers

\* releaseOrderExecutionClaim
ReleaseTrigger ==
  /\ step = "release"
  /\ \/ /\ book' = [book EXCEPT ![Current] = "OPEN"]
        /\ Answered(TRUE) /\ UNCHANGED <<left, faults>>
     \/ AllowsFault /\ Answered(FALSE) /\ Abandons({Current}) /\ UNCHANGED book
  /\ UNCHANGED <<market, tabs>>

TickStep ==
  \/ ReadOrders \/ ReadPrices \/ Walk \/ Quote \/ Preflight \/ ClaimTrigger \/ RequestSwap
  \/ ExecuteTrigger \/ SettleTrigger \/ ReleaseTrigger

\* SIGTERM: TaskGroup.stopAll; a tick in flight goes on until the exit.
StopAll ==
  /\ ~ stopped /\ faults < Faults
  /\ stopped' = TRUE
  /\ UNCHANGED <<busy, step, queue, seen, cooling, elapsed, outcome,
                 book, market, offers, tabs, left, faults>>

\* The process ends, after SIGTERM or by a crash, and another one boots.
Restart ==
  /\ \/ stopped /\ faults' = Faults
     \/ ~ stopped /\ AllowsFault
  /\ busy' = FALSE /\ stopped' = FALSE
  /\ step' = "idle" /\ queue' = <<>> /\ seen' = {} /\ outcome' = "none"
  /\ cooling' = [o \in Watched |-> 0] /\ elapsed' = 0
  /\ Abandons({o \in Watched : Holds(o)})
  /\ UNCHANGED <<book, market, offers, tabs>>

BeforeDispatch == {"idle", "orders", "prices", "walk", "quote"}

Elapse ==
  /\ \/ \E o \in Watched : cooling[o] > 0
     \/ elapsed < Cooldown /\ step \notin BeforeDispatch
  /\ cooling' = [o \in Watched |-> IF cooling[o] > 0 THEN cooling[o] - 1 ELSE 0]
  /\ elapsed' = IF step \in BeforeDispatch THEN 0
                ELSE IF elapsed < Cooldown THEN elapsed + 1 ELSE Cooldown
  /\ UNCHANGED <<busy, stopped, step, queue, seen, outcome,
                 book, market, offers, tabs, left, faults>>

\* The price moves across the trigger of an order.
CrossTrigger(o) ==
  /\ market' = (market \ {o}) \cup ({o} \ market)
  /\ UNCHANGED <<taskVars, book, offers, tabs, left, faults>>

\* A tab claims the order of a toast, or the user cancels it ...
TabTakes(o) ==
  /\ book[o] = "OPEN"
  /\ \/ o \in offers /\ book' = [book EXCEPT ![o] = "PENDING"] /\ tabs' = tabs \cup {o}
     \/ book' = [book EXCEPT ![o] = "CANCELLED"] /\ UNCHANGED tabs
  /\ UNCHANGED <<taskVars, market, offers, left, faults>>

\* ... and settles or releases it; the toast is gone, or dismissed.
TabEnds(o) ==
  /\ \/ /\ o \in tabs
        /\ tabs' = tabs \ {o}
        /\ \E s \in {"OPEN", "FILLED"} : book' = [book EXCEPT ![o] = s]
     \/ o \in offers \ tabs /\ UNCHANGED <<book, tabs>>
  /\ offers' = offers \ {o}
  /\ UNCHANGED <<taskVars, market, left, faults>>

MonitorNext ==
  \/ TimerFires \/ TickStep \/ StopAll \/ Restart \/ Elapse
  \/ \E o \in Watched : CrossTrigger(o) \/ TabTakes(o) \/ TabEnds(o)

\* Timers fire, awaits return, and a process told to stop is replaced.
MonitorFairness ==
  /\ WF_monitorVars(TimerFires)
  /\ WF_monitorVars(TickStep)
  /\ WF_monitorVars(stopped /\ Restart)

MonitorSpec == MonitorInit /\ [][MonitorNext]_monitorVars /\ MonitorFairness

--------------------------------------------------------------------------------
(* Properties.                                                             *)

\* An order is PENDING because the tick or a tab is executing it, or because the
\* process gave the claim up when it could not know what became of the swap, of
\* the claim or of the release: no other way out of an execution forgets a claim.
ClaimIsAccountedFor ==
  \A o \in Watched : book[o] = "PENDING" => Holds(o) \/ o \in tabs \/ o \in left

\* An order that stays open, that the market would fill, and that no toast offers
\* to the user does not stay so: whatever happens to the orders walked before it,
\* and however often its own delegation fails, a tick claims or offers it.
Unattended(o) == book[o] = "OPEN" /\ o \in market /\ o \notin offers

ExecutableOrderIsReached == \A o \in Watched : Unattended(o) ~> ~ Unattended(o)

================================================================================
