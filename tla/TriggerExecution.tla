--------------------------- MODULE TriggerExecution ---------------------------
(***************************************************************************)
(* Who runs the swap of a triggered order.  A ws-server process            *)
(* (tryExecuteDelegatedTriggerOrder, called by the trigger monitor through *)
(* dispatchTriggeredOrderExecution) or a browser tab (executeTriggerOrder, *)
(* when the user taps a trigger:hit toast) claims the order, asks Jupiter  *)
(* Ultra for a quote, signs, submits, and settles the order with the       *)
(* signature that comes back; a tab from which the user closes a position  *)
(* (closePosition of use-runtime.ts) sells first and tells the database    *)
(* afterwards.  The database is PositionLifecycle, one call one step; the  *)
(* chain remembers which swaps landed.                                     *)
(*                                                                         *)
(* Failures says what may go wrong in a run:                               *)
(*   "crash"    a process restarts or a tab is closed between two steps;   *)
(*   "lost"     a database call or its answer is lost, done or not done;   *)
(*   "refused"  Ultra /execute answers that the swap failed;               *)
(*   "unknown"  the swap lands but no signature comes back to the server;  *)
(*   "unheard"  the same, in a tab.                                        *)
(* A "Success" of Ultra carries a signature (the tab would settle under a  *)
(* made-up one if it did not).  The balance of the wallet is not modelled: *)
(* it may always hold enough, as when the user holds another position in   *)
(* the same asset.                                                         *)
(***************************************************************************)
EXTENDS PositionLifecycle

CONSTANTS
  Servers,   \* ws-server processes (two of them when one replaces the other)
  Tabs,      \* browser tabs whose user taps the toasts
  Closers,   \* browser tabs whose user closes positions
  Failures

VARIABLES
  pc,      \* the next step of each agent
  target,  \* the order it executes, or the position it closes
  sig,     \* the signature it was given
  landed,  \* the order or position each swap that landed was for
  toasts   \* the orders with a trigger:hit toast on some tab

\* Rows of two tables have different identifiers, and none is null.
ASSUME TriggerAssumption == NULL \notin Orders /\ Orders \cap Positions = {}

agentVars == <<pc, target, sig, toasts>>
allVars   == <<vars, agentVars, landed>>

Agents == Servers \cup Tabs \cup Closers

Steps == {"idle", "claim", "swap", "execute", "settle", "release", "sell", "close"}

\* The steps at which an agent believes it owns the claim of its order.
Holding == {"swap", "execute", "settle", "release"}

TriggerTypeOK ==
  /\ TypeOK
  /\ pc \in [Agents -> Steps]
  /\ target \in [Agents -> Orders \cup Positions \cup {NULL}]
  /\ sig \in [Agents -> Signatures \cup {NULL}]
  /\ landed \in [Signatures -> Orders \cup Positions \cup {NULL}]
  /\ toasts \subseteq Orders

\* A position that acceptBuyProposal has just opened, and its BUY order.
TriggerInit ==
  /\ proposalStatus = [x \in Proposals |-> "ABSENT"]
  /\ proposalAction = [x \in Proposals |-> NULL]
  /\ proposalPosition = [x \in Proposals |-> NULL]
  /\ lapsed = {}
  /\ \E p \in Positions, b \in Orders :
       /\ state = [q \in Positions |-> IF q = p THEN "BUY_PENDING" ELSE "ABSENT"]
       /\ kind = [o \in Orders |-> IF o = b THEN "BUY_TRIGGER" ELSE NULL]
       /\ status = [o \in Orders |-> IF o = b THEN "OPEN" ELSE "ABSENT"]
       /\ positionOf = [o \in Orders |-> IF o = b THEN p ELSE NULL]
  /\ closedReason = [p \in Positions |-> NULL]
  /\ hasTokens = [p \in Positions |-> FALSE]
  /\ txSignature = [o \in Orders |-> NULL]
  /\ trades = [p \in Positions |-> [s \in TradeSources |-> 0]]
  /\ pc = [a \in Agents |-> "idle"]
  /\ target = [a \in Agents |-> NULL]
  /\ sig = [a \in Agents |-> NULL]
  /\ landed = [s \in Signatures |-> NULL]
  /\ toasts = {}

--------------------------------------------------------------------------------

Goto(a, step) == pc' = [pc EXCEPT ![a] = step] /\ UNCHANGED <<target, sig>>

Stop(a) ==
  /\ pc' = [pc EXCEPT ![a] = "idle"]
  /\ target' = [target EXCEPT ![a] = NULL]
  /\ sig' = [sig EXCEPT ![a] = NULL]

Start(a, x, step) ==
  /\ pc[a] = "idle"
  /\ pc' = [pc EXCEPT ![a] = step]
  /\ target' = [target EXCEPT ![a] = x]
  /\ UNCHANGED sig

\* runTriggerMonitor finds the order OPEN and its quote executable.
Wake(a, o) ==
  /\ a \in Servers
  /\ kind[o] \in ExecutableKinds /\ status[o] = "OPEN"
  /\ Start(a, o, "claim")
  /\ UNCHANGED <<vars, landed, toasts>>

\* The user taps Execute on a toast, however old.
Tap(a, o) ==
  /\ a \in Tabs
  /\ o \in toasts
  /\ Start(a, o, "claim")
  /\ UNCHANGED <<vars, landed, toasts>>

\* Delegation is off, or cooling down, or its preflight fails: the order is left
\* to the tabs.
Fallback(a) ==
  /\ a \in Servers /\ pc[a] = "claim"
  /\ toasts' = toasts \cup {target[a]}
  /\ Stop(a)
  /\ UNCHANGED <<vars, landed>>

Claimable(o) == /\ kind[o] \in ExecutableKinds
                /\ status[o] = "OPEN"
                /\ state[positionOf[o]] = Before(kind[o])

\* claimOrderExecution, refused (alreadyHandled, alreadyExecuting), granted, or
\* granted without the agent hearing of it.
Claim(a) ==
  /\ pc[a] = "claim"
  /\ \/ ~ Claimable(target[a]) /\ Stop(a) /\ UNCHANGED vars
     \/ ClaimOrderExecution(target[a]) /\ Goto(a, "swap")
     \/ "lost" \in Failures /\ ClaimOrderExecution(target[a]) /\ Stop(a)
  /\ UNCHANGED <<landed, toasts>>

\* A quote that waits is left without releasing the claim.
MutantSwap(a) ==
  /\ pc[a] = "swap"
  /\ Goto(a, "execute") \/ Stop(a)
  /\ UNCHANGED <<vars, landed, toasts>>

\* requestUltraOrder, the executable price, the signature: a quote that waits, a
\* problem or a throw before /execute releases the claim.
Swap(a) ==
  /\ pc[a] = "swap"
  /\ Goto(a, "execute") \/ Goto(a, "release")
  /\ UNCHANGED <<vars, landed, toasts>>

\* The server takes a failed /execute as not broadcast.
MutantReleaseUnknown(a) == Goto(a, "release")

\* What an agent does when /execute gives it no signature: the server keeps the
\* claim (broadcastUnknown), the tab takes the swap as not broadcast.
AfterUnknown(a) == IF a \in Servers THEN Stop(a) ELSE Goto(a, "release")

\* The status that comes with the signature is not looked at.
MutantExecute(a) ==
  /\ pc[a] = "execute"
  /\ \E s \in Signatures :
       /\ landed[s] = NULL
       /\ landed' \in {landed, [landed EXCEPT ![s] = target[a]]}
       /\ pc' = [pc EXCEPT ![a] = "settle"]
       /\ sig' = [sig EXCEPT ![a] = s]
  /\ UNCHANGED <<vars, target, toasts>>

\* /execute may land the swap and keep its signature from the agent.
Unanswered(a) == (IF a \in Servers THEN "unknown" ELSE "unheard") \in Failures

\* executeUltraOrder
Execute(a) ==
  /\ pc[a] = "execute"
  /\ \/ \E s \in Signatures :
          /\ landed[s] = NULL
          /\ landed' = [landed EXCEPT ![s] = target[a]]
          /\ \/ /\ pc' = [pc EXCEPT ![a] = "settle"]
                /\ sig' = [sig EXCEPT ![a] = s]
                /\ UNCHANGED target
             \/ Unanswered(a) /\ AfterUnknown(a)
     \/ "refused" \in Failures /\ AfterUnknown(a) /\ UNCHANGED landed
  /\ UNCHANGED <<vars, toasts>>

SettleFill(o, s) ==
  \/ \E tp, sl \in Orders : ConfirmBuyFill(o, s, tp, sl)
  \/ \E cancelled \in AtMostOneOf(Orders) : ConfirmExitFill(o, s, cancelled)

\* settleOrder, or POST /api/orders/[id]/execute.  Whatever comes of it, the
\* claim is not released.
Settle(a) ==
  /\ pc[a] = "settle"
  /\ \/ SettleFill(target[a], sig[a])
     \/ SettleOutcome(target[a], sig[a]) # "success" /\ UNCHANGED vars
     \/ "lost" \in Failures /\ UNCHANGED vars
  /\ Stop(a)
  /\ UNCHANGED <<landed, toasts>>

\* releaseOrderExecutionClaim; the server then leaves the order to the tabs,
\* unless it was the quote that made it wait.
Release(a) ==
  /\ pc[a] = "release"
  /\ \/ /\ ReleaseOrderExecutionClaim(target[a])
        /\ toasts' \in {toasts} \cup (IF a \in Servers THEN {toasts \cup {target[a]}} ELSE {})
     \/ /\ status[target[a]] # "PENDING" \/ "lost" \in Failures
        /\ UNCHANGED <<vars, toasts>>
  /\ Stop(a)
  /\ UNCHANGED landed

\* Nothing of an agent outlives it but what it has written.
Crash(a) ==
  /\ "crash" \in Failures
  /\ pc[a] # "idle"
  /\ Stop(a)
  /\ UNCHANGED <<vars, landed, toasts>>

\* closePosition sells the tokens of a position its page shows as ACTIVE ...
BeginClose(a, p) ==
  /\ a \in Closers
  /\ state[p] = "ACTIVE"
  /\ Start(a, p, "sell")
  /\ UNCHANGED <<vars, landed, toasts>>

Sell(a) ==
  /\ pc[a] = "sell"
  /\ \/ \E s \in Signatures :
          /\ landed[s] = NULL
          /\ landed' = [landed EXCEPT ![s] = target[a]]
          /\ \/ /\ pc' = [pc EXCEPT ![a] = "close"]
                /\ sig' = [sig EXCEPT ![a] = s]
                /\ UNCHANGED target
             \/ Unanswered(a) /\ Stop(a)
     \/ "refused" \in Failures /\ Stop(a) /\ UNCHANGED landed
  /\ UNCHANGED <<vars, toasts>>

\* ... and then posts to /api/positions/[id]/close.
Close(a) ==
  /\ pc[a] = "close"
  /\ \/ \E c \in Orders : UserCloseActive(target[a], sig[a], c)
     \/ CloseOutcome(target[a], sig[a]) # "success" /\ UNCHANGED vars
     \/ "lost" \in Failures /\ UNCHANGED vars
  /\ Stop(a)
  /\ UNCHANGED <<landed, toasts>>

\* What the user does meanwhile, from any tab, in one call.
UserAction ==
  /\ \/ \E o \in Orders : CancelOpenOrder(o)
     \/ \E p \in Positions, tps, sls \in AtMostOneOf(Orders) :
          ReplaceProtectionOrders(p, tps, sls)
  /\ UNCHANGED <<agentVars, landed>>

AgentStep(a) ==
  \/ Fallback(a) \/ Claim(a) \/ Swap(a) \/ Execute(a) \/ Settle(a) \/ Release(a)
  \/ Sell(a) \/ Close(a)

TriggerNext ==
  \/ \E a \in Agents :
       \/ AgentStep(a) \/ Crash(a)
       \/ \E o \in Orders : Wake(a, o) \/ Tap(a, o)
       \/ \E p \in Positions : BeginClose(a, p)
  \/ UserAction

TriggerSpec == TriggerInit /\ [][TriggerNext]_allVars

\* The event loop of a process runs on: an agent that has begun goes on to the
\* end.  Nobody is obliged to begin, and no fairness is asked of the failures.
FairTriggerSpec == TriggerSpec /\ \A a \in Agents : WF_allVars(AgentStep(a))

--------------------------------------------------------------------------------
(* Properties.                                                             *)

\* An agent between its claim and its release or settlement owns the claim: the
\* order is PENDING still and no other agent believes it owns it, or any other
\* order of the position, although a claim records no owner and a release asks
\* for none.
HolderOwnsClaim ==
  /\ \A a \in Agents : pc[a] \in Holding =>
       /\ status[target[a]] = "PENDING"
       /\ state[positionOf[target[a]]] = Pending(kind[target[a]])
  /\ \A a, b \in Agents :
       /\ pc[a] \in Holding /\ pc[b] \in Holding
       /\ positionOf[target[a]] = positionOf[target[b]]
       => a = b

\* The ledger follows the chain (runs check it in SwapsAreBooked, with the statement
\* after it): an order is filled only with the signature of a
\* swap that landed for it or, if it is the record of a manual close, for its
\* position.
FilledSwapLanded ==
  \A o \in Orders : txSignature[o] # NULL =>
    landed[txSignature[o]] = IF kind[o] = "CLOSE_SWAP" THEN positionOf[o] ELSE o

SwapsFor(x) == {s \in Signatures : landed[s] = x}

\* No order is swapped twice.  (docs/signal-engine.md: repeated polls and stale
\* toasts cannot start a second swap after the first execution path owns the
\* trigger.)
OneSwapPerOrder ==
  \A o \in Orders : \A s1, s2 \in SwapsFor(o) : s1 = s2

\* A swap that landed and whose signature is known can be settled as long as its
\* agent lives: nothing another agent or the user does meanwhile takes away the
\* order or the position it needs.
KnownSwapSettles ==
  \A a \in Agents : pc[a] = "settle" => SettleOutcome(target[a], sig[a]) = "success"

\* The two together: a swap of a trigger is booked for the order it was made for, or
\* can be, whatever the other agents and the user did since its claim.
SwapsAreBooked == FilledSwapLanded /\ KnownSwapSettles

\* A claim is short-lived: the order is settled or open again in the end.
ClaimIsShortLived ==
  \A o \in Orders : status[o] = "PENDING" ~> status[o] # "PENDING"

================================================================================
