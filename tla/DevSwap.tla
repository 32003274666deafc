--------------------------------- MODULE DevSwap ---------------------------------
(***************************************************************************)
(* The page /dev-tools and its test swap: the operator has the server      *)
(* execute an order with its own signer, through the runtime of the        *)
(* trigger monitor (tryExecuteDelegatedTriggerOrder), and is told what     *)
(* came of it: whether there was a swap, and whether the order's claim was *)
(* kept.  The page first asks whether the server could sign at all.        *)
(*                                                                         *)
(* One `busy` serves all buttons of the page, and each is disabled by its  *)
(* own name only: another operation that begins or ends meanwhile gives    *)
(* the button back.  What the page knows are lists and readings that may   *)
(* be answered late.  TriggerExecution has the claim and the settlement    *)
(* against the position; here an order is OPEN, PENDING or at an end.      *)
(***************************************************************************)
EXTENDS Naturals, FiniteSets, NoValue

CONSTANTS
  TestOrders,   \* orders that test proposals opened, or may open
  Tests         \* clicks on the test swap

VARIABLES
  testOrder,    \* the rows: status, and who holds its claim or filled it
  signer,       \* the server's signer is on the wallet, at Privy
  openOrders,   \* the OPEN orders of the page's last list
  chosen,       \* delegatedOrderId
  pageBusy,     \* busy
  running,      \* another operation of the page is under way (one can disturb a test)
  listRead,     \* what a refresh that is under way has read
  trial         \* where each test is, its order, and what the page was told

devPageVars == <<openOrders, chosen, pageBusy, running, listRead>>
devSwapVars == <<testOrder, signer, devPageVars, trial>>

\* The outcomes of tryExecuteDelegatedTriggerOrder, and the errors beside them.
TestOutcomes == {"settled", "alreadyTaken", "quoteWaiting", "notAvailable", "preBroadcastFailed",
             "unreleased", "broadcastUnknown", "broadcastButSettleFailed",
             "blocked", "refused", "rejected"}

\* No click is the rest of the system, and to be told nothing is no outcome.
ASSUME DevSwapAssumption == "other" \notin Tests /\ NOTHING \notin TestOutcomes

Rows == [status : {"ABSENT", "OPEN", "PENDING", "FILLED", "CANCELLED"},
         by : Tests \cup {"other", NOTHING}]

TestSteps == {"idle", "status", "post", "resolve", "claim", "quote", "sign", "execute",
              "settle", "waiting", "problem", "failed", "reload", "done"}

\* What busy may name: the test, or another operation, whichever it is.
OperationNames == {"delegated-swap:execute", "other"}

DevSwapTypeOK ==
  /\ testOrder \in [TestOrders -> Rows]
  /\ signer \in BOOLEAN
  /\ openOrders \subseteq TestOrders /\ listRead \in (SUBSET TestOrders) \cup {NOTHING}
  /\ chosen \in TestOrders \cup {NOTHING}
  /\ pageBusy \in OperationNames \cup {NOTHING} /\ running \in BOOLEAN
  /\ trial \in [Tests -> [at : TestSteps, order : TestOrders \cup {NOTHING},
                          landed : BOOLEAN, told : TestOutcomes \cup {NOTHING}]]

DevSwapInit ==
  /\ testOrder \in [TestOrders -> [status : {"ABSENT", "OPEN"}, by : {NOTHING}]]
  /\ signer \in BOOLEAN
  /\ openOrders = {} /\ listRead = NOTHING /\ chosen = NOTHING
  /\ pageBusy = NOTHING /\ running = FALSE
  /\ trial = [t \in Tests |-> [at |-> "idle", order |-> NOTHING, landed |-> FALSE,
                               told |-> NOTHING]]

--------------------------------------------------------------------------------
(* The page.                                                               *)

\* delegatedOpenOrders of an answer, and the effect that keeps one of them chosen.
Listed(open) ==
  /\ openOrders' = open
  /\ \/ chosen \in open /\ chosen' = chosen
     \/ chosen \notin open /\ chosen' \in IF open = {} THEN {NOTHING} ELSE open

\* listDevToolsState
OpenNow == {o \in TestOrders : testOrder[o].status = "OPEN"}

\* refreshDevState, by an effect or the button.
AskDevState ==
  /\ listRead = NOTHING /\ listRead' = OpenNow
  /\ UNCHANGED <<testOrder, signer, openOrders, chosen, pageBusy, running, trial>>

DevStateArrives ==
  /\ listRead # NOTHING /\ listRead' = NOTHING
  /\ Listed(listRead) \/ UNCHANGED <<openOrders, chosen>>
  /\ UNCHANGED <<testOrder, signer, pageBusy, running, trial>>

ChooseOrder(o) ==
  /\ o \in openOrders /\ chosen # o /\ chosen' = o
  /\ UNCHANGED <<testOrder, signer, openOrders, pageBusy, running, listRead, trial>>

\* Any other button: it is disabled while busy has its name, which only it gives.
StartOperation ==
  /\ ~ running /\ running' = TRUE
  /\ pageBusy' = "other"
  /\ UNCHANGED <<testOrder, signer, openOrders, chosen, listRead, trial>>

\* finally: setBusy(null), whichever operation busy names by then.
OperationEnds ==
  /\ running /\ running' = FALSE
  /\ pageBusy' = NOTHING
  /\ UNCHANGED <<openOrders, chosen, listRead, trial>>

\* acceptProposal: the BUY order of a test proposal is opened, or refused.
ProposalAccepted(o) ==
  /\ OperationEnds
  /\ testOrder[o].status = "ABSENT"
  /\ testOrder' \in {testOrder, [testOrder EXCEPT ![o].status = "OPEN"]}
  /\ UNCHANGED <<signer>>

\* executeOrder: the swap of the tab, which has its own claim.
OrderExecuted ==
  /\ OperationEnds
  /\ UNCHANGED <<testOrder, signer>>

\* adjustProtection and closePosition: exits that are OPEN are cancelled, or nothing is.
PositionChanged(o) ==
  /\ OperationEnds
  /\ \/ UNCHANGED testOrder
     \/ testOrder[o].status = "OPEN" /\ testOrder' = [testOrder EXCEPT ![o].status = "CANCELLED"]
  /\ UNCHANGED <<signer>>

\* enableDelegatedAccess: the prompt is granted, or not in time.
AccessEnabled ==
  /\ OperationEnds
  /\ signer' \in {signer, TRUE}
  /\ UNCHANGED testOrder

\* revokeDelegatedAccess, in time or not.
AccessRevoked ==
  /\ OperationEnds
  /\ signer' \in {signer, FALSE}
  /\ UNCHANGED testOrder

--------------------------------------------------------------------------------
(* The test swap: the page.                                                *)

Moves(t, step) == trial' = [trial EXCEPT ![t].at = step]

\* The request is answered, and the page lists the orders again.
Told(t, outcome) == trial' = [trial EXCEPT ![t].at = "reload", ![t].told = outcome]

RunDelegatedUltraSwap(t) ==
  /\ trial[t].at = "idle"
  /\ chosen # NOTHING /\ pageBusy # "delegated-swap:execute"
  /\ pageBusy' = "delegated-swap:execute"
  /\ trial' = [trial EXCEPT ![t].at = "status", ![t].order = chosen]
  /\ UNCHANGED <<testOrder, signer, openOrders, chosen, running, listRead>>

\* delegatedExecutionReadinessStatus: what keeps the server from signing.  A lookup of
\* the wallet that fails finds no wallet; a lookup of the user that fails is no blocker.
blockers(walletFound, signerMatched) ==
  (IF walletFound THEN {} ELSE {"privy_wallet_not_delegated"}) \cup
  (IF signerMatched THEN {} ELSE {"wallet_missing_authorization_signer", "wallet_not_delegated"})

\* getPrivyDelegatedUltraSwapStatus, or an error.
Readiness == {blockers(walletFound, walletFound /\ signer) : walletFound \in BOOLEAN} \cup {{"error"}}

\* buildDelegatedUltraPreflightReport, of the status that was read for it and of the order
\* as it was clicked, OPEN: posted, or blocked.
PreflightTest(t) ==
  /\ trial[t].at = "status"
  /\ \E found \in Readiness : IF found = {} THEN Moves(t, "post") ELSE Told(t, "blocked")
  /\ UNCHANGED <<testOrder, signer, devPageVars>>

\* refreshDevState after the answer, which may fail, and the button.
TestEnds(t) ==
  /\ trial[t].at = "reload"
  /\ Listed(OpenNow) \/ UNCHANGED <<openOrders, chosen>>
  /\ pageBusy' = NOTHING
  /\ Moves(t, "done")
  /\ UNCHANGED <<testOrder, signer, running, listRead>>

--------------------------------------------------------------------------------
(* The test swap: the server.                                              *)

\* buildOwnedDevTriggerPayload: the order is read, priced and quoted.
BuildPayload(t) ==
  /\ trial[t].at = "post"
  /\ \/ testOrder[trial[t].order].status = "OPEN" /\ Moves(t, "resolve")
     \/ Told(t, "refused")
  /\ UNCHANGED <<testOrder, signer, devPageVars>>

\* resolveDelegatedWalletByAddress asks Privy again, and prepareInputAmount the chain.  A
\* lookup that fails is preBroadcastFailed, and `released` although there is no claim.
ResolveWallet(t) ==
  /\ trial[t].at = "resolve"
  /\ \/ blockers(TRUE, signer) = {} /\ Moves(t, "claim")
     \/ \E outcome \in {"notAvailable", "preBroadcastFailed"} : Told(t, outcome)
  /\ UNCHANGED <<testOrder, signer, devPageVars>>

\* claimOrderExecution; it may throw, done or not, which ends in an error of the route.
ClaimForTest(t) ==
  /\ trial[t].at = "claim"
  /\ \/ /\ testOrder[trial[t].order].status = "OPEN"
        /\ testOrder' = [testOrder EXCEPT ![trial[t].order] = [status |-> "PENDING", by |-> t]]
        /\ Moves(t, "quote") \/ Told(t, "rejected")
     \/ testOrder[trial[t].order].status # "OPEN" /\ Told(t, "alreadyTaken") /\ UNCHANGED testOrder
     \/ Told(t, "rejected") /\ UNCHANGED testOrder
  /\ UNCHANGED <<signer, devPageVars>>

\* requestUltraOrder and executableTriggerDecision.
QuoteTest(t) ==
  /\ trial[t].at = "quote"
  /\ \E next \in {"sign", "waiting", "problem", "failed"} : Moves(t, next)
  /\ UNCHANGED <<testOrder, signer, devPageVars>>

\* Privy signs for a signer that the wallet has.
SignTest(t) ==
  /\ trial[t].at = "sign"
  /\ \/ signer /\ Moves(t, "execute")
     \/ Moves(t, "failed")
  /\ UNCHANGED <<testOrder, signer, devPageVars>>

\* The outcome of a claim that was let go, by what stopped the swap.
OutcomeOf(step) == CASE step = "waiting" -> "quoteWaiting"
                     [] step = "problem" -> "notAvailable"
                     [] step = "failed"  -> "preBroadcastFailed"

\* The answer of the release is not looked at.
MutantReleaseTest(t) ==
  /\ trial[t].at \in {"waiting", "problem", "failed"}
  /\ testOrder' \in {testOrder, [testOrder EXCEPT ![trial[t].order] = [status |-> "OPEN", by |-> NOTHING]]}
  /\ Told(t, OutcomeOf(trial[t].at))
  /\ UNCHANGED <<signer, devPageVars>>

\* releaseOrderExecutionClaim: done, and answered so; else released = FALSE.
ReleaseTest(t) ==
  /\ trial[t].at \in {"waiting", "problem", "failed"}
  /\ LET open == [testOrder EXCEPT ![trial[t].order] = [status |-> "OPEN", by |-> NOTHING]]
     IN  \/ testOrder' = open /\ Told(t, OutcomeOf(trial[t].at))
         \/ testOrder' \in {open, testOrder} /\ Told(t, "unreleased")
  /\ UNCHANGED <<signer, devPageVars>>

\* executeUltraOrder: a signature; or none, of a swap that may have landed.
ExecuteTest(t) ==
  /\ trial[t].at = "execute"
  /\ \/ trial' = [trial EXCEPT ![t].at = "settle", ![t].landed = TRUE]
     \/ \E landed \in BOOLEAN :
          trial' = [trial EXCEPT ![t].at = "reload", ![t].told = "broadcastUnknown", ![t].landed = landed]
  /\ UNCHANGED <<testOrder, signer, devPageVars>>

\* settleOrder, not awaited: if it throws, so does the whole.
SettleTest(t) ==
  /\ trial[t].at = "settle"
  /\ LET o == trial[t].order
         filled == [testOrder EXCEPT ![o] = [status |-> "FILLED", by |-> t]]
     IN  \/ /\ testOrder[o].status \in {"OPEN", "PENDING"}
            /\ \/ testOrder' = filled /\ Told(t, "settled")
               \/ testOrder' \in {filled, testOrder} /\ Told(t, "rejected")
         \/ testOrder[o].status \notin {"OPEN", "PENDING"} /\ UNCHANGED testOrder
            /\ Told(t, "broadcastButSettleFailed")
  /\ UNCHANGED <<signer, devPageVars>>

--------------------------------------------------------------------------------
(* The rest of the system: the monitor, a tab or the user takes an order, and *)
(* the settings page changes the signer.                                   *)

OthersTake(o) ==
  /\ testOrder[o].status = "OPEN"
  /\ testOrder' \in {[testOrder EXCEPT ![o] = [status |-> "PENDING", by |-> "other"]],
                     [testOrder EXCEPT ![o].status = "CANCELLED"]}
  /\ UNCHANGED <<signer, devPageVars, trial>>

OthersEnd(o) ==
  /\ testOrder[o] = [status |-> "PENDING", by |-> "other"]
  /\ testOrder' \in {[testOrder EXCEPT ![o] = [status |-> "OPEN", by |-> NOTHING]],
                     [testOrder EXCEPT ![o].status = "FILLED"]}
  /\ UNCHANGED <<signer, devPageVars, trial>>

SignerChanges ==
  /\ signer' = ~ signer
  /\ UNCHANGED <<testOrder, devPageVars, trial>>

DevSwapNext ==
  \/ \E t \in Tests :
       \/ RunDelegatedUltraSwap(t) \/ PreflightTest(t) \/ TestEnds(t)
       \/ BuildPayload(t) \/ ResolveWallet(t) \/ ClaimForTest(t) \/ QuoteTest(t) \/ SignTest(t)
       \/ ReleaseTest(t) \/ ExecuteTest(t) \/ SettleTest(t)
  \/ \E o \in TestOrders :
       ChooseOrder(o) \/ ProposalAccepted(o) \/ PositionChanged(o) \/ OthersTake(o) \/ OthersEnd(o)
  \/ StartOperation \/ AskDevState \/ DevStateArrives
  \/ OrderExecuted \/ AccessEnabled \/ AccessRevoked \/ SignerChanges

DevSwapSpec == DevSwapInit /\ [][DevSwapNext]_devSwapVars

--------------------------------------------------------------------------------
(* Properties.                                                             *)

\* outcomeError: whether the page is told that the claim is kept.  quoteWaiting is not
\* told apart from the last case.
claimRetained(outcome) == outcome \in {"broadcastUnknown", "broadcastButSettleFailed", "quoteWaiting"}

HoldsClaim(t) == trial[t].order # NOTHING /\ testOrder[trial[t].order] = [status |-> "PENDING", by |-> t]

\* What the operator is told of a test is so, now and later: a claim that is said to be
\* kept is kept, one that is said to be released, or never to have been taken, is not,
\* and a settled test has filled its order (docs/dev-tools-privy-delegated-ultra-swap.md,
\* Expected Failures).  Nor do two tests swap one order, although the button comes back
\* while a test runs.  (Not so of a quote that waits: its claim is released, and the page
\* is told that it is kept.)
TestTellsTheClaim ==
  /\ \A t \in Tests :
       /\ trial[t].told = "settled" => testOrder[trial[t].order] = [status |-> "FILLED", by |-> t]
       /\ claimRetained(trial[t].told) /\ trial[t].told # "quoteWaiting" => HoldsClaim(t)
       /\ trial[t].told \notin {NOTHING, "unreleased", "rejected"} /\ ~ claimRetained(trial[t].told)
            => ~ HoldsClaim(t)
  /\ \A t, u \in Tests : trial[t].landed /\ trial[u].landed /\ trial[t].order = trial[u].order => t = u

================================================================================
