# Hunch It: a TLA+ model of its trading core

Hunch It proposes trades in tokenised equities to its users and executes the
ones they accept.  A BUY proposal that is accepted becomes a position with a
synthetic BUY order; when the market reaches its trigger price the order is
swapped on Solana through Jupiter Ultra and settled; the fill arms a
take-profit and a stop-loss, and one of them, a manual close or an accepted
SELL proposal sells the position.  Several processes and browser tabs write the
same four tables, none of them holds a lock across a swap, and a swap cannot be
undone.  These modules are about that: who may swap, once, and whether the
database keeps telling the truth about it.

Paths below are relative to the repository (`src/` in `PROJECT.json`).

## 1. Inventory

| Part | State | Operations | What is hard |
| --- | --- | --- | --- |
| **Position lifecycle**, `packages/db/src/lifecycle/position-lifecycle.ts` and `proposal-expiration.ts` | tables Proposal, Position, Order, Trade | `acceptBuyProposal`, `placeProtectionOrder`, `replaceProtectionOrders`, `cancelOpenOrder` (`cancelPendingBuyTx`), `claimOrderExecution`, `releaseOrderExecutionClaim`, `confirmBuyFill`, `confirmExitFill`, `userCloseActive`, `confirmSellProposalClose`, `expireActiveProposals` | concurrent transactions under READ COMMITTED: read, check, then compare-and-set; duplicates by signature; opposite lock orders |
| **Delegated execution**, `packages/execution/src/orders/delegated-execution.ts`, `apps/ws-server/src/orders/*`, `scheduler.ts` | the claim (a status of the order), a busy flag, a cooldown map, what is in flight | tick, walk over the open orders, quote, claim, `/order`, sign, `/execute`, settle, release, emit toast | crash between any two steps; `/execute` without an answer; a list that grows stale during the walk; two processes during a deploy |
| **Tapped execution**, `apps/web/lib/orders/trigger-execution.ts`, `execution-claim.ts`, `components/notifications/notification-client.tsx` | toasts, the orders in flight or settled, the socket | hit, tap, claim, swap, settle, release, `trade:filled` | stale toasts, closed tabs, several tabs, messages that cross |
| **Manual close**, `apps/web/lib/runtime/use-runtime.ts`, `lib/jupiter/ultra-swap.ts`, `panic-close-all.tsx`, `sell-proposal-view.tsx` | what the tab knows of its swap and of the size of the position | read the balance, swap, then persist | the swap precedes any claim; positions share the tokens of a mint |
| **Exits on the page**, `app/positions/[id]/page.tsx`, `lib/jupiter/use-exit-orders.ts` | a view refetched every 20 s, two drafts | place, replace, close | stale views against claims and fills |
| **Proposal generator**, `apps/ws-server/src/signals/generator.ts`, `base-analysis*.ts`, `llm.ts`, `proposals/generator.ts` | the refresh gate, the day's spend, Proposal rows | a tick per interval over all assets: gate, bars, LLM, eligible users, insert | ticks overlap; check and insert are awaits apart; the mandate moves |
| **Terms of a proposal**, `packages/db/src/lifecycle/proposal-*.ts`, `proposals/portfolio-context.ts` | a cache of balances | size, trigger, exits | rounding, partial reads |
| **Thesis monitor**, `apps/ws-server/src/signals/thesis-monitor.ts`, `packages/shared/src/thesis.ts` | the tags a BUY was made for, SELL Proposal rows | tag the BUY, walk the held positions, compare, look for a live SELL, insert | check and insert are awaits apart; a short history gives stand-in indicators |
| **Back-evaluation**, `apps/ws-server/src/signals/evaluator.ts` | evaluation columns | score the oldest due proposals | the ones that always fail come first |
| **Skips and mandates**, `app/api/skips`, `app/api/mandates`, `app/mandate` | Skip, Mandate, Proposal rows, the mandate form | skip, create (`POST`) or edit (`PUT`, expires proposals) a mandate | read, await, write by id; a form that could not read sends the wrong one |
| **Proposals in the browser**, `lib/store/proposals.ts`, `proposals-feed.tsx`, `app/proposals/[id]` | a store of pushed copies, a list, a page | push, list, open, decide, clear | copies say ACTIVE for ever |
| **Grill**, `apps/web/lib/grill/*`, `app/grill` | drafts in memory, the stored team | analyse (market analysts, null controls, portfolio), create proposal | a draft consumed before later checks; look-ahead; calendar arithmetic |
| **Price history**, `packages/shared/src/pyth-benchmarks.ts` | cache, requests in flight, next turn, rate limit | fetch, share, space, retry, serve stale | many callers, one budget |
| **Delegated access**, `app/settings/page.tsx`, `lib/delegated-execution/*` | the signer at Privy, the card | enable, disable, poll | calls that never answer |
| **Wallet transfers**, `app/withdraw/page.tsx`, `lib/solana/use-wallet-transfer.ts` | form, prepared transfer, result | prepare, review, send, check the balance | only some controls are disabled during an await |
| **Developer tools**, `lib/dev-tools/*`, `app/dev-tools/dev-tools-client.tsx` | DEV_TOOLS proposals, the page's lists and its `busy` | test proposal, forced trigger, test swap with the server's signer | check and insert; one `busy` for all buttons, a list that grows stale |
| **Session gates**, `middleware.ts`, `lib/auth/*`, `app/template.tsx`, `app/login` | a token cookie, the wallet provider's session, the user row | let through, redirect, restore, log out | gates that read different things and disagree |
| **Agent pages**, `Fundamental_analysis_agent/web` | jobs in memory, pollers | submit, follow, reset | pollers nobody stops |
| Portfolio summary, other pages, the agent's Python pipelines | caches and sessions | reads | stale views |

They interact through the database (every writer of a table may meet every
other), through the chain (a swap lands whether or not its caller hears of
it), and through socket messages (`trigger:hit` puts a toast on a tab, which
the user may tap at any later time).

What makes each part correct:

- *Lifecycle*: a position has one BUY order that never drifts from it; one
  order of a position is claimed at a time; a swap is booked once; a position
  is sold once, whichever of its exits race; a proposal buys once; what is
  settled is final; no lock order lets the common functions deadlock.
- *Execution*: a holder of a claim keeps it; an order is swapped once; a
  position is sold by one exit; a known signature can be settled; a claim ends.
- *Proposals*: one live decision per asset from the generator, one live SELL
  per position, no late write over a status undoes what an acceptance or
  a close has done, and an edit of the mandate leaves nothing behind but what
  was already being inserted; a SELL of the monitor has a cause in the market.
- *Pages*: what is signed is what was reviewed; a sale sells its position and
  nothing else; an ACTIVE position keeps its two exits; a toast is true of its
  order; a stale copy leaves; a button comes back, and only when its job ended;
  a visitor is not sent round in circles; an operator is told what became of the
  claim of the test swap.
- *Services*: every due order, proposal or poll is reached; requests keep their
  pace; what is shown was fetched recently.
- *Arithmetic*: the wake-up band loses no fill; exits lie on their sides of the
  trigger; a cap is kept; a backtest looks ahead only through what its rule is fitted
  to; a calendar does not skip.

`PROJECT.json` lists every component with its status and every hazard with the
line where it bites.

## 2. Modules

| Module | Models | State |
| --- | --- | --- |
| `PositionLifecycle` | every transaction of `position-lifecycle.ts`, one step each, and the insertion and expiration of proposals | the four tables, a function per column; `lapsed`, the proposals whose `expiresAt` has passed |
| `PositionAbstract` | what a position promises: wanted, then dropped or bought by one swap, then sold by one other | `stage`, `buys`, `sells` |
| `PositionLifecycleProofs` | the theorems about the orders, the positions, the ledger, the proposals and the steps of `PositionLifecycle`, and that it implements `PositionAbstract` | |
| `TriggerExecutionProofs` | the theorems about the agents of `TriggerExecution` | |
| `ProposalLifecycleProofs` | the theorems about the writers of `ProposalLifecycle` | |
| `ComponentProofs` | a theorem for each of twelve components | |
| `PageProofs` | the theorems about `PositionPage`, `GrillDrafts`, `WithdrawPage` and `SessionGate` | |
| `AnalysisProofs` | the theorems about what the analysts compute, `GrillBacktests` and `PortfolioWeights` | |
| `CompositionProofs` | that a run of the components together is a run of each, and the types of them all | |
| `Amounts` | what several accounts or positions hold together | |
| `Subsequences` | what a filter keeps of a list, without recursion, so that it can be proved about | |
| `StatementProofs` | the theorems about the statements of `LifecycleStatements` | |
| `LifecycleStatements` (extends `PositionLifecycle`) | the same transactions, one SQL statement at a time, under READ COMMITTED with row locks, unique-index waits, deadlocks and rollbacks | the committed tables, which are the columns of `PositionLifecycle`, and for each session its call, its remaining statements, the exits it has read, its uncommitted rows |
| `TriggerExecution` (extends `PositionLifecycle`) | the protocol around a swap: server, tapping tabs, closing tabs, the chain, and the failures of each | program counter, target and signature of each agent; `landed`, the swaps on chain; `toasts` |
| `ProposalLifecycle` (extends `PositionLifecycle`) | everything that writes Proposal rows, cut at the awaits | `origin`, and a program counter per generator tick, monitor and tab |
| `TriggerMonitor` | the scheduled task and its tick over the watched orders | closure of the task, the await it is at, its queue, cooldowns, and of each order its status, toast and claim |
| `TriggerQuotes` | the arithmetic from the mark to the settled amounts | an order, the mark, the wallet, a quote |
| `NotificationTab` | a tab between socket and toasts | status of the orders, events on the wire, the toasts and refs of the tab |
| `WalletSales` | sales of several positions of one mint, the loops of both panic buttons among them | tokens on chain, positions held, the sale of each page |
| `PositionPage` | the exits of a position from its page, in several tabs | the position, its exits, each page's view and drafts |
| `SignalEngine` | overlapping ticks, gate, spend, mandate versions and the form that edits them | each tick's await and what it has read; the form; live proposals |
| `ProposalTerms` | size, trigger and exits of a BUY proposal | the wallet, the cached balances, the terms created |
| `BackEvaluation` | runs over the due proposals | creation times, outcomes, the run's batch |
| `ProposalInbox` | store, feed and page of one tab | statuses, pushes on their way, the store, the list, the feed |
| `GrillDrafts` | pages, teams and drafts | drafts of the process, what each page shows and waits for |
| `GrillBacktests` | rules of the market analysts and what their backtests hold | the bars so far |
| `GrillCalendars` | the null controls' calendars | anchor and day |
| `PortfolioWeights` | sizing, capping and scaling | the names that are long, their weights |
| `PriceHistory` | the history client | cache, requests, turns, rate limit, readers |
| `DelegationSettings` | the settings card and the status route | the signer, the card's step, answers and stray calls |
| `WithdrawPage` | the withdraw page | form, prepared transfer, chain, what landed |
| `DevTools` | test proposals and forced triggers | the proposals in commit order, each request's step |
| `SessionGate` | the gates between a visitor and a page | rows, cookie, session, the page shown, requests in flight |
| `Thesis` | the tags of a BUY and the monitor that compares them | the market, the tags, the live SELL and the bars it was decided over |
| `DevSwap` | the page of the developer tools and its test swap | orders, signer, list, `busy`, what each test is told |
| `AgentPages` | a page of the research agent and its job | jobs, followers, the page |
| `NoValue` | one value that is in no other set, for `null` | |
| `MC...` | the instances TLC checks: symmetry, lists of operations, values a configuration cannot write; `MCComponents` and `MCProgress` join the components | |

The modules compose by extension and instance: `TriggerExecution` and
`ProposalLifecycle` use the actions of `PositionLifecycle` as calls;
`LifecycleStatements` takes its columns for what is committed and shows that
each commit is one of its steps (`CommitsAreLifecycleSteps`); and
`PositionLifecycle` instantiates `PositionAbstract` under the refinement
mapping `StageOf`, `BuysOf`, `SellsOf` (`ImplementsAbstract`).  The modules
from `TriggerMonitor` on stand for themselves: each takes what it needs of the
rest of the system as steps of an environment (a tab that claims, a market that
moves, a user who decides elsewhere).  `TriggerMonitor`, `NotificationTab` and
`PositionPage` keep of an order only what they read of it; that a claim, a
release or a fill does what they assume is what `PositionLifecycle` says.

`MCComponents` and `MCProgress` put components that share no variable into one
run: the initial state picks a *subject*, whose actions are the only ones taken,
and the others stay in one initial state.  The reachable states are the disjoint
union of those of the components, so nothing is lost and no product is built;
a property of one component is checked in the states of that component and in a
single state of every other.

Correspondence with the code:

- A row not inserted has status `"ABSENT"`; an insertion picks any such row,
  which stands for `cuid()`.
- `updateMany` with a WHERE clause and a count is one atomic compare-and-set
  (one SQL UPDATE); its guard is the WHERE clause.
- An action is the success path of a function.  A refusal changes nothing; the
  two answers others depend on are `SettleOutcome` and `CloseOutcome`.
- `confirmExitFill` cancels *one* sibling, and `findFirst` without an order may
  return any: `SiblingChoices`.
- `confirmBuyFill` creates the two exits in its own transaction (`tp`, `sl`).
- An operator `Mutant...` is the one after it with a plausible bug; nothing
  uses it.  It documents what the property named in `PROJECT.json` sees.

### Abstractions

*Lifecycle.*  Prices, sizes and token amounts are positive by the first guards of
each function and no other guard compares them, so only `hasTokens` is kept;
profit and loss are not modelled.  There is one user, so the `userId` conjuncts
are true.  `PARTIALLY_FILLED`, `EXPIRED`, `FAILED` and `jupiterOrderId` are
residual in the schema: nothing writes them.  Time is the set `lapsed`.
`ProposalLifecycle` has one asset, leaves free whether a proposal is worth
making, and cuts the `findMany` of the generator into the two SELECTs it is, in
either order; the operations that write only exit orders are left out of its
environment, because no step there reads an order.  In `TriggerExecution` a tab
may tap any toast it ever had, which allows more than the code
(`NotificationTab` has what a tab remembers).

*Time.*  `SignalEngine`, `PriceHistory`, `ProposalTerms`, `GrillDrafts`,
`ProposalInbox`, `BackEvaluation` and `DevTools` have a clock of few ticks and
constants of one or two for the code's periods; only the order of events against
those periods is kept.  Timers of `PriceHistory` are punctual.  `SignalEngine` reads the mandate and
the live proposals with a SELECT each, in either order.  The
form of `SignalEngine` sends a `POST` until it has been filled; its property is
about the `PUT`, the one that expires proposals.

*Amounts.*  Everything is in integers.  `ProposalTerms` counts money in tenths of
a cent and prices in thousandths, and lets `toFixed(2)` round a half either way;
`TriggerQuotes` counts raw units and cross-multiplies where the code divides;
`PortfolioWeights` keeps numerators over one denominator and leaves risk parity
and target volatility, which need square roots, open; `GrillBacktests` scales
averages and ratios until they are whole; `Thesis` keeps the order of prices and
averages, and the RSI beside each of its thresholds.  `GrillCalendars` is exact.  `WithdrawPage` counts the units the
accounts hold as the elements of a set, so that sums are cardinalities (`Total`, of
`Amounts`), and `WalletSales` sums positions in the same way.

*Free choices.*  Market prices, quotes, the answers of Privy, Gemini, Pyth and the
chain, what an analysis says, and when a user acts.  `AgentPages` takes one page
at a time, chosen in the initial state from all of them; `WithdrawPage` lets
`Outside` change the wallet.  `DevTools` keeps of the row locks only those on the
rows that `expireActiveProposals` writes, since nothing else is locked.

Several modules have a type invariant that no run lists
(`TriggerTypeOK`, `ProposalTypeOK`, `StatementTypeOK` and those of the
components of `MCProgress` that `MCComponents` has not): they document the shape
of the state.

## 3. Runs

All pass exhaustively except those named as violations.  Symmetry is used only
where the property is a safety property.

| Run | Bounds | Shows |
| --- | --- | --- |
| `PositionLifecycle` | 2 proposals, 2 positions, 5 orders, 3 signatures | the invariants of the tables, `ClaimedPositionWaits`, `SettledIsFinal`, and the refinement |
| `LifecycleStatements` | 2 sessions, 1 position, 5 orders, 2 signatures | statement interleavings commit only steps of `PositionLifecycle`; no deadlock among the functions that lock their order first; no invariant error |
| `LifecycleStatementsPlace` | 2 sessions, 4 orders, `placeProtectionOrder` included | its read-then-insert breaks the step correspondence but not the money invariants |
| `TriggerTabs` | a server, a tab, a closing tab, all five failures | `HolderOwnsClaim`, and `SwapsAreBooked`: a filled order's swap landed, and a swap that is known can be settled |
| `TriggerToasts` | a server, two tabs, crashes, lost calls, refusals, unknown outcomes at the server | one swap an order |
| `TriggerSecondSwap` (violation) | a server and a tab, `/execute` unanswered in the tab | the tab releases the claim of a swap that landed, and the order is swapped again |
| `TriggerStuckClaim` (violation) | a refusal, fair agents | the order stays PENDING for ever |
| `ProposalLifecycle` | 3 proposals, 1 position, 2 generator ticks, 1 monitor, 1 tab; both ticks are under way only while monitor and tab are idle (`TicksRaceAlone`) | `DecisionsPerWriter` (two overlapping ticks leave two live BUY proposals, never three; one monitor leaves one live SELL of a position), `BoughtOnce`, `ExecutedSellClosedItsPosition` with the confirmation split at its read |
| `SkipOverwrites` (violation) | 2 proposals, 1 tab | an executed proposal becomes SKIPPED |
| `Components` | eighteen subjects, see below | a safety property each |
| `Progress` | five subjects, see below | the liveness properties, under fairness |
| `WalletSweep` (violation) | 2 positions of a mint, 2 pages, 2 sales | a SELL proposal confirmed early sells the other position's tokens |

Subjects of `Components`:

| Subject | Bounds | Property |
| --- | --- | --- |
| `TriggerMonitor` | 2 orders, cooldown 1, 1 fault | `ClaimIsAccountedFor`: a PENDING order is being executed, or was given up because its outcome is unknown |
| `SignalEngine` | 1 asset, 2 overlapping ticks, 2 prices, 2 times, the form and 1 edit | `EditExpiresOldProposals` |
| `GrillDrafts` | 2 pages, 1 idea, teams of up to 2 of 2 analysts, 2 analyses | `AnalysisBuysOnce` |
| `WithdrawPage` | 2 accounts, 1 destination, amounts to 1, 1 send | `LandsAsReviewed` |
| `WalletSales` | 1 position and other tokens, 2 pages, 2 sales | `SaleIsScoped` |
| `GrillCalendars` | 3 anchors, 800 days from each: two new years, a leap year, two Lichuns, the end of a century | `CyclesAdvance` |
| `GrillBacktests` | 5 bars of 2 closes each, windows of 2 and 3 | `PositionsPrecedeTheirBar`, for every rule and every other close of every bar that leaves the fit of the rule as it is |
| `AgentPages` | every page, 2 jobs, 1 restart | `OneJobAtATime` |
| `PositionPage` | 2 tabs, 1 price a leg | `ExitsStayArmed` |
| `NotificationTab` | 2 orders, 1 event on the wire | `ToastsTellTheOrder` |
| `PriceHistory` | 2 callers, 2 assets, 2 windows, 2 attempts | `HistoryIsPacedAndCurrent` |
| `ProposalTerms` | 3 balances, 4 analyses, 2 drawdowns, 2 limits | `ExitsBracketTheTrigger` |
| `TriggerQuotes` | 4 orders, 5 marks at the edges of the band, 4 balances | `BandCoversExecutableQuotes` |
| `PortfolioWeights` | 3 names, 3 volatilities, 2 scores, both caps | `CapIsKept` |
| `DevTools` | 2 requests, 2 proposals, 3 times | `SecondProposalOverlapped`: two live test proposals mean two transactions that overlapped |
| `SessionGate` | 1 visitor and a former one, 2 failed verifications, 2 requests left behind | `NoRedirectLoop` |
| `Thesis` | 3 levels, 5 RSIs about the thresholds, 4 lengths of the history about both windows | `SellHasCause` |
| `DevSwap` | 1 order, 2 tests, 1 other operation | `TestTellsTheClaim` |

`ComponentsTypeOK` is the type invariant of whichever is the subject.

Subjects of `Progress`: `TriggerExecution` without failures
(`ClaimIsShortLived`), `TriggerMonitor` with 2 orders and 1 fault
(`ExecutableOrderIsReached`), `BackEvaluation` with 3 proposals of which one always
fails, runs of 2 (`DueProposalIsScored`), `ProposalInbox` with one proposal
(`StaleProposalLeavesTheFeed`), and `DelegationSettings` with 3 polls, failing
lookups and late prompts (`SwitchIsFreed`).

Why the bounds are enough.  A position needs its BUY order, two exits and a
closing order; the fifth order of the `PositionLifecycle` run lets exits be
replaced or doubled, or lets a second position exist, and three signatures let
one be replayed against a fill and a sale of another position.  Two proposals
and two positions let a double acceptance give two positions.  Every anomaly
of the statement model that READ COMMITTED allows between these functions
involves two transactions and one committed in between, which a session may
run after it has ended its first.  In `TriggerExecution` three agents with
three signatures let one agent's swap be followed by another's and by a close.
The `ProposalLifecycle` run has one position because each of its races is
about one asset, and three proposals because that is one more than two ticks may
leave live; a tick, the monitor and the tab interleave freely, and so do the two ticks.
Two positions of one proposal are the matter of
`ProposalBuysOnce` in `PositionLifecycle`.  The races of the components are
between two actors (two ticks, pages, callers, requests, or one and its
environment) over one row, so two of each is what they need, and their clocks
are long enough for what was written at the start to lapse and be replaced.
The liveness runs are smaller than one would like: a second proposal in the
inbox, a longer cooldown of the monitor or a second fault makes the search of
the behaviour graph many times longer.

**Fairness.**  Weak fairness only, of what a process does by itself: the steps of
an agent after it has begun (`AgentStep`), timers that fire (`TimerFires`,
`ClearExpired`, `PromptTimesOut`, `StartRun`), awaits of the code's own calls that
return (`TickStep`, `ScoreNext`, `ReadStatus`), a process manager that replaces a
stopped process, and the clock.  Nobody is obliged to begin an execution, to tap
a toast, to answer a prompt, to close a position or to deliver a message, and
failures are never fair.  In `Progress` the fair actions of the subjects are
joined by number: in a behaviour with one subject each conjunct is the fairness
condition of that subject alone.  An await that never returns is outside this
assumption (see the scheduler among the hazards).

The deadlock check is off where a system may really stop: every order settled and
every agent idle in `Trigger...` and `WalletSweep`, and the bounded clocks and
walks of `Components` and `Progress`.

### What the violations say

1. `TriggerSecondSwap`: the tab releases its claim whenever it has no
   signature, which the failure table of `docs/api-contract.md` forbids after
   `/execute` has been attempted.
2. `TriggerStuckClaim`: the server keeps the claim "for reconciliation", and
   there is no reconciliation; `CONTEXT.md` calls the claim short-lived.
3. `SkipOverwrites`: `POST /api/skips` does not refuse executed proposals.
4. `WalletSweep`: the amount of a SELL proposal's close comes from a query that
   may not have answered, and no amount means the whole balance, which a comment
   of `ultra-swap.ts` says a close never takes.

Other disagreements met on the way are told with the hazards of `PROJECT.json`: a
second exit of a kind survives the fill of its sibling; `startSignalLoop` starts a tick
whether or not the last has ended, so that two insert two live BUY proposals where
`docs/signal-engine.md` says there is one (what does hold, `DecisionsPerWriter`, is that
the proposals do not outnumber the ticks); a size rounded above the
balance; a failed lookup reported as a revocation; rules chosen on the bars they are
scored on, and two of them fitted to those bars: the volatility that counts as calm is a
median over all bars, the best months are the best of all bars, the later ones
included; a test swap that waits for its quote reported as one whose claim is kept; a
SELL decided over stand-ins for indicators the history was too short for.

## 4. Proofs

The theorems hold for any sets of proposals, positions, orders, signatures,
agents, pages, callers and so on, and for any bound.  They assume of the
constants what the named ASSUMEs of the modules say, no more:

- `NULL` and `NOTHING` are none of the values they stand beside (`NullAssumption`,
  `OriginAssumption`, `DevSwapAssumption`, `SessionAssumption`, parts of
  `HistoryAssumption`, `GrillAssumption` and `WeightsAssumption`), an order is no position
  (`TriggerAssumption`), and a visitor is not the former user (`GateAssumption`);
- counters, clocks and sizes are natural numbers (`AgentAssumption`, `DevAssumption`,
  `HistoryAssumption`, `ThesisAssumption`, `MonitorAssumption`, `SignalAssumption`,
  `SalesAssumption`, `GrillAssumption`, `CalendarAssumption`);
- the watched orders, the assets with a signal, the positions of a mint, the token
  accounts of a wallet, and the generator ticks and monitors under way are finitely many
  (`MonitorAssumption`, `SignalAssumption`, `SalesAssumption`, `WithdrawAssumption`,
  `AgentsAssumption`);
- how the prices and amounts that are enumerated are written (`QuotesAssumption`,
  `TermsAssumption`, `PageAssumption`), that prices and the windows of the indicators are
  positive (`BacktestAssumption`), and that the largest weights are shares of the whole,
  the narrow one no more than the wide one (`WeightsAssumption`);
- a default team is one of the catalogue, within the limit (`GrillAssumption`), and a
  series of bars begins at a civil date (`CalendarAssumption`).

| Module | Proves of every behaviour of the specification |
| --- | --- |
| `PositionLifecycleProofs` | `TypeOK`, `RowsWellFormed`, `EntryOrderTracksPosition`, `ClaimIsExclusive`, `SignatureSettlesOneOrder`, `OneFilledExit`, `LedgerMatchesPosition`, `ProposalBuysOnce`, `ExecutedSellClosedItsPosition`, `SettledIsFinal`, `ClaimedPositionWaits`, `ImplementsAbstract` |
| `StatementProofs` | `StatementTypeOK`, `MoneyStaysConsistent`, `InvariantErrorUnreachable`, `OrderFirstNeverDeadlocks`, `CommitsAreLifecycleSteps` (without `placeProtectionOrder`) |
| `TriggerExecutionProofs` | all invariants of the lifecycle (`LifecycleCarriesOver`), `HolderOwnsClaim`, `SwapsAreBooked`, `OneSwapPerOrder` |
| `ProposalLifecycleProofs` | `BoughtOnce`, `ExecutedSellClosedItsPosition`, `DecisionsPerWriter` |
| `ComponentProofs` | `ClaimIsAccountedFor`, `ToastsTellTheOrder`, `SaleIsScoped`, `TestTellsTheClaim`, `OneJobAtATime`, `EditExpiresOldProposals`, `SecondProposalOverlapped`, `HistoryIsPacedAndCurrent`, `SellHasCause`, `BandCoversExecutableQuotes`, `ExitsBracketTheTrigger`, `CyclesAdvance` |
| `PageProofs` | `ExitsStayArmed`, `AnalysisBuysOnce`, `LandsAsReviewed`, `NoRedirectLoop` |
| `AnalysisProofs` | `PositionsPrecedeTheirBar`, `CapIsKept` |
| `CompositionProofs` | `ComponentsTypeOK`, and all the other properties of the run `Components`, of that run itself |

### The lifecycle

The inductive invariant grows by layers, each theorem resting on the ones
before it:

- `TypeOK` is inductive alone, and `RowsWellFormed` on top of it: they say which
  rows exist, and everything below needs an order to have one position.
- `EntryOrderTracksPosition` gives each position its one BUY order, with the
  status its state entails.  It is needed because the code checks the order
  and then writes the position: without it a claim of a BUY could be granted on
  a position that another BUY order has already taken to `ENTERING`.
- `ClaimIsExclusive` is inductive only with it: a claim moves the position out
  of the state the next claim asks for, and a settlement that accepts an
  unclaimed (`OPEN`) order can leave a claimed sibling behind only on a
  position it has closed, hence the disjunct on `CLOSED`.
- `SignatureSettlesOneOrder` rests on the rows alone.
- `OneFilledExit` and `LedgerMatchesPosition` are stated through the same two
  predicates, `Bought` and `SoldBy`; steps that touch neither are dismissed by a
  frame lemma (`ExitFrame`, `LedgerFrame`, `ClaimFrame`), and the two kinds of
  step that do are `LedgerPurchase` and `LedgerSale`.

- `ProposalBuysOnce` is not inductive alone: nothing in it says that a proposal
  not yet inserted names no position, or that the position a proposal names
  exists, so a new proposal or a new position could collide with it.
  `ProposalRowsWellFormed` adds that.  Only `AcceptBuyProposal` opens a position
  (`PositionsStay`), so every other step is dismissed by what it does to the
  proposals alone (`ProposalFrame`, `ProposalWriters`).
- `ExecutedSellClosedItsPosition` follows because a sale is never undone
  (`SoldStays`) and the confirmation that writes `EXECUTED` either sells the
  position itself or finds it sold by a manual close.
- `SettledIsFinal` and `ClaimedPositionWaits` need only types and rows: every
  function checks the state of the position it writes against a set that leaves
  `CLOSED` out, and only the release and the fills accept `ENTERING` or
  `CLOSING`.
- `Refinement` rests on the conjunction `Invariants`.  A step is a step of
  `PositionAbstract` because `StageMoves` says which stage the position goes
  to, `SwapAdded` that signing an order adds one purchase or one sale and
  `NoSwapYet` that it is the first: a wanted position has no filled BUY order
  (`EntryOrderTracksPosition`) and a position that is not closed no filled exit
  (`OneFilledExit`).  That the swap is fresh is the duplicate check of the code.

Each proof has one step per action of `Next` under the induction step.  That a
step preserves an invariant is a lemma of its own (`TypeStep`, `RowsStep`,
`EntryStep`, ...), because the two modules that interleave the lifecycle with
something else cite it.  `CloseType`, `CloseRows`, `CloseSignature` and
`CloseExit` do the same for the manual close, which `ProposalLifecycle` cuts in
two.

### The statements

For any number of sessions, and with a rollback possible at any point.

- `StatementInv` is inductive.  Of each session it says, for the statement it
  stands at, what it has read (`ReadOK`), which order and which position it has
  written and that they still match the WHERE clause they were written under
  (`OrderOK`, `PositionOK`), which exits it has cancelled and which rows it has
  inserted (`RowsOK`, `TodoOK`), and that a signature it has written is not
  committed (`SignatureOK`); of each two sessions that they hold no row and no
  signature in common (`LocksExclusive`); and of the committed tables the
  invariants of the lifecycle (`TablesOK`).
- A statement that commits nothing changes what its own session holds and is not
  seen by the others (`Unseen`); one lemma for each statement says what it adds.
  The last read is never trusted: only `kind` and `positionOf`, which no commit
  changes (`CommitKeepsRows`), are carried from a read to a write.
- A commit leaves the others what they hold because they hold other rows
  (`CommitUnseen`), and keeps the tables right because it is a step of the
  lifecycle (`OneOrderStep`, `BuyFillStep`) or, for the calls that cancel exits,
  a step that cancels an arbitrary set of open exits (`FillsExit`,
  `ClosesPosition`, `RearmsExits`).  The arbitrary set is what
  `placeProtectionOrder` costs: it inserts an exit without a lock, so a session
  may commit without having cancelled it.
- `NoInvariantError` is `EntryOrderTracksPosition` read under the lock of the
  BUY order.  `OrderFirstIsDeadlockFree`: of sessions that write the order
  first, the one nearest its commit waits for nobody.
- `CommitsAreSteps` has the hypothesis that nobody calls `placeProtectionOrder`,
  without which it is false (the run `LifecycleStatementsPlace` leaves the
  property out).  It needs `SweepInv` besides: a position has one live exit of a
  kind, and a session that has read the exits of its position knows every open
  one, since exits open only under the lock of their position (`CommitOpens`).

### The agents

A step of an agent is a step of the lifecycle or leaves its tables alone
(`TriggerStepIsLifecycleStep`), so the invariants above hold while servers,
tabs and closing tabs run over them.  On top of that:

- `AgentInv`: an agent that executes has a target of its own kind, and names a
  swap, which landed for that target, exactly where its program has one.
- `HolderOwnsClaim` is inductive with it.  A claim is granted on an `OPEN` order
  of a position that waits in no claim, hence to nobody who shares the position
  with a holder; and no other agent, nor the user, can write the order or the
  position of a holder (`OtherClaimsKept`, `UserKeepsClaims`): each function
  asks for a position that is not waiting, or for the order itself.
- `SwapsAreBooked` needs that a swap that landed and is known was signed by
  nobody else (`SignaturesAreOwned`): then the duplicate check of the
  settlement, the only refusal that the holder's claim does not exclude, cannot
  fire (`KnownSwapIsWelcome`).
- `OneSwapPerOrder` needs the strongest invariant, `SwappedOrderIsSpent`: an
  order with a swap on chain is claimed or filled, and whoever holds it knows the
  swap and is about to settle it, so nobody is left to release or swap it.  Its theorem has the hypothesis
  `"unheard" \notin Failures`, that a tab always hears what became of its
  `/execute`.  It is what the run `TriggerSecondSwap` violates without: the tab
  that does not hear releases the claim of a swap that landed.

### The writers of proposals

`StepKinds` sorts the steps into those that are lifecycle steps, those that
leave the tables alone, and the few statements of a split transaction.
`TablesInv` is types, rows and what each writer knows between its awaits
(`AgentsKnow`).  `ReplayWasSold`: a confirmation whose signature was used already
finds its position sold by a manual close.  `BoughtOnce` is proved as `OwnedOnce`, which says it
without cardinalities.  The parts of `DecisionsPerWriter` are bounds on counts, and
the induction counts what is under way too: a tick whose last read found
nothing may still insert, so the rows and the ticks past that read together never
exceed the ticks (`LiveBounded`; `RequestsBounded` for monitors), or twice as many
(`DecisionsBounded`).  A
read may start a claim on the room only when there are no rows (`WhoWillAsk`), an
insertion uses up the claim of the tick that makes it (`RoomIsUsed`), and everything
else can only take rows away (`RoomIsKept`).  A tick that finds no open position may
still have live proposals beside it, as many as `LiveBounded` lets there be: hence
the twice.  The theorem has no hypothesis on how many
ticks or monitors there are but that they are finitely many.

### The components

Each component is proved alone, from an inductive invariant of its own:

| Property | What the induction needs besides |
| --- | --- |
| `ClaimIsAccountedFor` | `MonitorInv`: a task that is not busy holds nothing |
| `ToastsTellTheOrder` | `TabInv`, and `WireTrue`: a fill under way on the wire is of an order that is over |
| `SaleIsScoped` | `Scoped`: from its balances on, a sale aims at what `SellRaw` makes of them, and `raw` is what was on chain |
| `TestTellsTheClaim` | `DevSwapInv`, `TrialInv`: what each step of a test knows of its claim, and that nobody but its owner writes a claimed order |
| `OneJobAtATime` | `AgentPageInv`: a follower that goes on is one of the job that keeps the button (`PollersStopAtTheEnd`) |
| `EditExpiresOldProposals` | `EditInv`: after a PUT no edit is under way, and what lives was inserted after it |
| `SecondProposalOverlapped` | `DevInv`: an expired row stays expired (`DeadDev`), and what a transaction knew is what was there when it looked |
| `HistoryIsPacedAndCurrent` | `HistoryInv`: turns handed out lie a spacing apart and before `nextRequestAt` (`TurnReserved`) |
| `SellHasCause` | `ThesisInv`: the tags are those of one reading, so they name one RSI band, and one tag is no majority (`OneTagIsNoMajority`, over cardinalities) |
| `BandCoversExecutableQuotes` | integer arithmetic over any prices and amounts: division and rounding are monotonic (`QuotientsKeepOrder`), and a quote within half a percent of an executable mark is inside the band (`ExecutableIsInsideTheBand`) |
| `ExitsBracketTheTrigger` | rounding to six places moves a price less than the least distance of an exit (`ToFixedIsNear`, `PricesBracketTheTrigger`), and a size in cents stays within a limit in cents (`ToFixedKeepsMultiples`) |
| `CyclesAdvance` | only that every bar is of a civil date; the rest is arithmetic: the Julian day number goes up by one within a month, from month to month and at New Year, in any century (`JulianCountsDays`), the month branch and the solar year move only on the day of a term (`TermsFollow`), and a stem and a branch of one parity are a pair (`PairsOfOneParity`) |
| `ExitsStayArmed` | `PageInv`: how many exits each state of the position has, which of them are OPEN, and of the pages only that a view which is ENTERING shows no tokens, and that what is on its way to `placeOcoExit` came from such a view: the schema refuses its size. Nothing is needed of the drafts but that they are typed prices: the one transaction of `replaceProtectionOrders` re-arms whatever they say |
| `AnalysisBuysOnce` | `GrillInv`: a draft is kept under its own key (`DraftsTyped`), a team that is stored or shown is a fixed point of `selectAiAnalysts` (`NormalTeamIsKept`), so the request finds the key again; an analysis is in a draft, or with one page that buys it, or bought, never in two of these (`BoughtApart`) |
| `LandsAsReviewed` | `WithdrawInv`: the transfer being signed is the one reviewed last, whatever is in the form or on the card by now, and what has landed was picked among the others (`ClicksAreAnswered`); what is prepared takes its amount (`ChunksAddUp`): after the first k accounts the loop has given what they hold, or the amount |
| `NoRedirectLoop` | `GateInv`: what happens without the user has four phases, each with what it can have counted. At first no page but `/` and `/login` is reached (`Untold`); the answer on the state goes on to a page that asks for none (`SentOn`), a refusal back to `/login` with every other request gone (`SentBack`), and from there the answer to a page where nothing is refused any more (`Arrived`), because a user found READY keeps the row (`AnswersLast`) and all that is asked is asked by the one who is connected |
| `PositionsPrecedeTheirBar` | nothing of the steps but that a series is of bars: it is a fact about the rules, for any two series that agree before a bar and to which the rule is fitted alike (`Fitted`: the threshold of the volatility, the best months, nothing for the other rules). Each indicator at a bar is the same in both (`EmaSame`, `RsiSame`, `TechnicalSame`, ..., `PairsStatesSame`), and the engine holds over bar *i* what the rule said at *i - 1* (`LongFlatSame`) |
| `CapIsKept` | `Between`, which every round of the cap keeps (`RoundKeeps`): the cap stays the same share of the whole, no more than the whole is placed, a name below the cap does not pass one that weighed more, and where there is room all stays placed. A round that finds a name over the cap puts it at the cap for good, so one round more than there are names leaves none over it (`RoundsEnd`): the `2 * n + 2` of the code are enough |

| `ComponentsTypeOK` | of most components nothing, or the invariant above. The queue of the monitor and the assets of a tick are finite sets in some order, so that `SetToSeq` is a list of them (`SetToSeqIsSeq`), and a turn of the monitor ends the tick or leads to the next order (`TurnsEnd`); a bucket is a time (`BucketsAreTimes`); what is typed of a draft rests on `GrillInv`; a line that moves gives another hexagram (`TrigramsAre`, `HexagramsDiffer`, `LineMoves`); what is sized, scaled or capped is a list of numbers over one denominator (`WeightsAreRecords`, `ScaledIsList`) |

`CompositionProofs` puts the components together as the run `Components` does.
`EachComponentRuns`: every behaviour of the run is one of each component (without the
fairness of the monitor), because no component reads or writes what another has.  With
it `ComponentsTyped` is the type invariant of the whole, and `ComponentsCorrect` repeats
every other property of the run, of the run itself.

The two of `AnalysisProofs` are about sums and series, which the models write as
recursive functions.  The library's theorems on recursive functions take an
operator as a parameter, which the installed provers cannot instantiate, so each
of these functions has a lemma of its own that says what its next term is
(`SumsAre`, `EmaIs`, `RsiAverageIs`, `PairsStatesAre`, `RoundByRound`): functions
that satisfy the equation up to *k* exist for every *k* by induction over the *set*
of these *k* (`InductiveSet`, from the well-foundedness of the finite sets), and
`CHOOSE` takes one.  That a sum of combinations combines the sums (`LinearSum`) is
what the rounds of the cap come to.

### Only model-checked

- The properties of `Progress`, which are liveness under fairness: they rest on which
  actions are ENABLED, of which the installed provers know nothing.
- Of the runs that find a violation, that the property fails.  A counterexample is a
  behaviour of one instance.

Every invariant and every action property of the passing runs is stated by a theorem.
Of `DecisionsPerWriter` the run comes to the bounds on live proposals and not to
the one on decisions (`DecisionsPerTick`), which would take five proposals and several
positions; for that one the proof is what counts.

No module declares a RECURSIVE operator.

## 5. What is assumed of the outside

- Prisma runs `$transaction` callbacks at READ COMMITTED, and an `updateMany`
  is one UPDATE (`LifecycleStatements` models locks, waits and re-checks).
- A `Success` of Ultra carries a signature.  If it did not, the tab would
  settle under `unknown-<milliseconds>` (`trigger-execution.ts:221`).
- A refused `/execute` landed nothing.
- One signature belongs to one swap of one wallet.

## 6. Not modelled

The values of the signal engine's indicators (only what stands in for them is
modelled), its prompts, and the rules that replace the LLM (what an analysis
says is free); what a backtest earns and how a rule is chosen
by its past score (the positions held are modelled); square roots; how
the shared worker spreads a message over tabs; why a token verifies or not (the
answer is free); portfolio sums; rendering and query caches; the log and the session
password of the developer tools; the reports, the dashboard and the Python
pipelines of the research agent, which the trading system does not call.

## 7. Plan

1. *Done*: the lifecycle, its statements and its abstract specification; trigger execution; the writers of the Proposal table.
2. *Done*: the components around it: the monitor's tick, quotes, terms, the signal
   engine, the evaluator, Grill, the price client, delegated access, the pages
   and toasts, withdrawals, developer tools and their test swap, session gates, the thesis, and
   the agent's pages; liveness of what is due.
3. *Done*: proofs of everything the lifecycle, its statements, the agents, the
   writers of proposals and all the components around it promise, except liveness.
4. The leader tab of the shared worker.
