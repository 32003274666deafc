------------------------------ MODULE SignalEngine ------------------------------
(***************************************************************************)
(* The signal loop of a ws-server process: startSignalLoop starts a tick   *)
(* at every interval, whether or not the last one has ended; a tick walks  *)
(* the assets, and for each asks the refresh gate whether an analysis is   *)
(* due, fetches bars, asks the LLM or its rules (generateBaseMarket-       *)
(* Analysis), and hands a BUY to the per-user generator, which reads the   *)
(* mandate of the user and inserts a proposal some awaits later            *)
(* (generateProposalsForBaseAnalysis).  Each await is a step.  The user    *)
(* edits the mandate meanwhile, on a form that sends POST until it has     *)
(* been filled with the mandate there is, and PUT after.                   *)
(*                                                                         *)
(* The gate, the spend counter and the proposals are shared by the ticks.  *)
(* Time is counted in units of which BarClose make a bar; a price is an    *)
(* integer, and a move of MaterialMove is worth an analysis.  A live call  *)
(* of the LLM costs one unit of spend.  ProposalLifecycle has the life of  *)
(* a proposal after its insertion.                                         *)
(***************************************************************************)
EXTENDS Integers, Sequences, SequencesExt, FiniteSets, NoValue

CONSTANTS
  Assets,        \* getSignalAssets
  Loops,         \* ticks of the loop that may run at a time
  Quotes,        \* prices
  BarClose, MaterialMove, ForceRefresh,  \* BaseAnalysisRefreshPolicy
  DailyCap,      \* LLM_DAILY_USD_CAP
  LastTime,      \* bound on the clock
  LastMandate    \* bound on the edits of the mandate

VARIABLES
  clock,
  quote,      \* the latest published price of each asset
  gate,       \* stateByAsset of the refresh gate
  at,         \* the await at which each tick is
  todo,       \* the assets it has still to walk, the current one first
  snap,       \* the snapshot it analyses
  mandateOf,  \* the version of the mandate it has read
  spendUsd,
  mandate,    \* the version of the mandate in the database
  mandateForm,  \* the page /mandate
  editing,    \* statements done of a PUT /api/mandates in flight
  saved,      \* the method of the last edit, if it went through
  live        \* live BUY proposals: asset, version of the mandate, inserted after the last edit

tickVars   == <<at, todo, snap, mandateOf>>
mandateVars   == <<mandate, mandateForm, editing, saved>>
signalVars == <<clock, quote, gate, tickVars, spendUsd, mandateVars, live>>

ASSUME SignalAssumption ==
  /\ IsFiniteSet(Assets) /\ Assets # {}
  /\ BarClose \in Nat \ {0} /\ LastTime \in Nat /\ LastMandate \in Nat

Snapshots == [price : Quotes, time : 0 .. LastTime]
Analyses  == [price : Quotes, bucket : 0 .. LastTime, time : 0 .. LastTime]
LiveBuys  == [asset : Assets, version : 0 .. LastMandate, afterEdit : BOOLEAN]

TickSteps == {"idle", "asset", "bars", "llm", "answer", "match", "mandate", "proposals", "insert"}

SignalTypeOK ==
  /\ clock \in 0 .. LastTime
  /\ quote \in [Assets -> Quotes]
  /\ gate \in [Assets -> Analyses \cup {NOTHING}]
  /\ at \in [Loops -> TickSteps]
  /\ todo \in [Loops -> Seq(Assets)]
  /\ snap \in [Loops -> Snapshots \cup {NOTHING}]
  /\ mandateOf \in [Loops -> 0 .. LastMandate]
  /\ spendUsd \in Nat
  /\ mandate \in 0 .. LastMandate /\ editing \in {0, 1}
  /\ mandateForm \in {"closed", "asked", "blank", "filled"} /\ saved \in {"PUT", "POST", "FAILED"}
  /\ live \subseteq LiveBuys

SignalInit ==
  /\ clock = 0
  /\ quote \in [Assets -> Quotes]
  /\ gate = [a \in Assets |-> NOTHING]
  /\ at = [t \in Loops |-> "idle"] /\ todo = [t \in Loops |-> <<>>]
  /\ snap = [t \in Loops |-> NOTHING] /\ mandateOf = [t \in Loops |-> 0]
  /\ spendUsd = 0
  /\ mandate = 0 /\ mandateForm = "closed" /\ editing = 0 /\ saved = "POST"
  /\ live = {}

--------------------------------------------------------------------------------

barBucketUnix(time) == (time \div BarClose) * BarClose

Moved(from, to) == IF to > from THEN to - from ELSE from - to

\* BaseAnalysisRefreshGate.shouldRefresh: initial, forced, material_move, bar_close.
shouldRefresh(previous, price, publishTime, now) ==
  \/ previous = NOTHING
  \/ now - previous.time >= ForceRefresh
  \/ Moved(previous.price, price) >= MaterialMove
  \/ barBucketUnix(publishTime) > previous.bucket

Analysis(t) ==
  [price |-> snap[t].price, bucket |-> barBucketUnix(snap[t].time), time |-> clock]

Asset(t) == Head(todo[t])

Await(t, next) == at' = [at EXCEPT ![t] = next] /\ UNCHANGED <<todo, mandateOf>>

\* The next asset, or the end of the tick.
NextAsset(t) ==
  /\ todo' = [todo EXCEPT ![t] = Tail(@)]
  /\ at' = [at EXCEPT ![t] = IF Len(todo[t]) > 1 THEN "asset" ELSE "idle"]
  /\ snap' = [snap EXCEPT ![t] = NOTHING]
  /\ UNCHANGED mandateOf

\* setInterval of startSignalLoop: no busy flag.
StartTick(t) ==
  /\ at[t] = "idle"
  /\ at' = [at EXCEPT ![t] = "asset"]
  /\ todo' = [todo EXCEPT ![t] = SetToSeq(Assets)]
  /\ UNCHANGED <<clock, quote, gate, snap, mandateOf, spendUsd, mandateVars, live>>

\* getLatestPrice: no snapshot, a stale one or an error ends the asset; otherwise
\* the gate is asked in the same step.
FetchPrice(t) ==
  /\ at[t] = "asset"
  /\ \/ NextAsset(t)
     \/ LET s == [price |-> quote[Asset(t)], time |-> clock]
        IN  IF shouldRefresh(gate[Asset(t)], s.price, s.time, clock)
            THEN snap' = [snap EXCEPT ![t] = s] /\ Await(t, "bars")
            ELSE NextAsset(t)
  /\ UNCHANGED <<clock, quote, gate, spendUsd, mandateVars, live>>

\* getHistoricalBars and computeIndicators: an error or too few bars end the asset.
FetchBars(t) ==
  /\ at[t] = "bars"
  /\ \/ NextAsset(t)
     \/ Await(t, "llm") /\ UNCHANGED snap
  /\ UNCHANGED <<clock, quote, gate, spendUsd, mandateVars, live>>

\* markAnalyzed, unconditionally, and the signal: a BUY goes on to the users.
Analyzed(t) ==
  /\ gate' = [gate EXCEPT ![Asset(t)] = Analysis(t)]
  /\ \/ Await(t, "match") /\ UNCHANGED snap
     \/ NextAsset(t)

\* generateLlmSignal up to the call: under the cap the model is called, else (or
\* without a client) the rules answer.
AskLlm(t) ==
  /\ at[t] = "llm"
  /\ \/ spendUsd < DailyCap /\ Await(t, "answer") /\ UNCHANGED <<snap, gate>>
     \/ Analyzed(t)
  /\ UNCHANGED <<clock, quote, spendUsd, mandateVars, live>>

\* ... and after it: a valid answer is paid for, an error or an invalid answer is
\* replaced by the rules' and not recorded.
LlmAnswers(t) ==
  /\ at[t] = "answer"
  /\ spendUsd' \in {spendUsd, spendUsd + 1}
  /\ Analyzed(t)
  /\ UNCHANGED <<clock, quote, mandateVars, live>>

\* generateProposalsForBaseAnalysis: user.findMany reads the mandate and the live
\* proposals of the asset with a SELECT each, in either order ...
ReadMandate(t) ==
  /\ at[t] \in {"match", "mandate"}
  /\ at' = [at EXCEPT ![t] = IF at[t] = "match" THEN "proposals" ELSE "insert"]
  /\ mandateOf' = [mandateOf EXCEPT ![t] = mandate]
  /\ UNCHANGED <<clock, quote, gate, todo, snap, spendUsd, mandateVars, live>>

\* ... and the user is eligible, or that ends the asset; so does a signal that is not
\* confident enough.
ReadProposals(t) ==
  /\ at[t] \in {"match", "proposals"}
  /\ \/ /\ ~ \E x \in live : x.asset = Asset(t)
        /\ Await(t, IF at[t] = "match" THEN "mandate" ELSE "insert")
        /\ UNCHANGED snap
     \/ NextAsset(t)
  /\ UNCHANGED <<clock, quote, gate, spendUsd, mandateVars, live>>

\* computePositionImpact and createBuyProposalForUser.
InsertProposal(t) ==
  /\ at[t] = "insert"
  /\ live' \in {live, live \cup {[asset |-> Asset(t), version |-> mandateOf[t],
                                  afterEdit |-> editing = 0]}}
  /\ NextAsset(t)
  /\ UNCHANGED <<clock, quote, gate, spendUsd, mandateVars>>

SignalStep(t) ==
  \/ FetchPrice(t) \/ FetchBars(t) \/ AskLlm(t) \/ LlmAnswers(t)
  \/ ReadMandate(t) \/ ReadProposals(t) \/ InsertProposal(t)

\* Time passes and prices are published; from a day to the next the spend is reset.
Publish ==
  /\ clock < LastTime
  /\ clock' = clock + 1
  /\ quote' \in [Assets -> Quotes]
  /\ spendUsd' \in {0, spendUsd}
  /\ UNCHANGED <<gate, tickVars, mandateVars, live>>

\* What is live expires before the new mandate is written.
MutantEditStatements == <<"expire", "upsert">>

\* upsertMandate: mandate.upsert, and then proposal.updateMany, which expires what
\* is live; not one transaction.
EditStatements == <<"upsert", "expire">>

StatementsOf(method) == IF method = "PUT" THEN EditStatements ELSE <<"upsert">>

\* The form is shown, and asks for the mandate ...
OpenForm ==
  /\ mandateForm = "closed" /\ mandateForm' = "asked"
  /\ UNCHANGED <<clock, quote, gate, tickVars, spendUsd, mandate, editing, saved, live>>

\* ... which fills it (setSubmitted), or the request fails.
FormAnswered ==
  /\ mandateForm = "asked" /\ mandateForm' \in {"filled", "blank"}
  /\ UNCHANGED <<clock, quote, gate, tickVars, spendUsd, mandate, editing, saved, live>>

\* submit of the form: the method is chosen by what the form knows.
EditMandate(method) ==
  /\ IF editing = 0
     THEN /\ mandateForm # "closed" /\ mandate < LastMandate
          /\ method = IF mandateForm = "filled" THEN "PUT" ELSE "POST"
     ELSE method = "PUT"
  /\ IF editing + 1 = Len(StatementsOf(method))
     THEN editing' = 0 /\ saved' = method /\ mandateForm' = "closed"
     ELSE editing' = editing + 1 /\ saved' = "FAILED" /\ UNCHANGED mandateForm
  /\ \/ /\ StatementsOf(method)[editing + 1] = "upsert"
        /\ mandate' = mandate + 1
        /\ live' = {[x EXCEPT !.afterEdit = FALSE] : x \in live}
     \/ /\ StatementsOf(method)[editing + 1] = "expire"
        /\ live' = {}
        /\ UNCHANGED mandate
  /\ UNCHANGED <<clock, quote, gate, tickVars, spendUsd>>

\* The second statement fails: the form says so, and stays.
EditFails ==
  /\ editing = 1 /\ editing' = 0
  /\ UNCHANGED <<clock, quote, gate, tickVars, spendUsd, mandate, mandateForm, saved, live>>

\* A proposal expires, or is skipped or accepted.
Leaves(x) ==
  /\ live' = live \ {x}
  /\ UNCHANGED <<clock, quote, gate, tickVars, spendUsd, mandateVars>>

SignalNext ==
  \/ \E t \in Loops : StartTick(t) \/ SignalStep(t)
  \/ \E x \in live : Leaves(x)
  \/ \E method \in {"PUT", "POST"} : EditMandate(method)
  \/ Publish \/ OpenForm \/ FormAnswered \/ EditFails

SignalSpec == SignalInit /\ [][SignalNext]_signalVars

--------------------------------------------------------------------------------
(* Properties.                                                             *)

\* An edit of the mandate leaves no live proposal made for an older one, except
\* what a generator that had read it before inserts after the edit.  (An edit that
\* failed half-way may leave some, and one sent as POST leaves them all: the route
\* skips the expiry "since there can't be priors", but a form whose own request
\* failed, or has not been answered yet, sends it for a mandate that has some.)
EditExpiresOldProposals ==
  saved = "PUT" => \A x \in live : x.version < mandate => x.afterEdit

================================================================================
