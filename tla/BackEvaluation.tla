---------------------------- MODULE BackEvaluation -----------------------------
(***************************************************************************)
(* The back-evaluation task of a ws-server process                         *)
(* (evaluatePendingSignals): every run takes the oldest proposals that are *)
(* an hour old and have no outcome, and scores each by the price an hour   *)
(* after it was made.  The runs come from a registered task, so there is   *)
(* one at a time (TriggerMonitor has the busy flag).                       *)
(*                                                                         *)
(* A proposal is created at a time, the order of creation is the order of  *)
(* the identifiers, and an hour is Hour units of the clock.  Broken are    *)
(* the proposals whose price request or update fails every time; any other *)
(* may fail MaxFailures times in a behaviour.                              *)
(***************************************************************************)
EXTENDS Integers, Sequences, SequencesExt, FiniteSets

CONSTANTS
  Made,       \* number of proposals that are ever created
  Batch,      \* take: 200
  Hour,
  Broken,     \* proposals whose evaluation always fails
  MaxFailures \* bound on the failures of the others

VARIABLES
  madeAt,     \* Proposal.createdAt of the proposals created so far
  outcomeOf,  \* Proposal.outcome, "none" while evaluatedAt is null
  hours,      \* the clock
  batch,      \* the proposals the run has still to score, the current one first
  running,
  failed

evaluationVars == <<madeAt, outcomeOf, hours, batch, running, failed>>

Verdicts == {"WIN", "LOSS", "NEUTRAL"}
LastHour == Made + Hour

EvaluationTypeOK ==
  /\ madeAt \in Seq(0 .. LastHour) /\ Len(madeAt) <= Made
  /\ outcomeOf \in [1 .. Made -> Verdicts \cup {"none"}]
  /\ hours \in 0 .. LastHour
  /\ batch \in Seq(1 .. Len(madeAt)) /\ Len(batch) <= Batch
  /\ running \in BOOLEAN
  /\ failed \in 0 .. MaxFailures

EvaluationInit ==
  /\ madeAt = <<>> /\ outcomeOf = [p \in 1 .. Made |-> "none"]
  /\ hours = 0 /\ batch = <<>> /\ running = FALSE /\ failed = 0

--------------------------------------------------------------------------------

Created == 1 .. Len(madeAt)

DueProposals == {p \in Created : outcomeOf[p] = "none" /\ madeAt[p] <= hours - Hour}

\* classify: within half a per cent is noise (change is in tenths of a per cent),
\* and a SELL is right when the price falls.
classify(change, action) ==
  IF change > -5 /\ change < 5 THEN "NEUTRAL"
  ELSE IF (action = "BUY") = (change > 0) THEN "WIN" ELSE "LOSS"

\* A proposal is recorded at the present time.
MakeProposal ==
  /\ Len(madeAt) < Made
  /\ madeAt' = Append(madeAt, hours)
  /\ UNCHANGED <<outcomeOf, hours, batch, running, failed>>

\* The task fires: proposal.findMany, ascending, take.
StartRun ==
  /\ ~ running
  /\ running' = TRUE
  /\ batch' = SetToSortSeq({p \in DueProposals : Cardinality({q \in DueProposals : q < p}) < Batch}, <)
  /\ UNCHANGED <<madeAt, outcomeOf, hours, failed>>

\* A failure that is not caught ends the run.
MutantRest(caught) == IF caught THEN <<>> ELSE Tail(batch)

\* Each proposal has its own try: a failure is counted and the loop goes on.
Rest(caught) == Tail(batch)

\* priceAtTime and the update: an outcome, or an unknown asset or no bar within a
\* quarter of an hour, which are NEUTRAL; or a failure.
ScoreNext ==
  /\ running /\ batch # <<>>
  /\ \/ /\ Head(batch) \notin Broken
        /\ \E change \in {-5, 0, 5}, action \in {"BUY", "SELL"} :
             outcomeOf' = [outcomeOf EXCEPT ![Head(batch)] = classify(change, action)]
        /\ batch' = Rest(FALSE)
        /\ UNCHANGED failed
     \/ /\ batch' = Rest(TRUE)
        /\ \/ Head(batch) \in Broken /\ UNCHANGED failed
           \/ Head(batch) \notin Broken /\ failed < MaxFailures /\ failed' = failed + 1
        /\ UNCHANGED outcomeOf
  /\ UNCHANGED <<madeAt, hours, running>>

EndRun ==
  /\ running /\ batch = <<>>
  /\ running' = FALSE
  /\ UNCHANGED <<madeAt, outcomeOf, hours, batch, failed>>

HourPasses ==
  /\ hours < LastHour
  /\ hours' = hours + 1
  /\ UNCHANGED <<madeAt, outcomeOf, batch, running, failed>>

EvaluationNext == MakeProposal \/ StartRun \/ ScoreNext \/ EndRun \/ HourPasses

\* The task fires again and again, and the awaits of a run return.
EvaluationFairness == WF_evaluationVars(StartRun \/ ScoreNext \/ EndRun)

EvaluationSpec == EvaluationInit /\ [][EvaluationNext]_evaluationVars /\ EvaluationFairness

--------------------------------------------------------------------------------

\* A proposal an hour old is scored in the end, whatever fails around it: the
\* proposals that always fail are retried first at every run, and cost the others
\* nothing while there are fewer of them than a run takes.
DueProposalIsScored ==
  Cardinality(Broken) < Batch =>
    \A p \in (1 .. Made) \ Broken : p \in DueProposals ~> outcomeOf[p] # "none"

================================================================================
