------------------------------ MODULE MCProgress ------------------------------
(***************************************************************************)
(* What has to happen in the end, of the components that have a loop or a  *)
(* timer for it, under the fairness of each.  They share no variable, so   *)
(* one run checks them all: it picks its subject first, and the others     *)
(* stay in their initial state.                                            *)
(***************************************************************************)
EXTENDS TriggerExecution, TriggerMonitor, BackEvaluation, ProposalInbox, DelegationSettings, TLC

VARIABLE subject

progressVars == <<subject, allVars, monitorVars, evaluationVars, inboxVars, cardVars>>

TickerOfOrder == [o \in Watched |-> o]
ExpiresInTurn == [p \in InboxIds |-> p]

ProgressInit ==
  /\ subject \in {"execution", "monitor", "evaluation", "inbox", "card"}
  /\ TriggerInit /\ MonitorInit /\ EvaluationInit /\ InboxInit /\ CardInit
  /\ kind[CHOOSE o \in Orders : TRUE] = "BUY_TRIGGER"   \* the orders are alike
  /\ subject # "card" => ~ signer

OthersThanExecution  == <<subject, monitorVars, evaluationVars, inboxVars, cardVars>>
OthersThanMonitor    == <<subject, allVars, evaluationVars, inboxVars, cardVars>>
OthersThanEvaluation == <<subject, allVars, monitorVars, inboxVars, cardVars>>
OthersThanInbox      == <<subject, allVars, monitorVars, evaluationVars, cardVars>>
OthersThanCard       == <<subject, allVars, monitorVars, evaluationVars, inboxVars>>

ProgressNext ==
  \/ subject = "execution"  /\ TriggerNext    /\ UNCHANGED OthersThanExecution
  \/ subject = "monitor"    /\ MonitorNext    /\ UNCHANGED OthersThanMonitor
  \/ subject = "evaluation" /\ EvaluationNext /\ UNCHANGED OthersThanEvaluation
  \/ subject = "inbox"      /\ InboxNext      /\ UNCHANGED OthersThanInbox
  \/ subject = "card"       /\ CardNext       /\ UNCHANGED OthersThanCard

\* The weakly fair actions of each module's own specification.  A behaviour has
\* one subject, so those of different modules share a condition.
FirstFair ==
  \/ subject = "execution" /\ (\E a \in Servers : AgentStep(a)) /\ UNCHANGED OthersThanExecution
  \/ subject = "monitor" /\ TimerFires /\ UNCHANGED OthersThanMonitor
  \/ subject = "evaluation" /\ (StartRun \/ ScoreNext \/ EndRun) /\ UNCHANGED OthersThanEvaluation
  \/ subject = "inbox" /\ TimePasses /\ UNCHANGED OthersThanInbox
  \/ subject = "card" /\ ReadStatus /\ UNCHANGED OthersThanCard

SecondFair ==
  \/ subject = "execution" /\ (\E a \in Tabs : AgentStep(a)) /\ UNCHANGED OthersThanExecution
  \/ subject = "monitor" /\ TickStep /\ UNCHANGED OthersThanMonitor
  \/ subject = "inbox" /\ ClearExpired /\ UNCHANGED OthersThanInbox
  \/ subject = "card" /\ (StatusChecked \/ PreflightRead \/ Granted \/ NextPoll \/ Polled)
       /\ UNCHANGED OthersThanCard

ThirdFair ==
  \/ subject = "monitor" /\ stopped /\ Restart /\ UNCHANGED OthersThanMonitor
  \/ subject = "card" /\ PromptTimesOut /\ UNCHANGED OthersThanCard

ProgressSpec ==
  /\ ProgressInit /\ [][ProgressNext]_progressVars
  /\ WF_progressVars(FirstFair) /\ WF_progressVars(SecondFair) /\ WF_progressVars(ThirdFair)
================================================================================
