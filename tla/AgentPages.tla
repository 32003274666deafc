------------------------------- MODULE AgentPages -------------------------------
(***************************************************************************)
(* The pages of the fundamental analysis agent: a page submits a task to   *)
(* the agent's server, which runs it as a job kept in memory, and follows  *)
(* the job by asking for it again and again (a poller), or on a stream of  *)
(* events.  The page offers its button again when an answer says that the  *)
(* job is over; the poller stops, on its own, at the answers it takes for  *)
(* the last.  Nothing calls the stop function a poller returns.            *)
(*                                                                         *)
(* One page, chosen at the start; a task's statuses are its router's.      *)
(***************************************************************************)
EXTENDS Naturals, Sequences, NoValue

CONSTANTS
  MaxJobs,      \* bound on the jobs of a behaviour
  MaxRestarts   \* bound on the restarts of the agent's server

ASSUME AgentAssumption == MaxJobs \in Nat /\ MaxRestarts \in Nat

VARIABLES
  agentPage,    \* which page
  agentBusy, agentFailed, agentJob,   \* its state: busy, err, job
  submitting,   \* where run() is
  agentJobs,    \* what the server holds of each job it made
  followers,    \* of each job, what follows it and the answer it has on its way
  restarts      \* number of restarts

agentVars == <<agentPage, agentBusy, agentFailed, agentJob, submitting, agentJobs, followers, restarts>>

JobOver   == {"succeeded", "failed", "quarantined", "escalated"}
JobStatuses == {"pending", "running"} \cup JobOver
Lost      == "lost"     \* made before a restart: the server answers 404
JobIds    == 1 .. MaxJobs

AgentTypeOK ==
  /\ agentBusy \in BOOLEAN /\ agentFailed \in BOOLEAN
  /\ agentJob \in [id : JobIds, status : JobStatuses] \cup {NOTHING}
  /\ submitting \in {"no", "parse", "create"}
  /\ agentJobs \in Seq(JobStatuses \cup {Lost}) /\ Len(agentJobs) <= MaxJobs
  /\ followers \in [JobIds -> {"none", "asks", "listens", "stopped"} \cup JobStatuses]
  /\ restarts \in 0 .. MaxRestarts

--------------------------------------------------------------------------------
(* The answers a poller of lib/api.ts stops at.                            *)

MutantPollExtraction == {"succeeded", "failed"}

pollExtraction == {"succeeded", "failed", "quarantined"}

pollStrategy == {"succeeded", "failed", "quarantined"}

pollAnalysis == {"succeeded", "failed"}

pollEnsemble == {"succeeded", "failed"}

pollInsider == {"succeeded", "failed"}

pollRelative == {"succeeded", "failed"}

pollPortfolio == {"succeeded", "failed"}

pollEarnings == {"succeeded", "failed"}

pollInstitutional == {"succeeded", "failed"}

poll == {"succeeded", "failed"}

--------------------------------------------------------------------------------
(* The pages: stops, what its poller stops at; ends, the statuses its job  *)
(* may end with (of its router); parses, whether it has the input parsed   *)
(* first; resets, whether it has a button that forgets a job that is over. *)

Poller(stops) ==
  [stops |-> stops, ends |-> {"succeeded", "failed"}, parses |-> FALSE, resets |-> FALSE]

AnomalyPage       == Poller(poll)
AstroPage         == Poller(poll)
BaziPage          == Poller(poll)
BuybackPage       == Poller(poll)
CongressPage      == Poller(poll)
ContagionPage     == Poller(poll)
EarningsPage      == Poller(pollEarnings)
EnsemblePage      == Poller(pollEnsemble)
EventsPage        == Poller(poll)
FundamentalsPage  == Poller(poll)
InsiderPage       == Poller(pollInsider)
InstitutionalPage == Poller(pollInstitutional)
JyotishPage       == Poller(poll)
LiurenPage        == Poller(poll)
MeihuaPage        == Poller(poll)
OvernightPage     == Poller(poll)
PairsPage         == Poller(poll)
PortfolioPage     == Poller(pollPortfolio)
QimenPage         == Poller(poll)
QizhengPage       == Poller(poll)
QualityPage       == Poller(poll)
RankerPage        == Poller(poll)
RelativePage      == Poller(pollRelative)
ScannerPage       == Poller(poll)
SeasonalityPage   == Poller(poll)
ShortPage         == Poller(poll)
SuimeiPage        == Poller(poll)
TaiyiPage         == Poller(poll)
TechnicalPage     == Poller(pollAnalysis)
TiebanPage        == Poller(poll)
VixPage           == Poller(poll)
VolatilityPage    == Poller(poll)
ZiweiPage         == Poller(poll)

\* The second job of the scanner: the backtest of today's book.
ScannerBook == Poller(poll)

StrategyPage == [Poller(pollStrategy) EXCEPT !.ends = @ \cup {"quarantined"}]

\* Follows its job on a stream, to the status that ends it.
Task1Page ==
  [stops |-> {}, ends |-> {"succeeded", "failed", "escalated"}, parses |-> FALSE, resets |-> TRUE]

Task2Page ==
  [stops |-> pollExtraction, ends |-> {"succeeded", "failed", "quarantined"},
   parses |-> TRUE, resets |-> TRUE]

AgentPageKinds == {
  AnomalyPage, AstroPage, BaziPage, BuybackPage, CongressPage, ContagionPage,
  EarningsPage, EnsemblePage, EventsPage, FundamentalsPage, InsiderPage,
  InstitutionalPage, JyotishPage, LiurenPage, MeihuaPage, OvernightPage,
  PairsPage, PortfolioPage, QimenPage, QizhengPage, QualityPage, RankerPage,
  RelativePage, ScannerPage, SeasonalityPage, ShortPage, SuimeiPage,
  TaiyiPage, TechnicalPage, TiebanPage, VixPage, VolatilityPage, ZiweiPage,
  ScannerBook, StrategyPage, Task1Page, Task2Page}

AgentInit ==
  /\ agentPage \in AgentPageKinds
  /\ agentBusy = FALSE /\ agentFailed = FALSE /\ agentJob = NOTHING
  /\ submitting = "no"
  /\ agentJobs = <<>>
  /\ followers = [j \in JobIds |-> "none"]
  /\ restarts = 0

--------------------------------------------------------------------------------
(* The page.                                                               *)

\* run, submit, backtestBook: the button is disabled while busy.  Task 2 has
\* parseEdgarInput make an address of a text that is none.
SubmitTask ==
  /\ ~agentBusy /\ Len(agentJobs) < MaxJobs
  /\ agentBusy' = TRUE /\ agentFailed' = FALSE /\ agentJob' = NOTHING
  /\ submitting' \in {"create"} \cup (IF agentPage.parses THEN {"parse"} ELSE {})
  /\ UNCHANGED <<agentPage, agentJobs, followers, restarts>>

\* The catch of run: the error is shown, the button offered.
Refused ==
  /\ submitting' = "no" /\ agentFailed' = TRUE /\ agentBusy' = FALSE
  /\ UNCHANGED agentJob

ParseInput ==
  /\ submitting = "parse"
  /\ \/ submitting' = "create" /\ UNCHANGED <<agentBusy, agentFailed, agentJob>>
     \/ Refused
  /\ UNCHANGED <<agentPage, agentJobs, followers, restarts>>

\* createX: the server refuses, or makes the job; its answer may be lost.
CreateTask ==
  /\ submitting = "create"
  /\ LET j == Len(agentJobs) + 1 IN
     \/ Refused /\ UNCHANGED <<agentJobs, followers>>
     \/ agentJobs' = Append(agentJobs, "pending") /\ Refused /\ UNCHANGED followers
     \/ /\ agentJobs' = Append(agentJobs, "pending")
        /\ agentJob' = [id |-> j, status |-> "pending"]
        /\ followers' = [followers EXCEPT ![j] = IF agentPage.stops = {} THEN "listens" ELSE "asks"]
        /\ submitting' = "no"
        /\ UNCHANGED <<agentBusy, agentFailed>>
  /\ UNCHANGED <<agentPage, restarts>>

\* The answers to tick and to the stream's last event: setJob, setBusy.
ShowJob(j, status) ==
  /\ agentJob' = [id |-> j, status |-> status]
  /\ agentBusy' = (agentBusy /\ status \in {"pending", "running"})

\* tick: a request that fails, or whose job is lost, is made again.
AskJob(j) ==
  /\ followers[j] = "asks" /\ agentJobs[j] # Lost
  /\ followers' = [followers EXCEPT ![j] = agentJobs[j]]
  /\ UNCHANGED <<agentPage, agentBusy, agentFailed, agentJob, submitting, agentJobs, restarts>>

JobAnswered(j) ==
  /\ followers[j] \in JobStatuses
  /\ ShowJob(j, followers[j])
  /\ followers' = [followers EXCEPT ![j] = IF followers[j] \in agentPage.stops THEN "stopped" ELSE "asks"]
  /\ UNCHANGED <<agentPage, agentFailed, submitting, agentJobs, restarts>>

\* The event "done" of the stream; an error closes it, and nothing is told.
StreamEnds(j) ==
  /\ followers[j] = "listens"
  /\ followers' = [followers EXCEPT ![j] = "stopped"]
  /\ \/ agentJobs[j] \in JobOver /\ ShowJob(j, agentJobs[j])
     \/ UNCHANGED <<agentBusy, agentJob>>
  /\ UNCHANGED <<agentPage, agentFailed, submitting, agentJobs, restarts>>

\* "Run another": offered for a job that is over.
ResetPage ==
  /\ agentPage.resets /\ agentJob # NOTHING /\ agentJob.status \in JobOver
  /\ agentJob' = NOTHING /\ agentFailed' = FALSE /\ agentBusy' = FALSE
  /\ UNCHANGED <<agentPage, submitting, agentJobs, followers, restarts>>

--------------------------------------------------------------------------------
(* The agent's server: _run of a router, and the memory it keeps jobs in.  *)

RunJob(j) ==
  /\ \/ agentJobs[j] = "pending" /\ agentJobs' = [agentJobs EXCEPT ![j] = "running"]
     \/ agentJobs[j] = "running"
        /\ \E status \in agentPage.ends : agentJobs' = [agentJobs EXCEPT ![j] = status]
  /\ UNCHANGED <<agentPage, agentBusy, agentFailed, agentJob, submitting, followers, restarts>>

RestartAgent ==
  /\ restarts < MaxRestarts /\ restarts' = restarts + 1
  /\ agentJobs' = [j \in DOMAIN agentJobs |-> Lost]
  /\ UNCHANGED <<agentPage, agentBusy, agentFailed, agentJob, submitting, followers>>

AgentNext ==
  \/ SubmitTask \/ ParseInput \/ CreateTask \/ ResetPage \/ RestartAgent
  \/ \E j \in DOMAIN agentJobs : AskJob(j) \/ JobAnswered(j) \/ StreamEnds(j) \/ RunJob(j)

AgentSpec == AgentInit /\ [][AgentNext]_agentVars

--------------------------------------------------------------------------------
(* Properties.                                                             *)

\* A page that offers its button follows no job any more, so no late answer of an
\* earlier one replaces what a new one shows: the statuses a poller stops at are
\* all those at which the page gives its button back, whatever the router ends the
\* job with.  And the job it shows is the last one made.
OneJobAtATime ==
  /\ ~agentBusy => \A j \in JobIds : followers[j] \in {"none", "stopped"}
  /\ agentJob # NOTHING => agentJob.id = Len(agentJobs)

================================================================================
