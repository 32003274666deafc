--------------------------- MODULE ProposalLifecycle ---------------------------
(***************************************************************************)
(* Everything that writes the Proposal table, for one user and one asset:  *)
(* the live generator (generateProposalsForBaseAnalysis), Grill, the       *)
(* thesis monitor (runThesisMonitor), the skip route, the mandate route    *)
(* and the confirmation of a SELL proposal.  None of them holds a lock     *)
(* between what it reads and what it writes, so each is taken apart at its *)
(* awaits; the transactions of PositionLifecycle that no later step here   *)
(* depends on are whole steps.                                             *)
(*                                                                         *)
(* The mandate and the market are not modelled: whether a proposal is      *)
(* worth making is a free choice.                                          *)
(***************************************************************************)
EXTENDS PositionLifecycle, FiniteSets

CONSTANTS
  Generators,  \* ticks of the signal loop that may run at a time: nothing
               \* stops setInterval from starting one while another is busy
  Monitors,    \* processes that run the thesis monitor, whose ticks never overlap
  Tabs         \* browser tabs of the user

VARIABLES
  origin,  \* Proposal.origin
  pc,      \* the next step of each agent
  target,  \* the proposal, or the position, that it is about
  todo     \* the positions a tick of the thesis monitor has still to look at

agentVars    == <<pc, target, todo>>
proposalState == <<vars, origin, agentVars>>

\* A timer starts a tick at a time, and a deployment runs so many processes.
ASSUME AgentsAssumption == IsFiniteSet(Generators) /\ IsFiniteSet(Monitors)

\* NULL is no origin.
ASSUME OriginAssumption == NULL \notin {"SIGNAL_ENGINE", "GRILL"}

Agents == Generators \cup Monitors \cup Tabs
Steps  == {"idle", "positions", "proposals", "create", "check", "emit",
           "skipRead", "skipWrite", "sell"}

ProposalTypeOK ==
  /\ TypeOK
  /\ origin \in [Proposals -> {"SIGNAL_ENGINE", "GRILL", NULL}]
  /\ pc \in [Agents -> Steps]
  /\ target \in [Agents -> Proposals \cup Positions \cup {NULL}]
  /\ todo \in [Monitors -> SUBSET Positions]

ProposalInit ==
  /\ Init
  /\ origin = [x \in Proposals |-> NULL]
  /\ pc = [a \in Agents |-> "idle"]
  /\ target = [a \in Agents |-> NULL]
  /\ todo = [m \in Monitors |-> {}]

Goto(a, step, x) ==
  /\ pc' = [pc EXCEPT ![a] = step]
  /\ target' = [target EXCEPT ![a] = x]

Live(x) == proposalStatus[x] = "ACTIVE" /\ x \notin lapsed

--------------------------------------------------------------------------------
(* BUY proposals.                                                          *)

OpenPositions == {p \in Positions : state[p] \notin {"ABSENT", "CLOSED"}}

LiveBuys == {x \in Proposals : Live(x) /\ proposalAction[x] = "BUY"}

\* user.findMany is a SELECT for the user and one for each relation it includes, in
\* no transaction and in an order nobody promises.  Rows in the way end it; else the
\* other relation is read, or a proposal can be made.
Selected(g, rows, other) ==
  /\ \/ rows # {} /\ Goto(g, "idle", NULL)
     \/ rows = {} /\ Goto(g, IF pc[g] = "idle" THEN other ELSE "create", NULL)
  /\ UNCHANGED <<vars, origin, todo>>

\* A tick asks for an open position ...
SelectPositions(g) == pc[g] \in {"idle", "positions"} /\ Selected(g, OpenPositions, "proposals")

\* The live proposals are not asked for.
MutantSelectProposals(g) == pc[g] \in {"idle", "proposals"} /\ Selected(g, {}, "positions")

\* ... and for a live BUY proposal of whatever origin.  (The code's clock, read when
\* the tick begins, sees no more lapsed than the one here.)
SelectProposals(g) == pc[g] \in {"idle", "proposals"} /\ Selected(g, LiveBuys, "positions")

\* ... and, some awaits later, a proposal is inserted, or none: no cash, no
\* price, an error.
Personalize(g) ==
  /\ pc[g] = "create"
  /\ \/ \E x \in Proposals : /\ CreateBuyProposal(x)
                             /\ origin' = [origin EXCEPT ![x] = "SIGNAL_ENGINE"]
     \/ UNCHANGED <<vars, origin>>
  /\ Goto(g, "idle", NULL)
  /\ UNCHANGED todo

\* createGrillProposal: the proposals of Grill that have lapsed expire, and
\* another is inserted, whatever else is live.
CreateGrillProposal(x) ==
  /\ proposalStatus[x] = "ABSENT"
  /\ proposalStatus' = [y \in Proposals |-> IF y = x THEN "ACTIVE"
                                            ELSE IF origin[y] = "GRILL" THEN Expired[y]
                                            ELSE proposalStatus[y]]
  /\ proposalAction' = [proposalAction EXCEPT ![x] = "BUY"]
  /\ origin' = [origin EXCEPT ![x] = "GRILL"]
  /\ UNCHANGED <<proposalPosition, lapsed, positionVars, orderVars, trades, agentVars>>

--------------------------------------------------------------------------------
(* SELL proposals.                                                         *)

\* A tick reads the positions ...
Walk(m) ==
  LET held == {p \in Positions : state[p] \in {"ACTIVE", "ENTERING"}}
  IN  /\ pc[m] = "idle"
      /\ held # {}
      /\ todo' = [todo EXCEPT ![m] = held]
      /\ Goto(m, "check", NULL)
      /\ UNCHANGED <<vars, origin>>

LiveSells(p) ==
  {x \in Proposals : Live(x) /\ proposalAction[x] = "SELL" /\ proposalPosition[x] = p}

\* The tick goes on to the next position, or ends.
NextPosition(m, p) ==
  /\ todo' = [todo EXCEPT ![m] = @ \ {p}]
  /\ Goto(m, IF todo[m] = {p} THEN "idle" ELSE "check", NULL)

\* ... asks of each whether a SELL proposal is live ...
Check(m, p) ==
  /\ pc[m] = "check"
  /\ p \in todo[m]
  /\ IF LiveSells(p) = {} THEN Goto(m, "emit", p) /\ UNCHANGED todo
                          ELSE NextPosition(m, p)
  /\ UNCHANGED <<vars, origin>>

\* ... and, some awaits later, inserts one if the thesis is broken.
Emit(m) ==
  /\ pc[m] = "emit"
  /\ \/ \E x \in Proposals : CreateSellProposal(x, target[m])
     \/ UNCHANGED vars
  /\ NextPosition(m, target[m])
  /\ UNCHANGED origin

\* The transaction of confirmSellProposalClose reads the proposal ...
BeginSell(t, x) ==
  /\ pc[t] = "idle"
  /\ SellConfirmable(x)
  /\ Goto(t, "sell", x)
  /\ UNCHANGED <<vars, origin, todo>>

\* The answer of the close is not looked at.
MutantCommitSell(t) ==
  /\ pc[t] = "sell"
  /\ \/ \E s \in Signatures, c \in Orders : CloseActivePosition(proposalPosition[target[t]], s, c)
     \/ UNCHANGED <<positionVars, orderVars, trades>>
  /\ proposalStatus' = [proposalStatus EXCEPT ![target[t]] = "EXECUTED"]
  /\ UNCHANGED <<proposalAction, proposalPosition, lapsed>>
  /\ Goto(t, "idle", NULL)
  /\ UNCHANGED <<origin, todo>>

\* ... and writes EXECUTED, without asking again, if the position could be
\* closed or was closed by this signature.
CommitSell(t) ==
  LET p == proposalPosition[target[t]]
  IN  /\ pc[t] = "sell"
      /\ \/ /\ \E s \in Signatures :
                 \/ \E c \in Orders : CloseActivePosition(p, s, c)
                 \/ CloseReplayed(p, s) /\ UNCHANGED <<positionVars, orderVars, trades>>
            /\ proposalStatus' = [proposalStatus EXCEPT ![target[t]] = "EXECUTED"]
            /\ UNCHANGED <<proposalAction, proposalPosition, lapsed>>
         \/ UNCHANGED vars
      /\ Goto(t, "idle", NULL)
      /\ UNCHANGED <<origin, todo>>

--------------------------------------------------------------------------------
(* The skip route and the mandate route.                                   *)

\* What has lapsed expires; a proposal that has lapsed is answered for ...
BeginSkip(t, x) ==
  /\ pc[t] = "idle"
  /\ proposalStatus[x] # "ABSENT"
  /\ ExpireActiveProposals
  /\ Goto(t, IF x \in lapsed THEN "idle" ELSE "skipRead", IF x \in lapsed THEN NULL ELSE x)
  /\ UNCHANGED <<origin, todo>>

\* ... findUnique: of the four statuses, EXPIRED alone is refused ...
ReadSkip(t) ==
  /\ pc[t] = "skipRead"
  /\ IF proposalStatus[target[t]] = "EXPIRED" THEN Goto(t, "idle", NULL)
                                              ELSE Goto(t, "skipWrite", target[t])
  /\ UNCHANGED <<vars, origin, todo>>

\* ... and proposal.update, which asks for no status, writes SKIPPED.
WriteSkip(t) ==
  /\ pc[t] = "skipWrite"
  /\ proposalStatus' = [proposalStatus EXCEPT ![target[t]] = "SKIPPED"]
  /\ Goto(t, "idle", NULL)
  /\ UNCHANGED <<proposalAction, proposalPosition, lapsed, positionVars, orderVars, trades,
                 origin, todo>>

\* Every proposal of the user expires.
MutantInvalidateProposals ==
  /\ proposalStatus' = [x \in Proposals |-> IF proposalStatus[x] # "ABSENT"
                                              THEN "EXPIRED" ELSE "ABSENT"]
  /\ UNCHANGED <<proposalAction, proposalPosition, lapsed, positionVars, orderVars, trades,
                 origin, agentVars>>

\* PUT /api/mandates: every ACTIVE proposal of the user expires.
InvalidateProposals ==
  /\ proposalStatus' = [x \in Proposals |-> IF proposalStatus[x] = "ACTIVE"
                                              THEN "EXPIRED" ELSE proposalStatus[x]]
  /\ UNCHANGED <<proposalAction, proposalPosition, lapsed, positionVars, orderVars, trades,
                 origin, agentVars>>

--------------------------------------------------------------------------------

\* What else happens to proposals and positions meanwhile, each in one step.  No
\* step above reads an order, and the operations that write only orders are left
\* out.  A proposal that lapses when it is no longer ACTIVE would only be refused
\* where it can be refused already.
Environment ==
  /\ \/ \E x \in Proposals : proposalStatus[x] = "ACTIVE" /\ Lapse(x)
     \/ ExpireActiveProposals
     \/ EntryNext \/ ClaimNext
     \/ \E o \in Orders : CancelPendingBuy(o)
     \/ \E o \in Orders, s \in Signatures :
          \E cancelled \in AtMostOneOf(Orders) : ConfirmExitFill(o, s, cancelled)
     \/ \E p \in Positions, s \in Signatures, c \in Orders : UserCloseActive(p, s, c)
  /\ UNCHANGED <<origin, agentVars>>

ProposalTableNext ==
  \/ \E g \in Generators : SelectPositions(g) \/ SelectProposals(g) \/ Personalize(g)
  \/ \E m \in Monitors : Walk(m) \/ Emit(m) \/ \E p \in Positions : Check(m, p)
  \/ \E t \in Tabs : \/ ReadSkip(t) \/ WriteSkip(t) \/ CommitSell(t)
                     \/ \E x \in Proposals : BeginSkip(t, x) \/ BeginSell(t, x)
  \/ \E x \in Proposals : CreateGrillProposal(x)
  \/ InvalidateProposals
  \/ Environment

ProposalSpec == ProposalInit /\ [][ProposalTableNext]_proposalState

--------------------------------------------------------------------------------
(* Properties.                                                             *)

\* A position comes from one BUY proposal, and a proposal that opened one is not
\* ACTIVE or EXPIRED, whatever the skip route, the mandate route and the clock
\* write over its status; an EXECUTED one has its position.
BoughtOnce ==
  /\ \A x \in Proposals : proposalAction[x] = "BUY" =>
       /\ proposalStatus[x] \in {"ACTIVE", "EXPIRED"} => proposalPosition[x] = NULL
       /\ proposalStatus[x] = "EXECUTED" => proposalPosition[x] # NULL
  /\ \A p \in Positions : state[p] # "ABSENT" =>
       Cardinality({x \in Proposals : proposalAction[x] = "BUY" /\ proposalPosition[x] = p}) = 1

\* The decisions the live generator has put to the user: its live BUY proposals,
\* and its BUY proposals whose position is open.
LiveGenerated      == {x \in LiveBuys : origin[x] = "SIGNAL_ENGINE"}
BoughtGenerated    == {x \in Proposals : origin[x] = "SIGNAL_ENGINE"
                                          /\ proposalPosition[x] \in OpenPositions}
GeneratedDecisions == LiveGenerated \cup BoughtGenerated

\* Live BUY proposals of the generator pile up as far as its ticks overlap, and no
\* further however long it runs: between what a tick reads and what it inserts, each
\* other tick that has read the same can insert once.  (docs/signal-engine.md, Stage
\* 2, says that there is never a second one.)
LiveBuysPerTick == Cardinality(LiveGenerated) <= Cardinality(Generators)

\* Its decisions, the open positions they led to included, pile up twice as far: a
\* tick reads the positions apart from the proposals, and a proposal may be accepted
\* in between.
DecisionsPerTick == Cardinality(GeneratedDecisions) <= 2 * Cardinality(Generators)

\* Each monitor has one live request to sell a position before the user, although
\* it asks for one some awaits before it inserts another.
RequestsPerMonitor == \A p \in Positions : Cardinality(LiveSells(p)) <= Cardinality(Monitors)

\* What is put to the user is as much as there are writers that run beside each other,
\* although each reads, awaits, and then inserts, with nothing in the database to
\* refuse the insertion.
DecisionsPerWriter == LiveBuysPerTick /\ DecisionsPerTick /\ RequestsPerMonitor

\* A proposal that has been executed is not skipped afterwards.  (docs/api-contract.md:
\* POST /api/skips answers 409 when the proposal is "already skipped, executed, or
\* expired", and its Proposal Lifecycle has no move out of EXECUTED.)
ExecutedIsNotSkipped ==
  [][\A x \in Proposals :
       proposalStatus[x] = "EXECUTED" => proposalStatus'[x] # "SKIPPED"]_proposalState

================================================================================
