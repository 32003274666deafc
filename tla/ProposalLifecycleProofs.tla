------------------------ MODULE ProposalLifecycleProofs ------------------------
(***************************************************************************)
(* Proofs about ProposalLifecycle, for any rows, tabs and processes.  The  *)
(* writers of the Proposal table are no steps of PositionLifecycle, but a  *)
(* step of theirs makes one proposal, accepts one, or only settles some    *)
(* (StepKinds); on that rest                                               *)
(*   BoughtCorrect    a position comes from one BUY proposal, and a status *)
(*                    never forgets it;                                    *)
(*   SoldCorrect      an executed SELL proposal has closed its position,   *)
(*                    although its status was read before and is not asked *)
(*                    for again;                                           *)
(*   DecisionCorrect  the decisions of the signal loop pile up as far as   *)
(*                    its ticks overlap, and no further;                   *)
(*   RequestCorrect   the requests to sell a position as far as the        *)
(*                    monitors do.                                         *)
(***************************************************************************)
EXTENDS ProposalLifecycle, PositionLifecycleProofs, FiniteSetTheorems

USE NullAssumption DEF ProposalStatuses, PositionStates, ClosedReasons, OrderStatuses,
                      ProtectionKinds, ExecutableKinds, OrderKinds, TradeSources

--------------------------------------------------------------------------------
(* What is known at each step.                                             *)

\* An agent that will write over a status has seen its proposal, a tab that
\* confirms a sale has read a SELL proposal, and the monitor has chosen a position.
AgentsKnow ==
  \A a \in Agents :
    /\ pc[a] \in {"skipRead", "skipWrite"} =>
         target[a] \in Proposals /\ proposalStatus[target[a]] # "ABSENT"
    /\ pc[a] = "sell" => target[a] \in Proposals /\ proposalAction[target[a]] = "SELL"
    /\ pc[a] = "emit" => target[a] \in Positions

\* A position is bought by a proposal, and by one alone.
OwnedOnce ==
  /\ \A x \in Proposals : proposalAction[x] = "BUY" =>
       /\ proposalStatus[x] \in {"ACTIVE", "EXPIRED"} => proposalPosition[x] = NULL
       /\ proposalStatus[x] = "EXECUTED" => proposalPosition[x] # NULL
  /\ \A x, y \in Proposals :
       /\ proposalAction[x] = "BUY" /\ proposalAction[y] = "BUY"
       /\ proposalPosition[x] = proposalPosition[y] /\ proposalPosition[x] # NULL
       => x = y
  /\ \A p \in Positions : state[p] # "ABSENT" =>
       \E x \in Proposals : proposalAction[x] = "BUY" /\ proposalPosition[x] = p

\* The rows of every table, as far as the writers of proposals rely on them.
TablesInv ==
  /\ ProposalTypeOK /\ RowsWellFormed /\ SignatureSettlesOneOrder /\ OneFilledExit
  /\ ProposalRowsWellFormed /\ AgentsKnow

\* No position appears or disappears, and a closed one stays as it is.
SettlesPositions ==
  /\ SamePositions
  /\ \A p \in Positions : state[p] = "CLOSED" =>
       state'[p] = "CLOSED" /\ closedReason'[p] = closedReason[p]

\* No proposal is made: statuses move away from ACTIVE, and into EXECUTED only
\* with the position sold.
SettlesProposals ==
  /\ proposalAction' = proposalAction /\ proposalPosition' = proposalPosition
  /\ origin' = origin /\ lapsed \subseteq lapsed'
  /\ \A x \in Proposals :
       /\ proposalStatus'[x] = "ABSENT" <=> proposalStatus[x] = "ABSENT"
       /\ proposalStatus'[x] = "ACTIVE" => proposalStatus[x] = "ACTIVE"
       /\ proposalStatus'[x] = "EXPIRED" => proposalStatus[x] \in {"ACTIVE", "EXPIRED"}
       /\ proposalStatus'[x] = "EXECUTED" =>
            \/ proposalStatus[x] = "EXECUTED"
            \/ /\ proposalAction[x] = "SELL"
               /\ SoldBy(proposalPosition[x], "CLOSE_SWAP")'

\* A tick of the signal loop makes a BUY proposal.
Generates(g, x) ==
  /\ pc[g] = "create"
  /\ CreateBuyProposal(x)
  /\ origin' = [origin EXCEPT ![x] = "SIGNAL_ENGINE"]
  /\ Goto(g, "idle", NULL)

\* The monitor makes a SELL proposal.
Asks(m, x) ==
  /\ pc[m] = "emit"
  /\ CreateSellProposal(x, target[m])
  /\ NextPosition(m, target[m])
  /\ UNCHANGED origin

\* A proposal is accepted.
Accepts(x, p, b) == AcceptBuyProposal(x, p, b) /\ UNCHANGED <<origin, agentVars>>

--------------------------------------------------------------------------------
(* The tables of orders and positions.                                     *)

\* What a step does to them: what the lifecycle would, a sale, or nothing.
TablesMove ==
  \/ [Next]_vars
  \/ UNCHANGED <<positionVars, orderVars, trades>>
  \/ \E p \in Positions, s \in Signatures, c \in Orders : CloseActivePosition(p, s, c)

\* No step of a writer does more.
LEMMA WritersMoveTables ==
  ASSUME TablesInv, [ProposalTableNext]_proposalState
  PROVE  TablesMove
<1> USE DEF TablesMove
<1>1. ASSUME NEW g \in Generators, SelectPositions(g) \/ SelectProposals(g) \/ Personalize(g)
      PROVE  TablesMove
  BY <1>1 DEF SelectPositions, SelectProposals, Selected, Personalize, Next, ProposalNext
<1>2. ASSUME NEW m \in Monitors, Walk(m) \/ \E p \in Positions : Check(m, p)
      PROVE  TablesMove
  BY <1>2 DEF Walk, Check
<1>3. ASSUME NEW m \in Monitors, Emit(m) PROVE TablesMove
  <2>1. target[m] \in Positions
    BY <1>3 DEF Emit, TablesInv, AgentsKnow, Agents
  <2>. QED
    BY <1>3, <2>1 DEF Emit, Next, ProposalNext
<1>4. ASSUME NEW t \in Tabs, ReadSkip(t) \/ WriteSkip(t) PROVE TablesMove
  BY <1>4 DEF ReadSkip, WriteSkip
<1>5. ASSUME NEW t \in Tabs, CommitSell(t) PROVE TablesMove
  <2>1. proposalPosition[target[t]] \in Positions
    BY <1>5 DEF CommitSell, TablesInv, AgentsKnow, Agents, ProposalRowsWellFormed,
                ProposalTypeOK, TypeOK
  <2>. QED
    BY <1>5, <2>1 DEF CommitSell
<1>6. ASSUME NEW t \in Tabs, NEW x \in Proposals, BeginSkip(t, x) \/ BeginSell(t, x)
      PROVE  TablesMove
  BY <1>6 DEF BeginSkip, BeginSell, Next, ProposalNext
<1>7. ASSUME NEW x \in Proposals, CreateGrillProposal(x) PROVE TablesMove
  BY <1>7 DEF CreateGrillProposal
<1>8. CASE InvalidateProposals
  BY <1>8 DEF InvalidateProposals
<1>9. CASE Environment
  BY <1>9 DEF Environment, Next, ProposalNext, ProtectionNext, CancelOpenOrder, ExitNext
<1>10. CASE UNCHANGED proposalState
  BY <1>10 DEF proposalState
<1>. QED
  BY <1>1, <1>2, <1>3, <1>4, <1>5, <1>6, <1>7, <1>8, <1>9, <1>10 DEF ProposalTableNext

\* The rows of orders and positions go on fitting together.
LEMMA TablesStep ==
  ASSUME TablesInv, TablesMove
  PROVE  RowsWellFormed' /\ SignatureSettlesOneOrder' /\ OneFilledExit'
<1> USE DEF TablesInv, ProposalTypeOK
<1>1. CASE [Next]_vars
  BY <1>1, RowsStep, SignatureStep, ExitStep
<1>2. CASE UNCHANGED <<positionVars, orderVars, trades>>
  BY <1>2 DEF positionVars, orderVars, RowsWellFormed, SignatureSettlesOneOrder,
              OneFilledExit, SoldBy
<1>3. ASSUME NEW p \in Positions, NEW s \in Signatures, NEW c \in Orders,
             CloseActivePosition(p, s, c)
      PROVE  RowsWellFormed' /\ SignatureSettlesOneOrder' /\ OneFilledExit'
  BY <1>3, CloseRows, CloseSignature, CloseExit
<1>. QED
  BY <1>1, <1>2, <1>3 DEF TablesMove

--------------------------------------------------------------------------------
(* The Proposal table.                                                     *)

\* Outside an acceptance the tables of orders and positions settle: no position
\* appears or disappears, and a closed one stays as it is.
LEMMA TablesSettle ==
  ASSUME TablesInv, TablesMove
  PROVE  \/ SettlesPositions
         \/ \E x \in Proposals, p \in Positions, b \in Orders : AcceptBuyProposal(x, p, b)
<1> USE DEF TablesInv, ProposalTypeOK, SettlesPositions
<1>1. CASE [Next]_vars
  BY <1>1, PositionsStay, SoldStays
<1>2. CASE UNCHANGED <<positionVars, orderVars, trades>>
  BY <1>2 DEF positionVars, SamePositions
<1>3. ASSUME NEW p \in Positions, NEW s \in Signatures, NEW c \in Orders,
             CloseActivePosition(p, s, c)
      PROVE  SettlesPositions
  BY <1>3 DEF CloseActivePosition, SamePositions, TypeOK
<1>. QED
  BY <1>1, <1>2, <1>3 DEF TablesMove

\* A position that a replayed close names has been sold.
LEMMA ReplayWasSold ==
  ASSUME TablesInv, NEW p \in Positions, NEW s \in Signatures, CloseReplayed(p, s)
  PROVE  SoldBy(p, "CLOSE_SWAP")
<1>1. PICK c \in Orders : positionOf[c] = p /\ kind[c] = "CLOSE_SWAP"
  BY DEF CloseReplayed
<1>2. status[c] = "FILLED"
  BY <1>1 DEF TablesInv, RowsWellFormed
<1>. QED
  BY <1>1, <1>2 DEF TablesInv, OneFilledExit

\* A confirmed sale settles its proposal with the position sold.
LEMMA CommitSellSettles ==
  ASSUME TablesInv, NEW t \in Tabs, CommitSell(t)
  PROVE  SettlesProposals
<1>1. PICK y \in Proposals, p \in Positions :
        /\ y = target[t] /\ p = proposalPosition[y]
        /\ proposalAction[y] = "SELL" /\ proposalStatus[y] # "ABSENT"
  BY DEF CommitSell, TablesInv, AgentsKnow, Agents, ProposalRowsWellFormed,
         ProposalTypeOK, TypeOK
<1>2. CASE UNCHANGED vars
  BY <1>2 DEF CommitSell, SettlesProposals, vars, proposalVars
<1>3. ASSUME NEW s \in Signatures, NEW c \in Orders, CloseActivePosition(p, s, c)
      PROVE  SoldBy(p, "CLOSE_SWAP")'
  BY <1>3 DEF CloseActivePosition, SoldBy, ReasonOf, TablesInv, ProposalTypeOK, TypeOK
<1>4. ASSUME NEW s \in Signatures, CloseReplayed(p, s),
             UNCHANGED <<positionVars, orderVars, trades>>
      PROVE  SoldBy(p, "CLOSE_SWAP")'
  BY <1>4, ReplayWasSold DEF SoldBy, positionVars
<1>5. CASE /\ proposalStatus' = [proposalStatus EXCEPT ![y] = "EXECUTED"]
           /\ UNCHANGED <<proposalAction, proposalPosition, lapsed>>
           /\ SoldBy(p, "CLOSE_SWAP")'
  <2>1. proposalPosition'[y] = p /\ proposalStatus'[y] = "EXECUTED"
    BY <1>1, <1>5 DEF TablesInv, ProposalTypeOK, TypeOK
  <2>2. \A x \in Proposals \ {y} : proposalStatus'[x] = proposalStatus[x]
    BY <1>5 DEF TablesInv, ProposalTypeOK, TypeOK
  <2>3. SoldBy(proposalPosition[y], "CLOSE_SWAP")'
    BY <1>5, <2>1 DEF SoldBy
  <2>. QED
    BY <1>1, <1>5, <2>1, <2>2, <2>3 DEF CommitSell, SettlesProposals
<1>. QED
  BY <1>1, <1>2, <1>3, <1>4, <1>5 DEF CommitSell

\* What a step of the writers is: it settles, or it makes a proposal, or accepts one.
LEMMA StepKinds ==
  ASSUME TablesInv, [ProposalTableNext]_proposalState
  PROVE  \/ SettlesPositions /\ SettlesProposals
         \/ \E g \in Generators, x \in Proposals : Generates(g, x)
         \/ \E m \in Monitors, x \in Proposals : Asks(m, x)
         \/ \E x \in Proposals : CreateGrillProposal(x)
         \/ \E x \in Proposals, p \in Positions, b \in Orders : Accepts(x, p, b)
<1> DEFINE Kinds ==
      \/ SettlesProposals
      \/ \E g \in Generators, x \in Proposals : Generates(g, x)
      \/ \E m \in Monitors, x \in Proposals : Asks(m, x)
      \/ \E x \in Proposals : CreateGrillProposal(x)
      \/ \E x \in Proposals, p \in Positions, b \in Orders : Accepts(x, p, b)
<1>0. UNCHANGED <<proposalVars, origin>> => SettlesProposals
  BY DEF proposalVars, SettlesProposals
<1>1. ExpireActiveProposals /\ UNCHANGED origin => SettlesProposals
  BY DEF ExpireActiveProposals, Expired, SettlesProposals, TablesInv, ProposalTypeOK, TypeOK
<1>2. ASSUME NEW g \in Generators, SelectPositions(g) \/ SelectProposals(g) \/ Personalize(g)
      PROVE  Kinds
  BY <1>0, <1>2 DEF SelectPositions, SelectProposals, Selected, Personalize, Generates, vars
<1>3. ASSUME NEW m \in Monitors, Walk(m) \/ \E p \in Positions : Check(m, p) PROVE Kinds
  BY <1>0, <1>3 DEF Walk, Check, vars
<1>4. ASSUME NEW m \in Monitors, Emit(m) PROVE Kinds
  BY <1>0, <1>4 DEF Emit, Asks, vars
<1>5. ASSUME NEW t \in Tabs, ReadSkip(t) PROVE Kinds
  BY <1>0, <1>5 DEF ReadSkip, vars
<1>6. ASSUME NEW t \in Tabs, WriteSkip(t) PROVE Kinds
  <2>1. target[t] \in Proposals /\ proposalStatus[target[t]] # "ABSENT"
    BY <1>6 DEF WriteSkip, TablesInv, AgentsKnow, Agents
  <2>. QED
    BY <1>6, <2>1 DEF WriteSkip, SettlesProposals, TablesInv, ProposalTypeOK, TypeOK
<1>7. ASSUME NEW t \in Tabs, CommitSell(t) PROVE Kinds
  BY <1>7, CommitSellSettles
<1>8. ASSUME NEW t \in Tabs, NEW x \in Proposals, BeginSkip(t, x) \/ BeginSell(t, x)
      PROVE  Kinds
  BY <1>0, <1>1, <1>8 DEF BeginSkip, BeginSell, vars
<1>9. ASSUME InvalidateProposals PROVE SettlesProposals
  BY <1>9 DEF InvalidateProposals, SettlesProposals, TablesInv, ProposalTypeOK, TypeOK
<1>10. ASSUME Environment PROVE Kinds
  <2>1. ASSUME NEW x \in Proposals, Lapse(x) PROVE SettlesProposals
    BY <1>10, <2>1 DEF Environment, Lapse, SettlesProposals
  <2>2. EntryNext => Kinds
    BY <1>0, <1>10 DEF Environment, EntryNext, ConfirmBuyFill, Accepts
  <2>3. ASSUME \/ ClaimNext \/ \E o \in Orders : CancelPendingBuy(o)
               \/ \E o \in Orders, s \in Signatures :
                    \E cancelled \in AtMostOneOf(Orders) : ConfirmExitFill(o, s, cancelled)
               \/ \E p \in Positions, s \in Signatures, c \in Orders : UserCloseActive(p, s, c)
        PROVE  UNCHANGED proposalVars
    BY <2>3 DEF ClaimNext, ClaimOrderExecution, ReleaseOrderExecutionClaim, CancelPendingBuy,
                ConfirmExitFill, UserCloseActive
  <2>4. origin' = origin
    BY <1>10 DEF Environment
  <2>5. SettlesProposals \/ EntryNext
    BY <1>0, <1>1, <1>10, <2>1, <2>3, <2>4 DEF Environment
  <2>. QED
    BY <2>2, <2>5
<1>11. ASSUME UNCHANGED proposalState PROVE SettlesProposals
  <2>1. UNCHANGED <<proposalVars, origin>>
    BY <1>11 DEF proposalState, vars
  <2>. QED
    BY <1>0, <2>1
<1>12. Kinds
  BY <1>2, <1>3, <1>4, <1>5, <1>6, <1>7, <1>8, <1>9, <1>10, <1>11 DEF ProposalTableNext
<1>13. ASSUME NEW x \in Proposals, NEW p \in Positions, NEW b \in Orders,
              AcceptBuyProposal(x, p, b), SettlesProposals
       PROVE  FALSE
  BY <1>13 DEF AcceptBuyProposal, Expired, SettlesProposals, TablesInv, ProposalRowsWellFormed,
               ProposalTypeOK, TypeOK
<1>. QED
  BY <1>12, <1>13, WritersMoveTables, TablesSettle

\* Where a SELECT of the generator leads: on, if it finds no row in the way.
LEMMA SelectedLeads ==
  ASSUME NEW g \in Generators, SelectPositions(g) \/ SelectProposals(g)
  PROVE  /\ UNCHANGED <<vars, origin>>
         /\ \E step \in {"idle", "positions", "proposals", "create"} :
              /\ Goto(g, step, NULL)
              /\ step \in {"positions", "create"} => pc[g] \in {"positions", "create"} \/ LiveBuys = {}
              /\ step \in {"proposals", "create"} =>
                   pc[g] \in {"proposals", "create"} \/ OpenPositions = {}
<1>1. ASSUME NEW rows, NEW other, Selected(g, rows, other)
      PROVE  /\ UNCHANGED <<vars, origin>>
             /\ \/ Goto(g, "idle", NULL)
                \/ rows = {} /\ pc[g] = "idle" /\ Goto(g, other, NULL)
                \/ rows = {} /\ pc[g] # "idle" /\ Goto(g, "create", NULL)
  BY <1>1 DEF Selected
<1>2. CASE SelectPositions(g)
  BY <1>1, <1>2 DEF SelectPositions
<1>3. CASE SelectProposals(g)
  BY <1>1, <1>3 DEF SelectProposals
<1>. QED
  BY <1>2, <1>3

\* A step of the writers keeps every column, and every agent, to its type.
LEMMA WritersType ==
  ASSUME TablesInv, [ProposalTableNext]_proposalState
  PROVE  ProposalTypeOK'
<1> USE DEF TablesInv
<1>0. [Next]_vars => TypeOK'
  BY TypeStep DEF ProposalTypeOK
<1>1. ASSUME NEW a \in Agents, NEW step \in Steps, NEW x \in Proposals \cup Positions \cup {NULL},
             Goto(a, step, x)
      PROVE  /\ pc' \in [Agents -> Steps]
             /\ target' \in [Agents -> Proposals \cup Positions \cup {NULL}]
  BY <1>1 DEF Goto, ProposalTypeOK
<1>2. \A a \in Agents : target[a] \in Proposals \cup Positions \cup {NULL}
  BY DEF ProposalTypeOK
<1>3. /\ \A g \in Generators : g \in Agents
      /\ \A m \in Monitors : m \in Agents
      /\ \A t \in Tabs : t \in Agents
  BY DEF Agents
<1>4. Steps = {"idle", "positions", "proposals", "create", "check", "emit",
               "skipRead", "skipWrite", "sell"}
  BY DEF Steps
<1>5. ASSUME NEW m \in Monitors, NEW p \in Proposals \cup Positions \cup {NULL},
             NextPosition(m, p)
      PROVE  /\ pc' \in [Agents -> Steps]
             /\ target' \in [Agents -> Proposals \cup Positions \cup {NULL}]
             /\ todo' \in [Monitors -> SUBSET Positions]
  <2>1. (IF todo[m] = {p} THEN "idle" ELSE "check") \in Steps
    BY DEF Steps
  <2>. QED
    BY <1>1, <1>3, <1>5, <2>1 DEF NextPosition, ProposalTypeOK
<1>6. ASSUME NEW g \in Generators, SelectPositions(g) \/ SelectProposals(g)
      PROVE  ProposalTypeOK'
  <2>1. PICK step \in Steps : Goto(g, step, NULL)
    BY <1>4, <1>6, SelectedLeads
  <2>. QED
    BY <1>0, <1>1, <1>3, <1>6, <2>1 DEF SelectPositions, SelectProposals, Selected, ProposalTypeOK
<1>7. ASSUME NEW g \in Generators, Personalize(g) PROVE ProposalTypeOK'
  <2>1. TypeOK'
    BY <1>0, <1>7 DEF Personalize, Next, ProposalNext
  <2>. QED
    BY <1>1, <1>3, <1>4, <1>7, <2>1 DEF Personalize, ProposalTypeOK
<1>8. ASSUME NEW m \in Monitors, Walk(m) PROVE ProposalTypeOK'
  BY <1>0, <1>1, <1>3, <1>4, <1>8 DEF Walk, ProposalTypeOK
<1>9. ASSUME NEW m \in Monitors, NEW p \in Positions, Check(m, p) PROVE ProposalTypeOK'
  <2>1. /\ pc' \in [Agents -> Steps]
        /\ target' \in [Agents -> Proposals \cup Positions \cup {NULL}]
        /\ todo' \in [Monitors -> SUBSET Positions]
    BY <1>1, <1>3, <1>4, <1>5, <1>9 DEF Check, ProposalTypeOK
  <2>. QED
    BY <1>0, <1>9, <2>1 DEF Check, ProposalTypeOK
<1>10. ASSUME NEW m \in Monitors, Emit(m) PROVE ProposalTypeOK'
  <2>1. target[m] \in Positions
    BY <1>3, <1>10 DEF Emit, AgentsKnow
  <2>2. TypeOK'
    BY <1>0, <1>10, <2>1 DEF Emit, Next, ProposalNext
  <2>. QED
    BY <1>2, <1>3, <1>5, <1>10, <2>2 DEF Emit, ProposalTypeOK
<1>11. ASSUME NEW t \in Tabs, ReadSkip(t) PROVE ProposalTypeOK'
  BY <1>0, <1>1, <1>2, <1>3, <1>4, <1>11 DEF ReadSkip, ProposalTypeOK
<1>12. ASSUME NEW t \in Tabs, WriteSkip(t) PROVE ProposalTypeOK'
  <2>1. proposalStatus' \in [Proposals -> ProposalStatuses]
    BY <1>12 DEF WriteSkip, ProposalTypeOK, TypeOK
  <2>2. TypeOK'
    BY <1>12, <2>1 DEF WriteSkip, positionVars, orderVars, ProposalTypeOK, TypeOK
  <2>. QED
    BY <1>1, <1>3, <1>4, <1>12, <2>2 DEF WriteSkip, ProposalTypeOK
<1>13. ASSUME NEW t \in Tabs, CommitSell(t) PROVE ProposalTypeOK'
  <2>1. proposalPosition[target[t]] \in Positions
    BY <1>3, <1>13 DEF CommitSell, AgentsKnow, ProposalRowsWellFormed, ProposalTypeOK, TypeOK
  <2>2. CASE UNCHANGED vars
    BY <1>0, <1>1, <1>3, <1>4, <1>13, <2>2 DEF CommitSell, ProposalTypeOK
  <2>3. CASE /\ proposalStatus' = [proposalStatus EXCEPT ![target[t]] = "EXECUTED"]
             /\ UNCHANGED <<proposalAction, proposalPosition, lapsed>>
    <3>1. /\ proposalStatus' \in [Proposals -> ProposalStatuses]
          /\ proposalAction' \in [Proposals -> {"BUY", "SELL", NULL}]
          /\ proposalPosition' \in [Proposals -> Positions \cup {NULL}]
          /\ lapsed' \subseteq Proposals
      BY <2>3 DEF ProposalTypeOK, TypeOK
    <3>2. ASSUME UNCHANGED <<positionVars, orderVars, trades>> PROVE TypeOK'
      BY <3>1, <3>2 DEF positionVars, orderVars, ProposalTypeOK, TypeOK
    <3>3. ASSUME NEW s \in Signatures, NEW c \in Orders,
                 CloseActivePosition(proposalPosition[target[t]], s, c)
          PROVE  TypeOK'
      BY <2>1, <3>1, <3>3, CloseType DEF ProposalTypeOK, TypeOK
    <3>4. TypeOK'
      <4>1. CASE UNCHANGED vars
        BY <1>0, <4>1
      <4>. QED
        BY <1>13, <3>2, <3>3, <4>1 DEF CommitSell, ProposalTypeOK
    <3>. QED
      BY <1>1, <1>3, <1>4, <1>13, <3>4 DEF CommitSell, ProposalTypeOK
  <2>. QED
    BY <1>13, <2>2, <2>3 DEF CommitSell
<1>14. ASSUME NEW t \in Tabs, NEW x \in Proposals, BeginSkip(t, x) PROVE ProposalTypeOK'
  <2>1. TypeOK'
    BY <1>0, <1>14 DEF BeginSkip, Next, ProposalNext
  <2>. QED
    BY <1>1, <1>3, <1>4, <1>14, <2>1 DEF BeginSkip, ProposalTypeOK
<1>15. ASSUME NEW t \in Tabs, NEW x \in Proposals, BeginSell(t, x) PROVE ProposalTypeOK'
  BY <1>0, <1>1, <1>3, <1>4, <1>15 DEF BeginSell, ProposalTypeOK
<1>16. ASSUME NEW x \in Proposals, CreateGrillProposal(x) PROVE ProposalTypeOK'
  <2>1. /\ proposalStatus' \in [Proposals -> ProposalStatuses]
        /\ proposalAction' \in [Proposals -> {"BUY", "SELL", NULL}]
        /\ origin' \in [Proposals -> {"SIGNAL_ENGINE", "GRILL", NULL}]
    BY <1>16 DEF CreateGrillProposal, Expired, ProposalTypeOK, TypeOK
  <2>. QED
    BY <1>16, <2>1 DEF CreateGrillProposal, positionVars, orderVars, agentVars,
                       ProposalTypeOK, TypeOK
<1>17. ASSUME InvalidateProposals PROVE ProposalTypeOK'
  <2>1. proposalStatus' \in [Proposals -> ProposalStatuses]
    BY <1>17 DEF InvalidateProposals, ProposalTypeOK, TypeOK
  <2>. QED
    BY <1>17, <2>1 DEF InvalidateProposals, positionVars, orderVars, agentVars,
                       ProposalTypeOK, TypeOK
<1>18. ASSUME Environment PROVE ProposalTypeOK'
  <2>1. TypeOK'
    BY <1>0, <1>18 DEF Environment, Next, ProposalNext, ProtectionNext, CancelOpenOrder, ExitNext
  <2>. QED
    BY <1>18, <2>1 DEF Environment, agentVars, ProposalTypeOK
<1>19. CASE UNCHANGED proposalState
  BY <1>0, <1>19 DEF proposalState, agentVars, ProposalTypeOK
<1>. QED
  BY <1>6, <1>7, <1>8, <1>9, <1>10, <1>11, <1>12, <1>13, <1>14, <1>15, <1>16, <1>17, <1>18,
     <1>19 DEF ProposalTableNext

\* A proposal that exists goes on existing, and asks for what it asked for.
LEMMA ProposalsRemain ==
  ASSUME TablesInv, [ProposalTableNext]_proposalState, NEW x \in Proposals,
         proposalStatus[x] # "ABSENT"
  PROVE  proposalStatus'[x] # "ABSENT" /\ proposalAction'[x] = proposalAction[x]
<1> USE DEF TablesInv, ProposalTypeOK, TypeOK
<1>1. CASE SettlesProposals
  BY <1>1 DEF SettlesProposals
<1>2. ASSUME NEW g \in Generators, NEW y \in Proposals, Generates(g, y)
      PROVE  proposalStatus'[x] # "ABSENT" /\ proposalAction'[x] = proposalAction[x]
  BY <1>2 DEF Generates, CreateBuyProposal
<1>3. ASSUME NEW m \in Monitors, NEW y \in Proposals, Asks(m, y)
      PROVE  proposalStatus'[x] # "ABSENT" /\ proposalAction'[x] = proposalAction[x]
  BY <1>3 DEF Asks, CreateSellProposal
<1>4. ASSUME NEW y \in Proposals, CreateGrillProposal(y)
      PROVE  proposalStatus'[x] # "ABSENT" /\ proposalAction'[x] = proposalAction[x]
  BY <1>4 DEF CreateGrillProposal, Expired
<1>5. ASSUME NEW y \in Proposals, NEW p \in Positions, NEW b \in Orders, Accepts(y, p, b)
      PROVE  proposalStatus'[x] # "ABSENT" /\ proposalAction'[x] = proposalAction[x]
  BY <1>5 DEF Accepts, AcceptBuyProposal, Expired
<1>. QED
  BY <1>1, <1>2, <1>3, <1>4, <1>5, StepKinds

\* A step of the writers keeps the rows of proposals fitting together.
LEMMA WritersProposalRows ==
  ASSUME TablesInv, [ProposalTableNext]_proposalState
  PROVE  ProposalRowsWellFormed'
<1> USE DEF TablesInv, ProposalTypeOK, TypeOK, ProposalRowsWellFormed
<1>1. CASE SettlesPositions /\ SettlesProposals
  BY <1>1 DEF SettlesPositions, SettlesProposals, SamePositions
<1>2. ASSUME NEW g \in Generators, NEW x \in Proposals, Generates(g, x)
      PROVE  ProposalRowsWellFormed'
  BY <1>2 DEF Generates, CreateBuyProposal, positionVars
<1>3. ASSUME NEW m \in Monitors, NEW x \in Proposals, Asks(m, x)
      PROVE  ProposalRowsWellFormed'
  <2>1. target[m] \in Positions
    BY <1>3 DEF Asks, AgentsKnow, Agents
  <2>. QED
    BY <1>3, <2>1 DEF Asks, CreateSellProposal, positionVars
<1>4. ASSUME NEW x \in Proposals, CreateGrillProposal(x) PROVE ProposalRowsWellFormed'
  BY <1>4 DEF CreateGrillProposal, Expired, positionVars
<1>5. ASSUME NEW x \in Proposals, NEW p \in Positions, NEW b \in Orders, Accepts(x, p, b)
      PROVE  ProposalRowsWellFormed'
  <2>1. /\ proposalStatus[x] = "ACTIVE" /\ proposalAction[x] = "BUY"
        /\ proposalStatus'[x] = "EXECUTED"
        /\ \A y \in Proposals \ {x} : proposalStatus'[y] = "ABSENT" <=> proposalStatus[y] = "ABSENT"
    BY <1>5 DEF Accepts, AcceptBuyProposal, Expired
  <2>2. /\ state' = [state EXCEPT ![p] = "BUY_PENDING"]
        /\ proposalPosition' = [proposalPosition EXCEPT ![x] = p]
        /\ proposalAction' = proposalAction
    BY <1>5 DEF Accepts, AcceptBuyProposal
  <2>. QED
    BY <2>1, <2>2
<1>. QED
  BY <1>1, <1>2, <1>3, <1>4, <1>5, StepKinds

\* What an agent must have seen to be at a step.
Knows(step, x) ==
  /\ step \in {"skipRead", "skipWrite"} => x \in Proposals /\ proposalStatus[x] # "ABSENT"
  /\ step = "sell" => x \in Proposals /\ proposalAction[x] = "SELL"
  /\ step = "emit" => x \in Positions

\* An agent moves only to a step it has seen enough for.
LEMMA WritersMoveKnowing ==
  ASSUME TablesInv, [ProposalTableNext]_proposalState, NEW a \in Agents
  PROVE  (pc'[a] = pc[a] /\ target'[a] = target[a]) \/ Knows(pc'[a], target'[a])
<1> DEFINE Moves == (pc'[a] = pc[a] /\ target'[a] = target[a]) \/ Knows(pc'[a], target'[a])
<1>0. Knows(pc[a], target[a])
  BY DEF TablesInv, AgentsKnow, Knows
<1>1. ASSUME NEW b \in Agents, NEW step, NEW x, b = a => Knows(step, x), Goto(b, step, x)
      PROVE  Moves
  BY <1>1 DEF Goto, TablesInv, ProposalTypeOK
<1>2. \A step \in {"idle", "positions", "proposals", "create", "check"},
         x \in Proposals \cup Positions \cup {NULL} :
        Knows(step, x)
  BY DEF Knows
<1>3. ASSUME NEW m \in Monitors, NEW p \in Positions, NextPosition(m, p) PROVE Moves
  <2>1. PICK step \in {"idle", "check"} : Goto(m, step, NULL)
    BY <1>3 DEF NextPosition
  <2>. QED
    BY <1>1, <1>2, <2>1 DEF Agents
<1>4. ASSUME NEW g \in Generators, SelectPositions(g) \/ SelectProposals(g) \/ Personalize(g)
      PROVE  Moves
  BY <1>1, <1>2, <1>4, SelectedLeads DEF Personalize, Agents
<1>5. ASSUME NEW m \in Monitors, Walk(m) PROVE Moves
  BY <1>1, <1>2, <1>5 DEF Walk, Agents
<1>6. ASSUME NEW m \in Monitors, NEW p \in Positions, Check(m, p) PROVE Moves
  BY <1>1, <1>3, <1>6 DEF Check, Agents, Knows
<1>7. ASSUME NEW m \in Monitors, Emit(m) PROVE Moves
  BY <1>3, <1>7 DEF Emit, Agents, TablesInv, AgentsKnow
<1>8. ASSUME NEW t \in Tabs, ReadSkip(t) PROVE Moves
  <2>1. CASE Goto(t, "idle", NULL)
    BY <1>1, <1>2, <2>1 DEF Agents
  <2>2. CASE Goto(t, "skipWrite", target[t])
    <3>1. t = a => Knows("skipWrite", target[t])
      BY <1>0, <1>8 DEF ReadSkip, Knows
    <3>. QED
      BY <1>1, <2>2, <3>1 DEF Agents
  <2>. QED
    BY <1>8, <2>1, <2>2 DEF ReadSkip
<1>9. ASSUME NEW t \in Tabs, WriteSkip(t) \/ CommitSell(t) PROVE Moves
  BY <1>1, <1>2, <1>9 DEF WriteSkip, CommitSell, Agents
<1>10. ASSUME NEW t \in Tabs, NEW x \in Proposals, BeginSkip(t, x) PROVE Moves
  <2>1. CASE x \in lapsed
    BY <1>1, <1>2, <1>10, <2>1 DEF BeginSkip, Agents
  <2>2. CASE x \notin lapsed
    <3>1. Knows("skipRead", x)
      BY <1>10 DEF BeginSkip, Knows
    <3>. QED
      BY <1>1, <1>10, <2>2, <3>1 DEF BeginSkip, Agents
  <2>. QED
    BY <2>1, <2>2
<1>11. ASSUME NEW t \in Tabs, NEW x \in Proposals, BeginSell(t, x) PROVE Moves
  <2>1. Knows("sell", x)
    BY <1>11 DEF BeginSell, SellConfirmable, Knows
  <2>. QED
    BY <1>1, <1>11, <2>1 DEF BeginSell, Agents
<1>12. ASSUME NEW x \in Proposals, CreateGrillProposal(x) PROVE Moves
  BY <1>12 DEF CreateGrillProposal, agentVars
<1>13. CASE InvalidateProposals
  BY <1>13 DEF InvalidateProposals, agentVars
<1>14. CASE Environment
  BY <1>14 DEF Environment, agentVars
<1>15. CASE UNCHANGED proposalState
  BY <1>15 DEF proposalState, agentVars
<1>. QED
  BY <1>4, <1>5, <1>6, <1>7, <1>8, <1>9, <1>10, <1>11, <1>12, <1>13, <1>14, <1>15
  DEF ProposalTableNext

\* ... and what it has seen stays true.
LEMMA WritersKnow ==
  ASSUME TablesInv, [ProposalTableNext]_proposalState
  PROVE  AgentsKnow'
<1> SUFFICES ASSUME NEW a \in Agents PROVE Knows(pc[a], target[a])'
  BY DEF AgentsKnow, Knows
<1>1. Knows(pc'[a], target'[a])
  BY WritersMoveKnowing DEF TablesInv, AgentsKnow, Knows
<1>2. \A x \in Proposals : proposalAction[x] = "SELL" => proposalStatus[x] # "ABSENT"
  BY DEF TablesInv, ProposalRowsWellFormed
<1>. QED
  BY <1>1, <1>2, ProposalsRemain DEF Knows

--------------------------------------------------------------------------------

\* The tables fit together under every writer of proposals, and each writer knows
\* what it relies on.
THEOREM TablesCorrect == ProposalSpec => []TablesInv
<1>1. ProposalInit => TablesInv
  <2> SUFFICES ASSUME ProposalInit PROVE TablesInv
    OBVIOUS
  <2>1. TypeOK
    BY DEF ProposalInit, Init, TypeOK
  <2>2. ProposalTypeOK
    BY <2>1 DEF ProposalInit, ProposalTypeOK, Steps
  <2>3. RowsWellFormed /\ SignatureSettlesOneOrder /\ OneFilledExit /\ ProposalRowsWellFormed
    BY DEF ProposalInit, Init, RowsWellFormed, SignatureSettlesOneOrder, OneFilledExit,
           ProposalRowsWellFormed
  <2>4. AgentsKnow
    BY DEF ProposalInit, AgentsKnow
  <2>. QED
    BY <2>2, <2>3, <2>4 DEF TablesInv
<1>2. TablesInv /\ [ProposalTableNext]_proposalState => TablesInv'
  BY WritersType, WritersProposalRows, WritersKnow, WritersMoveTables, TablesStep DEF TablesInv
<1>. QED
  BY <1>1, <1>2, PTL DEF ProposalSpec

--------------------------------------------------------------------------------
(* BUY proposals and their positions.                                      *)

\* A step of the writers keeps a position to its one proposal.
LEMMA OwnedStep == TablesInv /\ OwnedOnce /\ [ProposalTableNext]_proposalState => OwnedOnce'
<1> SUFFICES ASSUME TablesInv, OwnedOnce, [ProposalTableNext]_proposalState PROVE OwnedOnce'
  OBVIOUS
<1> USE DEF TablesInv, ProposalTypeOK, TypeOK, OwnedOnce
<1>0. \A x \in Proposals : proposalStatus[x] = "ABSENT" =>
        proposalAction[x] = NULL /\ proposalPosition[x] = NULL
  BY DEF ProposalRowsWellFormed
<1>1. CASE SettlesPositions /\ SettlesProposals
  BY <1>1 DEF SettlesPositions, SettlesProposals, SamePositions
<1>2. ASSUME NEW g \in Generators, NEW x \in Proposals, Generates(g, x) PROVE OwnedOnce'
  BY <1>0, <1>2 DEF Generates, CreateBuyProposal, positionVars
<1>3. ASSUME NEW m \in Monitors, NEW x \in Proposals, Asks(m, x) PROVE OwnedOnce'
  <2>1. target[m] \in Positions
    BY <1>3 DEF Asks, AgentsKnow, Agents
  <2>. QED
    BY <1>0, <1>3, <2>1 DEF Asks, CreateSellProposal, positionVars
<1>4. ASSUME NEW x \in Proposals, CreateGrillProposal(x) PROVE OwnedOnce'
  BY <1>0, <1>4 DEF CreateGrillProposal, Expired, positionVars
<1>5. ASSUME NEW x \in Proposals, NEW p \in Positions, NEW b \in Orders, Accepts(x, p, b)
      PROVE  OwnedOnce'
  <2>1. /\ proposalAction[x] = "BUY" /\ state[p] = "ABSENT"
        /\ proposalStatus'[x] = "EXECUTED"
        /\ \A y \in Proposals \ {x} :
             /\ proposalStatus'[y] \in {"ACTIVE", "EXPIRED"}
                  => proposalStatus[y] \in {"ACTIVE", "EXPIRED"}
             /\ proposalStatus'[y] = "EXECUTED" => proposalStatus[y] = "EXECUTED"
    BY <1>5 DEF Accepts, AcceptBuyProposal, FreshPositions, Expired
  <2>2. proposalStatus[x] = "ACTIVE"
    BY <1>5 DEF Accepts, AcceptBuyProposal, Expired
  <2>3. proposalPosition[x] = NULL
    BY <2>1, <2>2
  <2>4. /\ state' = [state EXCEPT ![p] = "BUY_PENDING"]
        /\ proposalPosition' = [proposalPosition EXCEPT ![x] = p]
        /\ proposalAction' = proposalAction
    BY <1>5 DEF Accepts, AcceptBuyProposal
  <2>5. \A y \in Proposals : proposalPosition[y] # p
    BY <2>1 DEF ProposalRowsWellFormed
  <2>. QED
    BY <2>1, <2>3, <2>4, <2>5
<1>. QED
  BY <1>1, <1>2, <1>3, <1>4, <1>5, StepKinds

\* What OwnedOnce says with quantifiers, BoughtOnce says with a cardinality.
LEMMA OwnedOnceCounts == TablesInv /\ OwnedOnce => BoughtOnce
<1> SUFFICES ASSUME TablesInv, OwnedOnce,
                    NEW p \in Positions, state[p] # "ABSENT"
             PROVE  Cardinality({x \in Proposals : proposalAction[x] = "BUY"
                                                   /\ proposalPosition[x] = p}) = 1
  BY DEF OwnedOnce, BoughtOnce
<1>1. PICK x \in Proposals : proposalAction[x] = "BUY" /\ proposalPosition[x] = p
  BY DEF OwnedOnce
<1>2. {y \in Proposals : proposalAction[y] = "BUY" /\ proposalPosition[y] = p} = {x}
  BY <1>1 DEF OwnedOnce
<1>. QED
  BY <1>2, FS_Singleton

\* A position comes from one BUY proposal, whatever the skip route, the mandate
\* route and the clock write over its status (acceptBuyProposal's guarded claim).
THEOREM BoughtCorrect == ProposalSpec => []BoughtOnce
<1>1. ProposalInit => OwnedOnce
  BY DEF ProposalInit, Init, OwnedOnce
<1>. QED
  BY <1>1, OwnedStep, OwnedOnceCounts, TablesCorrect, PTL DEF ProposalSpec

--------------------------------------------------------------------------------
(* SELL proposals that were executed.                                      *)

\* A step of the writers executes a SELL proposal only with its position sold.
LEMMA SoldStep ==
  TablesInv /\ ExecutedSellClosedItsPosition /\ [ProposalTableNext]_proposalState
    => ExecutedSellClosedItsPosition'
<1> SUFFICES ASSUME TablesInv, ExecutedSellClosedItsPosition,
                    [ProposalTableNext]_proposalState, NEW x \in Proposals,
                    proposalAction'[x] = "SELL", proposalStatus'[x] = "EXECUTED"
             PROVE  SoldBy(proposalPosition[x], "CLOSE_SWAP")'
  BY DEF ExecutedSellClosedItsPosition
<1> USE DEF TablesInv, ProposalTypeOK, TypeOK
<1>0. ASSUME proposalAction[x] = "SELL", proposalStatus[x] = "EXECUTED"
      PROVE  /\ proposalPosition[x] \in Positions
             /\ SoldBy(proposalPosition[x], "CLOSE_SWAP")
  BY <1>0 DEF ExecutedSellClosedItsPosition, ProposalRowsWellFormed
<1>1. CASE SettlesPositions /\ SettlesProposals
  <2>1. CASE proposalStatus[x] = "EXECUTED"
    BY <1>0, <1>1, <2>1 DEF SettlesPositions, SettlesProposals, SoldBy, ReasonOf
  <2>2. CASE SoldBy(proposalPosition[x], "CLOSE_SWAP")'
    BY <2>2
  <2>. QED
    BY <1>1, <2>1, <2>2 DEF SettlesProposals
<1>2. ASSUME NEW g \in Generators, NEW y \in Proposals, Generates(g, y)
      PROVE  SoldBy(proposalPosition[x], "CLOSE_SWAP")'
  BY <1>0, <1>2 DEF Generates, CreateBuyProposal, positionVars, SoldBy
<1>3. ASSUME NEW m \in Monitors, NEW y \in Proposals, Asks(m, y)
      PROVE  SoldBy(proposalPosition[x], "CLOSE_SWAP")'
  BY <1>0, <1>3 DEF Asks, CreateSellProposal, positionVars, SoldBy
<1>4. ASSUME NEW y \in Proposals, CreateGrillProposal(y)
      PROVE  SoldBy(proposalPosition[x], "CLOSE_SWAP")'
  BY <1>0, <1>4 DEF CreateGrillProposal, Expired, positionVars, SoldBy
<1>5. ASSUME NEW y \in Proposals, NEW p \in Positions, NEW b \in Orders, Accepts(y, p, b)
      PROVE  SoldBy(proposalPosition[x], "CLOSE_SWAP")'
  <2>1. /\ proposalAction[x] = "SELL" /\ proposalStatus[x] = "EXECUTED"
        /\ proposalPosition'[x] = proposalPosition[x]
    BY <1>5 DEF Accepts, AcceptBuyProposal, Expired
  <2>2. /\ state[p] = "ABSENT"
        /\ state' = [state EXCEPT ![p] = "BUY_PENDING"] /\ closedReason' = closedReason
    BY <1>5 DEF Accepts, AcceptBuyProposal, FreshPositions
  <2>. QED
    BY <1>0, <2>1, <2>2 DEF SoldBy
<1>. QED
  BY <1>1, <1>2, <1>3, <1>4, <1>5, StepKinds

\* A SELL proposal is EXECUTED only with its position closed by a CLOSE_SWAP, also
\* when its status was read some awaits before (confirmSellProposalClose).
THEOREM SoldCorrect == ProposalSpec => []ExecutedSellClosedItsPosition
<1>1. ProposalInit => ExecutedSellClosedItsPosition
  BY DEF ProposalInit, Init, ExecutedSellClosedItsPosition
<1>. QED
  BY <1>1, SoldStep, TablesCorrect, PTL DEF ProposalSpec

--------------------------------------------------------------------------------
(* What is before the user.                                                *)

\* Where proposals come from: the signal loop makes BUY proposals.
GeneratedIsBuy ==
  \A x \in Proposals : origin[x] = "SIGNAL_ENGINE" => proposalAction[x] = "BUY"

\* The ticks that have found no live BUY proposal, and those that have found no open
\* position, and have not inserted yet.
PastProposals == {g \in Generators : pc[g] \in {"positions", "create"}}
PastPositions == {g \in Generators : pc[g] \in {"proposals", "create"}}

\* Live proposals leave room for those that the ticks past their read may insert,
LiveBounded ==
  /\ IsFiniteSet(LiveGenerated)
  /\ Cardinality(LiveGenerated) + Cardinality(PastProposals) <= Cardinality(Generators)

\* so do decisions,
DecisionsBounded ==
  /\ IsFiniteSet(GeneratedDecisions)
  /\ Cardinality(GeneratedDecisions) + Cardinality(PastPositions) <= 2 * Cardinality(Generators)

\* The monitors that are about to ask for a sale of p.
Asking(p) == {m \in Monitors : pc[m] = "emit" /\ target[m] = p}

\* and live requests leave room for those that the monitors may insert.
RequestsBounded ==
  \A p \in Positions :
    /\ IsFiniteSet(LiveSells(p))
    /\ Cardinality(LiveSells(p)) + Cardinality(Asking(p)) <= Cardinality(Monitors)

\* Only the signal loop adds to its decisions.
LEMMA DecisionsGrow ==
  ASSUME TablesInv, GeneratedIsBuy, OwnedOnce, [ProposalTableNext]_proposalState
  PROVE  \/ /\ LiveGenerated' \subseteq LiveGenerated
            /\ GeneratedDecisions' \subseteq GeneratedDecisions
         \/ \E g \in Generators, x \in Proposals :
              /\ Generates(g, x)
              /\ LiveGenerated' \subseteq LiveGenerated \cup {x}
              /\ GeneratedDecisions' \subseteq GeneratedDecisions \cup {x}
<1> USE OriginAssumption DEF TablesInv, ProposalTypeOK, TypeOK, GeneratedIsBuy,
                             GeneratedDecisions, LiveGenerated, BoughtGenerated, LiveBuys,
                             OpenPositions, Live
<1>0. \A x \in Proposals : proposalStatus[x] = "ABSENT" =>
        /\ proposalAction[x] = NULL /\ proposalPosition[x] = NULL
        /\ origin[x] # "SIGNAL_ENGINE"
  BY DEF ProposalRowsWellFormed
<1>1. CASE SettlesPositions /\ SettlesProposals
  BY <1>1 DEF SettlesPositions, SettlesProposals, SamePositions
<1>2. ASSUME NEW g \in Generators, NEW x \in Proposals, Generates(g, x)
      PROVE  /\ LiveGenerated' \subseteq LiveGenerated \cup {x}
             /\ GeneratedDecisions' \subseteq GeneratedDecisions \cup {x}
  BY <1>0, <1>2 DEF Generates, CreateBuyProposal, positionVars
<1>3. ASSUME NEW m \in Monitors, NEW x \in Proposals, Asks(m, x)
      PROVE  /\ LiveGenerated' \subseteq LiveGenerated
             /\ GeneratedDecisions' \subseteq GeneratedDecisions
  BY <1>0, <1>3 DEF Asks, CreateSellProposal, positionVars
<1>4. ASSUME NEW x \in Proposals, CreateGrillProposal(x)
      PROVE  /\ LiveGenerated' \subseteq LiveGenerated
             /\ GeneratedDecisions' \subseteq GeneratedDecisions
  BY <1>0, <1>4 DEF CreateGrillProposal, Expired, positionVars
<1>5. ASSUME NEW x \in Proposals, NEW p \in Positions, NEW b \in Orders, Accepts(x, p, b)
      PROVE  /\ LiveGenerated' \subseteq LiveGenerated
             /\ GeneratedDecisions' \subseteq GeneratedDecisions
  <2>1. /\ proposalStatus[x] = "ACTIVE" /\ x \notin lapsed /\ state[p] = "ABSENT"
        /\ \A y \in Proposals \ {x} :
             proposalStatus'[y] = "ACTIVE" => proposalStatus[y] = "ACTIVE"
    BY <1>5 DEF Accepts, AcceptBuyProposal, FreshPositions, Expired
  <2>2. /\ state' = [state EXCEPT ![p] = "BUY_PENDING"]
        /\ proposalPosition' = [proposalPosition EXCEPT ![x] = p]
        /\ origin' = origin /\ lapsed' = lapsed
    BY <1>5 DEF Accepts, AcceptBuyProposal
  <2>3. \A y \in Proposals : proposalPosition[y] # p
    BY <2>1 DEF ProposalRowsWellFormed
  <2>. QED
    BY <2>1, <2>2, <2>3
<1> HIDE DEF TablesInv, GeneratedDecisions, LiveGenerated
<1>. QED
  BY <1>1, <1>2, <1>3, <1>4, <1>5, StepKinds

\* Only the monitor adds to the requests for a position.
LEMMA RequestsGrow ==
  ASSUME TablesInv, [ProposalTableNext]_proposalState, NEW p \in Positions
  PROVE  \/ LiveSells(p)' \subseteq LiveSells(p)
         \/ \E m \in Monitors, x \in Proposals :
              Asks(m, x) /\ p = target[m] /\ LiveSells(p)' \subseteq LiveSells(p) \cup {x}
<1> USE DEF TablesInv, ProposalTypeOK, TypeOK, LiveSells, Live
<1>1. CASE SettlesPositions /\ SettlesProposals
  BY <1>1 DEF SettlesProposals
<1>2. ASSUME NEW g \in Generators, NEW x \in Proposals, Generates(g, x)
      PROVE  LiveSells(p)' \subseteq LiveSells(p)
  BY <1>2 DEF Generates, CreateBuyProposal
<1>3. ASSUME NEW m \in Monitors, NEW x \in Proposals, Asks(m, x)
      PROVE  /\ LiveSells(p)' \subseteq LiveSells(p) \cup {x}
             /\ target[m] # p => LiveSells(p)' \subseteq LiveSells(p)
  BY <1>3 DEF Asks, CreateSellProposal, AgentsKnow, Agents
<1>4. ASSUME NEW x \in Proposals, CreateGrillProposal(x)
      PROVE  LiveSells(p)' \subseteq LiveSells(p)
  BY <1>4 DEF CreateGrillProposal, Expired
<1>5. ASSUME NEW x \in Proposals, NEW q \in Positions, NEW b \in Orders, Accepts(x, q, b)
      PROVE  LiveSells(p)' \subseteq LiveSells(p)
  BY <1>5 DEF Accepts, AcceptBuyProposal, Expired
<1> HIDE DEF TablesInv, LiveSells
<1>6. CASE \E m \in Monitors, x \in Proposals : Asks(m, x)
  <2>1. PICK m \in Monitors, x \in Proposals : Asks(m, x)
    BY <1>6
  <2>. QED
    BY <1>3, <2>1
<1>. QED
  BY <1>1, <1>2, <1>4, <1>5, <1>6, StepKinds

\* A tick is past a read, and the monitor about to make a request, because it has just
\* found no row, or found none before and has not inserted since.
LEMMA WhoWillAsk ==
  ASSUME TablesInv, [ProposalTableNext]_proposalState, NEW a \in Agents
  PROVE  /\ pc'[a] \in {"positions", "create"} =>
              pc[a] \in {"positions", "create"} \/ (LiveBuys = {} /\ UNCHANGED <<vars, origin>>)
         /\ pc'[a] \in {"proposals", "create"} =>
              pc[a] \in {"proposals", "create"} \/ (OpenPositions = {} /\ UNCHANGED <<vars, origin>>)
         /\ pc'[a] = "emit" =>
              \/ pc[a] = "emit" /\ target'[a] = target[a]
              \/ /\ a \in Monitors /\ UNCHANGED vars
                 /\ \E p \in Positions : target'[a] = p /\ LiveSells(p) = {}
<1> DEFINE Told ==
      /\ pc'[a] \in {"positions", "create"} =>
           pc[a] \in {"positions", "create"} \/ (LiveBuys = {} /\ UNCHANGED <<vars, origin>>)
      /\ pc'[a] \in {"proposals", "create"} =>
           pc[a] \in {"proposals", "create"} \/ (OpenPositions = {} /\ UNCHANGED <<vars, origin>>)
      /\ pc'[a] = "emit" =>
           \/ pc[a] = "emit" /\ target'[a] = target[a]
           \/ /\ a \in Monitors /\ UNCHANGED vars
              /\ \E p \in Positions : target'[a] = p /\ LiveSells(p) = {}
<1>1. ASSUME NEW b \in Agents, NEW step, NEW x, Goto(b, step, x)
      PROVE  /\ a # b => pc'[a] = pc[a] /\ target'[a] = target[a]
             /\ a = b => pc'[a] = step /\ target'[a] = x
  BY <1>1 DEF Goto, TablesInv, ProposalTypeOK
<1>2. ASSUME NEW b \in Agents, NEW step \in {"idle", "check", "skipRead", "skipWrite", "sell"},
             NEW x, Goto(b, step, x)
      PROVE  Told
  BY <1>1, <1>2
<1>3. ASSUME NEW m \in Monitors, NEW p \in Positions, NextPosition(m, p) PROVE Told
  <2>1. PICK step \in {"idle", "check"} : Goto(m, step, NULL)
    BY <1>3 DEF NextPosition
  <2>. QED
    BY <1>2, <2>1 DEF Agents
<1>4. ASSUME NEW g \in Generators, SelectPositions(g) \/ SelectProposals(g) PROVE Told
  BY <1>1, <1>4, SelectedLeads DEF Agents
<1>5. ASSUME NEW g \in Generators, Personalize(g) PROVE Told
  BY <1>2, <1>5 DEF Personalize, Agents
<1>6. ASSUME NEW m \in Monitors, Walk(m) PROVE Told
  BY <1>2, <1>6 DEF Walk, Agents
<1>7. ASSUME NEW m \in Monitors, NEW p \in Positions, Check(m, p) PROVE Told
  <2>1. CASE LiveSells(p) = {}
    <3>1. Goto(m, "emit", p) /\ m \in Agents /\ UNCHANGED vars
      BY <1>7, <2>1 DEF Check, Agents
    <3>. QED
      BY <1>1, <2>1, <3>1
  <2>2. CASE LiveSells(p) # {}
    BY <1>3, <1>7, <2>2 DEF Check
  <2>. QED
    BY <2>1, <2>2
<1>8. ASSUME NEW m \in Monitors, Emit(m) PROVE Told
  BY <1>3, <1>8 DEF Emit, Agents, TablesInv, AgentsKnow
<1>9. ASSUME NEW t \in Tabs, ReadSkip(t) \/ WriteSkip(t) \/ CommitSell(t) PROVE Told
  BY <1>2, <1>9 DEF ReadSkip, WriteSkip, CommitSell, Agents
<1>10. ASSUME NEW t \in Tabs, NEW x \in Proposals, BeginSkip(t, x) \/ BeginSell(t, x)
       PROVE  Told
  BY <1>2, <1>10 DEF BeginSkip, BeginSell, Agents
<1>11. CASE \/ \E x \in Proposals : CreateGrillProposal(x)
            \/ InvalidateProposals \/ Environment \/ UNCHANGED proposalState
  BY <1>11 DEF CreateGrillProposal, InvalidateProposals, Environment, proposalState, agentVars
<1>. QED
  BY <1>4, <1>5, <1>6, <1>7, <1>8, <1>9, <1>10, <1>11 DEF ProposalTableNext

\* A step of the writers leaves a BUY origin to BUY proposals.
LEMMA OriginStep == TablesInv /\ GeneratedIsBuy /\ [ProposalTableNext]_proposalState => GeneratedIsBuy'
<1> SUFFICES ASSUME TablesInv, GeneratedIsBuy, [ProposalTableNext]_proposalState
             PROVE  GeneratedIsBuy'
  OBVIOUS
<1> USE OriginAssumption DEF TablesInv, ProposalTypeOK, TypeOK, GeneratedIsBuy
<1>1. \A x \in Proposals : proposalStatus[x] = "ABSENT" => origin[x] # "SIGNAL_ENGINE"
  BY DEF ProposalRowsWellFormed
<1>2. CASE SettlesProposals
  BY <1>2 DEF SettlesProposals
<1>3. ASSUME NEW g \in Generators, NEW x \in Proposals, Generates(g, x) PROVE GeneratedIsBuy'
  BY <1>3 DEF Generates, CreateBuyProposal
<1>4. ASSUME NEW m \in Monitors, NEW x \in Proposals, Asks(m, x) PROVE GeneratedIsBuy'
  BY <1>1, <1>4 DEF Asks, CreateSellProposal
<1>5. ASSUME NEW x \in Proposals, CreateGrillProposal(x) PROVE GeneratedIsBuy'
  BY <1>5 DEF CreateGrillProposal
<1>6. ASSUME NEW x \in Proposals, NEW p \in Positions, NEW b \in Orders, Accepts(x, p, b)
      PROVE  GeneratedIsBuy'
  BY <1>6 DEF Accepts, AcceptBuyProposal
<1>. QED
  BY <1>2, <1>3, <1>4, <1>5, <1>6, StepKinds

\* An insertion uses up the room that was left for it.
LEMMA RoomIsUsed ==
  ASSUME NEW S, IsFiniteSet(S), NEW P, IsFiniteSet(P),
         NEW T, NEW x, T \subseteq S \cup {x}, NEW g \in P, NEW Q, Q \subseteq P \ {g}
  PROVE  IsFiniteSet(T) /\ Cardinality(T) + Cardinality(Q) <= Cardinality(S) + Cardinality(P)
<1>1. IsFiniteSet(S \cup {x}) /\ Cardinality(S \cup {x}) <= Cardinality(S) + 1
  <2>1. Cardinality(S) \in Nat
    BY FS_CardinalityType
  <2>2. /\ IsFiniteSet(S \cup {x})
        /\ Cardinality(S \cup {x}) = Cardinality(S) \/ Cardinality(S \cup {x}) = Cardinality(S) + 1
    BY FS_AddElement
  <2>. QED
    BY <2>1, <2>2
<1>2. IsFiniteSet(P \ {g}) /\ Cardinality(P \ {g}) = Cardinality(P) - 1
  BY FS_RemoveElement
<1>3. /\ IsFiniteSet(T) /\ Cardinality(T) <= Cardinality(S \cup {x})
      /\ IsFiniteSet(Q) /\ Cardinality(Q) <= Cardinality(P \ {g})
  BY <1>1, <1>2, FS_Subset
<1>. QED
  BY <1>1, <1>2, <1>3, FS_CardinalityType

\* Without one there is as much room as before.
LEMMA RoomIsKept ==
  ASSUME NEW S, IsFiniteSet(S), NEW P, IsFiniteSet(P),
         NEW T, T \subseteq S, NEW Q, Q \subseteq P
  PROVE  IsFiniteSet(T) /\ Cardinality(T) + Cardinality(Q) <= Cardinality(S) + Cardinality(P)
<1>1. /\ IsFiniteSet(T) /\ Cardinality(T) <= Cardinality(S)
      /\ IsFiniteSet(Q) /\ Cardinality(Q) <= Cardinality(P)
  BY FS_Subset
<1>. QED
  BY <1>1, FS_CardinalityType

\* Those of a finite set are no more than it has.
LEMMA PartOf ==
  ASSUME NEW S, IsFiniteSet(S), NEW T, T \subseteq S
  PROVE  IsFiniteSet(T) /\ Cardinality(T) \in Nat /\ Cardinality(T) <= Cardinality(S)
  BY FS_Subset, FS_CardinalityType

\* A step leaves room for the ticks past their read of proposals.
LEMMA LiveStep ==
  ASSUME TablesInv, GeneratedIsBuy, OwnedOnce, LiveBounded, [ProposalTableNext]_proposalState
  PROVE  LiveBounded'
<1> DEFINE N == Cardinality(Generators)
<1>1. /\ IsFiniteSet(PastProposals)
      /\ PastProposals' \subseteq Generators /\ Cardinality(PastProposals') \in Nat
      /\ Cardinality(PastProposals') <= N /\ N \in Nat
      /\ Cardinality(LiveGenerated) \in Nat /\ Cardinality(PastProposals) \in Nat
  BY AgentsAssumption, PartOf, FS_CardinalityType DEF PastProposals, LiveBounded
<1>2. ASSUME NEW g \in Generators, NEW x \in Proposals, Generates(g, x),
             LiveGenerated' \subseteq LiveGenerated \cup {x}
      PROVE  LiveBounded'
  <2>1. g \in PastProposals /\ PastProposals' \subseteq PastProposals \ {g}
    BY <1>2 DEF Generates, Goto, PastProposals, TablesInv, ProposalTypeOK, Agents
  <2>2. /\ IsFiniteSet(LiveGenerated')
        /\ Cardinality(LiveGenerated') + Cardinality(PastProposals')
             <= Cardinality(LiveGenerated) + Cardinality(PastProposals)
    BY <1>1, <1>2, <2>1, RoomIsUsed DEF LiveBounded
  <2>3. Cardinality(LiveGenerated') \in Nat
    BY <2>2, FS_CardinalityType
  <2>. QED
    BY <1>1, <2>2, <2>3 DEF LiveBounded
<1>3. ASSUME LiveGenerated' \subseteq LiveGenerated PROVE LiveBounded'
  <2>1. CASE PastProposals' \subseteq PastProposals
    <3>1. /\ IsFiniteSet(LiveGenerated')
          /\ Cardinality(LiveGenerated') + Cardinality(PastProposals')
               <= Cardinality(LiveGenerated) + Cardinality(PastProposals)
      BY <1>1, <1>3, <2>1, RoomIsKept DEF LiveBounded
    <3>2. Cardinality(LiveGenerated') \in Nat
      BY <3>1, FS_CardinalityType
    <3>. QED
      BY <1>1, <3>1, <3>2 DEF LiveBounded
  <2>2. ASSUME NEW g \in PastProposals', g \notin PastProposals PROVE LiveBounded'
    <3>1. g \in Agents /\ pc'[g] \in {"positions", "create"} /\ pc[g] \notin {"positions", "create"}
      BY <2>2 DEF PastProposals, Agents
    <3>2. LiveBuys = {}
      BY <3>1, WhoWillAsk
    <3>3. LiveGenerated' = {}
      BY <1>3, <3>2 DEF LiveGenerated
    <3>4. IsFiniteSet(LiveGenerated') /\ Cardinality(LiveGenerated') = 0
      BY <3>3, FS_EmptySet
    <3>. QED
      BY <1>1, <3>4 DEF LiveBounded
  <2>. QED
    BY <2>1, <2>2
<1>. QED
  BY <1>2, <1>3, DecisionsGrow

\* A step leaves room for the ticks past their read of positions.
LEMMA DecisionsStep ==
  ASSUME TablesInv, GeneratedIsBuy, OwnedOnce, LiveBounded, DecisionsBounded,
         [ProposalTableNext]_proposalState
  PROVE  DecisionsBounded'
<1> DEFINE N == Cardinality(Generators)
<1>1. /\ IsFiniteSet(PastPositions)
      /\ PastPositions' \subseteq Generators /\ Cardinality(PastPositions') \in Nat
      /\ Cardinality(PastPositions') <= N /\ N \in Nat
      /\ Cardinality(GeneratedDecisions) \in Nat /\ Cardinality(PastPositions) \in Nat
  BY AgentsAssumption, PartOf, FS_CardinalityType DEF PastPositions, DecisionsBounded
<1>2. ASSUME NEW g \in Generators, NEW x \in Proposals, Generates(g, x),
             GeneratedDecisions' \subseteq GeneratedDecisions \cup {x}
      PROVE  DecisionsBounded'
  <2>1. g \in PastPositions /\ PastPositions' \subseteq PastPositions \ {g}
    BY <1>2 DEF Generates, Goto, PastPositions, TablesInv, ProposalTypeOK, Agents
  <2>2. /\ IsFiniteSet(GeneratedDecisions')
        /\ Cardinality(GeneratedDecisions') + Cardinality(PastPositions')
             <= Cardinality(GeneratedDecisions) + Cardinality(PastPositions)
    BY <1>1, <1>2, <2>1, RoomIsUsed DEF DecisionsBounded
  <2>3. Cardinality(GeneratedDecisions') \in Nat
    BY <2>2, FS_CardinalityType
  <2>. QED
    BY <1>1, <2>2, <2>3 DEF DecisionsBounded
<1>3. ASSUME GeneratedDecisions' \subseteq GeneratedDecisions PROVE DecisionsBounded'
  <2>1. CASE PastPositions' \subseteq PastPositions
    <3>1. /\ IsFiniteSet(GeneratedDecisions')
          /\ Cardinality(GeneratedDecisions') + Cardinality(PastPositions')
               <= Cardinality(GeneratedDecisions) + Cardinality(PastPositions)
      BY <1>1, <1>3, <2>1, RoomIsKept DEF DecisionsBounded
    <3>2. Cardinality(GeneratedDecisions') \in Nat
      BY <3>1, FS_CardinalityType
    <3>. QED
      BY <1>1, <3>1, <3>2 DEF DecisionsBounded
  <2>2. ASSUME NEW g \in PastPositions', g \notin PastPositions PROVE DecisionsBounded'
    <3>1. g \in Agents /\ pc'[g] \in {"proposals", "create"} /\ pc[g] \notin {"proposals", "create"}
      BY <2>2 DEF PastPositions, Agents
    <3>2. OpenPositions = {} /\ UNCHANGED <<vars, origin>>
      BY <3>1, WhoWillAsk
    <3>3. BoughtGenerated' = {}
      BY <3>2 DEF BoughtGenerated, OpenPositions, vars, proposalVars, positionVars
    <3>4. GeneratedDecisions' = LiveGenerated'
      BY <3>3 DEF GeneratedDecisions
    <3>5. LiveBounded'
      BY LiveStep
    <3>6. /\ Cardinality(LiveGenerated') \in Nat
          /\ Cardinality(PastProposals') \in Nat
      BY <3>5, AgentsAssumption, PartOf, FS_CardinalityType DEF PastProposals, LiveBounded
    <3>7. Cardinality(LiveGenerated') <= N
      BY <1>1, <3>5, <3>6 DEF LiveBounded
    <3>. QED
      BY <1>1, <3>4, <3>5, <3>6, <3>7 DEF LiveBounded, DecisionsBounded
  <2>. QED
    BY <2>1, <2>2
<1>. QED
  BY <1>2, <1>3, DecisionsGrow

\* A step leaves room for the monitors past their question.
LEMMA RequestsStep ==
  ASSUME TablesInv, RequestsBounded, [ProposalTableNext]_proposalState
  PROVE  RequestsBounded'
<1> SUFFICES ASSUME NEW p \in Positions
             PROVE  /\ IsFiniteSet(LiveSells(p)')
                    /\ Cardinality(LiveSells(p)') + Cardinality(Asking(p)') <= Cardinality(Monitors)
  BY DEF RequestsBounded
<1> DEFINE N == Cardinality(Monitors)
           Bounded == /\ IsFiniteSet(LiveSells(p)')
                      /\ Cardinality(LiveSells(p)') + Cardinality(Asking(p)') <= N
<1>0. IsFiniteSet(LiveSells(p)) /\ Cardinality(LiveSells(p)) + Cardinality(Asking(p)) <= N
  BY DEF RequestsBounded
<1>1. /\ IsFiniteSet(Asking(p))
      /\ Asking(p)' \subseteq Monitors /\ Cardinality(Asking(p)') \in Nat
      /\ Cardinality(Asking(p)') <= N /\ N \in Nat
      /\ Cardinality(LiveSells(p)) \in Nat /\ Cardinality(Asking(p)) \in Nat
  BY <1>0, AgentsAssumption, PartOf, FS_CardinalityType DEF Asking
<1>2. ASSUME NEW m \in Monitors, NEW x \in Proposals, Asks(m, x), p = target[m],
             LiveSells(p)' \subseteq LiveSells(p) \cup {x}
      PROVE  Bounded
  <2>1. m \in Asking(p)
    BY <1>2 DEF Asks, Asking
  <2>2. Asking(p)' \subseteq Asking(p) \ {m}
    BY <1>2 DEF Asks, NextPosition, Goto, Asking, TablesInv, ProposalTypeOK, Agents
  <2>3. /\ IsFiniteSet(LiveSells(p)')
        /\ Cardinality(LiveSells(p)') + Cardinality(Asking(p)')
             <= Cardinality(LiveSells(p)) + Cardinality(Asking(p))
    BY <1>0, <1>1, <1>2, <2>1, <2>2, RoomIsUsed
  <2>4. Cardinality(LiveSells(p)') \in Nat
    BY <2>3, FS_CardinalityType
  <2>. QED
    BY <1>0, <1>1, <2>3, <2>4
<1>3. ASSUME LiveSells(p)' \subseteq LiveSells(p) PROVE Bounded
  <2>1. CASE Asking(p)' \subseteq Asking(p)
    <3>1. /\ IsFiniteSet(LiveSells(p)')
          /\ Cardinality(LiveSells(p)') + Cardinality(Asking(p)')
               <= Cardinality(LiveSells(p)) + Cardinality(Asking(p))
      BY <1>0, <1>1, <1>3, <2>1, RoomIsKept
    <3>2. Cardinality(LiveSells(p)') \in Nat
      BY <3>1, FS_CardinalityType
    <3>. QED
      BY <1>0, <1>1, <3>1, <3>2
  <2>2. ASSUME NEW m \in Asking(p)', m \notin Asking(p) PROVE Bounded
    <3>1. /\ m \in Agents /\ m \in Monitors /\ pc'[m] = "emit" /\ target'[m] = p
          /\ ~ (pc[m] = "emit" /\ target'[m] = target[m])
      BY <2>2 DEF Asking, Agents
    <3>2. LiveSells(p) = {}
      BY <3>1, WhoWillAsk
    <3>3. LiveSells(p)' = {}
      BY <1>3, <3>2
    <3>4. IsFiniteSet(LiveSells(p)') /\ Cardinality(LiveSells(p)') = 0
      BY <3>3, FS_EmptySet
    <3>. QED
      BY <1>1, <3>4
  <2>. QED
    BY <2>1, <2>2
<1>. QED
  BY <1>2, <1>3, RequestsGrow

\* The decisions of the live generator pile up as far as its ticks overlap, and no
\* further (generateProposalsForBaseAnalysis under startSignalLoop): live BUY
\* proposals once, open positions included twice.
LEMMA TicksBounded == ProposalSpec => []LiveBuysPerTick /\ []DecisionsPerTick
<1>1. ProposalInit => GeneratedIsBuy /\ OwnedOnce /\ LiveBounded /\ DecisionsBounded
  <2> SUFFICES ASSUME ProposalInit
               PROVE  GeneratedIsBuy /\ OwnedOnce /\ LiveBounded /\ DecisionsBounded
    OBVIOUS
  <2>1. GeneratedIsBuy /\ OwnedOnce
    BY OriginAssumption DEF ProposalInit, Init, GeneratedIsBuy, OwnedOnce
  <2>2. LiveGenerated = {} /\ GeneratedDecisions = {}
    BY OriginAssumption DEF ProposalInit, GeneratedDecisions, LiveGenerated, LiveBuys,
                             BoughtGenerated
  <2>3. PastProposals = {} /\ PastPositions = {}
    BY DEF ProposalInit, PastProposals, PastPositions, Agents
  <2>4. Cardinality(Generators) \in Nat
    BY AgentsAssumption, FS_CardinalityType
  <2>. QED
    BY <2>1, <2>2, <2>3, <2>4, FS_EmptySet DEF LiveBounded, DecisionsBounded
<1>2. TablesInv /\ GeneratedIsBuy /\ OwnedOnce /\ LiveBounded /\ DecisionsBounded
      /\ [ProposalTableNext]_proposalState
        => (GeneratedIsBuy /\ OwnedOnce /\ LiveBounded /\ DecisionsBounded)'
  BY OriginStep, OwnedStep, LiveStep, DecisionsStep
<1>3. LiveBounded /\ DecisionsBounded => LiveBuysPerTick /\ DecisionsPerTick
  <2> SUFFICES ASSUME LiveBounded, DecisionsBounded PROVE LiveBuysPerTick /\ DecisionsPerTick
    OBVIOUS
  <2>1. /\ Cardinality(PastProposals) \in Nat /\ Cardinality(PastPositions) \in Nat
        /\ Cardinality(Generators) \in Nat
    BY AgentsAssumption, PartOf, FS_CardinalityType DEF PastProposals, PastPositions
  <2>2. Cardinality(LiveGenerated) \in Nat /\ Cardinality(GeneratedDecisions) \in Nat
    BY FS_CardinalityType DEF LiveBounded, DecisionsBounded
  <2>. QED
    BY <2>1, <2>2 DEF LiveBounded, DecisionsBounded, LiveBuysPerTick, DecisionsPerTick
<1>. QED
  BY <1>1, <1>2, <1>3, TablesCorrect, PTL DEF ProposalSpec

\* A monitor has one live request to sell a position before the user (runThesisMonitor):
\* what it asked some awaits before it inserts is still so, but for the other monitors.
LEMMA MonitorsBounded == ProposalSpec => []RequestsPerMonitor
<1>1. ProposalInit => RequestsBounded
  <2> SUFFICES ASSUME ProposalInit, NEW p \in Positions
               PROVE  /\ IsFiniteSet(LiveSells(p))
                      /\ Cardinality(LiveSells(p)) + Cardinality(Asking(p)) <= Cardinality(Monitors)
    BY DEF RequestsBounded
  <2>1. LiveSells(p) = {} /\ Asking(p) = {}
    BY DEF ProposalInit, Init, LiveSells, Live, Asking, Agents
  <2>2. Cardinality(Monitors) \in Nat
    BY AgentsAssumption, FS_CardinalityType
  <2>. QED
    BY <2>1, <2>2, FS_EmptySet
<1>2. RequestsBounded => RequestsPerMonitor
  <2> SUFFICES ASSUME RequestsBounded, NEW p \in Positions
               PROVE  Cardinality(LiveSells(p)) <= Cardinality(Monitors)
    BY DEF RequestsPerMonitor
  <2>1. IsFiniteSet(LiveSells(p)) /\ IsFiniteSet(Asking(p)) /\ IsFiniteSet(Monitors)
    BY AgentsAssumption, PartOf DEF RequestsBounded, Asking
  <2>2. /\ Cardinality(LiveSells(p)) \in Nat /\ Cardinality(Asking(p)) \in Nat
        /\ Cardinality(Monitors) \in Nat
    BY <2>1, FS_CardinalityType
  <2>. QED
    BY <2>2 DEF RequestsBounded
<1>. QED
  BY <1>1, <1>2, RequestsStep, TablesCorrect, PTL DEF ProposalSpec

\* However many ticks of the signal loop and monitors run beside each other, and in
\* whatever order a tick reads positions and proposals: what they put to the user is
\* no more than they are.
THEOREM DecisionCorrect == ProposalSpec => []DecisionsPerWriter
  BY TicksBounded, MonitorsBounded, PTL DEF DecisionsPerWriter

================================================================================
