------------------------- MODULE TriggerExecutionProofs -------------------------
(***************************************************************************)
(* Proofs about TriggerExecution, for any agents, rows and signatures, and *)
(* whatever fails.  An agent's step is a step of PositionLifecycle or      *)
(* leaves its tables alone, so the invariants of the lifecycle carry over  *)
(* to the composition (LifecycleCarriesOver); on them rest                 *)
(*   HolderCorrect   who believes it owns a claim owns it;                 *)
(*   SwapsCorrect    a swap that is known is booked, or can be;            *)
(*   OneSwapCorrect  an order is swapped once, if no tab loses an answer.  *)
(***************************************************************************)
EXTENDS TriggerExecution, PositionLifecycleProofs

USE NullAssumption DEF ProposalStatuses, PositionStates, ClosedReasons, OrderStatuses,
                      ProtectionKinds, ExecutableKinds, OrderKinds, TradeSources

--------------------------------------------------------------------------------
(* What each agent knows at each step.                                     *)

\* An agent executes an order or closes a position, and has the signature of the
\* swap it has made for it from the answer of /execute until it stops.
AgentsWellFormed ==
  \A a \in Agents :
    /\ pc[a] \in {"claim"} \cup Holding => target[a] \in Orders
    /\ pc[a] \in {"sell", "close"} => target[a] \in Positions
    /\ pc[a] \in {"settle", "close"} <=> sig[a] # NULL
    /\ sig[a] # NULL => landed[sig[a]] = target[a]

AgentInv == TriggerTypeOK /\ AgentsWellFormed

\* A settlement or a manual close is a step of the lifecycle.
LEMMA SettleIsLifecycleStep ==
  ASSUME NEW o \in Orders, NEW s \in Signatures, SettleFill(o, s)
  PROVE  Next
BY DEF SettleFill, Next, EntryNext, ExitNext

\* What the agents and the user do to the tables is what the lifecycle allows.
LEMMA TriggerStepIsLifecycleStep ==
  AgentInv /\ [TriggerNext]_allVars => [Next]_vars
<1> SUFFICES ASSUME AgentInv, TriggerNext PROVE [Next]_vars
  BY DEF allVars
<1>1. ASSUME NEW a \in Agents, AgentStep(a) PROVE [Next]_vars
  <2>1. CASE Fallback(a) \/ Swap(a) \/ Execute(a) \/ Sell(a)
    BY <2>1 DEF Fallback, Swap, Execute, Sell
  <2>2. CASE Claim(a)
    BY <2>2 DEF Claim, AgentInv, AgentsWellFormed, Next, ClaimNext
  <2>3. CASE Settle(a)
    <3>1. target[a] \in Orders /\ sig[a] \in Signatures
      BY <2>3 DEF Settle, AgentInv, AgentsWellFormed, TriggerTypeOK, Holding
    <3>. QED
      BY <2>3, <3>1, SettleIsLifecycleStep DEF Settle
  <2>4. CASE Release(a)
    BY <2>4 DEF Release, AgentInv, AgentsWellFormed, Holding, Next, ClaimNext
  <2>5. CASE Close(a)
    <3>1. target[a] \in Positions /\ sig[a] \in Signatures
      BY <2>5 DEF Close, AgentInv, AgentsWellFormed, TriggerTypeOK
    <3>. QED
      BY <2>5, <3>1 DEF Close, Next, ExitNext
  <2>. QED
    BY <1>1, <2>1, <2>2, <2>3, <2>4, <2>5 DEF AgentStep
<1>2. ASSUME NEW a \in Agents, Crash(a) PROVE [Next]_vars
  BY <1>2 DEF Crash
<1>3. ASSUME NEW a \in Agents, NEW o \in Orders, Wake(a, o) \/ Tap(a, o) PROVE [Next]_vars
  BY <1>3 DEF Wake, Tap
<1>4. ASSUME NEW a \in Agents, NEW p \in Positions, BeginClose(a, p) PROVE [Next]_vars
  BY <1>4 DEF BeginClose
<1>5. ASSUME UserAction PROVE [Next]_vars
  BY <1>5 DEF UserAction, Next, ProtectionNext
<1>. QED
  BY <1>1, <1>2, <1>3, <1>4, <1>5 DEF TriggerNext

\* A step that writes to the chain only where nothing has landed keeps what an
\* agent knows.
LEMMA ChainGrows ==
  ASSUME AgentInv, NEW s \in Signatures, landed[s] = NULL, NEW x,
         landed' = [landed EXCEPT ![s] = x]
  PROVE  /\ \A a \in Agents : sig[a] # NULL => landed'[sig[a]] = target[a]
         /\ \A t \in Signatures : landed[t] # NULL => landed'[t] = landed[t]
<1>1. \A a \in Agents : sig[a] # NULL => sig[a] \in Signatures /\ landed[sig[a]] # NULL
  BY TriggerAssumption DEF AgentInv, AgentsWellFormed, TriggerTypeOK, Holding
<1>. QED
  BY <1>1 DEF AgentInv, AgentsWellFormed, TriggerTypeOK

\* What an agent knows is so after every step.
LEMMA AgentStepKeeps ==
  AgentInv /\ [TriggerNext]_allVars => AgentInv'
<1> SUFFICES ASSUME AgentInv, [TriggerNext]_allVars PROVE AgentInv'
  OBVIOUS
<1> USE TriggerAssumption DEF AgentInv, AgentsWellFormed, TriggerTypeOK, Holding, Steps
<1>0. TypeOK'
  BY TriggerStepIsLifecycleStep, TypeStep
<1>1. ASSUME NEW a \in Agents, AgentStep(a) PROVE AgentInv'
  <2>1. CASE Fallback(a)
    BY <1>0, <2>1 DEF Fallback, Stop
  <2>2. CASE Claim(a)
    BY <1>0, <2>2 DEF Claim, Goto, Stop
  <2>3. CASE Swap(a)
    BY <1>0, <2>3 DEF Swap, Goto
  <2>4. CASE Execute(a)
    <3>0. pc[a] = "execute" /\ sig[a] = NULL /\ UNCHANGED <<vars, toasts>>
      BY <2>4 DEF Execute
    <3>1. ASSUME NEW s \in Signatures, landed[s] = NULL,
                 landed' = [landed EXCEPT ![s] = target[a]],
                 pc' = [pc EXCEPT ![a] = "settle"], sig' = [sig EXCEPT ![a] = s],
                 UNCHANGED target
          PROVE  AgentInv'
      <4>1. \A b \in Agents \ {a} : sig'[b] # NULL => landed'[sig'[b]] = target'[b]
        BY <3>1, ChainGrows
      <4>2. sig'[a] = s /\ landed'[s] = target'[a]
        BY <3>1
      <4>. QED
        BY <1>0, <3>0, <3>1, <4>1, <4>2
    <3>2. ASSUME NEW s \in Signatures, landed[s] = NULL,
                 landed' = [landed EXCEPT ![s] = target[a]], AfterUnknown(a)
          PROVE  AgentInv'
      BY <1>0, <3>0, <3>2, ChainGrows DEF AfterUnknown, Goto, Stop
    <3>3. ASSUME AfterUnknown(a), UNCHANGED landed PROVE AgentInv'
      BY <1>0, <3>0, <3>3 DEF AfterUnknown, Goto, Stop
    <3>. QED
      BY <2>4, <3>1, <3>2, <3>3 DEF Execute
  <2>5. CASE Settle(a)
    BY <1>0, <2>5 DEF Settle, Stop
  <2>6. CASE Release(a)
    BY <1>0, <2>6 DEF Release, Stop
  <2>7. CASE Sell(a)
    <3>0. pc[a] = "sell" /\ sig[a] = NULL /\ UNCHANGED <<vars, toasts>>
      BY <2>7 DEF Sell
    <3>1. ASSUME NEW s \in Signatures, landed[s] = NULL,
                 landed' = [landed EXCEPT ![s] = target[a]],
                 pc' = [pc EXCEPT ![a] = "close"], sig' = [sig EXCEPT ![a] = s],
                 UNCHANGED target
          PROVE  AgentInv'
      <4>1. \A b \in Agents \ {a} : sig'[b] # NULL => landed'[sig'[b]] = target'[b]
        BY <3>1, ChainGrows
      <4>2. sig'[a] = s /\ landed'[s] = target'[a]
        BY <3>1
      <4>. QED
        BY <1>0, <3>0, <3>1, <4>1, <4>2
    <3>2. ASSUME NEW s \in Signatures, landed[s] = NULL,
                 landed' = [landed EXCEPT ![s] = target[a]], Stop(a)
          PROVE  AgentInv'
      BY <1>0, <3>0, <3>2, ChainGrows DEF Stop
    <3>3. ASSUME Stop(a), UNCHANGED landed PROVE AgentInv'
      BY <1>0, <3>0, <3>3 DEF Stop
    <3>. QED
      BY <2>7, <3>1, <3>2, <3>3 DEF Sell
  <2>8. CASE Close(a)
    BY <1>0, <2>8 DEF Close, Stop
  <2>. QED
    BY <1>1, <2>1, <2>2, <2>3, <2>4, <2>5, <2>6, <2>7, <2>8 DEF AgentStep
<1>2. ASSUME NEW a \in Agents, Crash(a) PROVE AgentInv'
  BY <1>0, <1>2 DEF Crash, Stop
<1>3. ASSUME NEW a \in Agents, NEW o \in Orders, Wake(a, o) \/ Tap(a, o) PROVE AgentInv'
  BY <1>0, <1>3 DEF Wake, Tap, Start
<1>4. ASSUME NEW a \in Agents, NEW p \in Positions, BeginClose(a, p) PROVE AgentInv'
  BY <1>0, <1>4 DEF BeginClose, Start
<1>5. CASE UserAction \/ UNCHANGED allVars
  BY <1>0, <1>5 DEF UserAction, agentVars, allVars
<1>. QED
  BY <1>1, <1>2, <1>3, <1>4, <1>5 DEF TriggerNext

\* Every variable of the execution keeps to its type, and every agent to what it
\* is at.
THEOREM AgentsCorrect == TriggerSpec => []AgentInv
<1>1. TriggerInit => AgentInv
  BY DEF TriggerInit, AgentInv, AgentsWellFormed, TriggerTypeOK, Holding, Steps, TypeOK
<1>. QED
  BY <1>1, AgentStepKeeps, PTL DEF TriggerSpec

--------------------------------------------------------------------------------
(* The lifecycle under the execution.                                      *)

LifecycleInv ==
  /\ RowsWellFormed /\ EntryOrderTracksPosition /\ ClaimIsExclusive
  /\ SignatureSettlesOneOrder /\ OneFilledExit /\ LedgerMatchesPosition

\* The invariants of the lifecycle hold while servers and tabs execute its orders:
\* one claim a position, one signature an order, one sale a position, and a
\* ledger that agrees.
THEOREM LifecycleCarriesOver == TriggerSpec => []LifecycleInv
<1>1. TriggerInit => LifecycleInv
  <2> SUFFICES ASSUME TriggerInit PROVE LifecycleInv
    OBVIOUS
  <2>1. PICK p \in Positions, b \in Orders :
          /\ state = [q \in Positions |-> IF q = p THEN "BUY_PENDING" ELSE "ABSENT"]
          /\ kind = [o \in Orders |-> IF o = b THEN "BUY_TRIGGER" ELSE NULL]
          /\ status = [o \in Orders |-> IF o = b THEN "OPEN" ELSE "ABSENT"]
          /\ positionOf = [o \in Orders |-> IF o = b THEN p ELSE NULL]
    BY DEF TriggerInit
  <2>2. /\ closedReason = [q \in Positions |-> NULL]
        /\ txSignature = [o \in Orders |-> NULL]
        /\ trades = [q \in Positions |-> [s \in TradeSources |-> 0]]
    BY DEF TriggerInit
  <2>3. RowsWellFormed
    BY <2>1, <2>2 DEF RowsWellFormed
  <2>4. EntryOrderTracksPosition
    BY <2>1, <2>2 DEF EntryOrderTracksPosition, EntryStatus
  <2>5. ClaimIsExclusive
    BY <2>1 DEF ClaimIsExclusive
  <2>6. SignatureSettlesOneOrder
    BY <2>1, <2>2 DEF SignatureSettlesOneOrder
  <2>7. OneFilledExit
    BY <2>1 DEF OneFilledExit
  <2>8. LedgerMatchesPosition
    BY <2>1, <2>2 DEF LedgerMatchesPosition, Bought, SoldBy, SourceOf
  <2>. QED
    BY <2>3, <2>4, <2>5, <2>6, <2>7, <2>8 DEF LifecycleInv
<1>2. AgentInv /\ LifecycleInv /\ [TriggerNext]_allVars => LifecycleInv'
  BY TriggerStepIsLifecycleStep, RowsStep, EntryStep, ClaimStep, SignatureStep, ExitStep,
     LedgerStep DEF AgentInv, TriggerTypeOK, LifecycleInv
<1>. QED
  BY <1>1, <1>2, AgentsCorrect, PTL DEF TriggerSpec

--------------------------------------------------------------------------------
(* Who owns a claim.                                                       *)

\* The order is claimed, and so is its position.
Claimed(o) == status[o] = "PENDING" /\ state[positionOf[o]] = Pending(kind[o])

\* The claim on an order outlives a step.
Kept(o) == Claimed(o)' /\ positionOf'[o] = positionOf[o] /\ kind'[o] = kind[o]

\* A claim is on an order that can be executed, of a position.
LEMMA ClaimedIsExecutable ==
  ASSUME TypeOK, RowsWellFormed, NEW o \in Orders, Claimed(o)
  PROVE  /\ kind[o] \in ExecutableKinds /\ positionOf[o] \in Positions
         /\ state[positionOf[o]] \in {"ENTERING", "CLOSING"}
BY DEF TypeOK, RowsWellFormed, Claimed, Pending

\* A new claim is on a position that had none, and takes no claim away.
LEMMA ClaimKeepsClaims ==
  ASSUME TypeOK, RowsWellFormed, NEW x \in Orders, ClaimOrderExecution(x)
  PROVE  /\ Claimed(x)' /\ positionOf'[x] = positionOf[x]
         /\ \A o \in Orders : Claimed(o) => Kept(o) /\ positionOf[o] # positionOf[x]
<1>1. positionOf[x] \in Positions /\ x \in Orders
  BY DEF ClaimOrderExecution, TypeOK, RowsWellFormed
<1>2. Claimed(x)' /\ positionOf'[x] = positionOf[x]
  BY <1>1 DEF ClaimOrderExecution, Claimed, Pending, TypeOK
<1>3. ASSUME NEW o \in Orders, Claimed(o) PROVE Kept(o) /\ positionOf[o] # positionOf[x]
  <2>1. positionOf[o] # positionOf[x] /\ o # x
    BY <1>3, ClaimedIsExecutable DEF ClaimOrderExecution, Before, Claimed
  <2>. QED
    BY <1>1, <1>3, <2>1, ClaimedIsExecutable DEF ClaimOrderExecution, Kept, Claimed, TypeOK
<1>. QED
  BY <1>2, <1>3

\* A release or a settlement touches the claim of its own position only.
LEMMA OtherClaimsKept ==
  ASSUME TypeOK, RowsWellFormed, NEW x \in Orders, NEW o \in Orders, Claimed(o),
         positionOf[x] # positionOf[o],
         \/ ReleaseOrderExecutionClaim(x)
         \/ \E s \in Signatures : SettleFill(x, s)
  PROVE  Kept(o)
<1>0. positionOf[o] \in Positions /\ status[o] = "PENDING" /\ o # x
  BY ClaimedIsExecutable DEF Claimed
<1>1. CASE ReleaseOrderExecutionClaim(x)
  BY <1>0, <1>1 DEF ReleaseOrderExecutionClaim, Kept, Claimed, TypeOK
<1>2. ASSUME NEW s \in Signatures, NEW tp \in Orders, NEW sl \in Orders,
             ConfirmBuyFill(x, s, tp, sl)
      PROVE  Kept(o)
  BY <1>0, <1>2 DEF ConfirmBuyFill, FreshOrders, Kept, Claimed, TypeOK
<1>3. ASSUME NEW s \in Signatures, NEW c \in AtMostOneOf(Orders), ConfirmExitFill(x, s, c)
      PROVE  Kept(o)
  BY <1>0, <1>3 DEF ConfirmExitFill, SiblingChoices, OpenOrders, Kept, Claimed, TypeOK
<1>. QED
  BY <1>1, <1>2, <1>3 DEF SettleFill

\* No manual close and nothing the user does touches a claim.
LEMMA UserKeepsClaims ==
  ASSUME TypeOK, RowsWellFormed, NEW o \in Orders, Claimed(o),
         \/ \E p \in Positions, s \in Signatures, c \in Orders : UserCloseActive(p, s, c)
         \/ \E x \in Orders : CancelOpenOrder(x)
         \/ \E p \in Positions, tps, sls \in AtMostOneOf(Orders) :
              ReplaceProtectionOrders(p, tps, sls)
  PROVE  Kept(o)
<1>0. /\ positionOf[o] \in Positions /\ status[o] = "PENDING"
      /\ state[positionOf[o]] \in {"ENTERING", "CLOSING"}
  BY ClaimedIsExecutable DEF Claimed
<1>1. ASSUME NEW p \in Positions, NEW s \in Signatures, NEW c \in Orders,
             UserCloseActive(p, s, c)
      PROVE  Kept(o)
  BY <1>0, <1>1 DEF UserCloseActive, CloseActivePosition, OpenOrders, FreshOrders, Kept,
                    Claimed, TypeOK
<1>2. ASSUME NEW x \in Orders, CancelOpenOrder(x) PROVE Kept(o)
  <2>1. CASE CancelPendingBuy(x)
    <3>1. o # x /\ positionOf[o] # positionOf[x]
      BY <1>0, <2>1 DEF CancelPendingBuy
    <3>. QED
      BY <1>0, <2>1, <3>1 DEF CancelPendingBuy, Kept, Claimed, TypeOK
  <2>2. CASE CancelProtectionOrder(x)
    BY <1>0, <2>2 DEF CancelProtectionOrder, positionVars, Kept, Claimed, TypeOK
  <2>. QED
    BY <1>2, <2>1, <2>2 DEF CancelOpenOrder
<1>3. ASSUME NEW p \in Positions, NEW tps \in AtMostOneOf(Orders),
             NEW sls \in AtMostOneOf(Orders), ReplaceProtectionOrders(p, tps, sls)
      PROVE  Kept(o)
  BY <1>0, <1>3 DEF ReplaceProtectionOrders, OpenOrders, FreshOrders, positionVars, Kept, Claimed,
                    TypeOK
<1>. QED
  BY <1>1, <1>2, <1>3

\* Where one agent moves, every other holder keeps its claim, and the one that moves
\* holds a claim on a position of its own, HolderOwnsClaim is kept.
LEMMA HolderFrame ==
  ASSUME AgentInv, AgentInv', HolderOwnsClaim, NEW a \in Agents,
         \A b \in Agents \ {a} : pc'[b] = pc[b] /\ target'[b] = target[b],
         \A b \in Agents \ {a}, o \in Orders : pc[b] \in Holding /\ target[b] = o => Kept(o),
         \A o \in Orders : pc'[a] \in Holding /\ target'[a] = o =>
           /\ Claimed(o)'
           /\ \A b \in Agents \ {a} :
                pc[b] \in Holding => positionOf'[o] # positionOf[target[b]]
  PROVE  HolderOwnsClaim'
<1>0. \A b \in Agents : /\ pc[b] \in Holding => target[b] \in Orders
                        /\ pc'[b] \in Holding => target'[b] \in Orders
  BY DEF AgentInv, AgentsWellFormed
<1>1. ASSUME NEW b \in Agents, pc'[b] \in Holding
      PROVE  \A o \in Orders : target'[b] = o => Claimed(o)'
  BY <1>1 DEF Kept
<1>2. ASSUME NEW b \in Agents, NEW c \in Agents, pc'[b] \in Holding, pc'[c] \in Holding,
             positionOf'[target'[b]] = positionOf'[target'[c]]
      PROVE  b = c
  <2>1. \A d \in Agents \ {a} : pc'[d] \in Holding =>
          pc[d] \in Holding /\ positionOf'[target'[d]] = positionOf[target[d]]
    BY <1>0 DEF Kept
  <2>2. CASE b = a \/ c = a
    BY <1>0, <1>2, <2>1, <2>2
  <2>3. CASE b # a /\ c # a
    BY <1>2, <2>1, <2>3 DEF HolderOwnsClaim
  <2>. QED
    BY <2>2, <2>3
<1>. QED
  BY <1>0, <1>1, <1>2 DEF HolderOwnsClaim, Claimed

\* A step of the agents that leaves the tables alone keeps every claim.
LEMMA TablesUntouched ==
  ASSUME UNCHANGED vars, NEW o \in Orders, Claimed(o)
  PROVE  Kept(o)
BY DEF vars, positionVars, orderVars, Kept, Claimed

\* What HolderFrame asks of the holders that do not move.
LEMMA HolderClaims ==
  ASSUME AgentInv, HolderOwnsClaim, NEW a \in Agents, NEW o \in Orders,
         pc[a] \in Holding, target[a] = o
  PROVE  Claimed(o)
BY DEF HolderOwnsClaim, Claimed

\* Every step of an agent or the user leaves each claim with its holder.
LEMMA HolderStep ==
  AgentInv /\ RowsWellFormed /\ HolderOwnsClaim /\ [TriggerNext]_allVars => HolderOwnsClaim'
<1> SUFFICES ASSUME AgentInv, RowsWellFormed, HolderOwnsClaim, [TriggerNext]_allVars
             PROVE  HolderOwnsClaim'
  OBVIOUS
<1>0. AgentInv' /\ TypeOK
  BY AgentStepKeeps DEF AgentInv, TriggerTypeOK
<1> DEFINE Others(a) == \A b \in Agents \ {a} : pc'[b] = pc[b] /\ target'[b] = target[b]
           Keep(a) == \A b \in Agents \ {a}, o \in Orders :
                        pc[b] \in Holding /\ target[b] = o => Kept(o)
\* A step at which the agent holds nothing afterwards, or what it held before.
<1>1. ASSUME NEW a \in Agents, Others(a), UNCHANGED vars,
             pc'[a] \in Holding => pc[a] \in Holding /\ target'[a] = target[a]
      PROVE  HolderOwnsClaim'
  <2>1. Keep(a)
    BY <1>1, HolderClaims, TablesUntouched
  <2>2. \A o \in Orders : pc'[a] \in Holding /\ target'[a] = o =>
          /\ Claimed(o)'
          /\ \A b \in Agents \ {a} :
               pc[b] \in Holding => positionOf'[o] # positionOf[target[b]]
    BY <1>1, HolderClaims, TablesUntouched DEF HolderOwnsClaim, Kept
  <2>. QED
    BY <1>0, <1>1, <2>1, <2>2, HolderFrame
<1>2. ASSUME NEW a \in Agents, Stop(a), Keep(a) PROVE HolderOwnsClaim'
  <2>1. Others(a) /\ pc'[a] = "idle"
    BY <1>2 DEF Stop, AgentInv, TriggerTypeOK
  <2>. QED
    BY <1>0, <1>2, <2>1, HolderFrame DEF Holding
<1>3. ASSUME NEW a \in Agents, AgentStep(a) PROVE HolderOwnsClaim'
  <2>1. CASE Fallback(a) \/ Swap(a) \/ Execute(a) \/ Sell(a)
    <3>1. UNCHANGED vars /\ Others(a)
      BY <2>1 DEF Fallback, Swap, Execute, AfterUnknown, Sell, Goto, Stop, AgentInv, TriggerTypeOK
    <3>2. pc'[a] \in Holding => pc[a] \in Holding /\ target'[a] = target[a]
      BY <2>1 DEF Fallback, Swap, Execute, AfterUnknown, Sell, Goto, Stop, AgentInv,
                  TriggerTypeOK, Holding
    <3>. QED
      BY <1>1, <3>1, <3>2
  <2>2. CASE Claim(a)
    <3>1. CASE Stop(a) /\ UNCHANGED vars
      BY <1>2, <3>1, HolderClaims, TablesUntouched
    <3>2. CASE ClaimOrderExecution(target[a])
      <4>1. PICK x \in Orders : x = target[a] /\ ClaimOrderExecution(x)
        BY <2>2, <3>2 DEF Claim, AgentInv, AgentsWellFormed
      <4>2. Keep(a) /\ Others(a)
        BY <1>0, <2>2, <4>1, HolderClaims, ClaimKeepsClaims
        DEF Claim, Goto, Stop, AgentInv, TriggerTypeOK
      <4>3. pc'[a] \in Holding => target'[a] = x
        BY <2>2, <4>1 DEF Claim, Goto, Stop, AgentInv, TriggerTypeOK, Holding
      <4>4. \A b \in Agents \ {a} :
              pc[b] \in Holding => positionOf'[x] # positionOf[target[b]]
        BY <1>0, <4>1, HolderClaims, ClaimKeepsClaims DEF AgentInv, AgentsWellFormed
      <4>. QED
        BY <1>0, <4>1, <4>2, <4>3, <4>4, ClaimKeepsClaims, HolderFrame
    <3>. QED
      BY <2>2, <3>1, <3>2 DEF Claim
  <2>3. CASE Settle(a) \/ Release(a)
    <3>1. target[a] \in Orders /\ pc[a] \in Holding /\ Stop(a)
      BY <2>3 DEF Settle, Release, AgentInv, AgentsWellFormed, Holding
    <3>2. CASE UNCHANGED vars
      BY <1>2, <3>1, <3>2, HolderClaims, TablesUntouched
    <3>3. CASE ~ UNCHANGED vars
      <4>1. PICK x \in Orders : /\ x = target[a]
                               /\ \/ ReleaseOrderExecutionClaim(x)
                                  \/ \E s \in Signatures : SettleFill(x, s)
        BY <2>3, <3>1, <3>3 DEF Settle, Release, AgentInv, TriggerTypeOK, AgentsWellFormed
      <4>2. \A b \in Agents \ {a}, o \in Orders :
              pc[b] \in Holding /\ target[b] = o => positionOf[x] # positionOf[o]
        BY <3>1, <4>1 DEF HolderOwnsClaim
      <4>3. Keep(a)
        BY <1>0, <4>1, <4>2, HolderClaims, OtherClaimsKept
      <4>. QED
        BY <1>2, <3>1, <4>3
    <3>. QED
      BY <3>2, <3>3
  <2>4. CASE Close(a)
    <3>1. target[a] \in Positions /\ sig[a] \in Signatures /\ Stop(a)
      BY <2>4 DEF Close, AgentInv, AgentsWellFormed, TriggerTypeOK
    <3>2. CASE UNCHANGED vars
      BY <1>2, <3>1, <3>2, HolderClaims, TablesUntouched
    <3>3. CASE ~ UNCHANGED vars
      <4>1. \E p \in Positions, s \in Signatures, c \in Orders : UserCloseActive(p, s, c)
        BY <2>4, <3>1, <3>3 DEF Close
      <4>2. Keep(a)
        BY <1>0, <4>1, HolderClaims, UserKeepsClaims
      <4>. QED
        BY <1>2, <3>1, <4>2
    <3>. QED
      BY <3>2, <3>3
  <2>. QED
    BY <1>3, <2>1, <2>2, <2>3, <2>4 DEF AgentStep
<1>4. ASSUME NEW a \in Agents, Crash(a) PROVE HolderOwnsClaim'
  BY <1>2, <1>4, HolderClaims, TablesUntouched DEF Crash
<1>5. ASSUME NEW a \in Agents, NEW o \in Orders, Wake(a, o) \/ Tap(a, o)
      PROVE  HolderOwnsClaim'
  BY <1>1, <1>5 DEF Wake, Tap, Start, AgentInv, TriggerTypeOK, Holding
<1>6. ASSUME NEW a \in Agents, NEW p \in Positions, BeginClose(a, p) PROVE HolderOwnsClaim'
  BY <1>1, <1>6 DEF BeginClose, Start, AgentInv, TriggerTypeOK, Holding
<1>7. CASE UserAction \/ UNCHANGED allVars
  <2>1. ASSUME NEW o \in Orders, Claimed(o) PROVE Kept(o)
    BY <1>0, <1>7, <2>1, UserKeepsClaims, TablesUntouched DEF UserAction, allVars
  <2>2. UNCHANGED <<pc, target>>
    BY <1>7 DEF UserAction, agentVars, allVars
  <2>3. \A a \in Agents : pc'[a] \in Holding =>
          /\ pc[a] \in Holding /\ target'[a] = target[a] /\ target[a] \in Orders
          /\ \A o \in Orders : target[a] = o => Kept(o)
    BY <2>1, <2>2, HolderClaims DEF AgentInv, AgentsWellFormed
  <2>. QED
    BY <2>3 DEF HolderOwnsClaim, Kept, Claimed
<1>. QED
  BY <1>3, <1>4, <1>5, <1>6, <1>7 DEF TriggerNext

\* An agent between its claim and its release or settlement owns the claim, and
\* nobody else believes it does.
THEOREM HolderCorrect == TriggerSpec => []HolderOwnsClaim
<1>1. TriggerInit => HolderOwnsClaim
  BY DEF TriggerInit, HolderOwnsClaim, Holding
<1>2. LifecycleInv => RowsWellFormed
  BY DEF LifecycleInv
<1>. QED
  BY <1>1, <1>2, HolderStep, AgentsCorrect, LifecycleCarriesOver, PTL DEF TriggerSpec

--------------------------------------------------------------------------------
(* What a swap is booked for.                                              *)

\* A signature that an agent has is its own, and not yet in the database.
SignaturesAreOwned ==
  \A a \in Agents : sig[a] # NULL =>
    /\ ~ SignatureUsed(sig[a])
    /\ \A b \in Agents : sig[b] = sig[a] => b = a

BookingInv == FilledSwapLanded /\ SignaturesAreOwned

\* A settlement or a manual close writes the one signature it is given, to the order
\* it names; nothing else writes any.
SignsOnly(s, x) ==
  \A o \in Orders :
    txSignature'[o] # NULL =>
      \/ txSignature'[o] = txSignature[o] /\ kind'[o] = kind[o] /\ positionOf'[o] = positionOf[o]
      \/ /\ txSignature'[o] = s
         /\ IF kind'[o] = "CLOSE_SWAP" THEN positionOf'[o] = x ELSE o = x

LEMMA SettleSigns ==
  ASSUME TypeOK, RowsWellFormed, SignatureSettlesOneOrder,
         NEW x \in Orders, NEW s \in Signatures, SettleFill(x, s)
  PROVE  SignsOnly(s, x)
<1>1. ASSUME NEW tp \in Orders, NEW sl \in Orders, ConfirmBuyFill(x, s, tp, sl)
      PROVE  SignsOnly(s, x)
  BY <1>1 DEF ConfirmBuyFill, FreshOrders, SignsOnly, TypeOK, RowsWellFormed,
              SignatureSettlesOneOrder
<1>2. ASSUME NEW c \in AtMostOneOf(Orders), ConfirmExitFill(x, s, c)
      PROVE  SignsOnly(s, x)
  BY <1>2 DEF ConfirmExitFill, SignsOnly, TypeOK
<1>. QED
  BY <1>1, <1>2 DEF SettleFill

LEMMA CloseSigns ==
  ASSUME TypeOK, RowsWellFormed, SignatureSettlesOneOrder,
         NEW p \in Positions, NEW s \in Signatures, NEW c \in Orders, UserCloseActive(p, s, c)
  PROVE  SignsOnly(s, p)
BY DEF UserCloseActive, CloseActivePosition, FreshOrders, SignsOnly, TypeOK,
       SignatureSettlesOneOrder

\* What else agents and users write leaves the signed orders alone.
LEMMA NothingSigned ==
  ASSUME TypeOK, SignatureSettlesOneOrder,
         \/ UNCHANGED vars
         \/ \E o \in Orders : ClaimOrderExecution(o) \/ ReleaseOrderExecutionClaim(o)
         \/ \E o \in Orders : CancelOpenOrder(o)
         \/ \E p \in Positions, tps, sls \in AtMostOneOf(Orders) :
              ReplaceProtectionOrders(p, tps, sls)
  PROVE  \A o \in Orders : txSignature'[o] # NULL =>
           /\ txSignature'[o] = txSignature[o]
           /\ kind'[o] = kind[o] /\ positionOf'[o] = positionOf[o]
BY DEF vars, orderVars, ClaimOrderExecution, ReleaseOrderExecutionClaim, CancelOpenOrder,
       CancelPendingBuy, CancelProtectionOrder, ReplaceProtectionOrders, FreshOrders, TypeOK,
       SignatureSettlesOneOrder

\* What is signed and what has a signature names a swap that landed.
LEMMA NamedSwapLanded ==
  ASSUME AgentInv, RowsWellFormed, FilledSwapLanded
  PROVE  /\ \A o \in Orders : txSignature[o] # NULL =>
              txSignature[o] \in Signatures /\ landed[txSignature[o]] # NULL
         /\ \A a \in Agents : sig[a] # NULL => sig[a] \in Signatures /\ landed[sig[a]] # NULL
BY TriggerAssumption
DEF AgentInv, AgentsWellFormed, TriggerTypeOK, TypeOK, RowsWellFormed, FilledSwapLanded, Holding

\* A step that signs nothing keeps the books, if the chain only grows and a signature
\* that is new to an agent is new to the chain.
LEMMA BookingFrame ==
  ASSUME AgentInv, RowsWellFormed, BookingInv, NEW a \in Agents,
         \A t \in Signatures : landed[t] # NULL => landed'[t] = landed[t],
         \A b \in Agents \ {a} : sig'[b] = sig[b],
         sig'[a] # NULL => sig'[a] = sig[a] \/ landed[sig'[a]] = NULL,
         \A o \in Orders : txSignature'[o] # NULL =>
           /\ txSignature'[o] = txSignature[o]
           /\ kind'[o] = kind[o] /\ positionOf'[o] = positionOf[o]
  PROVE  BookingInv'
<1>0. FilledSwapLanded /\ SignaturesAreOwned
  BY DEF BookingInv
<1>1. FilledSwapLanded'
  BY <1>0, NamedSwapLanded DEF FilledSwapLanded
<1>2. ASSUME NEW b \in Agents, sig'[b] # NULL, NEW o \in Orders, txSignature'[o] = sig'[b]
      PROVE  FALSE
  <2>1. txSignature[o] = sig'[b] /\ landed[sig'[b]] # NULL
    BY <1>0, <1>2, NamedSwapLanded
  <2>. QED
    BY <1>0, <1>2, <2>1 DEF SignaturesAreOwned, SignatureUsed
<1>3. ASSUME NEW b \in Agents, sig'[b] # NULL, NEW c \in Agents, sig'[c] = sig'[b]
      PROVE  c = b
  BY <1>0, <1>3, NamedSwapLanded DEF SignaturesAreOwned
<1>. QED
  BY <1>1, <1>2, <1>3 DEF BookingInv, SignaturesAreOwned, SignatureUsed

\* An agent that stops once it has had its swap booked keeps the books too.
LEMMA BookingSigned ==
  ASSUME AgentInv, RowsWellFormed, BookingInv, NEW a \in Agents, NEW s \in Signatures, NEW x,
         sig[a] = s, target[a] = x, pc[a] = "settle" => x \in Orders,
         Stop(a), UNCHANGED landed, SignsOnly(s, x)
  PROVE  BookingInv'
<1>0. FilledSwapLanded /\ SignaturesAreOwned /\ landed[s] = x
  BY DEF BookingInv, AgentInv, AgentsWellFormed
<1>1. sig'[a] = NULL /\ \A b \in Agents \ {a} : sig'[b] = sig[b]
  BY DEF Stop, AgentInv, TriggerTypeOK
<1>2. FilledSwapLanded'
  BY <1>0, NamedSwapLanded DEF FilledSwapLanded, SignsOnly
<1>3. ASSUME NEW b \in Agents, sig'[b] # NULL
      PROVE  ~ SignatureUsed(sig[b])' /\ \A c \in Agents : sig'[c] = sig'[b] => c = b
  BY <1>0, <1>1, <1>3 DEF SignaturesAreOwned, SignatureUsed, SignsOnly
<1>. QED
  BY <1>2, <1>3 DEF BookingInv, SignaturesAreOwned

\* No step of an agent or the user spoils the books.
LEMMA BookingStep ==
  AgentInv /\ RowsWellFormed /\ SignatureSettlesOneOrder /\ BookingInv /\ [TriggerNext]_allVars
    => BookingInv'
<1> SUFFICES ASSUME AgentInv, RowsWellFormed, SignatureSettlesOneOrder, BookingInv,
                    [TriggerNext]_allVars
             PROVE  BookingInv'
  OBVIOUS
<1>0. TypeOK
  BY DEF AgentInv, TriggerTypeOK
<1> DEFINE Unsigned == \A o \in Orders : txSignature'[o] # NULL =>
                         /\ txSignature'[o] = txSignature[o]
                         /\ kind'[o] = kind[o] /\ positionOf'[o] = positionOf[o]
\* A step after which the agent has the signature it had, or none.
<1>1. ASSUME NEW a \in Agents, Unsigned, UNCHANGED sig \/ Stop(a), UNCHANGED landed
      PROVE  BookingInv'
  <2>1. /\ \A b \in Agents \ {a} : sig'[b] = sig[b]
        /\ sig'[a] # NULL => sig'[a] = sig[a]
    BY <1>1 DEF Stop, AgentInv, TriggerTypeOK
  <2>. QED
    BY <1>1, <2>1, BookingFrame
\* A swap lands.
<1>2. ASSUME NEW a \in Agents, UNCHANGED vars, NEW s \in Signatures, landed[s] = NULL,
             landed' = [landed EXCEPT ![s] = target[a]],
             UNCHANGED sig \/ Stop(a) \/ sig' = [sig EXCEPT ![a] = s]
      PROVE  BookingInv'
  <2>1. Unsigned
    BY <1>0, <1>2, NothingSigned
  <2>2. /\ \A b \in Agents \ {a} : sig'[b] = sig[b]
        /\ sig'[a] # NULL => sig'[a] = sig[a] \/ sig'[a] = s
    BY <1>2 DEF Stop, AgentInv, TriggerTypeOK
  <2>3. \A t \in Signatures : landed[t] # NULL => landed'[t] = landed[t]
    BY <1>2, ChainGrows
  <2>. QED
    BY <1>2, <2>1, <2>2, <2>3, BookingFrame
<1>3. ASSUME NEW a \in Agents, AgentStep(a) PROVE BookingInv'
  <2>1. CASE Fallback(a) \/ Swap(a)
    BY <1>0, <1>1, <2>1, NothingSigned DEF Fallback, Swap, Goto
  <2>2. CASE Claim(a)
    <3>1. Unsigned
      BY <1>0, <2>2, NothingSigned DEF Claim, AgentInv, AgentsWellFormed
    <3>. QED
      BY <1>1, <2>2, <3>1 DEF Claim, Goto
  <2>3. CASE Execute(a)
    <3>1. UNCHANGED vars /\ Unsigned
      BY <1>0, <2>3, NothingSigned DEF Execute
    <3>2. ASSUME AfterUnknown(a) PROVE UNCHANGED sig \/ Stop(a)
      BY <3>2 DEF AfterUnknown, Goto
    <3>. QED
      BY <1>1, <1>2, <2>3, <3>1, <3>2 DEF Execute
  <2>4. CASE Sell(a)
    <3>1. UNCHANGED vars /\ Unsigned
      BY <1>0, <2>4, NothingSigned DEF Sell
    <3>. QED
      BY <1>1, <1>2, <2>4, <3>1 DEF Sell
  <2>5. CASE Settle(a)
    <3>1. target[a] \in Orders /\ sig[a] \in Signatures
      BY <2>5 DEF Settle, AgentInv, AgentsWellFormed, TriggerTypeOK, Holding
    <3>2. CASE UNCHANGED vars
      BY <1>0, <1>1, <2>5, <3>2, NothingSigned DEF Settle
    <3>3. ASSUME NEW x \in Orders, NEW s \in Signatures, x = target[a], s = sig[a],
                 SettleFill(x, s)
          PROVE  BookingInv'
      BY <1>0, <2>5, <3>3, SettleSigns, BookingSigned DEF Settle
    <3>. QED
      BY <2>5, <3>1, <3>2, <3>3 DEF Settle
  <2>6. CASE Release(a)
    <3>1. Unsigned
      BY <1>0, <2>6, NothingSigned DEF Release, AgentInv, AgentsWellFormed, Holding
    <3>. QED
      BY <1>1, <2>6, <3>1 DEF Release
  <2>7. CASE Close(a)
    <3>1. target[a] \in Positions /\ sig[a] \in Signatures
      BY <2>7 DEF Close, AgentInv, AgentsWellFormed, TriggerTypeOK
    <3>2. CASE UNCHANGED vars
      BY <1>0, <1>1, <2>7, <3>2, NothingSigned DEF Close
    <3>3. ASSUME NEW p \in Positions, NEW s \in Signatures, p = target[a], s = sig[a],
                 NEW c \in Orders, UserCloseActive(p, s, c)
          PROVE  BookingInv'
      BY <1>0, <2>7, <3>3, CloseSigns, BookingSigned DEF Close
    <3>. QED
      BY <2>7, <3>1, <3>2, <3>3 DEF Close
  <2>. QED
    BY <1>3, <2>1, <2>2, <2>3, <2>4, <2>5, <2>6, <2>7 DEF AgentStep
<1>4. ASSUME NEW a \in Agents, Crash(a) PROVE BookingInv'
  BY <1>0, <1>1, <1>4, NothingSigned DEF Crash
<1>5. ASSUME NEW a \in Agents, NEW o \in Orders, Wake(a, o) \/ Tap(a, o) PROVE BookingInv'
  BY <1>0, <1>1, <1>5, NothingSigned DEF Wake, Tap, Start
<1>6. ASSUME NEW a \in Agents, NEW p \in Positions, BeginClose(a, p) PROVE BookingInv'
  BY <1>0, <1>1, <1>6, NothingSigned DEF BeginClose, Start
<1>7. CASE UserAction \/ UNCHANGED allVars
  <2>1. Unsigned /\ UNCHANGED <<sig, landed>>
    BY <1>0, <1>7, NothingSigned DEF UserAction, agentVars, allVars
  <2>. QED
    BY <2>1 DEF BookingInv, FilledSwapLanded, SignaturesAreOwned, SignatureUsed
<1>. QED
  BY <1>3, <1>4, <1>5, <1>6, <1>7 DEF TriggerNext

\* A swap whose signature is known can be settled: its agent owns the claim, and
\* nobody else has the signature.
LEMMA KnownSwapIsWelcome ==
  ASSUME AgentInv, RowsWellFormed, HolderOwnsClaim, BookingInv
  PROVE  KnownSwapSettles
<1> SUFFICES ASSUME NEW a \in Agents, pc[a] = "settle"
             PROVE  SettleOutcome(target[a], sig[a]) = "success"
  BY DEF KnownSwapSettles
<1>1. target[a] \in Orders /\ Claimed(target[a])
  BY DEF HolderOwnsClaim, Holding, Claimed, AgentInv, AgentsWellFormed
<1>2. ~ SignatureUsed(sig[a]) /\ txSignature[target[a]] # sig[a]
  BY <1>1 DEF BookingInv, SignaturesAreOwned, SignatureUsed, AgentInv, AgentsWellFormed
<1>3. SettlesBuy(target[a]) \/ SettlesExit(target[a])
  BY <1>1, ClaimedIsExecutable DEF SettlesBuy, SettlesExit, Claimed, Pending, AgentInv, TriggerTypeOK
<1>. QED
  BY <1>2, <1>3 DEF SettleOutcome

\* Whatever fails, an order is filled only by a swap that landed for it, and a swap
\* whose signature is known can be settled.
THEOREM SwapsCorrect == TriggerSpec => []SwapsAreBooked
<1>1. TriggerInit => BookingInv
  BY DEF TriggerInit, BookingInv, FilledSwapLanded, SignaturesAreOwned
<1>2. LifecycleInv => RowsWellFormed /\ SignatureSettlesOneOrder
  BY DEF LifecycleInv
<1>3. AgentInv /\ LifecycleInv /\ HolderOwnsClaim /\ BookingInv => SwapsAreBooked
  BY KnownSwapIsWelcome DEF LifecycleInv, BookingInv, SwapsAreBooked
<1>. QED
  BY <1>1, <1>2, <1>3, BookingStep, AgentsCorrect, LifecycleCarriesOver, HolderCorrect, PTL
  DEF TriggerSpec

--------------------------------------------------------------------------------
(* One swap an order.                                                      *)

\* An order a swap has landed for is claimed or filled, and who holds its claim has
\* made that swap.
SwappedOrderIsSpent ==
  \A s \in Signatures : landed[s] \in Orders =>
    /\ status[landed[s]] \in {"PENDING", "FILLED"}
    /\ \A a \in Agents : pc[a] \in Holding /\ target[a] = landed[s] => pc[a] = "settle"

SpendingInv == OneSwapPerOrder /\ SwappedOrderIsSpent

\* Only a release makes of a claimed or filled order one that may be executed.
LEMMA SpentStays ==
  ASSUME TypeOK, NEW o \in Orders, status[o] \in {"PENDING", "FILLED"},
         \/ UNCHANGED vars
         \/ \E x \in Orders : ClaimOrderExecution(x)
         \/ \E x \in Orders \ {o} : ReleaseOrderExecutionClaim(x)
         \/ \E x \in Orders, s \in Signatures : SettleFill(x, s)
         \/ \E p \in Positions, s \in Signatures, c \in Orders : UserCloseActive(p, s, c)
         \/ \E x \in Orders : CancelOpenOrder(x)
         \/ \E p \in Positions, tps, sls \in AtMostOneOf(Orders) :
              ReplaceProtectionOrders(p, tps, sls)
  PROVE  status'[o] \in {"PENDING", "FILLED"}
<1>1. CASE UNCHANGED vars
  BY <1>1 DEF vars, orderVars
<1>2. ASSUME NEW x \in Orders, \/ ClaimOrderExecution(x)
                               \/ x # o /\ ReleaseOrderExecutionClaim(x)
                               \/ CancelOpenOrder(x)
      PROVE  status'[o] \in {"PENDING", "FILLED"}
  BY <1>2 DEF ClaimOrderExecution, ReleaseOrderExecutionClaim, CancelOpenOrder, CancelPendingBuy,
              CancelProtectionOrder, TypeOK
<1>3. ASSUME NEW x \in Orders, NEW s \in Signatures, SettleFill(x, s)
      PROVE  status'[o] \in {"PENDING", "FILLED"}
  <2>1. ASSUME NEW tp \in Orders, NEW sl \in Orders, ConfirmBuyFill(x, s, tp, sl)
        PROVE  status'[o] \in {"PENDING", "FILLED"}
    BY <2>1 DEF ConfirmBuyFill, FreshOrders, TypeOK
  <2>2. ASSUME NEW c \in AtMostOneOf(Orders), ConfirmExitFill(x, s, c)
        PROVE  status'[o] \in {"PENDING", "FILLED"}
    BY <2>2 DEF ConfirmExitFill, SiblingChoices, OpenOrders, TypeOK
  <2>. QED
    BY <1>3, <2>1, <2>2 DEF SettleFill
<1>4. ASSUME NEW p \in Positions, NEW s \in Signatures, NEW c \in Orders,
             UserCloseActive(p, s, c)
      PROVE  status'[o] \in {"PENDING", "FILLED"}
  BY <1>4 DEF UserCloseActive, CloseActivePosition, OpenOrders, FreshOrders, TypeOK
<1>5. ASSUME NEW p \in Positions, NEW tps \in AtMostOneOf(Orders),
             NEW sls \in AtMostOneOf(Orders), ReplaceProtectionOrders(p, tps, sls)
      PROVE  status'[o] \in {"PENDING", "FILLED"}
  BY <1>5 DEF ReplaceProtectionOrders, OpenOrders, FreshOrders, TypeOK
<1>. QED
  BY <1>1, <1>2, <1>3, <1>4, <1>5

\* A step at which no swap of an order lands keeps the orders spent, if no agent
\* comes to hold an order a swap has landed for.
LEMMA SpendingFrame ==
  ASSUME AgentInv, SpendingInv,
         \A s \in Signatures : landed'[s] \in Orders => landed'[s] = landed[s],
         \A o \in Orders : (\E s \in Signatures : landed[s] = o) =>
           /\ status'[o] \in {"PENDING", "FILLED"}
           /\ \A a \in Agents : pc'[a] \in Holding /\ target'[a] = o =>
                \/ pc'[a] = "settle"
                \/ pc[a] \in Holding \ {"settle"} /\ target[a] = o
  PROVE  SpendingInv'
<1>1. OneSwapPerOrder'
  BY DEF SpendingInv, OneSwapPerOrder, SwapsFor
<1>2. SwappedOrderIsSpent'
  BY DEF SpendingInv, SwappedOrderIsSpent
<1>. QED
  BY <1>1, <1>2 DEF SpendingInv

\* If no tab loses the answer to /execute, a claim is given back only when no swap
\* landed, and so every step keeps the orders spent.
LEMMA SpendingStep ==
  ASSUME "unheard" \notin Failures
  PROVE  AgentInv /\ RowsWellFormed /\ HolderOwnsClaim /\ SpendingInv /\ [TriggerNext]_allVars
           => SpendingInv'
<1> SUFFICES ASSUME AgentInv, RowsWellFormed, HolderOwnsClaim, SpendingInv,
                    [TriggerNext]_allVars
             PROVE  SpendingInv'
  OBVIOUS
<1>0. TypeOK /\ AgentInv'
  BY AgentStepKeeps DEF AgentInv, TriggerTypeOK
<1> DEFINE Spent(o) == \E s \in Signatures : landed[s] = o
           StaysSpent == \A o \in Orders : Spent(o) => status'[o] \in {"PENDING", "FILLED"}
\* A step after which the agent holds nothing, or what it held.
<1>1. ASSUME NEW a \in Agents, StaysSpent, UNCHANGED landed, Stop(a) PROVE SpendingInv'
  <2>1. \A b \in Agents : pc'[b] \in Holding => pc'[b] = pc[b] /\ target'[b] = target[b]
    BY <1>1 DEF Stop, AgentInv, TriggerTypeOK, Holding
  <2>. QED
    BY <1>1, <2>1, SpendingFrame
<1>2. ASSUME UNCHANGED <<vars, landed>>,
             \A b \in Agents : pc'[b] \in Holding =>
               /\ target'[b] = target[b]
               /\ pc'[b] = pc[b] \/ pc[b] \in Holding \ {"settle"}
      PROVE  SpendingInv'
  <2>1. StaysSpent
    BY <1>0, <1>2, SpentStays DEF SpendingInv, SwappedOrderIsSpent
  <2>. QED
    BY <1>2, <2>1, SpendingFrame
<1>3. ASSUME NEW a \in Agents, AgentStep(a) PROVE SpendingInv'
  <2>1. CASE Fallback(a)
    BY <1>0, <1>1, <2>1, SpentStays DEF Fallback, SpendingInv, SwappedOrderIsSpent
  <2>2. CASE Swap(a)
    BY <1>2, <2>2 DEF Swap, Goto, AgentInv, TriggerTypeOK, Holding
  <2>3. CASE Claim(a)
    <3>1. StaysSpent
      BY <1>0, <2>3, SpentStays
      DEF Claim, AgentInv, AgentsWellFormed, SpendingInv, SwappedOrderIsSpent
    <3>2. CASE Stop(a)
      BY <1>1, <2>3, <3>1, <3>2 DEF Claim
    <3>3. CASE ClaimOrderExecution(target[a]) /\ Goto(a, "swap")
      <4>1. target[a] \in Orders /\ ~ Spent(target[a])
        BY <2>3, <3>3
        DEF Claim, ClaimOrderExecution, AgentInv, AgentsWellFormed, SpendingInv, SwappedOrderIsSpent
      <4>2. \A b \in Agents : pc'[b] \in Holding =>
              \/ pc'[b] = pc[b] /\ target'[b] = target[b]
              \/ target'[b] = target[a]
        BY <3>3 DEF Goto, AgentInv, TriggerTypeOK
      <4>. QED
        BY <2>3, <3>1, <4>1, <4>2, SpendingFrame DEF Claim
    <3>. QED
      BY <2>3, <3>2, <3>3 DEF Claim
  <2>4. CASE Execute(a)
    <3>0. pc[a] = "execute" /\ target[a] \in Orders /\ UNCHANGED vars
      BY <2>4 DEF Execute, AgentInv, AgentsWellFormed, Holding
    <3>1. StaysSpent
      BY <1>0, <3>0, SpentStays DEF SpendingInv, SwappedOrderIsSpent
    <3>2. ASSUME NEW s \in Signatures, landed[s] = NULL,
                 landed' = [landed EXCEPT ![s] = target[a]],
                 \/ /\ pc' = [pc EXCEPT ![a] = "settle"]
                    /\ UNCHANGED target
                 \/ Stop(a)
          PROVE  SpendingInv'
      <4>1. ~ Spent(target[a])
        BY <3>0 DEF SpendingInv, SwappedOrderIsSpent, Holding
      <4>2. /\ landed'[s] = target[a]
            /\ \A t \in Signatures \ {s} : landed'[t] = landed[t]
        BY <3>2 DEF AgentInv, TriggerTypeOK
      <4>3. OneSwapPerOrder'
        BY <4>1, <4>2 DEF SpendingInv, OneSwapPerOrder, SwapsFor
      <4>4. status'[target[a]] \in {"PENDING", "FILLED"}
        BY <3>0 DEF HolderOwnsClaim, Holding, vars, orderVars
      <4>5. \A b \in Agents : pc'[b] \in Holding =>
              \/ pc'[b] = "settle"
              \/ pc'[b] = pc[b] /\ target'[b] = target[b] /\ b # a
        BY <3>2 DEF Stop, AgentInv, TriggerTypeOK, Holding
      <4>6. \A b \in Agents \ {a} : pc[b] \in Holding => target[b] # target[a]
        BY <3>0 DEF HolderOwnsClaim, Holding
      <4>7. SwappedOrderIsSpent'
        BY <3>1, <4>2, <4>4, <4>5, <4>6 DEF SpendingInv, SwappedOrderIsSpent
      <4>. QED
        BY <4>3, <4>7 DEF SpendingInv
    <3>3. ASSUME AfterUnknown(a), UNCHANGED landed PROVE SpendingInv'
      BY <1>1, <1>2, <3>0, <3>1, <3>3 DEF AfterUnknown, Goto, AgentInv, TriggerTypeOK, Holding
    <3>. QED
      BY <2>4, <3>2, <3>3 DEF Execute, Unanswered, AfterUnknown
  <2>5. CASE Settle(a)
    <3>1. StaysSpent
      <4>1. target[a] \in Orders /\ sig[a] \in Signatures
        BY <2>5 DEF Settle, AgentInv, AgentsWellFormed, TriggerTypeOK, Holding
      <4>. QED
        BY <1>0, <2>5, <4>1, SpentStays DEF Settle, SpendingInv, SwappedOrderIsSpent
    <3>. QED
      BY <1>1, <2>5, <3>1 DEF Settle
  <2>6. CASE Release(a)
    <3>1. pc[a] = "release" /\ target[a] \in Orders
      BY <2>6 DEF Release, AgentInv, AgentsWellFormed, Holding
    <3>2. ~ Spent(target[a])
      BY <3>1 DEF SpendingInv, SwappedOrderIsSpent, Holding
    <3>3. StaysSpent
      BY <1>0, <2>6, <3>1, <3>2, SpentStays DEF Release, SpendingInv, SwappedOrderIsSpent
    <3>. QED
      BY <1>1, <2>6, <3>3 DEF Release
  <2>7. CASE Sell(a)
    <3>0. pc[a] = "sell" /\ target[a] \in Positions /\ UNCHANGED vars
      BY <2>7 DEF Sell, AgentInv, AgentsWellFormed
    <3>1. StaysSpent
      BY <1>0, <3>0, SpentStays DEF SpendingInv, SwappedOrderIsSpent
    <3>2. \A t \in Signatures : landed'[t] \in Orders => landed'[t] = landed[t]
      BY <2>7, <3>0, TriggerAssumption DEF Sell, AgentInv, TriggerTypeOK
    <3>3. \A b \in Agents : pc'[b] \in Holding => pc'[b] = pc[b] /\ target'[b] = target[b]
      BY <2>7 DEF Sell, Stop, AgentInv, TriggerTypeOK, Holding
    <3>. QED
      BY <3>1, <3>2, <3>3, SpendingFrame
  <2>8. CASE Close(a)
    <3>1. StaysSpent
      <4>1. target[a] \in Positions /\ sig[a] \in Signatures
        BY <2>8 DEF Close, AgentInv, AgentsWellFormed, TriggerTypeOK
      <4>. QED
        BY <1>0, <2>8, <4>1, SpentStays DEF Close, SpendingInv, SwappedOrderIsSpent
    <3>. QED
      BY <1>1, <2>8, <3>1 DEF Close
  <2>. QED
    BY <1>3, <2>1, <2>2, <2>3, <2>4, <2>5, <2>6, <2>7, <2>8 DEF AgentStep
<1>4. ASSUME NEW a \in Agents, Crash(a) PROVE SpendingInv'
  BY <1>0, <1>1, <1>4, SpentStays DEF Crash, SpendingInv, SwappedOrderIsSpent
<1>5. ASSUME NEW a \in Agents, NEW o \in Orders, Wake(a, o) \/ Tap(a, o) PROVE SpendingInv'
  BY <1>2, <1>5 DEF Wake, Tap, Start, AgentInv, TriggerTypeOK, Holding
<1>6. ASSUME NEW a \in Agents, NEW p \in Positions, BeginClose(a, p) PROVE SpendingInv'
  BY <1>2, <1>6 DEF BeginClose, Start, AgentInv, TriggerTypeOK, Holding
<1>7. CASE UserAction \/ UNCHANGED allVars
  <2>1. UNCHANGED <<pc, target, landed>>
    BY <1>7 DEF UserAction, agentVars, allVars
  <2>2. StaysSpent
    BY <1>0, <1>7, SpentStays DEF UserAction, allVars, SpendingInv, SwappedOrderIsSpent
  <2>. QED
    BY <2>1, <2>2, SpendingFrame
<1>. QED
  BY <1>3, <1>4, <1>5, <1>6, <1>7 DEF TriggerNext

\* As long as every tab hears what came of its /execute, no order is swapped twice,
\* whatever crashes, is lost, refused or unknown to a server.
THEOREM OneSwapCorrect ==
  ASSUME "unheard" \notin Failures
  PROVE  TriggerSpec => []OneSwapPerOrder
<1>1. TriggerInit => SpendingInv
  BY TriggerAssumption
  DEF TriggerInit, SpendingInv, OneSwapPerOrder, SwapsFor, SwappedOrderIsSpent
<1>2. LifecycleInv => RowsWellFormed
  BY DEF LifecycleInv
<1>3. SpendingInv => OneSwapPerOrder
  BY DEF SpendingInv
<1>4. AgentInv /\ RowsWellFormed /\ HolderOwnsClaim /\ SpendingInv /\ [TriggerNext]_allVars
        => SpendingInv'
  BY SpendingStep
<1>. QED
  BY <1>1, <1>2, <1>3, <1>4, AgentsCorrect, LifecycleCarriesOver, HolderCorrect, PTL
  DEF TriggerSpec

================================================================================
