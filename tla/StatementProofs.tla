------------------------- MODULE StatementProofs -------------------------
(***************************************************************************)
(* Proofs about LifecycleStatements: the transactions of                   *)
(* position-lifecycle.ts, statement by statement, for any number of        *)
(* sessions and any tables.                                                *)
(*                                                                         *)
(* StatementInv says, for each session and each statement it may stand at, *)
(* what it has read, which rows it holds and what its commit will write;   *)
(* that no two sessions hold a row or a signature in common; and that the  *)
(* committed tables are right.  It is inductive because the WHERE clause   *)
(* an UPDATE has matched goes on matching while its row is held.           *)
(*   MoneyIsConsistent       the tables are those of whole transactions;   *)
(*   NoInvariantError        the errors the source calls impossible are;   *)
(*   OrderFirstIsDeadlockFree                                              *)
(*                           who takes the order first waits in no circle; *)
(*   CommitsAreSteps         a commit is a step of PositionLifecycle, if   *)
(*                           nobody places an exit beside the others.      *)
(***************************************************************************)
EXTENDS LifecycleStatements, PositionLifecycleProofs

USE NullAssumption DEF ProposalStatuses, PositionStates, ClosedReasons, OrderStatuses,
                      ProtectionKinds, ExecutableKinds, OrderKinds, TradeSources

--------------------------------------------------------------------------------
(* Where a session is in its transaction.                                  *)

Claiming   == {"claimOrderExecution", "releaseOrderExecutionClaim"}
Settling   == {"confirmBuyFill", "confirmExitFill"}
OrderOps   == Claiming \cup Settling \cup {"cancelOpenOrder"}
Cancelling == {"confirmExitFill", "userCloseActive", "replaceProtectionOrders"}
Signing    == Settling \cup {"userCloseActive"}
PositionOps == {"userCloseActive", "replaceProtectionOrders", "placeProtectionOrder"}

\* The next statement of t.
Step(t) == IF pc[t] = <<>> THEN "idle" ELSE Head(pc[t])

\* The calls that write no position row.
SkipsPosition(c) ==
  \/ c.op = "placeProtectionOrder"
  \/ c.op = "cancelOpenOrder" /\ kind[c.order] # "BUY_TRIGGER"

\* What may be left of the plan of c.
Rests(c) ==
  CASE c.op \in Claiming \/ (c.op = "cancelOpenOrder" /\ kind[c.order] = "BUY_TRIGGER") ->
         {<<"read", "order", "position", "commit">>, <<"order", "position", "commit">>,
          <<"position", "commit">>, <<"commit">>}
    [] c.op = "cancelOpenOrder" /\ kind[c.order] # "BUY_TRIGGER" ->
         {<<"read", "order", "commit">>, <<"order", "commit">>, <<"commit">>}
    [] c.op = "confirmBuyFill" ->
         {<<"order", "position", "insert", "commit">>, <<"position", "insert", "commit">>,
          <<"insert", "commit">>, <<"commit">>}
    [] c.op = "confirmExitFill" ->
         {<<"order", "position", "exits", "insert", "commit">>,
          <<"position", "exits", "insert", "commit">>, <<"exits", "insert", "commit">>,
          <<"insert", "commit">>, <<"commit">>}
    [] c.op \in {"userCloseActive", "replaceProtectionOrders"} ->
         {<<"read", "position", "exits", "insert", "commit">>,
          <<"position", "exits", "insert", "commit">>, <<"exits", "insert", "commit">>,
          <<"insert", "commit">>, <<"commit">>}
    [] c.op = "placeProtectionOrder" ->
         {<<"read", "insert", "commit">>, <<"insert", "commit">>, <<"commit">>}
    [] OTHER -> {}

\* The statement that follows one of the call c.
Following(c, statement) ==
  CASE statement = "read" -> IF c.op \in OrderOps THEN "order"
                             ELSE IF c.op = "placeProtectionOrder" THEN "insert" ELSE "position"
    [] statement = "order" -> IF SkipsPosition(c) THEN "commit" ELSE "position"
    [] statement = "position" -> IF c.op \in Cancelling THEN "exits"
                                 ELSE IF c.op = "confirmBuyFill" THEN "insert" ELSE "commit"
    [] statement = "exits" -> "insert"
    [] statement = "insert" -> "commit"

PlanOK(t) == pc[t] # <<>> => pc[t] \in Rests(call[t])

\* A statement other than the commit leaves the rest of the plan.
LEMMA RestAfter ==
  ASSUME NEW c, NEW r \in Rests(c), Head(r) # "commit"
  PROVE  Tail(r) \in Rests(c) /\ Tail(r) # <<>> /\ Head(Tail(r)) = Following(c, Head(r))
<1> USE DEF Claiming, Settling, OrderOps, Cancelling
<1>1. CASE c.op \in Claiming \/ (c.op = "cancelOpenOrder" /\ kind[c.order] = "BUY_TRIGGER")
  <2>1. CASE r = <<"read", "order", "position", "commit">>
    BY <1>1, <2>1 DEF Rests, Following, SkipsPosition
  <2>2. CASE r = <<"order", "position", "commit">>
    BY <1>1, <2>2 DEF Rests, Following, SkipsPosition
  <2>3. CASE r = <<"position", "commit">>
    BY <1>1, <2>3 DEF Rests, Following, SkipsPosition
  <2>4. CASE r = <<"commit">>
    BY <1>1, <2>4
  <2>. QED
    BY <1>1, <2>1, <2>2, <2>3, <2>4 DEF Rests
<1>2. CASE c.op = "cancelOpenOrder" /\ kind[c.order] # "BUY_TRIGGER"
  <2>1. CASE r = <<"read", "order", "commit">>
    BY <1>2, <2>1 DEF Rests, Following, SkipsPosition
  <2>2. CASE r = <<"order", "commit">>
    BY <1>2, <2>2 DEF Rests, Following, SkipsPosition
  <2>3. CASE r = <<"commit">>
    BY <1>2, <2>3
  <2>. QED
    BY <1>2, <2>1, <2>2, <2>3 DEF Rests
<1>3. CASE c.op = "confirmBuyFill"
  <2>1. CASE r = <<"order", "position", "insert", "commit">>
    BY <1>3, <2>1 DEF Rests, Following, SkipsPosition
  <2>2. CASE r = <<"position", "insert", "commit">>
    BY <1>3, <2>2 DEF Rests, Following, SkipsPosition
  <2>3. CASE r = <<"insert", "commit">>
    BY <1>3, <2>3 DEF Rests, Following, SkipsPosition
  <2>4. CASE r = <<"commit">>
    BY <1>3, <2>4
  <2>. QED
    BY <1>3, <2>1, <2>2, <2>3, <2>4 DEF Rests
<1>4. CASE c.op = "confirmExitFill"
  <2>1. CASE r = <<"order", "position", "exits", "insert", "commit">>
    BY <1>4, <2>1 DEF Rests, Following, SkipsPosition
  <2>2. CASE r = <<"position", "exits", "insert", "commit">>
    BY <1>4, <2>2 DEF Rests, Following, SkipsPosition
  <2>3. CASE r = <<"exits", "insert", "commit">>
    BY <1>4, <2>3 DEF Rests, Following, SkipsPosition
  <2>4. CASE r = <<"insert", "commit">>
    BY <1>4, <2>4 DEF Rests, Following, SkipsPosition
  <2>5. CASE r = <<"commit">>
    BY <1>4, <2>5
  <2>. QED
    BY <1>4, <2>1, <2>2, <2>3, <2>4, <2>5 DEF Rests
<1>5. CASE c.op \in {"userCloseActive", "replaceProtectionOrders"}
  <2>1. CASE r = <<"read", "position", "exits", "insert", "commit">>
    BY <1>5, <2>1 DEF Rests, Following, SkipsPosition
  <2>2. CASE r = <<"position", "exits", "insert", "commit">>
    BY <1>5, <2>2 DEF Rests, Following, SkipsPosition
  <2>3. CASE r = <<"exits", "insert", "commit">>
    BY <1>5, <2>3 DEF Rests, Following, SkipsPosition
  <2>4. CASE r = <<"insert", "commit">>
    BY <1>5, <2>4 DEF Rests, Following, SkipsPosition
  <2>5. CASE r = <<"commit">>
    BY <1>5, <2>5
  <2>. QED
    BY <1>5, <2>1, <2>2, <2>3, <2>4, <2>5 DEF Rests
<1>6. CASE c.op = "placeProtectionOrder"
  <2>1. CASE r = <<"read", "insert", "commit">>
    BY <1>6, <2>1 DEF Rests, Following, SkipsPosition
  <2>2. CASE r = <<"insert", "commit">>
    BY <1>6, <2>2 DEF Rests, Following, SkipsPosition
  <2>3. CASE r = <<"commit">>
    BY <1>6, <2>3
  <2>. QED
    BY <1>6, <2>1, <2>2, <2>3 DEF Rests
<1>. QED
  BY <1>1, <1>2, <1>3, <1>4, <1>5, <1>6 DEF Rests

\* A statement other than the commit moves its session to the next one.
LEMMA AdvanceStep ==
  ASSUME NEW t \in Sessions, PlanOK(t), pc = [u \in Sessions |-> pc[u]],
         pc[t] # <<>>, Step(t) # "commit",
         Advance(t), call' = call, kind' = kind
  PROVE  /\ PlanOK(t)' /\ Step(t)' = Following(call[t], Step(t))
         /\ pc' = [u \in Sessions |-> pc'[u]]
         /\ \A u \in Sessions \ {t} : pc'[u] = pc[u]
<1>1. pc'[t] = Tail(pc[t]) /\ \A u \in Sessions \ {t} : pc'[u] = pc[u]
  BY DEF Advance
<1>2. pc' = [u \in Sessions |-> pc'[u]]
  BY DEF Advance
<1>3. pc[t] \in Rests(call[t]) /\ Head(pc[t]) # "commit" /\ Step(t) = Head(pc[t])
  BY DEF PlanOK, Step
<1>4. /\ Tail(pc[t]) \in Rests(call[t]) /\ Tail(pc[t]) # <<>>
      /\ Head(Tail(pc[t])) = Following(call[t], Head(pc[t]))
  BY <1>3, RestAfter
<1>5. Rests(call[t])' = Rests(call[t])
  BY DEF Rests
<1>. QED
  BY <1>1, <1>2, <1>3, <1>4, <1>5 DEF PlanOK, Step

--------------------------------------------------------------------------------
(* What a session holds.                                                   *)

\* The columns of the sessions are functions, and the writes records.
SessionsTyped ==
  /\ pc = [u \in Sessions |-> pc[u]]
  /\ todo \in [Sessions -> SUBSET Orders]
  /\ DOMAIN call = Sessions
  /\ writes = [t \in Sessions |-> [orders |-> writes[t].orders,
                                   positions |-> writes[t].positions,
                                   trades |-> writes[t].trades]]

\* The arguments of a running call; its order was there when it began.
CallOK(t) ==
  LET c == call[t]
  IN  /\ Step(t) = "idle" => c.op = "none"
      /\ Step(t) # "idle" => c.op \in OrderOps \cup PositionOps
      /\ c.op \in Operations \cup {"none"}
      /\ c.op \in OrderOps => c.order \in Orders /\ status[c.order] # "ABSENT"
      /\ c.op \in PositionOps => c.order = NULL /\ c.position \in Positions
      /\ c.sig # NULL <=> c.op \in Signing
      /\ c.op \in Signing => c.sig \in Signatures
      /\ c.kinds \subseteq ProtectionKinds
      /\ c.kinds # {} <=> c.op \in {"replaceProtectionOrders", "placeProtectionOrder"}
      /\ c.op = "placeProtectionOrder" => \E k \in ProtectionKinds : c.kinds = {k}

\* What its first read has found and nothing undoes.
ReadOK(t) ==
  LET c == call[t]
  IN  Step(t) \notin {"read", "idle"} =>
        /\ c.op \in Claiming \cup {"cancelOpenOrder"} => kind[c.order] \in ExecutableKinds
        /\ c.op = "placeProtectionOrder" => state[c.position] # "ABSENT"

\* The kinds of the exits that a call cancels.
ExitKinds(c) ==
  CASE c.op = "confirmExitFill" -> {SiblingOf(kind[c.order])}
    [] c.op = "userCloseActive" -> ProtectionKinds
    [] OTHER                    -> c.kinds

AfterOrder    == {"position", "exits", "insert", "commit"}
AfterPosition == {"exits", "insert", "commit"}

\* From its order statement to its end t holds the order of its call, which
\* still matches the WHERE clause.
OrderOK(t) ==
  LET c == call[t]
  IN  c.op \in OrderOps =>
        /\ c.order \in DOMAIN writes[t].orders <=> Step(t) \in AfterOrder
        /\ Step(t) \in AfterOrder =>
             /\ OrderMatches(c, Order(c.order))
             /\ writes[t].orders[c.order] = OrderUpdate(c, Order(c.order))

\* The same of the position.
PositionOK(t) ==
  LET c == call[t]
  IN  /\ DOMAIN writes[t].positions =
           IF Step(t) \in AfterPosition /\ ~ SkipsPosition(c) THEN {PositionFor(c)} ELSE {}
      /\ Step(t) \in AfterPosition /\ ~ SkipsPosition(c) =>
           /\ PositionMatches(c, Position(PositionFor(c)))
           /\ writes[t].positions[PositionFor(c)] = PositionUpdate(c, Position(PositionFor(c)))

\* An exit that t has cancelled.
CancelledBy(t, o) ==
  LET c == call[t]
  IN  /\ c.op \in Cancelling
      /\ Step(t) \in {"insert", "commit"}
      /\ kind[o] \in ExitKinds(c)
      /\ positionOf[o] = PositionFor(c)
      /\ status[o] = "OPEN"
      /\ writes[t].orders[o] = [Order(o) EXCEPT !.status = "CANCELLED"]

NewRow(c, k) ==
  OrderRow(k, IF c.op = "userCloseActive" THEN "FILLED" ELSE "OPEN",
           PositionFor(c), IF c.op = "userCloseActive" THEN c.sig ELSE NULL)

Inserting == PositionOps \cup Settling

\* An order of kind k that t has inserted.
InsertedBy(t, o, k) ==
  /\ call[t].op \in Inserting
  /\ Step(t) = "commit"
  /\ k \in InsertedKinds(call[t])
  /\ status[o] = "ABSENT"
  /\ writes[t].orders[o] = NewRow(call[t], k)

\* t has written its order, cancelled exits and, last, its insertions, one of
\* each kind.
RowsOK(t) ==
  LET c == call[t]
  IN  /\ DOMAIN writes[t].orders \subseteq Orders
      /\ \A o \in DOMAIN writes[t].orders :
           \/ c.op \in OrderOps /\ o = c.order
           \/ CancelledBy(t, o)
           \/ \E k \in OrderKinds : InsertedBy(t, o, k)
      /\ Step(t) = "commit" /\ c.op \in Inserting =>
           \A k \in InsertedKinds(c) : \E o \in DOMAIN writes[t].orders : InsertedBy(t, o, k)
      /\ \A o1, o2 \in DOMAIN writes[t].orders : \A k \in OrderKinds :
           InsertedBy(t, o1, k) /\ InsertedBy(t, o2, k) => o1 = o2
      /\ writes[t].trades = IF Step(t) = "commit" THEN InsertedTrades(c) ELSE {}

\* The exits that t still has to cancel.
TodoOK(t) ==
  LET c == call[t]
  IN  \A o \in todo[t] :
        /\ c.op \in Cancelling
        /\ Step(t) = "insert"
        /\ o \notin DOMAIN writes[t].orders
        /\ kind[o] \in ExitKinds(c)
        /\ positionOf[o] = PositionFor(c)
        /\ status[o] # "ABSENT"

HasSigned(t) ==
  \/ call[t].op \in Settling /\ Step(t) \in AfterOrder
  \/ call[t].op = "userCloseActive" /\ Step(t) = "commit"

\* A signature that t has written is not committed.
SignatureOK(t) == HasSigned(t) => ~ SignatureUsed(call[t].sig)

SessionOK(t) ==
  /\ PlanOK(t) /\ CallOK(t) /\ ReadOK(t) /\ OrderOK(t) /\ PositionOK(t)
  /\ RowsOK(t) /\ TodoOK(t) /\ SignatureOK(t)

\* No two sessions hold the same row or the same signature.
LocksExclusive ==
  \A t, u \in Sessions : t # u =>
    /\ DOMAIN writes[t].orders \cap DOMAIN writes[u].orders = {}
    /\ DOMAIN writes[t].positions \cap DOMAIN writes[u].positions = {}
    /\ HasSigned(t) /\ HasSigned(u) => call[t].sig # call[u].sig

SessionInv == SessionsTyped /\ LocksExclusive /\ \A t \in Sessions : SessionOK(t)

\* The invariants of PositionLifecycle that the money is safe by.
TablesOK ==
  /\ TypeOK /\ RowsWellFormed
  /\ EntryOrderTracksPosition /\ ClaimIsExclusive /\ LedgerMatchesPosition
  /\ OneFilledExit /\ SignatureSettlesOneOrder

StatementInv == TablesOK /\ SessionInv

\* Without placeProtectionOrder a position has at most one live exit of each
\* kind, and only once it is bought.
ExitsOK ==
  /\ \A o1, o2 \in Orders :
       /\ status[o1] \in {"OPEN", "PENDING"} /\ status[o2] \in {"OPEN", "PENDING"}
       /\ kind[o1] \in ProtectionKinds /\ kind[o2] = kind[o1]
       /\ positionOf[o1] = positionOf[o2]
       => o1 = o2
  /\ \A o \in Orders : kind[o] \in ProtectionKinds =>
       state[positionOf[o]] \in {"ACTIVE", "CLOSING", "CLOSED"}

\* No exit opens behind the back of a session that has read them.
SweepOK(t) ==
  call[t].op \in Cancelling /\ Step(t) \in {"insert", "commit"} =>
    OpenOrders(PositionFor(call[t]), ExitKinds(call[t]))
      \subseteq todo[t] \cup DOMAIN writes[t].orders

SweepInv == ExitsOK /\ \A t \in Sessions : SweepOK(t)

--------------------------------------------------------------------------------
(* The statements of one session, while nothing is committed.              *)

USE DEF Claiming, Settling, OrderOps, PositionOps, Cancelling, Signing, Inserting,
        AfterOrder, AfterPosition, Order, Position, OrderRow

\* A statement of another session that commits nothing is not seen by t.
LEMMA Unseen ==
  ASSUME NEW t \in Sessions, SessionOK(t), UNCHANGED vars,
         call'[t] = call[t], pc'[t] = pc[t], todo'[t] = todo[t], writes'[t] = writes[t]
  PROVE  SessionOK(t)'
<1> USE DEF vars, proposalVars, positionVars, orderVars, Step
<1>1. PlanOK(t)'
  BY DEF SessionOK, PlanOK, Rests
<1>2. CallOK(t)'
  BY DEF SessionOK, CallOK
<1>3. ReadOK(t)'
  BY DEF SessionOK, ReadOK
<1>4. OrderOK(t)'
  BY DEF SessionOK, OrderOK, OrderMatches, FromStatuses, OrderUpdate
<1>5. PositionOK(t)'
  <2> DEFINE c == call[t]
             p == PositionFor(c)
  <2>1. /\ SkipsPosition(call[t])' <=> SkipsPosition(c)
        /\ PositionFor(call[t])' = p
    BY DEF SkipsPosition, PositionFor
  <2>2. Position(PositionFor(call[t]))' = Position(p)
    BY <2>1
  <2>3. PositionMatches(call[t], Position(PositionFor(call[t])))' <=> PositionMatches(c, Position(p))
    BY <2>2 DEF PositionMatches, FromStates, Before, Pending
  <2>4. PositionUpdate(call[t], Position(PositionFor(call[t])))' = PositionUpdate(c, Position(p))
    BY <2>2 DEF PositionUpdate, Before, Pending, ReasonOf
  <2>. QED
    BY <2>1, <2>3, <2>4 DEF SessionOK, PositionOK
<1>6. RowsOK(t)'
  <2>1. \A o : CancelledBy(t, o)' <=> CancelledBy(t, o)
    BY DEF CancelledBy, ExitKinds, PositionFor, SiblingOf
  <2>2. \A o, k : InsertedBy(t, o, k)' <=> InsertedBy(t, o, k)
    BY DEF InsertedBy, InsertedKinds, PositionFor, NewRow
  <2>3. InsertedTrades(call[t])' = InsertedTrades(call[t])
    BY DEF InsertedTrades, PositionFor, SourceOf
  <2>4. InsertedKinds(call[t])' = InsertedKinds(call[t])
    BY DEF InsertedKinds
  <2>. QED
    BY <2>1, <2>2, <2>3, <2>4 DEF SessionOK, RowsOK
<1>7. TodoOK(t)'
  BY DEF SessionOK, TodoOK, ExitKinds, PositionFor, SiblingOf
<1>8. SignatureOK(t)'
  BY DEF SessionOK, SignatureOK, HasSigned, SignatureUsed
<1>. QED
  BY <1>1, <1>2, <1>3, <1>4, <1>5, <1>6, <1>7, <1>8 DEF SessionOK

\* A session that has read at most its plan holds nothing.
LEMMA EmptyHands ==
  ASSUME NEW t \in Sessions, SessionOK(t), Step(t) \in {"idle", "read", "order"}
  PROVE  /\ DOMAIN writes[t].orders = {} /\ DOMAIN writes[t].positions = {}
         /\ writes[t].trades = {} /\ todo[t] = {} /\ ~ HasSigned(t)
<1>1. ASSUME NEW o \in DOMAIN writes[t].orders PROVE FALSE
  BY DEF SessionOK, RowsOK, OrderOK, CancelledBy, InsertedBy
<1>2. ASSUME NEW o \in todo[t] PROVE FALSE
  BY <1>2 DEF SessionOK, TodoOK
<1>. QED
  BY <1>1, <1>2 DEF SessionOK, RowsOK, PositionOK, HasSigned

\* What a session does before it commits concerns the others only by what it
\* locks.
LEMMA OneMoves ==
  ASSUME StatementInv, NEW t \in Sessions, UNCHANGED vars, SessionsTyped', SessionOK(t)',
         \A u \in Others(t) : /\ call'[u] = call[u] /\ pc'[u] = pc[u]
                              /\ todo'[u] = todo[u] /\ writes'[u] = writes[u],
         \A u \in Others(t) :
           /\ DOMAIN writes'[t].orders \cap DOMAIN writes[u].orders = {}
           /\ DOMAIN writes'[t].positions \cap DOMAIN writes[u].positions = {}
           /\ HasSigned(t)' /\ HasSigned(u) => call'[t].sig # call[u].sig
  PROVE  StatementInv'
<1>1. TablesOK'
  BY DEF StatementInv, TablesOK, vars, proposalVars, positionVars, orderVars, TypeOK,
         RowsWellFormed, EntryOrderTracksPosition, EntryStatus, ClaimIsExclusive, Pending,
         LedgerMatchesPosition, Bought, SoldBy, ReasonOf, OneFilledExit, SignatureSettlesOneOrder
<1>2. \A u \in Sessions : SessionOK(u)'
  BY Unseen DEF StatementInv, SessionInv, Others
<1>3. LocksExclusive'
  <2>1. \A u \in Others(t) : HasSigned(u)' <=> HasSigned(u)
    BY DEF HasSigned, Step
  <2>2. ASSUME NEW u \in Sessions, NEW v \in Sessions, u # v
        PROVE  /\ DOMAIN writes'[u].orders \cap DOMAIN writes'[v].orders = {}
               /\ DOMAIN writes'[u].positions \cap DOMAIN writes'[v].positions = {}
               /\ HasSigned(u)' /\ HasSigned(v)' => call'[u].sig # call'[v].sig
    <3>1. CASE u = t
      BY <2>1, <2>2, <3>1 DEF Others
    <3>2. CASE v = t
      BY <2>1, <2>2, <3>2 DEF Others
    <3>3. CASE u # t /\ v # t
      BY <2>1, <2>2, <3>3 DEF Others, StatementInv, SessionInv, LocksExclusive
    <3>. QED
      BY <3>1, <3>2, <3>3
  <2>. QED
    BY <2>2 DEF LocksExclusive
<1>. QED
  BY <1>1, <1>2, <1>3 DEF StatementInv, SessionInv

\* A call that a session may begin.
LEMMA CallsTyped ==
  ASSUME NEW c \in Calls
  PROVE  /\ c.op \in OrderOps \cup PositionOps
         /\ c.op \in Operations
         /\ c.op \in OrderOps => c.order \in Orders /\ status[c.order] # "ABSENT"
         /\ c.op \in PositionOps => c.order = NULL /\ c.position \in Positions
         /\ c.op \in Signing => c.sig \in Signatures
         /\ c.op \notin Signing => c.sig = NULL
         /\ c.kinds \subseteq ProtectionKinds
         /\ c.kinds # {} <=> c.op \in {"replaceProtectionOrders", "placeProtectionOrder"}
         /\ c.op = "placeProtectionOrder" => \E k \in ProtectionKinds : c.kinds = {k}
<1>1. /\ c.op \in Operations
      /\ \/ \E op \in {"cancelOpenOrder", "claimOrderExecution", "releaseOrderExecutionClaim"},
               o \in Orders \ FreshOrders : c = Call(op, o, NULL, NULL, {})
         \/ \E op \in Settling, o \in Orders \ FreshOrders, s \in Signatures :
               c = Call(op, o, NULL, s, {})
         \/ \E p \in Positions, s \in Signatures : c = Call("userCloseActive", NULL, p, s, {})
         \/ \E p \in Positions, ks \in (SUBSET ProtectionKinds) \ {{}} :
               c = Call("replaceProtectionOrders", NULL, p, NULL, ks)
         \/ \E p \in Positions, k \in ProtectionKinds :
               c = Call("placeProtectionOrder", NULL, p, NULL, {k})
  BY DEF Calls
<1>. QED
  BY <1>1 DEF Call, FreshOrders

\* A session begins with the whole plan before it.
LEMMA PlanRests ==
  ASSUME NEW c \in Calls
  PROVE  /\ Plan(c) \in Rests(c) /\ Plan(c) # <<>>
         /\ Head(Plan(c)) = IF c.op \in Settling THEN "order" ELSE "read"
<1>1. CASE c.op \in Claiming
  <2>1. Plan(c) = <<"read", "order", "position", "commit">>
    BY <1>1 DEF Plan
  <2>2. <<"read", "order", "position", "commit">> \in Rests(c)
    BY <1>1 DEF Rests
  <2>3. /\ <<"read", "order", "position", "commit">> # <<>> /\ Head(<<"read", "order", "position", "commit">>) = "read"
    OBVIOUS
  <2>. QED
    BY <1>1, <2>1, <2>2, <2>3
<1>2. CASE c.op = "cancelOpenOrder" /\ kind[c.order] = "BUY_TRIGGER"
  <2>1. Plan(c) = <<"read", "order", "position", "commit">>
    BY <1>2 DEF Plan
  <2>2. <<"read", "order", "position", "commit">> \in Rests(c)
    BY <1>2 DEF Rests
  <2>3. /\ <<"read", "order", "position", "commit">> # <<>> /\ Head(<<"read", "order", "position", "commit">>) = "read"
    OBVIOUS
  <2>. QED
    BY <1>2, <2>1, <2>2, <2>3
<1>3. CASE c.op = "cancelOpenOrder" /\ kind[c.order] # "BUY_TRIGGER"
  <2>1. Plan(c) = <<"read", "order", "commit">>
    BY <1>3 DEF Plan
  <2>2. <<"read", "order", "commit">> \in Rests(c)
    BY <1>3 DEF Rests
  <2>3. /\ <<"read", "order", "commit">> # <<>> /\ Head(<<"read", "order", "commit">>) = "read"
    OBVIOUS
  <2>. QED
    BY <1>3, <2>1, <2>2, <2>3
<1>4. CASE c.op = "confirmBuyFill"
  <2>1. Plan(c) = <<"order", "position", "insert", "commit">>
    BY <1>4 DEF Plan
  <2>2. <<"order", "position", "insert", "commit">> \in Rests(c)
    BY <1>4 DEF Rests
  <2>3. /\ <<"order", "position", "insert", "commit">> # <<>> /\ Head(<<"order", "position", "insert", "commit">>) = "order"
    OBVIOUS
  <2>. QED
    BY <1>4, <2>1, <2>2, <2>3
<1>5. CASE c.op = "confirmExitFill"
  <2>1. Plan(c) = <<"order", "position", "exits", "insert", "commit">>
    BY <1>5 DEF Plan
  <2>2. <<"order", "position", "exits", "insert", "commit">> \in Rests(c)
    BY <1>5 DEF Rests
  <2>3. /\ <<"order", "position", "exits", "insert", "commit">> # <<>> /\ Head(<<"order", "position", "exits", "insert", "commit">>) = "order"
    OBVIOUS
  <2>. QED
    BY <1>5, <2>1, <2>2, <2>3
<1>6. CASE c.op \in {"userCloseActive", "replaceProtectionOrders"}
  <2>1. Plan(c) = <<"read", "position", "exits", "insert", "commit">>
    BY <1>6 DEF Plan
  <2>2. <<"read", "position", "exits", "insert", "commit">> \in Rests(c)
    BY <1>6 DEF Rests
  <2>3. /\ <<"read", "position", "exits", "insert", "commit">> # <<>> /\ Head(<<"read", "position", "exits", "insert", "commit">>) = "read"
    OBVIOUS
  <2>. QED
    BY <1>6, <2>1, <2>2, <2>3
<1>7. CASE c.op = "placeProtectionOrder"
  <2>1. Plan(c) = <<"read", "insert", "commit">>
    BY <1>7 DEF Plan
  <2>2. <<"read", "insert", "commit">> \in Rests(c)
    BY <1>7 DEF Rests
  <2>3. /\ <<"read", "insert", "commit">> # <<>> /\ Head(<<"read", "insert", "commit">>) = "read"
    OBVIOUS
  <2>. QED
    BY <1>7, <2>1, <2>2, <2>3
<1>. QED
  BY CallsTyped, <1>1, <1>2, <1>3, <1>4, <1>5, <1>6, <1>7

\* A session that begins a call holds nothing yet.
LEMMA BeginKeeps == ASSUME StatementInv, NEW t \in Sessions, Begin(t) PROVE StatementInv'
<1> USE DEF vars, proposalVars, positionVars, orderVars
<1>0. SessionsTyped /\ SessionOK(t) /\ Step(t) = "idle"
  BY DEF StatementInv, SessionInv, Begin, Step
<1>1. PICK c \in Calls : /\ call' = [call EXCEPT ![t] = c]
                         /\ pc' = [pc EXCEPT ![t] = Plan(c)]
                         /\ UNCHANGED <<vars, todo, writes>>
  BY DEF Begin
<1>2. /\ call'[t] = c /\ pc'[t] = Plan(c)
      /\ \A u \in Others(t) : call'[u] = call[u] /\ pc'[u] = pc[u]
      /\ SessionsTyped'
  BY <1>0, <1>1 DEF SessionsTyped, Others
<1>3. Step(t)' = IF c.op \in Settling THEN "order" ELSE "read"
  BY <1>2, PlanRests DEF Step
<1>4. /\ DOMAIN writes'[t].orders = {} /\ DOMAIN writes'[t].positions = {}
      /\ writes'[t].trades = {} /\ todo'[t] = {}
  BY <1>0, <1>1, EmptyHands
<1>5. PlanOK(t)'
  <2>1. Rests(c)' = Rests(c)
    BY <1>1 DEF Rests
  <2>. QED
    BY <1>2, <2>1, PlanRests DEF PlanOK
<1>6. CallOK(t)'
  BY <1>1, <1>2, <1>3, CallsTyped DEF CallOK
<1>7. ReadOK(t)'
  BY <1>2, <1>3 DEF ReadOK
<1>8. OrderOK(t)' /\ PositionOK(t)' /\ TodoOK(t)' /\ SignatureOK(t)' /\ ~ HasSigned(t)'
  BY <1>3, <1>4 DEF OrderOK, PositionOK, TodoOK, SignatureOK, HasSigned
<1>9. RowsOK(t)'
  BY <1>3, <1>4 DEF RowsOK
<1>. QED
  BY <1>1, <1>2, <1>4, <1>5, <1>6, <1>7, <1>8, <1>9, OneMoves DEF SessionOK, Others

\* The end of a transaction leaves a session with nothing.
LEMMA FinishClears ==
  ASSUME SessionsTyped, NEW t \in Sessions, Finish(t)
  PROVE  /\ SessionsTyped'
         /\ call'[t] = NoCall /\ Step(t)' = "idle" /\ todo'[t] = {} /\ writes'[t] = NoWrites
         /\ PlanOK(t)' /\ CallOK(t)' /\ ReadOK(t)' /\ OrderOK(t)' /\ PositionOK(t)'
         /\ RowsOK(t)' /\ TodoOK(t)' /\ SignatureOK(t)' /\ ~ HasSigned(t)'
         /\ \A u \in Others(t) : /\ call'[u] = call[u] /\ pc'[u] = pc[u]
                                 /\ todo'[u] = todo[u] /\ writes'[u] = writes[u]
<1>1. /\ call'[t] = NoCall /\ pc'[t] = <<>> /\ todo'[t] = {} /\ writes'[t] = NoWrites
      /\ SessionsTyped'
      /\ \A u \in Others(t) : /\ call'[u] = call[u] /\ pc'[u] = pc[u]
                              /\ todo'[u] = todo[u] /\ writes'[u] = writes[u]
  BY DEF Finish, SessionsTyped, NoWrites, Others
<1>2. Step(t)' = "idle" /\ PlanOK(t)'
  BY <1>1 DEF Step, PlanOK
<1>3. DOMAIN writes'[t].orders = {} /\ DOMAIN writes'[t].positions = {} /\ writes'[t].trades = {}
  BY <1>1 DEF NoWrites
<1>4. CallOK(t)' /\ ReadOK(t)'
  BY <1>1, <1>2 DEF CallOK, ReadOK, NoCall, Call
<1>5. OrderOK(t)' /\ PositionOK(t)' /\ TodoOK(t)' /\ SignatureOK(t)' /\ ~ HasSigned(t)'
  BY <1>1, <1>2, <1>3 DEF OrderOK, PositionOK, TodoOK, SignatureOK, HasSigned
<1>6. RowsOK(t)'
  BY <1>2, <1>3 DEF RowsOK
<1>. QED
  BY <1>1, <1>2, <1>4, <1>5, <1>6

\* A rollback gives up what the session holds, and nothing else.
LEMMA RollbackKeeps == ASSUME StatementInv, NEW t \in Sessions, Rollback(t) PROVE StatementInv'
<1>1. SessionsTyped /\ Finish(t) /\ UNCHANGED vars
  BY DEF StatementInv, SessionInv, Rollback
<1>2. DOMAIN writes'[t].orders = {} /\ DOMAIN writes'[t].positions = {}
  BY <1>1, FinishClears DEF NoWrites
<1>. QED
  BY <1>1, <1>2, FinishClears, OneMoves DEF SessionOK

\* What findUnique returns of an order (its kind, its position) never changes,
\* and a read takes no lock.
LEMMA ReadKeeps == ASSUME StatementInv, NEW t \in Sessions, Read(t) PROVE StatementInv'
<1> USE DEF vars, proposalVars, positionVars, orderVars
<1> DEFINE c == call[t]
<1>0. SessionsTyped /\ SessionOK(t) /\ Step(t) = "read" /\ pc[t] # <<>>
  BY DEF StatementInv, SessionInv, Read, At, Step
<1>1. ReadPasses(c) /\ Advance(t) /\ UNCHANGED <<vars, call, todo, writes>>
  BY DEF Read
<1>2. /\ PlanOK(t)' /\ Step(t)' = Following(c, "read") /\ SessionsTyped'
      /\ \A u \in Others(t) : pc'[u] = pc[u]
  BY <1>0, <1>1, AdvanceStep DEF SessionOK, SessionsTyped, Others
<1>3. /\ c.op \in OrderOps \cup PositionOps /\ c.op \notin Settling
      /\ Step(t)' = IF c.op \in OrderOps THEN "order"
                    ELSE IF c.op = "placeProtectionOrder" THEN "insert" ELSE "position"
  <2>1. c.op \in OrderOps \cup PositionOps
    BY <1>0 DEF SessionOK, CallOK
  <2>2. ASSUME c.op \in Settling PROVE FALSE
    BY <1>0, <2>2 DEF SessionOK, PlanOK, Rests, Step
  <2>. QED
    BY <1>2, <2>1, <2>2 DEF Following
<1>4. /\ DOMAIN writes[t].orders = {} /\ DOMAIN writes[t].positions = {}
      /\ writes[t].trades = {} /\ todo[t] = {}
  BY <1>0, EmptyHands
<1>5. CallOK(t)'
  BY <1>0, <1>1, <1>3 DEF SessionOK, CallOK
<1>6. ReadOK(t)'
  BY <1>1, <1>3 DEF ReadOK, ReadPasses
<1>7. OrderOK(t)' /\ PositionOK(t)' /\ TodoOK(t)' /\ SignatureOK(t)' /\ ~ HasSigned(t)'
  BY <1>1, <1>3, <1>4 DEF OrderOK, PositionOK, TodoOK, SignatureOK, HasSigned, SkipsPosition
<1>8. RowsOK(t)'
  BY <1>1, <1>3, <1>4 DEF RowsOK
<1>. QED
  BY <1>1, <1>2, <1>4, <1>5, <1>6, <1>7, <1>8, OneMoves DEF SessionOK, Others

\* Who has signed holds a row with the signature, which others wait for.
LEMMA SignedHolds ==
  ASSUME NEW u \in Sessions, SessionOK(u), HasSigned(u)
  PROVE  SignatureHeldBy(u, call[u].sig)
<1> DEFINE c == call[u]
<1>1. CASE c.op \in Settling /\ Step(u) \in AfterOrder
  <2>1. /\ c.order \in DOMAIN writes[u].orders
        /\ writes[u].orders[c.order] = OrderUpdate(c, Order(c.order))
    BY <1>1 DEF SessionOK, OrderOK
  <2>2. OrderUpdate(c, Order(c.order)).txSignature = c.sig
    BY <1>1 DEF OrderUpdate
  <2>. QED
    BY <2>1, <2>2 DEF SignatureHeldBy
<1>2. CASE c.op = "userCloseActive" /\ Step(u) = "commit"
  <2>1. PICK o \in DOMAIN writes[u].orders : InsertedBy(u, o, "CLOSE_SWAP")
    BY <1>2 DEF SessionOK, RowsOK, InsertedKinds
  <2>. QED
    BY <1>2, <2>1 DEF InsertedBy, NewRow, SignatureHeldBy
<1>. QED
  BY <1>1, <1>2 DEF HasSigned

\* The UPDATE of an order takes its row, and its signature, from every other
\* session.
LEMMA UpdateOrderKeeps ==
  ASSUME StatementInv, NEW t \in Sessions, UpdateOrder(t) PROVE StatementInv'
<1> USE DEF vars, proposalVars, positionVars, orderVars
<1> DEFINE c   == call[t]
           row == Order(c.order)
<1>0. SessionsTyped /\ SessionOK(t) /\ Step(t) = "order" /\ pc[t] # <<>>
  BY DEF StatementInv, SessionInv, UpdateOrder, At, Step
<1>1. /\ OrderMatches(c, row) /\ Advance(t) /\ UNCHANGED <<vars, call, todo>>
      /\ c.sig # NULL => ~ SignatureUsed(c.sig)
      /\ writes' = [writes EXCEPT ![t].orders = With(@, [o \in {c.order} |-> OrderUpdate(c, row)])]
      /\ \A u \in Others(t) : ~ WaitsFor(t, u)
  BY DEF UpdateOrder
<1>2. /\ PlanOK(t)' /\ Step(t)' = Following(c, "order")
      /\ pc' = [u \in Sessions |-> pc'[u]]
      /\ \A u \in Others(t) : pc'[u] = pc[u]
  BY <1>0, <1>1, AdvanceStep DEF SessionOK, SessionsTyped, Others
<1>3. c.op \in OrderOps /\ c.order \in Orders /\ status[c.order] # "ABSENT"
  <2>1. c.op \in OrderOps
    BY <1>0 DEF SessionOK, CallOK, PlanOK, Rests, Step
  <2>. QED
    BY <1>0, <2>1 DEF SessionOK, CallOK
<1>4. Step(t)' = IF SkipsPosition(c) THEN "commit" ELSE "position"
  BY <1>2 DEF Following
<1>5. /\ DOMAIN writes[t].orders = {} /\ DOMAIN writes[t].positions = {}
      /\ writes[t].trades = {} /\ todo[t] = {}
  BY <1>0, EmptyHands
<1>6. /\ writes'[t].orders = [o \in {c.order} |-> OrderUpdate(c, row)]
      /\ writes'[t].positions = writes[t].positions /\ writes'[t].trades = writes[t].trades
      /\ \A u \in Others(t) : writes'[u] = writes[u]
      /\ SessionsTyped'
  <2>1. /\ writes'[t].orders = With(writes[t].orders, [o \in {c.order} |-> OrderUpdate(c, row)])
        /\ writes'[t].positions = writes[t].positions /\ writes'[t].trades = writes[t].trades
        /\ \A u \in Others(t) : writes'[u] = writes[u]
        /\ writes' = [u \in Sessions |-> writes'[u]]
    BY <1>0, <1>1 DEF SessionsTyped, Others
  <2>2. With(writes[t].orders, [o \in {c.order} |-> OrderUpdate(c, row)])
          = [o \in {c.order} |-> OrderUpdate(c, row)]
    BY <1>5 DEF With
  <2>3. ASSUME NEW u \in Sessions
        PROVE  writes'[u] = [orders |-> writes'[u].orders, positions |-> writes'[u].positions,
                             trades |-> writes'[u].trades]
    <3>1. writes[u] = [orders |-> writes[u].orders, positions |-> writes[u].positions,
                       trades |-> writes[u].trades]
      BY <1>0 DEF SessionsTyped
    <3>2. CASE u = t
      BY <1>1, <3>1, <3>2
    <3>. QED
      BY <2>1, <3>1, <3>2 DEF Others
  <2>. QED
    BY <1>0, <1>1, <1>2, <2>1, <2>2, <2>3 DEF SessionsTyped
<1>7. CallOK(t)' /\ ReadOK(t)'
  <2>1. c.op \in Claiming \cup {"cancelOpenOrder"} => kind[c.order] \in ExecutableKinds
    BY <1>0 DEF SessionOK, ReadOK
  <2>. QED
    BY <1>0, <1>1, <1>3, <1>4, <2>1 DEF SessionOK, CallOK, ReadOK
<1>8. OrderOK(t)'
  <2>1. c.order \in DOMAIN writes'[t].orders /\ writes'[t].orders[c.order] = OrderUpdate(c, row)
    BY <1>6
  <2>2. OrderUpdate(c, row) = OrderUpdate(call[t], Order(call[t].order))'
    BY <1>1 DEF OrderUpdate
  <2>3. OrderMatches(call[t], Order(call[t].order))'
    BY <1>1 DEF OrderMatches, FromStatuses
  <2>. QED
    BY <1>1, <1>4, <2>1, <2>2, <2>3 DEF OrderOK
<1>9. PositionOK(t)' /\ TodoOK(t)' /\ SignatureOK(t)'
  BY <1>1, <1>3, <1>4, <1>5, <1>6, <1>0
  DEF PositionOK, TodoOK, SignatureOK, HasSigned, SkipsPosition, SignatureUsed, SessionOK, CallOK
<1>10. RowsOK(t)'
  <2>1. DOMAIN writes'[t].orders = {c.order} /\ writes'[t].trades = {}
    BY <1>5, <1>6
  <2>2. ASSUME NEW o \in {c.order}, NEW k PROVE ~ InsertedBy(t, o, k)'
    BY <1>1, <1>3 DEF InsertedBy
  <2>3. Step(t)' = "commit" => c.op = "cancelOpenOrder" /\ InsertedTrades(call[t])' = {}
    BY <1>1, <1>3, <1>4 DEF SkipsPosition, InsertedTrades
  <2>. QED
    BY <1>1, <1>3, <2>1, <2>2, <2>3 DEF RowsOK
<1>11. ASSUME NEW u \in Others(t)
       PROVE  /\ DOMAIN writes'[t].orders \cap DOMAIN writes[u].orders = {}
              /\ DOMAIN writes'[t].positions \cap DOMAIN writes[u].positions = {}
              /\ HasSigned(t)' /\ HasSigned(u) => call'[t].sig # call[u].sig
  <2>1. ~ OrderHeldBy(u, c.order) /\ ~ (c.sig # NULL /\ SignatureHeldBy(u, c.sig))
    BY <1>1, <1>0, <1>11 DEF WaitsFor, Others, UpdateOrder
  <2>2. HasSigned(u) => SignatureHeldBy(u, call[u].sig)
    BY SignedHolds DEF StatementInv, SessionInv, Others
  <2>3. HasSigned(t)' => c.sig # NULL
    BY <1>0, <1>1 DEF HasSigned, SessionOK, CallOK
  <2>. QED
    BY <1>1, <1>5, <1>6, <2>1, <2>2, <2>3 DEF OrderHeldBy
<1>. QED
  BY <1>1, <1>2, <1>6, <1>7, <1>8, <1>9, <1>10, <1>11, OneMoves DEF SessionOK, Others

\* The UPDATE of a position takes its row from every other session.
LEMMA UpdatePositionKeeps ==
  ASSUME StatementInv, NEW t \in Sessions, UpdatePosition(t) PROVE StatementInv'
<1> USE DEF vars, proposalVars, positionVars, orderVars
<1> DEFINE c == call[t]
           p == PositionFor(c)
<1>0. SessionsTyped /\ SessionOK(t) /\ Step(t) = "position" /\ pc[t] # <<>>
  BY DEF StatementInv, SessionInv, UpdatePosition, At, Step
<1>1. /\ PositionMatches(c, Position(p)) /\ Advance(t) /\ UNCHANGED <<vars, call, todo>>
      /\ writes' = [writes EXCEPT ![t].positions =
                      With(@, [q \in {p} |-> PositionUpdate(c, Position(p))])]
      /\ \A u \in Others(t) : ~ WaitsFor(t, u)
  BY DEF UpdatePosition
<1>2. /\ PlanOK(t)' /\ Step(t)' = Following(c, "position")
      /\ pc' = [u \in Sessions |-> pc'[u]]
      /\ \A u \in Others(t) : pc'[u] = pc[u]
  BY <1>0, <1>1, AdvanceStep DEF SessionOK, SessionsTyped, Others
<1>3. c.op \in OrderOps \cup PositionOps /\ ~ SkipsPosition(c)
  BY <1>0 DEF SessionOK, CallOK, PlanOK, Rests, Step, SkipsPosition
<1>4. Step(t)' = IF c.op \in Cancelling THEN "exits"
                 ELSE IF c.op = "confirmBuyFill" THEN "insert" ELSE "commit"
  BY <1>2 DEF Following
<1>5. /\ DOMAIN writes[t].positions = {} /\ writes[t].trades = {} /\ todo[t] = {}
      /\ \A o \in DOMAIN writes[t].orders : c.op \in OrderOps /\ o = c.order
  BY <1>0 DEF SessionOK, PositionOK, RowsOK, TodoOK, CancelledBy, InsertedBy
<1>6. /\ writes'[t].positions = [q \in {p} |-> PositionUpdate(c, Position(p))]
      /\ writes'[t].orders = writes[t].orders /\ writes'[t].trades = writes[t].trades
      /\ \A u \in Others(t) : writes'[u] = writes[u]
      /\ SessionsTyped'
  <2>1. /\ writes'[t].positions = With(writes[t].positions, [q \in {p} |-> PositionUpdate(c, Position(p))])
        /\ writes'[t].orders = writes[t].orders /\ writes'[t].trades = writes[t].trades
        /\ \A u \in Others(t) : writes'[u] = writes[u]
        /\ writes' = [u \in Sessions |-> [orders |-> writes'[u].orders,
                                          positions |-> writes'[u].positions,
                                          trades |-> writes'[u].trades]]
    BY <1>0, <1>1 DEF SessionsTyped, Others
  <2>2. With(writes[t].positions, [q \in {p} |-> PositionUpdate(c, Position(p))])
          = [q \in {p} |-> PositionUpdate(c, Position(p))]
    BY <1>5 DEF With
  <2>. QED
    BY <1>0, <1>1, <1>2, <2>1, <2>2 DEF SessionsTyped
<1>7. CallOK(t)' /\ ReadOK(t)'
  BY <1>0, <1>1, <1>4 DEF SessionOK, CallOK, ReadOK
<1>8. OrderOK(t)'
  BY <1>0, <1>1, <1>4, <1>6 DEF SessionOK, OrderOK, OrderMatches, FromStatuses, OrderUpdate
<1>9. PositionOK(t)'
  <2>1. PositionFor(call[t])' = p /\ SkipsPosition(call[t])' = SkipsPosition(c)
    BY <1>1 DEF PositionFor, SkipsPosition
  <2>2. PositionMatches(call[t], Position(PositionFor(call[t])))'
    BY <1>1 DEF PositionMatches, FromStates, PositionFor, Before, Pending
  <2>3. PositionUpdate(call[t], Position(PositionFor(call[t])))' = PositionUpdate(c, Position(p))
    BY <1>1 DEF PositionUpdate, PositionFor, Before, Pending, ReasonOf
  <2>. QED
    BY <1>3, <1>4, <1>6, <2>1, <2>2, <2>3 DEF PositionOK
<1>10. TodoOK(t)' /\ SignatureOK(t)'
  BY <1>0, <1>1, <1>4, <1>5 DEF TodoOK, SignatureOK, HasSigned, SignatureUsed, SessionOK
<1>11. RowsOK(t)'
  <2>1. ASSUME NEW o \in DOMAIN writes[t].orders, NEW k PROVE ~ InsertedBy(t, o, k)'
    BY <1>0, <1>1, <1>5, <2>1 DEF InsertedBy, SessionOK, CallOK
  <2>2. Step(t)' = "commit" => c.op \notin Inserting /\ InsertedTrades(call[t])' = {}
    BY <1>1, <1>3, <1>4 DEF SkipsPosition, InsertedTrades
  <2>. QED
    BY <1>0, <1>1, <1>5, <1>6, <2>1, <2>2 DEF RowsOK, SessionOK
<1>12. ASSUME NEW u \in Others(t)
       PROVE  /\ DOMAIN writes'[t].orders \cap DOMAIN writes[u].orders = {}
              /\ DOMAIN writes'[t].positions \cap DOMAIN writes[u].positions = {}
              /\ HasSigned(t)' /\ HasSigned(u) => call'[t].sig # call[u].sig
  <2>1. ~ PositionHeldBy(u, p)
    BY <1>1, <1>12, <1>0 DEF WaitsFor, Others, UpdatePosition
  <2>2. HasSigned(t)' => HasSigned(t)
    BY <1>0, <1>1, <1>4 DEF HasSigned
  <2>. QED
    BY <1>1, <1>6, <2>1, <2>2 DEF PositionHeldBy, Others, StatementInv, SessionInv, LocksExclusive
<1>. QED
  BY <1>1, <1>2, <1>6, <1>7, <1>8, <1>9, <1>10, <1>11, <1>12, OneMoves DEF SessionOK, Others

\* findMany reads the exits that the call is to cancel.
LEMMA ReadExitsKeeps ==
  ASSUME StatementInv, NEW t \in Sessions, ReadExits(t) PROVE StatementInv'
<1> USE DEF vars, proposalVars, positionVars, orderVars
<1> DEFINE c == call[t]
<1>0. SessionsTyped /\ SessionOK(t) /\ Step(t) = "exits" /\ pc[t] # <<>>
  BY DEF StatementInv, SessionInv, ReadExits, At, Step
<1>1. c.op \in Cancelling /\ ~ SkipsPosition(c)
  BY <1>0 DEF SessionOK, CallOK, PlanOK, Rests, Step, SkipsPosition
<1>2. /\ \E S \in SUBSET OpenOrders(PositionFor(c), ExitKinds(c)) : todo' = [todo EXCEPT ![t] = S]
      /\ Advance(t) /\ UNCHANGED <<vars, call, writes>>
  BY <1>1 DEF ReadExits, ExitKinds
<1>3. /\ todo'[t] \subseteq OpenOrders(PositionFor(c), ExitKinds(c))
      /\ todo' \in [Sessions -> SUBSET Orders]
      /\ \A u \in Others(t) : todo'[u] = todo[u]
  BY <1>0, <1>2 DEF SessionsTyped, OpenOrders, Others
<1>4. /\ PlanOK(t)' /\ Step(t)' = "insert"
      /\ pc' = [u \in Sessions |-> pc'[u]]
      /\ \A u \in Others(t) : pc'[u] = pc[u]
  BY <1>0, <1>2, AdvanceStep DEF SessionOK, SessionsTyped, Others, Following
<1>5. SessionsTyped'
  BY <1>0, <1>2, <1>3, <1>4 DEF SessionsTyped
<1>6. /\ \A o \in DOMAIN writes[t].orders : c.op \in OrderOps /\ o = c.order
      /\ writes[t].trades = {}
  BY <1>0 DEF SessionOK, RowsOK, CancelledBy, InsertedBy
<1>7. CallOK(t)' /\ ReadOK(t)'
  BY <1>0, <1>2, <1>4 DEF SessionOK, CallOK, ReadOK
<1>8. OrderOK(t)'
  BY <1>0, <1>2, <1>4 DEF SessionOK, OrderOK, OrderMatches, FromStatuses, OrderUpdate
<1>9. PositionOK(t)'
  BY <1>0, <1>2, <1>4
  DEF SessionOK, PositionOK, SkipsPosition, PositionFor, PositionMatches, FromStates,
      PositionUpdate, Before, Pending, ReasonOf
<1>10. TodoOK(t)'
  <2>1. PositionFor(call[t])' = PositionFor(c) /\ ExitKinds(call[t])' = ExitKinds(c)
    BY <1>2 DEF PositionFor, ExitKinds, SiblingOf
  <2>2. ASSUME NEW o \in todo'[t]
        PROVE  /\ kind[o] \in ExitKinds(c) /\ positionOf[o] = PositionFor(c)
               /\ status[o] # "ABSENT"
    BY <1>3, <2>2 DEF OpenOrders
  <2>3. ASSUME NEW o \in todo'[t], o \in DOMAIN writes[t].orders PROVE FALSE
    <3>1. c.op = "confirmExitFill" /\ o = c.order
      BY <1>1, <1>6, <2>3
    <3>2. kind[o] \in ProtectionKinds /\ kind[o] \in {SiblingOf(kind[o])}
      BY <1>0, <2>2, <2>3, <3>1 DEF SessionOK, OrderOK, OrderMatches, ExitKinds
    <3>. QED
      BY <3>2 DEF SiblingOf
  <2>. QED
    BY <1>1, <1>2, <1>4, <2>1, <2>2, <2>3 DEF TodoOK
<1>11. SignatureOK(t)' /\ (HasSigned(t)' => HasSigned(t))
  BY <1>0, <1>2, <1>4 DEF SignatureOK, HasSigned, SignatureUsed, SessionOK
<1>12. RowsOK(t)'
  <2>1. ASSUME NEW o, NEW k PROVE ~ InsertedBy(t, o, k)'
    BY <1>4 DEF InsertedBy
  <2>. QED
    BY <1>0, <1>2, <1>4, <1>6, <2>1 DEF RowsOK, SessionOK
<1>13. ASSUME NEW u \in Others(t)
       PROVE  /\ DOMAIN writes'[t].orders \cap DOMAIN writes[u].orders = {}
              /\ DOMAIN writes'[t].positions \cap DOMAIN writes[u].positions = {}
              /\ HasSigned(t)' /\ HasSigned(u) => call'[t].sig # call[u].sig
  BY <1>2, <1>11 DEF Others, StatementInv, SessionInv, LocksExclusive
<1>. QED
  BY <1>2, <1>3, <1>4, <1>5, <1>7, <1>8, <1>9, <1>10, <1>11, <1>12, <1>13, OneMoves
  DEF SessionOK, Others

\* The UPDATE of one exit, which skips an exit that is no longer OPEN.
LEMMA CancelExitKeeps ==
  ASSUME StatementInv, NEW t \in Sessions, NEW o \in Orders, CancelExit(t, o)
  PROVE  StatementInv'
<1> USE DEF vars, proposalVars, positionVars, orderVars
<1> DEFINE c == call[t]
<1>0. SessionsTyped /\ SessionOK(t) /\ Step(t) = "insert" /\ pc[t] # <<>>
  BY DEF StatementInv, SessionInv, CancelExit, At, Step
<1>1. /\ o \in todo[t] /\ UNCHANGED <<vars, call, pc>>
      /\ todo' = [todo EXCEPT ![t] = @ \ {o}]
      /\ status[o] = "OPEN" =>
           /\ \A u \in Others(t) : ~ OrderHeldBy(u, o)
           /\ writes' = [writes EXCEPT ![t].orders =
                           With(@, [x \in {o} |-> [Order(o) EXCEPT !.status = "CANCELLED"]])]
      /\ status[o] # "OPEN" => writes' = writes
  BY DEF CancelExit
<1>2. /\ c.op \in Cancelling /\ o \notin DOMAIN writes[t].orders
      /\ kind[o] \in ExitKinds(c) /\ positionOf[o] = PositionFor(c)
  BY <1>0, <1>1 DEF SessionOK, TodoOK
<1>3. /\ todo'[t] = todo[t] \ {o} /\ todo' \in [Sessions -> SUBSET Orders]
      /\ \A u \in Others(t) : todo'[u] = todo[u]
  BY <1>0, <1>1 DEF SessionsTyped, Others
<1>4. Step(t)' = "insert" /\ (HasSigned(t)' => HasSigned(t))
  BY <1>0, <1>1 DEF Step, HasSigned
<1>5. /\ writes'[t].positions = writes[t].positions /\ writes'[t].trades = writes[t].trades
      /\ \A u \in Others(t) : writes'[u] = writes[u]
      /\ SessionsTyped'
      /\ status[o] = "OPEN" => writes'[t].orders =
           With(writes[t].orders, [x \in {o} |-> [Order(o) EXCEPT !.status = "CANCELLED"]])
  BY <1>0, <1>1, <1>3, SMTT(25) DEF SessionsTyped, Others
<1>6. /\ DOMAIN writes'[t].orders = DOMAIN writes[t].orders \cup
                                      (IF status[o] = "OPEN" THEN {o} ELSE {})
      /\ \A x \in DOMAIN writes[t].orders : writes'[t].orders[x] = writes[t].orders[x]
      /\ status[o] = "OPEN" => writes'[t].orders[o] = [Order(o) EXCEPT !.status = "CANCELLED"]
  BY <1>1, <1>2, <1>5 DEF With
<1>7. PlanOK(t)' /\ CallOK(t)' /\ ReadOK(t)'
  BY <1>0, <1>1, <1>4 DEF SessionOK, PlanOK, Rests, CallOK, ReadOK
<1>8. OrderOK(t)'
  <2>1. c.op \in OrderOps => c.order \in DOMAIN writes[t].orders
    BY <1>0 DEF SessionOK, OrderOK
  <2>. QED
    BY <1>0, <1>1, <1>4, <1>6, <2>1 DEF SessionOK, OrderOK, OrderMatches, FromStatuses, OrderUpdate
<1>9. PositionOK(t)'
  BY <1>0, <1>1, <1>4, <1>5
  DEF SessionOK, PositionOK, SkipsPosition, PositionFor, PositionMatches, FromStates,
      PositionUpdate, Before, Pending, ReasonOf
<1>10. TodoOK(t)'
  <2>1. PositionFor(call[t])' = PositionFor(c) /\ ExitKinds(call[t])' = ExitKinds(c)
    BY <1>1 DEF PositionFor, ExitKinds, SiblingOf
  <2>2. ASSUME NEW x \in todo'[t]
        PROVE  /\ x \notin DOMAIN writes'[t].orders
               /\ kind[x] \in ExitKinds(c) /\ positionOf[x] = PositionFor(c)
               /\ status[x] # "ABSENT"
    BY <1>0, <1>3, <1>6, <2>2 DEF SessionOK, TodoOK
  <2>. QED
    BY <1>1, <1>2, <1>4, <2>1, <2>2 DEF TodoOK
<1>11. SignatureOK(t)'
  BY <1>0, <1>1, <1>4 DEF SignatureOK, SignatureUsed, SessionOK
<1>12. RowsOK(t)'
  <2>1. ASSUME NEW x, NEW k PROVE ~ InsertedBy(t, x, k) /\ ~ InsertedBy(t, x, k)'
    BY <1>0, <1>4 DEF InsertedBy
  <2>2. ASSUME NEW x \in DOMAIN writes[t].orders, CancelledBy(t, x) PROVE CancelledBy(t, x)'
    BY <1>1, <1>4, <1>6, <2>2 DEF CancelledBy, PositionFor, ExitKinds, SiblingOf
  <2>3. ASSUME status[o] = "OPEN" PROVE CancelledBy(t, o)'
    BY <1>1, <1>2, <1>4, <1>6, <2>3 DEF CancelledBy, PositionFor, ExitKinds, SiblingOf
  <2>4. ASSUME NEW x \in DOMAIN writes[t].orders
        PROVE  (c.op \in OrderOps /\ x = c.order) \/ CancelledBy(t, x)
    BY <1>0, <2>1 DEF RowsOK, SessionOK
  <2>5. DOMAIN writes'[t].orders \subseteq Orders /\ writes'[t].trades = {}
    BY <1>0, <1>5, <1>6 DEF RowsOK, SessionOK
  <2>. QED
    BY <1>1, <1>4, <1>6, <2>1, <2>2, <2>3, <2>4, <2>5 DEF RowsOK
<1>13. ASSUME NEW u \in Others(t)
       PROVE  /\ DOMAIN writes'[t].orders \cap DOMAIN writes[u].orders = {}
              /\ DOMAIN writes'[t].positions \cap DOMAIN writes[u].positions = {}
              /\ HasSigned(t)' /\ HasSigned(u) => call'[t].sig # call[u].sig
  BY <1>1, <1>4, <1>5, <1>6 DEF OrderHeldBy, Others, StatementInv, SessionInv, LocksExclusive
<1>. QED
  BY <1>1, <1>3, <1>5, <1>7, <1>8, <1>9, <1>10, <1>11, <1>12, <1>13, OneMoves
  DEF SessionOK, Others

\* The INSERTs take fresh rows, and a close takes its signature.
LEMMA InsertKeeps ==
  ASSUME StatementInv, NEW t \in Sessions, Insert(t) PROVE StatementInv'
<1> USE DEF vars, proposalVars, positionVars, orderVars
<1> DEFINE c     == call[t]
           kinds == InsertedKinds(c)
           close == c.op = "userCloseActive"
<1>0. SessionsTyped /\ SessionOK(t) /\ Step(t) = "insert" /\ pc[t] # <<>>
  BY DEF StatementInv, SessionInv, Insert, At, Step
<1>1. c.op \in Inserting /\ kinds \subseteq OrderKinds
  BY <1>0 DEF SessionOK, CallOK, PlanOK, Rests, Step, InsertedKinds
<1>2. /\ Advance(t) /\ UNCHANGED <<vars, call, todo>> /\ todo[t] = {}
      /\ close => ~ SignatureUsed(c.sig) /\ \A u \in Others(t) : ~ WaitsFor(t, u)
  BY DEF Insert
<1>3. PICK id \in [kinds -> Unwritten] :
        /\ \A j, k \in kinds : id[j] = id[k] => j = k
        /\ writes' = [writes EXCEPT
             ![t].orders = With(@, [o \in {id[k] : k \in kinds} |->
                                      OrderRow(CHOOSE k \in kinds : id[k] = o,
                                               IF close THEN "FILLED" ELSE "OPEN",
                                               PositionFor(c),
                                               IF close THEN c.sig ELSE NULL)]),
             ![t].trades = InsertedTrades(c)]
  BY DEF Insert
<1> DEFINE new == [o \in {id[k] : k \in kinds} |->
                     OrderRow(CHOOSE k \in kinds : id[k] = o,
                              IF close THEN "FILLED" ELSE "OPEN",
                              PositionFor(c),
                              IF close THEN c.sig ELSE NULL)]
<1>4. /\ PlanOK(t)' /\ Step(t)' = "commit"
      /\ pc' = [u \in Sessions |-> pc'[u]]
      /\ \A u \in Others(t) : pc'[u] = pc[u]
  BY <1>0, <1>2, AdvanceStep DEF SessionOK, SessionsTyped, Others, Following
<1>5. ASSUME NEW k \in kinds PROVE new[id[k]] = NewRow(c, k)
  <2>1. (CHOOSE j \in kinds : id[j] = id[k]) = k
    BY <1>3
  <2>. QED
    BY <2>1 DEF NewRow
<1>6. /\ writes'[t].orders = With(writes[t].orders, new)
      /\ writes'[t].positions = writes[t].positions /\ writes'[t].trades = InsertedTrades(c)
      /\ \A u \in Others(t) : writes'[u] = writes[u]
      /\ writes' = [u \in Sessions |-> [orders |-> writes'[u].orders,
                                        positions |-> writes'[u].positions,
                                        trades |-> writes'[u].trades]]
  <2> HIDE DEF new
  <2>1. writes' = [writes EXCEPT ![t].orders = With(@, new), ![t].trades = InsertedTrades(c)]
    BY <1>3 DEF new
  <2> DEFINE held == [writes EXCEPT ![t].orders = With(@, new)]
  <2>2. writes' = [held EXCEPT ![t].trades = InsertedTrades(c)]
    BY <2>1
  <2>3. /\ held[t].orders = With(writes[t].orders, new)
        /\ held[t].positions = writes[t].positions
        /\ \A u \in Others(t) : held[u] = writes[u]
        /\ held = [u \in Sessions |-> [orders |-> held[u].orders,
                                       positions |-> held[u].positions,
                                       trades |-> held[u].trades]]
    BY <1>0 DEF SessionsTyped, Others
  <2> HIDE DEF held
  <2>4. /\ writes'[t] = [held[t] EXCEPT !.trades = InsertedTrades(c)]
        /\ \A u \in Others(t) : writes'[u] = held[u]
    BY <2>2, <2>3 DEF Others
  <2>5. held[t] = [orders |-> held[t].orders, positions |-> held[t].positions,
                   trades |-> held[t].trades]
    BY <2>3
  <2>6. writes'[t] = [orders |-> held[t].orders, positions |-> held[t].positions,
                      trades |-> InsertedTrades(c)]
    BY <2>4, <2>5
  <2>7. writes' = [u \in Sessions |-> writes'[u]]
    BY <2>2, <2>3
  <2>8. ASSUME NEW u \in Sessions
        PROVE  writes'[u] = [orders |-> writes'[u].orders, positions |-> writes'[u].positions,
                             trades |-> writes'[u].trades]
    BY <2>3, <2>4, <2>6, SMTT(25) DEF Others
  <2>. QED
    BY <2>3, <2>4, <2>6, <2>7, <2>8
<1>7. SessionsTyped'
  BY <1>0, <1>2, <1>4, <1>6 DEF SessionsTyped
<1>8. \A k \in kinds : /\ id[k] \in Orders /\ status[id[k]] = "ABSENT"
                       /\ \A u \in Sessions : id[k] \notin DOMAIN writes[u].orders
  BY <1>3 DEF Unwritten, FreshOrders, OrderHeldBy
<1>9. /\ DOMAIN writes'[t].orders = DOMAIN writes[t].orders \cup {id[k] : k \in kinds}
      /\ \A o \in DOMAIN writes[t].orders : writes'[t].orders[o] = writes[t].orders[o]
      /\ \A k \in kinds : writes'[t].orders[id[k]] = NewRow(c, k)
  <2>1. DOMAIN new = {id[k] : k \in kinds}
    OBVIOUS
  <2> HIDE DEF new
  <2>2. \A o \in DOMAIN writes[t].orders : o \notin DOMAIN new
    BY <1>8, <2>1
  <2>. QED
    BY <1>5, <1>6, <2>1, <2>2 DEF With
<1> HIDE DEF new
<1>10. CallOK(t)' /\ ReadOK(t)'
  BY <1>0, <1>2, <1>4 DEF SessionOK, CallOK, ReadOK
<1>11. OrderOK(t)'
  <2>1. c.op \in OrderOps => c.order \in DOMAIN writes[t].orders
    BY <1>0 DEF SessionOK, OrderOK
  <2>. QED
    BY <1>0, <1>2, <1>4, <1>9, <2>1
    DEF SessionOK, OrderOK, OrderMatches, FromStatuses, OrderUpdate
<1>12. PositionOK(t)'
  BY <1>0, <1>2, <1>4, <1>6
  DEF SessionOK, PositionOK, SkipsPosition, PositionFor, PositionMatches, FromStates,
      PositionUpdate, Before, Pending, ReasonOf
<1>13. TodoOK(t)' /\ SignatureOK(t)'
  BY <1>0, <1>2, <1>4 DEF TodoOK, SignatureOK, HasSigned, SignatureUsed, SessionOK
<1>14. RowsOK(t)'
  <2>1. /\ PositionFor(call[t])' = PositionFor(c) /\ InsertedKinds(call[t])' = kinds
        /\ InsertedTrades(call[t])' = InsertedTrades(c)
    BY <1>2 DEF PositionFor, InsertedKinds, InsertedTrades, SourceOf
  <2>2. \A k : NewRow(call[t], k)' = NewRow(c, k)
    BY <1>2 DEF NewRow, PositionFor
  <2>3. \A k \in kinds : InsertedBy(t, id[k], k)'
    BY <1>1, <1>2, <1>4, <1>8, <1>9, <2>1, <2>2 DEF InsertedBy
  <2>4. ASSUME NEW o \in DOMAIN writes[t].orders
        PROVE  /\ o \in Orders /\ status[o] # "ABSENT"
               /\ (c.op \in OrderOps /\ o = c.order) \/ CancelledBy(t, o)'
    <3>1. \A k : ~ InsertedBy(t, o, k)
      BY <1>0 DEF InsertedBy
    <3>2. CASE c.op \in OrderOps /\ o = c.order
      BY <1>0, <3>2 DEF SessionOK, CallOK
    <3>3. CASE CancelledBy(t, o)
      <4>1. CancelledBy(t, o)'
        BY <1>2, <1>4, <1>9, <3>3 DEF CancelledBy, PositionFor, ExitKinds, SiblingOf
      <4>. QED
        BY <1>0, <3>3, <4>1 DEF SessionOK, RowsOK, CancelledBy
    <3>. QED
      BY <1>0, <3>1, <3>2, <3>3 DEF SessionOK, RowsOK
  <2>5. ASSUME NEW o1 \in DOMAIN writes'[t].orders, NEW o2 \in DOMAIN writes'[t].orders,
               NEW k \in OrderKinds, InsertedBy(t, o1, k)', InsertedBy(t, o2, k)'
        PROVE  o1 = o2
    <3>1. /\ status[o1] = "ABSENT" /\ status[o2] = "ABSENT"
          /\ writes'[t].orders[o1] = NewRow(c, k) /\ writes'[t].orders[o2] = NewRow(c, k)
      BY <1>2, <2>2, <2>5 DEF InsertedBy
    <3>2. PICK j1 \in kinds : o1 = id[j1]
      BY <1>9, <2>4, <3>1
    <3>3. PICK j2 \in kinds : o2 = id[j2]
      BY <1>9, <2>4, <3>1
    <3>4. NewRow(c, j1) = NewRow(c, k) /\ NewRow(c, j2) = NewRow(c, k)
      BY <1>9, <3>1, <3>2, <3>3
    <3>5. j1 = k /\ j2 = k
      BY <3>4 DEF NewRow
    <3>. QED
      BY <3>2, <3>3, <3>5
  <2>6. DOMAIN writes'[t].orders \subseteq Orders
    BY <1>8, <1>9, <2>4
  <2>7. \A o \in DOMAIN writes'[t].orders :
          \/ c.op \in OrderOps /\ o = c.order
          \/ CancelledBy(t, o)'
          \/ \E k \in OrderKinds : InsertedBy(t, o, k)'
    BY <1>1, <1>9, <2>3, <2>4
  <2>8. \A k \in kinds : \E o \in DOMAIN writes'[t].orders : InsertedBy(t, o, k)'
    BY <1>9, <2>3
  <2>. QED
    BY <1>2, <1>4, <1>6, <2>1, <2>5, <2>6, <2>7, <2>8 DEF RowsOK
<1>15. ASSUME NEW u \in Others(t)
       PROVE  /\ DOMAIN writes'[t].orders \cap DOMAIN writes[u].orders = {}
              /\ DOMAIN writes'[t].positions \cap DOMAIN writes[u].positions = {}
              /\ HasSigned(t)' /\ HasSigned(u) => call'[t].sig # call[u].sig
  <2>1. DOMAIN writes'[t].orders \cap DOMAIN writes[u].orders = {}
    BY <1>8, <1>9 DEF Others, StatementInv, SessionInv, LocksExclusive
  <2>2. ASSUME close, HasSigned(u) PROVE c.sig # call[u].sig
    <3>1. SignatureHeldBy(u, call[u].sig)
      BY <2>2, SignedHolds DEF StatementInv, SessionInv, Others
    <3>2. ~ SignatureHeldBy(u, c.sig)
      BY <1>0, <1>2, <2>2 DEF WaitsFor, Others, Insert
    <3>. QED
      BY <3>1, <3>2
  <2>3. HasSigned(t)' => HasSigned(t) \/ close
    BY <1>0, <1>2, <1>4 DEF HasSigned
  <2>. QED
    BY <1>2, <1>6, <2>1, <2>2, <2>3 DEF Others, StatementInv, SessionInv, LocksExclusive
<1>. QED
  BY <1>2, <1>4, <1>6, <1>7, <1>10, <1>11, <1>12, <1>13, <1>14, <1>15, OneMoves
  DEF SessionOK, Others

--------------------------------------------------------------------------------
(* The commit.                                                             *)

\* What a commit writes, column by column.
LEMMA CommitColumns ==
  ASSUME NEW t \in Sessions, Commit(t)
  PROVE  /\ \A o \in Orders \ DOMAIN writes[t].orders :
              /\ kind'[o] = kind[o] /\ status'[o] = status[o]
              /\ positionOf'[o] = positionOf[o] /\ txSignature'[o] = txSignature[o]
         /\ \A o \in Orders \cap DOMAIN writes[t].orders :
              /\ kind'[o] = writes[t].orders[o].kind
              /\ status'[o] = writes[t].orders[o].status
              /\ positionOf'[o] = writes[t].orders[o].positionOf
              /\ txSignature'[o] = writes[t].orders[o].txSignature
         /\ \A p \in Positions \ DOMAIN writes[t].positions :
              /\ state'[p] = state[p] /\ closedReason'[p] = closedReason[p]
              /\ hasTokens'[p] = hasTokens[p]
         /\ \A p \in Positions \cap DOMAIN writes[t].positions :
              /\ state'[p] = writes[t].positions[p].state
              /\ closedReason'[p] = writes[t].positions[p].closedReason
              /\ hasTokens'[p] = writes[t].positions[p].hasTokens
         /\ kind' = [o \in Orders |-> kind'[o]] /\ status' = [o \in Orders |-> status'[o]]
         /\ positionOf' = [o \in Orders |-> positionOf'[o]]
         /\ txSignature' = [o \in Orders |-> txSignature'[o]]
         /\ state' = [p \in Positions |-> state'[p]]
         /\ closedReason' = [p \in Positions |-> closedReason'[p]]
         /\ hasTokens' = [p \in Positions |-> hasTokens'[p]]
BY DEF Commit

\* What there is stays what it is, and where it is.
LEMMA CommitKeepsRows ==
  ASSUME StatementInv, NEW t \in Sessions, Commit(t)
  PROVE  /\ \A o \in Orders : status[o] # "ABSENT" =>
              kind'[o] = kind[o] /\ positionOf'[o] = positionOf[o] /\ status'[o] # "ABSENT"
         /\ \A p \in Positions : state[p] # "ABSENT" => state'[p] # "ABSENT"
<1> DEFINE c == call[t]
<1>0. SessionOK(t) /\ Step(t) = "commit"
  BY DEF StatementInv, SessionInv, Commit, At, Step
<1>1. ASSUME NEW o \in Orders, status[o] # "ABSENT"
      PROVE  kind'[o] = kind[o] /\ positionOf'[o] = positionOf[o] /\ status'[o] # "ABSENT"
  <2>1. CASE o \notin DOMAIN writes[t].orders
    BY <1>1, <2>1, CommitColumns
  <2>2. CASE o \in DOMAIN writes[t].orders
    <3>1. /\ kind'[o] = writes[t].orders[o].kind
          /\ positionOf'[o] = writes[t].orders[o].positionOf
          /\ status'[o] = writes[t].orders[o].status
      BY <2>2, CommitColumns
    <3>2. CASE c.op \in OrderOps /\ o = c.order
      <4>1. writes[t].orders[o] = OrderUpdate(c, Order(o))
        BY <1>0, <3>2 DEF SessionOK, OrderOK
      <4>2. /\ OrderUpdate(c, Order(o)).kind = kind[o]
            /\ OrderUpdate(c, Order(o)).positionOf = positionOf[o]
            /\ OrderUpdate(c, Order(o)).status # "ABSENT"
        BY DEF OrderUpdate
      <4>. QED
        BY <3>1, <4>1, <4>2
    <3>3. CASE CancelledBy(t, o)
      BY <3>1, <3>3 DEF CancelledBy
    <3>. QED
      BY <1>0, <1>1, <2>2, <3>2, <3>3 DEF SessionOK, RowsOK, InsertedBy
  <2>. QED
    BY <2>1, <2>2
<1>2. ASSUME NEW p \in Positions, state[p] # "ABSENT" PROVE state'[p] # "ABSENT"
  <2>1. CASE p \notin DOMAIN writes[t].positions
    BY <1>2, <2>1, CommitColumns
  <2>2. CASE p \in DOMAIN writes[t].positions
    <3>1. state'[p] = PositionUpdate(c, Position(p)).state
      BY <1>0, <2>2, CommitColumns DEF SessionOK, PositionOK
    <3>2. PositionUpdate(c, Position(p)).state \in (PositionStates \ {"ABSENT"}) \cup {state[p]}
      BY DEF PositionUpdate, Before, Pending
    <3>. QED
      BY <1>2, <3>1, <3>2
  <2>. QED
    BY <2>1, <2>2
<1>. QED
  BY <1>1, <1>2

\* A commit brings no signature but the one its session has signed with.
LEMMA CommitSigns ==
  ASSUME StatementInv, NEW t \in Sessions, Commit(t), NEW s \in Signatures,
         SignatureUsed(s)'
  PROVE  SignatureUsed(s) \/ (HasSigned(t) /\ s = call[t].sig)
<1> DEFINE c == call[t]
<1>0. SessionOK(t) /\ Step(t) = "commit"
  BY DEF StatementInv, SessionInv, Commit, At, Step
<1>1. PICK o \in Orders : txSignature'[o] = s
  BY DEF SignatureUsed
<1>2. CASE o \notin DOMAIN writes[t].orders
  BY <1>1, <1>2, CommitColumns DEF SignatureUsed
<1>3. CASE o \in DOMAIN writes[t].orders
  <2>1. txSignature'[o] = writes[t].orders[o].txSignature
    BY <1>3, CommitColumns
  <2>2. CASE c.op \in OrderOps /\ o = c.order
    <3>1. writes[t].orders[o] = OrderUpdate(c, Order(o))
      BY <1>0, <2>2 DEF SessionOK, OrderOK
    <3>2. CASE c.op \in Settling
      BY <1>0, <1>1, <2>1, <3>1, <3>2 DEF OrderUpdate, HasSigned
    <3>3. CASE c.op \notin Settling
      BY <1>1, <2>1, <2>2, <3>1, <3>3 DEF OrderUpdate, SignatureUsed
    <3>. QED
      BY <3>2, <3>3
  <2>3. CASE CancelledBy(t, o)
    BY <1>1, <2>1, <2>3 DEF CancelledBy, SignatureUsed
  <2>4. ASSUME NEW k, InsertedBy(t, o, k)
        PROVE  HasSigned(t) /\ s = c.sig
    BY <1>0, <1>1, <2>1, <2>4 DEF InsertedBy, NewRow, HasSigned
  <2>. QED
    BY <1>0, <1>3, <2>2, <2>3, <2>4 DEF SessionOK, RowsOK
<1>. QED
  BY <1>2, <1>3

\* A commit of t leaves every other session what it holds and what it has read.
LEMMA CommitUnseen ==
  ASSUME StatementInv, NEW t \in Sessions, NEW u \in Others(t), Commit(t)
  PROVE  SessionOK(u)'
<1> DEFINE c == call[u]
<1>0. /\ u \in Sessions /\ u # t /\ SessionOK(u) /\ SessionsTyped
      /\ TypeOK /\ RowsWellFormed
  BY DEF StatementInv, SessionInv, TablesOK, Others
<1>1. call'[u] = call[u] /\ pc'[u] = pc[u] /\ todo'[u] = todo[u] /\ writes'[u] = writes[u]
  BY <1>0, FinishClears DEF Commit
<1>2. Step(u)' = Step(u) /\ (HasSigned(u)' <=> HasSigned(u))
  BY <1>1 DEF Step, HasSigned
<1>3. \A o \in Orders : status[o] # "ABSENT" =>
        kind'[o] = kind[o] /\ positionOf'[o] = positionOf[o] /\ status'[o] # "ABSENT"
  BY CommitKeepsRows
<1>4. ASSUME NEW o \in DOMAIN writes[u].orders
      PROVE  o \in Orders /\ Order(o)' = Order(o) /\ status'[o] = status[o]
  <2>1. o \in Orders \ DOMAIN writes[t].orders
    BY <1>0 DEF StatementInv, SessionInv, LocksExclusive, SessionOK, RowsOK
  <2>. QED
    BY <2>1, CommitColumns
<1>5. c.op \in OrderOps => /\ c.order \in Orders /\ status[c.order] # "ABSENT"
                           /\ kind'[c.order] = kind[c.order]
                           /\ positionOf'[c.order] = positionOf[c.order]
                           /\ status'[c.order] # "ABSENT" /\ c.order # NULL
  BY <1>0, <1>3, SessionAssumption DEF SessionOK, CallOK
<1>6. c.op \in PositionOps => c.order = NULL /\ c.position \in Positions
  BY <1>0 DEF SessionOK, CallOK
<1>7. CASE Step(u) = "idle"
  <2>1. /\ DOMAIN writes[u].orders = {} /\ DOMAIN writes[u].positions = {}
        /\ writes[u].trades = {} /\ todo[u] = {} /\ ~ HasSigned(u)
    BY <1>0, <1>7, EmptyHands
  <2>2. c.op = "none"
    BY <1>0, <1>7 DEF SessionOK, CallOK
  <2>3. PlanOK(u)' /\ CallOK(u)'
    <3>1. pc[u] = <<>>
      BY <1>0, <1>7, <2>2 DEF SessionOK, PlanOK, Rests
    <3>. QED
      BY <1>0, <1>1, <1>2, <1>7, <2>2, <3>1 DEF SessionOK, PlanOK, CallOK
  <2>. QED
    BY <1>1, <1>2, <1>7, <2>1, <2>2, <2>3
    DEF SessionOK, ReadOK, OrderOK, PositionOK, RowsOK, TodoOK, SignatureOK
<1>8. CASE Step(u) # "idle"
  <2>0. c.op \in OrderOps \cup PositionOps
    BY <1>0, <1>8 DEF SessionOK, CallOK
  <2>1. /\ PositionFor(call[u])' = PositionFor(c) /\ PositionFor(c) \in Positions
        /\ SkipsPosition(call[u])' <=> SkipsPosition(c)
        /\ ExitKinds(call[u])' = ExitKinds(c)
        /\ InsertedTrades(call[u])' = InsertedTrades(c)
        /\ InsertedKinds(call[u])' = InsertedKinds(c)
        /\ \A k : NewRow(call[u], k)' = NewRow(c, k)
    <3>1. CASE c.op \in OrderOps
      <4>1. PositionFor(call[u])' = PositionFor(c) /\ PositionFor(c) \in Positions
        BY <1>0, <1>1, <1>5, <3>1 DEF PositionFor, TypeOK, RowsWellFormed
      <4>2. SkipsPosition(call[u])' <=> SkipsPosition(c)
        BY <1>1, <1>5, <3>1 DEF SkipsPosition
      <4>3. ExitKinds(call[u])' = ExitKinds(c) /\ InsertedKinds(call[u])' = InsertedKinds(c)
        BY <1>1, <1>5, <3>1 DEF ExitKinds, SiblingOf, InsertedKinds
      <4>4. InsertedTrades(call[u])' = InsertedTrades(c)
        BY <1>1, <1>5, <3>1 DEF InsertedTrades, PositionFor, SourceOf
      <4>5. \A k : NewRow(call[u], k)' = NewRow(c, k)
        BY <1>1, <1>5, <3>1 DEF NewRow, PositionFor
      <4>. QED
        BY <4>1, <4>2, <4>3, <4>4, <4>5
    <3>2. CASE c.op \in PositionOps
      BY <1>1, <1>6, <3>2
      DEF PositionFor, SkipsPosition, ExitKinds, InsertedTrades, InsertedKinds, NewRow
    <3>. QED
      BY <2>0, <3>1, <3>2
  <2>2. PlanOK(u)'
    BY <1>0, <1>1, <1>5 DEF SessionOK, PlanOK, Rests
  <2>3. CallOK(u)' /\ ReadOK(u)'
    <3>1. c.op = "placeProtectionOrder" /\ state[c.position] # "ABSENT"
            => state'[c.position] # "ABSENT"
      BY <1>6, CommitKeepsRows
    <3>. QED
      BY <1>0, <1>1, <1>2, <1>5, <3>1 DEF SessionOK, CallOK, ReadOK
  <2>4. OrderOK(u)'
    <3>1. ASSUME c.op \in OrderOps, Step(u) \in AfterOrder
          PROVE  /\ OrderMatches(call[u], Order(call[u].order))'
                 /\ OrderUpdate(call[u], Order(call[u].order))' = OrderUpdate(c, Order(c.order))
      <4>1. Order(c.order)' = Order(c.order) /\ OrderMatches(c, Order(c.order))
        BY <1>0, <1>1, <1>4, <3>1 DEF SessionOK, OrderOK
      <4>. QED
        BY <1>1, <4>1 DEF OrderMatches, FromStatuses, OrderUpdate
    <3>. QED
      BY <1>0, <1>1, <1>2, <3>1 DEF SessionOK, OrderOK
  <2>5. PositionOK(u)'
    <3>1. ASSUME Step(u) \in AfterPosition, ~ SkipsPosition(c)
          PROVE  /\ PositionMatches(call[u], Position(PositionFor(call[u])))'
                 /\ PositionUpdate(call[u], Position(PositionFor(call[u])))'
                      = PositionUpdate(c, Position(PositionFor(c)))
      <4> DEFINE p == PositionFor(c)
      <4>1. p \in DOMAIN writes[u].positions /\ PositionMatches(c, Position(p))
        BY <1>0, <3>1 DEF SessionOK, PositionOK
      <4>2. p \in Positions \ DOMAIN writes[t].positions
        BY <1>0, <2>1, <4>1 DEF StatementInv, SessionInv, LocksExclusive
      <4>3. state'[p] = state[p] /\ closedReason'[p] = closedReason[p] /\ hasTokens'[p] = hasTokens[p]
        BY <4>2, CommitColumns
      <4>4. c.op \in OrderOps => kind'[c.order] = kind[c.order]
        BY <1>5
      <4>5. PositionFor(call[u])' = p
        BY <2>1
      <4>6. PositionMatches(call[u], Position(PositionFor(call[u])))'
        BY <1>1, <4>1, <4>3, <4>4, <4>5 DEF PositionMatches, FromStates, Before, Pending
      <4>7. PositionUpdate(call[u], Position(PositionFor(call[u])))' = PositionUpdate(c, Position(p))
        BY <1>1, <4>3, <4>4, <4>5 DEF PositionUpdate, Before, Pending, ReasonOf
      <4>. QED
        BY <4>6, <4>7
    <3>. QED
      BY <1>0, <1>1, <1>2, <2>1, <3>1 DEF SessionOK, PositionOK
  <2>6. RowsOK(u)'
    <3>1. ASSUME NEW o \in DOMAIN writes[u].orders
          PROVE  /\ CancelledBy(u, o) => CancelledBy(u, o)'
                 /\ \A k : InsertedBy(u, o, k)' <=> InsertedBy(u, o, k)
      <4>1. ASSUME CancelledBy(u, o) PROVE CancelledBy(u, o)'
        BY <1>1, <1>2, <1>4, <2>1, <4>1 DEF CancelledBy
      <4>2. \A k : InsertedBy(u, o, k)' <=> InsertedBy(u, o, k)
        BY <1>1, <1>2, <1>4, <2>1 DEF InsertedBy
      <4>. QED
        BY <4>1, <4>2
    <3>2. writes[u].trades = IF Step(u) = "commit" THEN InsertedTrades(c) ELSE {}
      BY <1>0 DEF SessionOK, RowsOK
    <3>. QED
      BY <1>0, <1>1, <1>2, <2>1, <3>1, <3>2 DEF SessionOK, RowsOK
  <2>7. TodoOK(u)'
    <3>1. \A o \in todo[u] : o \in Orders
      BY <1>0 DEF SessionsTyped
    <3>. QED
      BY <1>0, <1>1, <1>2, <1>3, <2>1, <3>1 DEF SessionOK, TodoOK
  <2>8. SignatureOK(u)'
    <3>1. ASSUME HasSigned(u) PROVE ~ SignatureUsed(c.sig)'
      <4>1. c.sig \in Signatures /\ ~ SignatureUsed(c.sig)
        BY <1>0, <3>1 DEF SessionOK, CallOK, SignatureOK, HasSigned
      <4>2. ~ (HasSigned(t) /\ c.sig = call[t].sig)
        BY <1>0, <3>1 DEF StatementInv, SessionInv, LocksExclusive
      <4>3. PICK s \in Signatures : s = c.sig
        BY <4>1
      <4>4. ~ SignatureUsed(s)'
        BY <4>1, <4>2, <4>3, CommitSigns
      <4>. QED
        BY <1>1, <4>3, <4>4 DEF SignatureUsed
    <3>. QED
      BY <1>1, <1>2, <3>1 DEF SignatureOK, SignatureUsed
  <2>. QED
    BY <2>2, <2>3, <2>4, <2>5, <2>6, <2>7, <2>8 DEF SessionOK
<1>. QED
  BY <1>7, <1>8

--------------------------------------------------------------------------------
(* What a commit is, as a step of the lifecycle.                           *)

\* A step of the lifecycle keeps the tables right.
LEMMA LifecycleKeeps == TablesOK /\ [Next]_vars => TablesOK'
BY TypeStep, RowsStep, EntryStep, ClaimStep, LedgerStep, ExitStep, SignatureStep DEF TablesOK

\* A commit that books no trade leaves the ledger.
LEMMA CommitBooksNothing ==
  ASSUME TypeOK, NEW t \in Sessions, Commit(t), writes[t].trades = {}
  PROVE  trades' = trades
BY DEF Commit, TypeOK

\* A commit that books one trade.
LEMMA CommitBooks ==
  ASSUME TypeOK, NEW t \in Sessions, Commit(t), NEW p \in Positions, NEW s \in TradeSources,
         writes[t].trades = {<<p, s>>}
  PROVE  BookTrade(p, s)
<1>1. ASSUME NEW q \in Positions, NEW r \in TradeSources
      PROVE  trades'[q][r] = trades[q][r] + (IF q = p /\ r = s THEN 1 ELSE 0)
  BY <1>1 DEF Commit
<1>2. trades' = [q \in Positions |-> [r \in TradeSources |-> trades'[q][r]]]
  BY DEF Commit
<1>3. ASSUME NEW q \in Positions, q # p PROVE trades'[q] = trades[q]
  <2>1. trades[q] \in [TradeSources -> Nat] /\ trades'[q] = [r \in TradeSources |-> trades'[q][r]]
    BY <1>2 DEF TypeOK
  <2>2. \A r \in TradeSources : trades'[q][r] = trades[q][r]
    BY <1>1, <1>3, <2>1
  <2>. QED
    BY <2>1, <2>2
<1>4. trades'[p] = [trades[p] EXCEPT ![s] = @ + 1]
  <2>1. trades[p] \in [TradeSources -> Nat] /\ trades'[p] = [r \in TradeSources |-> trades'[p][r]]
    BY <1>2 DEF TypeOK
  <2>2. \A r \in TradeSources : trades'[p][r] = [trades[p] EXCEPT ![s] = @ + 1][r]
    BY <1>1, <2>1
  <2>. QED
    BY <2>1, <2>2
<1>. QED
  BY <1>2, <1>3, <1>4 DEF TypeOK, BookTrade

\* The commit of a position, unless the call skips it.
LEMMA CommitPosition ==
  ASSUME StatementInv, NEW t \in Sessions, Commit(t), NEW p \in Positions,
         p = PositionFor(call[t])
  PROVE  LET c == call[t]
         IN  /\ SkipsPosition(c) => UNCHANGED positionVars
             /\ ~ SkipsPosition(c) =>
                  /\ PositionMatches(c, Position(p))
                  /\ state' = [state EXCEPT ![p] = PositionUpdate(c, Position(p)).state]
                  /\ closedReason' =
                       [closedReason EXCEPT ![p] = PositionUpdate(c, Position(p)).closedReason]
                  /\ hasTokens' = [hasTokens EXCEPT ![p] = PositionUpdate(c, Position(p)).hasTokens]
<1> DEFINE c == call[t]
<1>0. SessionOK(t) /\ Step(t) = "commit" /\ TypeOK
  BY DEF StatementInv, SessionInv, TablesOK, Commit, At, Step
<1>1. ASSUME SkipsPosition(c) PROVE UNCHANGED positionVars
  <2>1. DOMAIN writes[t].positions = {}
    BY <1>0, <1>1 DEF SessionOK, PositionOK
  <2>. QED
    BY <1>0, <2>1, CommitColumns DEF TypeOK, positionVars
<1>2. ASSUME ~ SkipsPosition(c)
      PROVE  /\ PositionMatches(c, Position(p))
             /\ state' = [state EXCEPT ![p] = PositionUpdate(c, Position(p)).state]
             /\ closedReason' =
                  [closedReason EXCEPT ![p] = PositionUpdate(c, Position(p)).closedReason]
             /\ hasTokens' = [hasTokens EXCEPT ![p] = PositionUpdate(c, Position(p)).hasTokens]
  <2>1. /\ DOMAIN writes[t].positions = {p} /\ PositionMatches(c, Position(p))
        /\ writes[t].positions[p] = PositionUpdate(c, Position(p))
    BY <1>0, <1>2 DEF SessionOK, PositionOK
  <2> DEFINE new == PositionUpdate(c, Position(p))
  <2>2. /\ state'[p] = new.state /\ closedReason'[p] = new.closedReason
        /\ hasTokens'[p] = new.hasTokens
        /\ \A q \in Positions \ {p} : /\ state'[q] = state[q] /\ closedReason'[q] = closedReason[q]
                                      /\ hasTokens'[q] = hasTokens[q]
    BY <2>1, CommitColumns
  <2>3. /\ state' = [q \in Positions |-> state'[q]]
        /\ closedReason' = [q \in Positions |-> closedReason'[q]]
        /\ hasTokens' = [q \in Positions |-> hasTokens'[q]]
    BY CommitColumns
  <2> HIDE DEF new
  <2>7. /\ state = [q \in Positions |-> state[q]]
        /\ closedReason = [q \in Positions |-> closedReason[q]]
        /\ hasTokens = [q \in Positions |-> hasTokens[q]]
    BY <1>0 DEF TypeOK
  <2>4. state' = [state EXCEPT ![p] = new.state]
    BY <2>2, <2>3, <2>7
  <2>5. closedReason' = [closedReason EXCEPT ![p] = new.closedReason]
    BY <2>2, <2>3, <2>7
  <2>6. hasTokens' = [hasTokens EXCEPT ![p] = new.hasTokens]
    BY <2>2, <2>3, <2>7
  <2>. QED
    BY <2>1, <2>4, <2>5, <2>6 DEF new
<1>. QED
  BY <1>1, <1>2

\* The commit of an order, and of its position unless the call skips it.
LEMMA CommitWrites ==
  ASSUME StatementInv, NEW t \in Sessions, Commit(t), call[t].op \in OrderOps
  PROVE  LET c == call[t]
             o == c.order
             p == positionOf[o]
         IN  /\ o \in Orders /\ p \in Positions /\ status[o] # "ABSENT"
             /\ PositionFor(c) = p
             /\ OrderMatches(c, Order(o))
             /\ kind'[o] = kind[o] /\ positionOf'[o] = positionOf[o]
             /\ status'[o] = OrderUpdate(c, Order(o)).status
             /\ txSignature'[o] = OrderUpdate(c, Order(o)).txSignature
             /\ SkipsPosition(c) => UNCHANGED positionVars
             /\ ~ SkipsPosition(c) =>
                  /\ PositionMatches(c, Position(p))
                  /\ state' = [state EXCEPT ![p] = PositionUpdate(c, Position(p)).state]
                  /\ closedReason' =
                       [closedReason EXCEPT ![p] = PositionUpdate(c, Position(p)).closedReason]
                  /\ hasTokens' = [hasTokens EXCEPT ![p] = PositionUpdate(c, Position(p)).hasTokens]
<1> DEFINE c == call[t]
           o == c.order
<1>0. SessionOK(t) /\ Step(t) = "commit" /\ TypeOK /\ RowsWellFormed
  BY DEF StatementInv, SessionInv, TablesOK, Commit, At, Step
<1>1. o \in Orders /\ positionOf[o] \in Positions /\ status[o] # "ABSENT" /\ o # NULL
  BY <1>0, SessionAssumption DEF SessionOK, CallOK, TypeOK, RowsWellFormed
<1>2. /\ OrderMatches(c, Order(o)) /\ o \in DOMAIN writes[t].orders
      /\ writes[t].orders[o] = OrderUpdate(c, Order(o))
  BY <1>0 DEF SessionOK, OrderOK
<1>3. /\ kind'[o] = kind[o] /\ positionOf'[o] = positionOf[o]
      /\ status'[o] = OrderUpdate(c, Order(o)).status
      /\ txSignature'[o] = OrderUpdate(c, Order(o)).txSignature
  BY <1>1, <1>2, CommitColumns, CommitKeepsRows
<1>4. PICK p \in Positions : p = positionOf[o]
  BY <1>1
<1>5. PositionFor(c) = p
  BY <1>1, <1>4 DEF PositionFor
<1>6. /\ SkipsPosition(c) => UNCHANGED positionVars
      /\ ~ SkipsPosition(c) =>
           /\ PositionMatches(c, Position(p))
           /\ state' = [state EXCEPT ![p] = PositionUpdate(c, Position(p)).state]
           /\ closedReason' =
                [closedReason EXCEPT ![p] = PositionUpdate(c, Position(p)).closedReason]
           /\ hasTokens' = [hasTokens EXCEPT ![p] = PositionUpdate(c, Position(p)).hasTokens]
  BY <1>5, CommitPosition
<1>. QED
  BY <1>1, <1>2, <1>3, <1>4, <1>5, <1>6

\* A claim, a release and a cancellation write one order.
LEMMA CommitOneOrder ==
  ASSUME StatementInv, NEW t \in Sessions, Commit(t),
         call[t].op \in Claiming \cup {"cancelOpenOrder"}
  PROVE  LET c == call[t]
             o == c.order
         IN  /\ kind' = kind /\ positionOf' = positionOf /\ txSignature' = txSignature
             /\ status' = [status EXCEPT ![o] = OrderUpdate(c, Order(o)).status]
             /\ trades' = trades /\ UNCHANGED proposalVars
             /\ kind[o] \in ExecutableKinds
<1> DEFINE c == call[t]
           o == c.order
<1>0. SessionOK(t) /\ Step(t) = "commit" /\ TypeOK
  BY DEF StatementInv, SessionInv, TablesOK, Commit, At, Step
<1>1. DOMAIN writes[t].orders \subseteq {o} /\ writes[t].trades = {} /\ kind[o] \in ExecutableKinds
  <2>1. \A x, k : ~ CancelledBy(t, x) /\ ~ InsertedBy(t, x, k)
    BY DEF CancelledBy, InsertedBy
  <2>2. InsertedTrades(c) = {}
    BY DEF InsertedTrades
  <2>. QED
    BY <1>0, <2>1, <2>2 DEF SessionOK, RowsOK, ReadOK
<1>2. \A x \in Orders \ {o} : /\ kind'[x] = kind[x] /\ status'[x] = status[x]
                              /\ positionOf'[x] = positionOf[x] /\ txSignature'[x] = txSignature[x]
  BY <1>1, CommitColumns
<1>3. /\ o \in Orders /\ kind'[o] = kind[o] /\ positionOf'[o] = positionOf[o]
      /\ status'[o] = OrderUpdate(c, Order(o)).status
      /\ txSignature'[o] = OrderUpdate(c, Order(o)).txSignature
  BY CommitWrites
<1>4. txSignature'[o] = txSignature[o]
  BY <1>3 DEF OrderUpdate
<1>5. kind' = kind /\ positionOf' = positionOf /\ txSignature' = txSignature
  <2>1. kind' = kind
    BY <1>0, <1>2, <1>3, CommitColumns DEF TypeOK
  <2>2. positionOf' = positionOf
    BY <1>0, <1>2, <1>3, CommitColumns DEF TypeOK
  <2>3. txSignature' = txSignature
    BY <1>0, <1>2, <1>4, CommitColumns DEF TypeOK
  <2>. QED
    BY <2>1, <2>2, <2>3
<1>6. status' = [status EXCEPT ![o] = OrderUpdate(c, Order(o)).status]
  BY <1>0, <1>2, <1>3, CommitColumns DEF TypeOK
<1>7. trades' = trades
  BY <1>0, <1>1, CommitBooksNothing
<1>. QED
  BY <1>1, <1>5, <1>6, <1>7 DEF Commit

\* Their commits are steps of the lifecycle.
LEMMA OneOrderStep ==
  ASSUME StatementInv, NEW t \in Sessions, Commit(t),
         call[t].op \in Claiming \cup {"cancelOpenOrder"}
  PROVE  /\ call[t].order \in Orders
         /\ \/ ClaimOrderExecution(call[t].order)
            \/ ReleaseOrderExecutionClaim(call[t].order)
            \/ CancelOpenOrder(call[t].order)
<1> DEFINE c == call[t]
           o == c.order
           p == positionOf[o]
<1>0. TypeOK /\ Step(t) = "commit" /\ SessionOK(t)
  BY DEF StatementInv, SessionInv, TablesOK, Commit, At, Step
<1>1. /\ o \in Orders /\ p \in Positions /\ OrderMatches(c, Order(o))
      /\ kind' = kind /\ positionOf' = positionOf /\ txSignature' = txSignature
      /\ status' = [status EXCEPT ![o] = OrderUpdate(c, Order(o)).status]
      /\ trades' = trades /\ UNCHANGED proposalVars
      /\ kind[o] \in ExecutableKinds
  BY CommitWrites, CommitOneOrder
<1>2. ASSUME ~ SkipsPosition(c)
      PROVE  /\ PositionMatches(c, Position(p))
             /\ state' = [state EXCEPT ![p] = PositionUpdate(c, Position(p)).state]
             /\ closedReason' = [closedReason EXCEPT ![p] = PositionUpdate(c, Position(p)).closedReason]
             /\ hasTokens' = [hasTokens EXCEPT ![p] = PositionUpdate(c, Position(p)).hasTokens]
  BY <1>2, CommitWrites
<1>3. ASSUME SkipsPosition(c) PROVE UNCHANGED positionVars
  BY <1>3, CommitWrites
<1>4. CASE c.op = "claimOrderExecution"
  <2>1. ~ SkipsPosition(c)
    BY <1>4 DEF SkipsPosition
  <2>2. PositionUpdate(c, Position(p)).state = Pending(kind[o])
    BY <1>4 DEF PositionUpdate
  <2>3. /\ PositionUpdate(c, Position(p)).closedReason = closedReason[p]
        /\ PositionUpdate(c, Position(p)).hasTokens = hasTokens[p]
    BY <1>4 DEF PositionUpdate
  <2>4. closedReason' = closedReason /\ hasTokens' = hasTokens
    <3>1. closedReason \in [Positions -> ClosedReasons \cup {NULL}] /\ hasTokens \in [Positions -> BOOLEAN]
      BY <1>0 DEF TypeOK
    <3>2. /\ [closedReason EXCEPT ![p] = closedReason[p]] = closedReason
          /\ [hasTokens EXCEPT ![p] = hasTokens[p]] = hasTokens
      BY <3>1
    <3>. QED
      BY <1>2, <2>1, <2>3, <3>2
  <2>5. status[o] = "OPEN" /\ status' = [status EXCEPT ![o] = "PENDING"]
    BY <1>1, <1>4 DEF OrderMatches, FromStatuses, OrderUpdate
  <2>6. state[p] = Before(kind[o]) /\ state' = [state EXCEPT ![p] = Pending(kind[o])]
    BY <1>2, <1>4, <2>1, <2>2 DEF PositionMatches, FromStates
  <2>7. ClaimOrderExecution(o)
    BY <1>1, <2>4, <2>5, <2>6 DEF ClaimOrderExecution
  <2>. QED
    BY <1>1, <2>7
<1>5. CASE c.op = "releaseOrderExecutionClaim"
  <2>1. ~ SkipsPosition(c)
    BY <1>5 DEF SkipsPosition
  <2>2. PositionUpdate(c, Position(p)).state = Before(kind[o])
    BY <1>5 DEF PositionUpdate
  <2>3. /\ PositionUpdate(c, Position(p)).closedReason = closedReason[p]
        /\ PositionUpdate(c, Position(p)).hasTokens = hasTokens[p]
    BY <1>5 DEF PositionUpdate
  <2>4. closedReason' = closedReason /\ hasTokens' = hasTokens
    <3>1. closedReason \in [Positions -> ClosedReasons \cup {NULL}] /\ hasTokens \in [Positions -> BOOLEAN]
      BY <1>0 DEF TypeOK
    <3>2. /\ [closedReason EXCEPT ![p] = closedReason[p]] = closedReason
          /\ [hasTokens EXCEPT ![p] = hasTokens[p]] = hasTokens
      BY <3>1
    <3>. QED
      BY <1>2, <2>1, <2>3, <3>2
  <2>5. /\ status[o] = "PENDING" /\ txSignature[o] = NULL
        /\ status' = [status EXCEPT ![o] = "OPEN"]
    BY <1>1, <1>5 DEF OrderMatches, FromStatuses, OrderUpdate
  <2>6. state[p] = Pending(kind[o]) /\ state' = [state EXCEPT ![p] = Before(kind[o])]
    BY <1>2, <1>5, <2>1, <2>2 DEF PositionMatches, FromStates
  <2>7. ReleaseOrderExecutionClaim(o)
    BY <1>1, <2>4, <2>5, <2>6 DEF ReleaseOrderExecutionClaim
  <2>. QED
    BY <1>1, <2>7
<1>6. CASE c.op = "cancelOpenOrder"
  <2>1. status[o] = "OPEN" /\ status' = [status EXCEPT ![o] = "CANCELLED"]
    BY <1>1, <1>6 DEF OrderMatches, FromStatuses, OrderUpdate
  <2>2. CASE kind[o] = "BUY_TRIGGER"
    <3>1. ~ SkipsPosition(c)
      BY <1>6, <2>2 DEF SkipsPosition
    <3>2. /\ PositionUpdate(c, Position(p)).state = "CLOSED"
          /\ PositionUpdate(c, Position(p)).closedReason = "BUY_CANCELLED"
          /\ PositionUpdate(c, Position(p)).hasTokens = hasTokens[p]
      BY <1>6 DEF PositionUpdate
    <3>3. hasTokens' = hasTokens
      <4>1. closedReason \in [Positions -> ClosedReasons \cup {NULL}] /\ hasTokens \in [Positions -> BOOLEAN]
        BY <1>0 DEF TypeOK
      <4>2. /\ [closedReason EXCEPT ![p] = closedReason[p]] = closedReason
            /\ [hasTokens EXCEPT ![p] = hasTokens[p]] = hasTokens
        BY <4>1
      <4>. QED
        BY <1>2, <3>1, <3>2, <4>2
    <3>4. /\ state[p] = "BUY_PENDING" /\ state' = [state EXCEPT ![p] = "CLOSED"]
          /\ closedReason' = [closedReason EXCEPT ![p] = "BUY_CANCELLED"]
      BY <1>2, <1>6, <3>1, <3>2 DEF PositionMatches, FromStates
    <3>5. CancelPendingBuy(o)
      BY <1>1, <2>1, <2>2, <3>3, <3>4 DEF CancelPendingBuy
    <3>. QED
      BY <1>1, <3>5 DEF CancelOpenOrder
  <2>3. CASE kind[o] # "BUY_TRIGGER"
    <3>1. UNCHANGED positionVars
      BY <1>3, <1>6, <2>3 DEF SkipsPosition
    <3>2. CancelProtectionOrder(o)
      BY <1>1, <2>1, <2>3, <3>1 DEF CancelProtectionOrder
    <3>. QED
      BY <1>1, <3>2 DEF CancelOpenOrder
  <2>. QED
    BY <2>2, <2>3
<1>. QED
  BY <1>4, <1>5, <1>6

\* The exits that a session has cancelled, and the orders it has inserted.
Cancelled(t)   == {o \in DOMAIN writes[t].orders : CancelledBy(t, o)}
Inserted(t, k) == {o \in DOMAIN writes[t].orders : InsertedBy(t, o, k)}

\* The commit of a row that is not the order of the call: an exit is cancelled,
\* an order inserted, or nothing happens.
LEMMA CommitOtherRows ==
  ASSUME StatementInv, NEW t \in Sessions, Commit(t), NEW o \in Orders,
         call[t].op \in OrderOps => o # call[t].order
  PROVE  /\ o \in Cancelled(t) =>
              /\ call[t].op \in Cancelling /\ status[o] = "OPEN"
              /\ kind[o] \in ExitKinds(call[t]) /\ positionOf[o] = PositionFor(call[t])
              /\ kind'[o] = kind[o] /\ positionOf'[o] = positionOf[o]
              /\ txSignature'[o] = txSignature[o] /\ status'[o] = "CANCELLED"
         /\ \A k \in OrderKinds : o \in Inserted(t, k) =>
              /\ status[o] = "ABSENT" /\ k \in InsertedKinds(call[t])
              /\ kind'[o] = k /\ positionOf'[o] = PositionFor(call[t])
              /\ status'[o] = IF call[t].op = "userCloseActive" THEN "FILLED" ELSE "OPEN"
              /\ txSignature'[o] = IF call[t].op = "userCloseActive" THEN call[t].sig ELSE NULL
         /\ o \notin Cancelled(t) /\ (\A k \in OrderKinds : o \notin Inserted(t, k)) =>
              /\ kind'[o] = kind[o] /\ positionOf'[o] = positionOf[o]
              /\ txSignature'[o] = txSignature[o] /\ status'[o] = status[o]
<1>0. SessionOK(t)
  BY DEF StatementInv, SessionInv
<1>1. ASSUME o \in DOMAIN writes[t].orders
      PROVE  /\ kind'[o] = writes[t].orders[o].kind
             /\ positionOf'[o] = writes[t].orders[o].positionOf
             /\ status'[o] = writes[t].orders[o].status
             /\ txSignature'[o] = writes[t].orders[o].txSignature
  BY <1>1, CommitColumns
<1>2. ASSUME o \notin DOMAIN writes[t].orders
      PROVE  /\ kind'[o] = kind[o] /\ positionOf'[o] = positionOf[o]
             /\ txSignature'[o] = txSignature[o] /\ status'[o] = status[o]
  BY <1>2, CommitColumns
<1>3. CASE o \in Cancelled(t)
  <2>1. CancelledBy(t, o) /\ o \in DOMAIN writes[t].orders
    BY <1>3 DEF Cancelled
  <2>2. /\ kind'[o] = kind[o] /\ positionOf'[o] = positionOf[o]
        /\ txSignature'[o] = txSignature[o] /\ status'[o] = "CANCELLED"
    BY <1>1, <2>1 DEF CancelledBy
  <2>. QED
    BY <1>3, <2>1, <2>2 DEF CancelledBy, Inserted, InsertedBy
<1>4. ASSUME NEW k \in OrderKinds, o \in Inserted(t, k)
      PROVE  /\ status[o] = "ABSENT" /\ k \in InsertedKinds(call[t])
             /\ kind'[o] = k /\ positionOf'[o] = PositionFor(call[t])
             /\ status'[o] = IF call[t].op = "userCloseActive" THEN "FILLED" ELSE "OPEN"
             /\ txSignature'[o] = IF call[t].op = "userCloseActive" THEN call[t].sig ELSE NULL
  BY <1>1, <1>4 DEF Inserted, InsertedBy, NewRow
<1>5. ASSUME o \notin Cancelled(t), \A k \in OrderKinds : o \notin Inserted(t, k)
      PROVE  o \notin DOMAIN writes[t].orders
  BY <1>0, <1>5 DEF SessionOK, RowsOK, Cancelled, Inserted
<1>. QED
  BY <1>2, <1>3, <1>4, <1>5

\* Each kind that the call inserts is inserted once.
LEMMA InsertedOnce ==
  ASSUME StatementInv, NEW t \in Sessions, Commit(t), call[t].op \in Inserting
  PROVE  /\ \A k \in InsertedKinds(call[t]) : \E o \in Orders : Inserted(t, k) = {o}
         /\ \A k \in OrderKinds \ InsertedKinds(call[t]) : Inserted(t, k) = {}
         /\ Cancelled(t) \subseteq Orders
         /\ InsertedKinds(call[t]) \subseteq OrderKinds
         /\ call[t].op \notin Cancelling => Cancelled(t) = {}
<1> DEFINE c == call[t]
<1>0. SessionOK(t) /\ Step(t) = "commit"
  BY DEF StatementInv, SessionInv, Commit, At, Step
<1>1. InsertedKinds(c) \subseteq OrderKinds
  BY <1>0 DEF SessionOK, CallOK, InsertedKinds
<1>2. ASSUME NEW k \in InsertedKinds(c) PROVE \E o \in Orders : Inserted(t, k) = {o}
  <2>1. PICK o \in DOMAIN writes[t].orders : InsertedBy(t, o, k)
    BY <1>0 DEF SessionOK, RowsOK
  <2>2. \A x \in DOMAIN writes[t].orders : InsertedBy(t, x, k) => x = o
    BY <1>0, <1>1, <2>1 DEF SessionOK, RowsOK
  <2>3. Inserted(t, k) = {o}
    BY <2>1, <2>2 DEF Inserted
  <2>4. o \in Orders
    BY <1>0, <2>1 DEF SessionOK, RowsOK
  <2>. QED
    BY <2>3, <2>4
<1>3. \A k \in OrderKinds \ InsertedKinds(c) : Inserted(t, k) = {}
  BY DEF Inserted, InsertedBy
<1>4. Cancelled(t) \subseteq Orders /\ (c.op \notin Cancelling => Cancelled(t) = {})
  BY <1>0 DEF SessionOK, RowsOK, Cancelled, CancelledBy
<1>. QED
  BY <1>1, <1>2, <1>3, <1>4

\* The commit of a filled BUY is a step of the lifecycle.
LEMMA BuyFillStep ==
  ASSUME StatementInv, NEW t \in Sessions, Commit(t), call[t].op = "confirmBuyFill"
  PROVE  /\ call[t].order \in Orders /\ call[t].sig \in Signatures
         /\ \E tp, sl \in Orders : ConfirmBuyFill(call[t].order, call[t].sig, tp, sl)
<1> DEFINE c == call[t]
           o == c.order
           p == positionOf[o]
           s == c.sig
<1>0. TypeOK /\ Step(t) = "commit" /\ SessionOK(t)
  BY DEF StatementInv, SessionInv, TablesOK, Commit, At, Step
<1>1. /\ o \in Orders /\ p \in Positions /\ status[o] # "ABSENT"
      /\ kind'[o] = kind[o] /\ positionOf'[o] = p
      /\ kind[o] = "BUY_TRIGGER" /\ status[o] \in {"OPEN", "PENDING"}
      /\ status'[o] = "FILLED" /\ txSignature'[o] = s
  BY CommitWrites DEF OrderMatches, FromStatuses, OrderUpdate
<1>2. /\ state[p] \in {"BUY_PENDING", "ENTERING"}
      /\ state' = [state EXCEPT ![p] = "ACTIVE"]
      /\ hasTokens' = [hasTokens EXCEPT ![p] = TRUE]
      /\ closedReason' = closedReason
  <2>1. ~ SkipsPosition(c)
    BY DEF SkipsPosition
  <2>2. /\ PositionMatches(c, Position(p))
        /\ state' = [state EXCEPT ![p] = PositionUpdate(c, Position(p)).state]
        /\ closedReason' = [closedReason EXCEPT ![p] = PositionUpdate(c, Position(p)).closedReason]
        /\ hasTokens' = [hasTokens EXCEPT ![p] = PositionUpdate(c, Position(p)).hasTokens]
    BY <2>1, CommitWrites
  <2>3. /\ PositionUpdate(c, Position(p)).state = "ACTIVE"
        /\ PositionUpdate(c, Position(p)).closedReason = closedReason[p]
        /\ PositionUpdate(c, Position(p)).hasTokens = TRUE
    BY DEF PositionUpdate
  <2>4. [closedReason EXCEPT ![p] = closedReason[p]] = closedReason
    BY <1>0 DEF TypeOK
  <2>5. state[p] \in {"BUY_PENDING", "ENTERING"}
    BY <2>2 DEF PositionMatches, FromStates
  <2>. QED
    BY <2>2, <2>3, <2>4, <2>5
<1>3. /\ PositionFor(c) = p /\ InsertedKinds(c) = ProtectionKinds
      /\ writes[t].trades = {<<p, "BUY_APPROVAL">>}
  <2>1. PositionFor(c) = p
    BY <1>1, SessionAssumption DEF PositionFor
  <2>2. InsertedTrades(c) = {<<p, "BUY_APPROVAL">>}
    BY <2>1 DEF InsertedTrades
  <2>. QED
    BY <1>0, <2>1, <2>2 DEF InsertedKinds, SessionOK, RowsOK
<1>4. PICK tp \in Orders : Inserted(t, "TAKE_PROFIT") = {tp}
  BY <1>3, InsertedOnce
<1>5. PICK sl \in Orders : Inserted(t, "STOP_LOSS") = {sl}
  BY <1>3, InsertedOnce
<1>6. /\ Cancelled(t) = {}
      /\ \A k \in OrderKinds : Inserted(t, k) \subseteq {tp, sl}
  BY <1>3, <1>4, <1>5, InsertedOnce
<1>7. /\ status[tp] = "ABSENT" /\ kind'[tp] = "TAKE_PROFIT" /\ positionOf'[tp] = p
      /\ status'[tp] = "OPEN" /\ txSignature'[tp] = NULL
      /\ status[sl] = "ABSENT" /\ kind'[sl] = "STOP_LOSS" /\ positionOf'[sl] = p
      /\ status'[sl] = "OPEN" /\ txSignature'[sl] = NULL
      /\ tp # o /\ sl # o /\ tp # sl
  <2>1. status[tp] = "ABSENT" /\ status[sl] = "ABSENT"
    BY <1>4, <1>5 DEF Inserted, InsertedBy
  <2>2. tp # o /\ sl # o
    BY <1>1, <2>1
  <2>. QED
    BY <1>3, <1>4, <1>5, <2>1, <2>2, CommitOtherRows
<1>8. ASSUME NEW x \in Orders \ {o, tp, sl}
      PROVE  /\ kind'[x] = kind[x] /\ positionOf'[x] = positionOf[x]
             /\ txSignature'[x] = txSignature[x] /\ status'[x] = status[x]
  BY <1>6, CommitOtherRows
<1>9. txSignature[tp] = NULL /\ txSignature[sl] = NULL
  BY <1>7 DEF StatementInv, TablesOK, SignatureSettlesOneOrder
<1>10. /\ kind' = [kind EXCEPT ![tp] = "TAKE_PROFIT", ![sl] = "STOP_LOSS"]
       /\ positionOf' = [positionOf EXCEPT ![tp] = p, ![sl] = p]
  BY <1>0, <1>1, <1>7, <1>8, CommitColumns DEF TypeOK
<1>11. status' = [status EXCEPT ![o] = "FILLED", ![tp] = "OPEN", ![sl] = "OPEN"]
  BY <1>0, <1>1, <1>7, <1>8, CommitColumns DEF TypeOK
<1>12. txSignature' = [txSignature EXCEPT ![o] = s]
  BY <1>0, <1>1, <1>7, <1>8, <1>9, CommitColumns DEF TypeOK
<1>13. BookTrade(p, "BUY_APPROVAL")
  BY <1>0, <1>1, <1>3, CommitBooks
<1>14. s \in Signatures /\ ~ SignatureUsed(s)
  BY <1>0 DEF SessionOK, CallOK, SignatureOK, HasSigned
<1>15. ConfirmBuyFill(o, s, tp, sl)
  BY <1>1, <1>2, <1>7, <1>10, <1>11, <1>12, <1>13, <1>14 DEF ConfirmBuyFill, FreshOrders, Commit
<1>. QED
  BY <1>1, <1>14, <1>15

--------------------------------------------------------------------------------
(* A call that cancels exits may find that some have opened since it read  *)
(* them, when placeProtectionOrder runs beside it: its commit is then no   *)
(* step of the lifecycle.  These are its commits, whatever open exits it   *)
(* cancels, and they keep the tables right all the same.                   *)

OpenExits == {o \in Orders : kind[o] \in ProtectionKinds /\ status[o] = "OPEN"}

\* The exits N are armed on p and the exits X cancelled.
RearmsExits(p, X, N) ==
  /\ state[p] # "ABSENT"
  /\ X \subseteq OpenExits
  /\ \A o \in N : status[o] = "ABSENT" /\ kind'[o] \in ProtectionKinds
  /\ kind' = [o \in Orders |-> IF o \in N THEN kind'[o] ELSE kind[o]]
  /\ status' = [o \in Orders |-> IF o \in N THEN "OPEN"
                                 ELSE IF o \in X THEN "CANCELLED" ELSE status[o]]
  /\ positionOf' = [o \in Orders |-> IF o \in N THEN p ELSE positionOf[o]]
  /\ UNCHANGED <<proposalVars, positionVars, txSignature, trades>>

\* The exit o is filled and the exits X cancelled.
FillsExit(o, s, X) ==
  /\ kind[o] \in ProtectionKinds
  /\ status[o] \in {"OPEN", "PENDING"}
  /\ state[positionOf[o]] \in {"ACTIVE", "CLOSING"}
  /\ ~ SignatureUsed(s)
  /\ X \subseteq OpenExits
  /\ status' = [x \in Orders |-> IF x = o THEN "FILLED"
                                 ELSE IF x \in X THEN "CANCELLED" ELSE status[x]]
  /\ txSignature' = [txSignature EXCEPT ![o] = s]
  /\ state' = [state EXCEPT ![positionOf[o]] = "CLOSED"]
  /\ closedReason' = [closedReason EXCEPT ![positionOf[o]] = ReasonOf(kind[o])]
  /\ BookTrade(positionOf[o], SourceOf(kind[o]))
  /\ UNCHANGED <<proposalVars, hasTokens, kind, positionOf>>

\* The position p is closed by the CLOSE_SWAP order d and the exits X cancelled.
ClosesPosition(p, s, d, X) ==
  /\ ~ SignatureUsed(s)
  /\ state[p] = "ACTIVE"
  /\ d \in FreshOrders
  /\ X \subseteq OpenExits
  /\ state' = [state EXCEPT ![p] = "CLOSED"]
  /\ closedReason' = [closedReason EXCEPT ![p] = "USER_CLOSE"]
  /\ kind' = [kind EXCEPT ![d] = "CLOSE_SWAP"]
  /\ status' = [o \in Orders |-> IF o = d THEN "FILLED"
                                 ELSE IF o \in X THEN "CANCELLED" ELSE status[o]]
  /\ positionOf' = [positionOf EXCEPT ![d] = p]
  /\ txSignature' = [txSignature EXCEPT ![d] = s]
  /\ BookTrade(p, "USER_CLOSE")
  /\ UNCHANGED <<proposalVars, hasTokens>>

\* A replacement of exits keeps the tables right.
LEMMA RearmsExitsKeeps ==
  ASSUME TablesOK, NEW p \in Positions, NEW X, NEW N \in SUBSET Orders, RearmsExits(p, X, N)
  PROVE  TablesOK'
<1> USE DEF proposalVars, positionVars, OpenExits
<1>0. TypeOK /\ RowsWellFormed /\ \A o \in Orders : status[o] # "ABSENT" => positionOf[o] \in Positions
  BY DEF TablesOK, TypeOK, RowsWellFormed
<1>1. TypeOK'
  BY <1>0 DEF RearmsExits, TypeOK
<1>2. RowsWellFormed'
  BY <1>0 DEF RearmsExits, TypeOK, RowsWellFormed
<1>3. EntryOrderTracksPosition'
  <2>1. \A b \in Orders : kind'[b] = "BUY_TRIGGER" <=> kind[b] = "BUY_TRIGGER"
    BY <1>0 DEF RearmsExits, RowsWellFormed
  <2>2. \A b \in Orders : kind[b] = "BUY_TRIGGER" =>
          positionOf'[b] = positionOf[b] /\ status'[b] = status[b]
    BY <1>0 DEF RearmsExits, RowsWellFormed
  <2>3. \A q \in Positions : state'[q] = state[q] /\ EntryStatus(q)' = EntryStatus(q)
    BY DEF RearmsExits, EntryStatus
  <2>. QED
    BY <2>1, <2>2, <2>3 DEF TablesOK, EntryOrderTracksPosition
<1>4. ClaimIsExclusive'
  BY <1>0, ClaimFrame DEF RearmsExits, TablesOK
<1>5. LedgerMatchesPosition'
  BY LedgerFrame DEF RearmsExits, TablesOK, Bought, SoldBy, ReasonOf
<1>6. OneFilledExit'
  BY <1>0, ExitFrame DEF RearmsExits, TablesOK, FilledExit
<1>7. SignatureSettlesOneOrder'
  BY <1>0 DEF RearmsExits, TablesOK, SignatureSettlesOneOrder
<1>. QED
  BY <1>1, <1>2, <1>3, <1>4, <1>5, <1>6, <1>7 DEF TablesOK

\* The fill of an exit keeps the tables right, whichever other exits it cancels.
LEMMA FillsExitKeeps ==
  ASSUME TablesOK, NEW o \in Orders, NEW s \in Signatures, NEW X, FillsExit(o, s, X)
  PROVE  TablesOK'
<1> USE DEF proposalVars, OpenExits
<1>0. /\ TypeOK /\ RowsWellFormed
      /\ \A x \in Orders : status[x] # "ABSENT" => positionOf[x] \in Positions
  BY DEF TablesOK, TypeOK, RowsWellFormed
<1>1. TypeOK'
  <2>1. trades' \in [Positions -> [TradeSources -> Nat]]
    BY <1>0, BookTradeType DEF FillsExit, SourceOf
  <2>. QED
    BY <1>0, <2>1 DEF FillsExit, ReasonOf, TypeOK
<1>2. RowsWellFormed'
  BY <1>0 DEF FillsExit, ReasonOf, TypeOK, RowsWellFormed
<1>3. EntryOrderTracksPosition'
  <2>1. /\ kind' = kind /\ positionOf' = positionOf
        /\ \A b \in Orders : kind[b] = "BUY_TRIGGER" => status'[b] = status[b]
    BY DEF FillsExit
  <2>2. ASSUME NEW q \in Positions, state'[q] # "ABSENT"
        PROVE  state[q] # "ABSENT" /\ EntryStatus(q)' = EntryStatus(q)
    BY <1>0, <2>2 DEF FillsExit, ReasonOf, EntryStatus, TypeOK, RowsWellFormed
  <2>. QED
    BY <2>1, <2>2 DEF TablesOK, EntryOrderTracksPosition
<1>4. ClaimIsExclusive'
  <2>1. /\ kind' = kind /\ positionOf' = positionOf
        /\ positionOf[o] \in Positions
        /\ state[positionOf[o]] \in {"ACTIVE", "CLOSING"}
        /\ state' = [state EXCEPT ![positionOf[o]] = "CLOSED"]
    BY <1>0 DEF FillsExit
  <2>2. \A x \in Orders : status'[x] = "PENDING" => status[x] = "PENDING"
    BY DEF FillsExit
  <2>3. ASSUME NEW x \in Orders, status[x] = "PENDING", positionOf[x] # positionOf[o]
        PROVE  status'[x] = "PENDING"
    BY <2>3 DEF FillsExit
  <2>4. ASSUME NEW p \in Positions, state'[p] \in {"ENTERING", "CLOSING"}
        PROVE  \E x \in Orders : /\ positionOf'[x] = p
                                 /\ status'[x] = "PENDING"
                                 /\ state'[p] = Pending(kind'[x])
    <3>1. p # positionOf[o] /\ state'[p] = state[p]
      BY <1>0, <2>1, <2>4 DEF TypeOK
    <3>. QED
      BY <2>1, <2>3, <2>4, <3>1 DEF TablesOK, ClaimIsExclusive
  <2>5. ASSUME NEW x \in Orders, status'[x] = "PENDING"
        PROVE  \/ state'[positionOf'[x]] = Pending(kind'[x])
               \/ kind'[x] \in ProtectionKinds /\ state'[positionOf'[x]] = "CLOSED"
    <3>1. status[x] = "PENDING" /\ positionOf[x] \in Positions
      BY <1>0, <2>2, <2>5
    <3>2. CASE positionOf[x] = positionOf[o]
      <4>1. state[positionOf[x]] = Pending(kind[x]) \/ kind[x] \in ProtectionKinds
        BY <3>1 DEF TablesOK, ClaimIsExclusive
      <4>2. kind[x] \in ProtectionKinds
        BY <1>0, <2>1, <3>1, <3>2, <4>1 DEF Pending, TypeOK, RowsWellFormed
      <4>. QED
        BY <1>0, <2>1, <3>2, <4>2 DEF TypeOK
    <3>3. CASE positionOf[x] # positionOf[o]
      BY <1>0, <2>1, <3>1, <3>3 DEF TablesOK, ClaimIsExclusive, TypeOK
    <3>. QED
      BY <3>2, <3>3
  <2>. QED
    BY <2>1, <2>2, <2>4, <2>5 DEF TablesOK, ClaimIsExclusive, Pending
<1>5. LedgerMatchesPosition'
  BY <1>0, LedgerSale DEF FillsExit, TablesOK
<1>6. OneFilledExit'
  BY <1>0 DEF FillsExit, ReasonOf, SoldBy, TypeOK, RowsWellFormed, TablesOK, OneFilledExit
<1>7. SignatureSettlesOneOrder'
  BY <1>0 DEF FillsExit, TypeOK, RowsWellFormed, TablesOK, SignatureSettlesOneOrder, SignatureUsed
<1>. QED
  BY <1>1, <1>2, <1>3, <1>4, <1>5, <1>6, <1>7 DEF TablesOK

\* A close keeps the tables right, whichever exits it cancels.
LEMMA ClosesPositionKeeps ==
  ASSUME TablesOK, NEW p \in Positions, NEW s \in Signatures, NEW d \in Orders, NEW X,
         ClosesPosition(p, s, d, X)
  PROVE  TablesOK'
<1> USE DEF proposalVars, OpenExits, FreshOrders
<1>0. /\ TypeOK /\ RowsWellFormed
      /\ \A x \in Orders : status[x] # "ABSENT" => positionOf[x] \in Positions
  BY DEF TablesOK, TypeOK, RowsWellFormed
<1>1. TypeOK'
  <2>1. trades' \in [Positions -> [TradeSources -> Nat]]
    BY <1>0, BookTradeType DEF ClosesPosition
  <2>. QED
    BY <1>0, <2>1 DEF ClosesPosition, TypeOK
<1>2. RowsWellFormed'
  BY <1>0 DEF ClosesPosition, TypeOK, RowsWellFormed
<1>3. EntryOrderTracksPosition'
  <2>1. \A b \in Orders : kind'[b] = "BUY_TRIGGER" <=> kind[b] = "BUY_TRIGGER"
    BY <1>0 DEF ClosesPosition, TypeOK, RowsWellFormed
  <2>2. \A b \in Orders : kind[b] = "BUY_TRIGGER" =>
          positionOf'[b] = positionOf[b] /\ status'[b] = status[b]
    BY <1>0 DEF ClosesPosition, TypeOK, RowsWellFormed
  <2>3. ASSUME NEW q \in Positions, state'[q] # "ABSENT"
        PROVE  state[q] # "ABSENT" /\ EntryStatus(q)' = EntryStatus(q)
    BY <1>0, <2>3 DEF ClosesPosition, EntryStatus, TypeOK, RowsWellFormed
  <2>. QED
    BY <2>1, <2>2, <2>3 DEF TablesOK, EntryOrderTracksPosition
<1>4. ClaimIsExclusive'
  BY <1>0, ClaimFrame DEF ClosesPosition, TypeOK, TablesOK
<1>5. LedgerMatchesPosition'
  <2>1. /\ state' = [state EXCEPT ![p] = "CLOSED"]
        /\ closedReason' = [closedReason EXCEPT ![p] = ReasonOf("CLOSE_SWAP")]
        /\ BookTrade(p, SourceOf("CLOSE_SWAP"))
        /\ state[p] = "ACTIVE"
    BY DEF ClosesPosition, ReasonOf, SourceOf
  <2>. QED
    BY <1>0, <2>1, LedgerSale DEF TablesOK
<1>6. OneFilledExit'
  BY <1>0, SMTT(25) DEF ClosesPosition, ReasonOf, SoldBy, TypeOK, RowsWellFormed, TablesOK, OneFilledExit
<1>7. SignatureSettlesOneOrder'
  BY <1>0 DEF ClosesPosition, TypeOK, RowsWellFormed, TablesOK, SignatureSettlesOneOrder, SignatureUsed
<1>. QED
  BY <1>1, <1>2, <1>3, <1>4, <1>5, <1>6, <1>7 DEF TablesOK

\* The exits that a session has cancelled are open when it commits.
LEMMA CancelledOpen ==
  ASSUME NEW t \in Sessions, SessionOK(t)
  PROVE  Cancelled(t) \subseteq OpenOrders(PositionFor(call[t]), ExitKinds(call[t]))
BY DEF Cancelled, CancelledBy, SessionOK, RowsOK, OpenOrders

\* The commit of a filled exit.
LEMMA ExitFillCommit ==
  ASSUME StatementInv, NEW t \in Sessions, Commit(t), call[t].op = "confirmExitFill"
  PROVE  /\ call[t].order \in Orders /\ call[t].sig \in Signatures
         /\ PositionFor(call[t]) = positionOf[call[t].order]
         /\ FillsExit(call[t].order, call[t].sig, Cancelled(t))
<1> DEFINE c == call[t]
           o == c.order
           p == positionOf[o]
           s == c.sig
<1>0. TypeOK /\ Step(t) = "commit" /\ SessionOK(t)
  BY DEF StatementInv, SessionInv, TablesOK, Commit, At, Step
<1>1. /\ o \in Orders /\ p \in Positions /\ status[o] # "ABSENT" /\ PositionFor(c) = p
      /\ kind'[o] = kind[o] /\ positionOf'[o] = p
      /\ kind[o] \in ProtectionKinds /\ status[o] \in {"OPEN", "PENDING"}
      /\ status'[o] = "FILLED" /\ txSignature'[o] = s
  BY CommitWrites DEF OrderMatches, FromStatuses, OrderUpdate
<1>2. /\ state[p] \in {"ACTIVE", "CLOSING"}
      /\ state' = [state EXCEPT ![p] = "CLOSED"]
      /\ closedReason' = [closedReason EXCEPT ![p] = ReasonOf(kind[o])]
      /\ hasTokens' = hasTokens
  <2>1. ~ SkipsPosition(c)
    BY DEF SkipsPosition
  <2>2. /\ PositionMatches(c, Position(p))
        /\ state' = [state EXCEPT ![p] = PositionUpdate(c, Position(p)).state]
        /\ closedReason' = [closedReason EXCEPT ![p] = PositionUpdate(c, Position(p)).closedReason]
        /\ hasTokens' = [hasTokens EXCEPT ![p] = PositionUpdate(c, Position(p)).hasTokens]
    BY <2>1, CommitWrites
  <2>3. /\ PositionUpdate(c, Position(p)).state = "CLOSED"
        /\ PositionUpdate(c, Position(p)).closedReason = ReasonOf(kind[o])
        /\ PositionUpdate(c, Position(p)).hasTokens = hasTokens[p]
    BY DEF PositionUpdate
  <2>4. [hasTokens EXCEPT ![p] = hasTokens[p]] = hasTokens
    BY <1>0 DEF TypeOK
  <2>5. state[p] \in {"ACTIVE", "CLOSING"}
    BY <2>2 DEF PositionMatches, FromStates
  <2>. QED
    BY <2>2, <2>3, <2>4, <2>5
<1>3. writes[t].trades = {<<p, SourceOf(kind[o])>>}
  <2>1. InsertedTrades(c) = {<<p, SourceOf(kind[o])>>}
    BY <1>1 DEF InsertedTrades
  <2>. QED
    BY <1>0, <2>1 DEF SessionOK, RowsOK
<1>4. Cancelled(t) \subseteq OpenExits /\ o \notin Cancelled(t)
  <2>1. ExitKinds(c) = {SiblingOf(kind[o])}
    BY DEF ExitKinds
  <2>. QED
    BY <1>0, <1>1, <2>1, CancelledOpen DEF OpenOrders, OpenExits, SiblingOf
<1>5. \A k \in OrderKinds : Inserted(t, k) = {}
  BY InsertedOnce DEF InsertedKinds
<1>6. ASSUME NEW x \in Orders \ {o}
      PROVE  /\ kind'[x] = kind[x] /\ positionOf'[x] = positionOf[x]
             /\ txSignature'[x] = txSignature[x]
             /\ status'[x] = IF x \in Cancelled(t) THEN "CANCELLED" ELSE status[x]
  BY <1>5, CommitOtherRows
<1>7. kind' = kind /\ positionOf' = positionOf
  BY <1>0, <1>1, <1>6, CommitColumns DEF TypeOK
<1>8. status' = [x \in Orders |-> IF x = o THEN "FILLED"
                                  ELSE IF x \in Cancelled(t) THEN "CANCELLED" ELSE status[x]]
  BY <1>1, <1>6, CommitColumns
<1>9. txSignature' = [txSignature EXCEPT ![o] = s]
  BY <1>0, <1>1, <1>6, CommitColumns DEF TypeOK
<1>10. BookTrade(p, SourceOf(kind[o]))
  BY <1>0, <1>1, <1>3, CommitBooks DEF SourceOf
<1>11. s \in Signatures /\ ~ SignatureUsed(s)
  BY <1>0 DEF SessionOK, CallOK, SignatureOK, HasSigned
<1>. QED
  BY <1>1, <1>2, <1>4, <1>7, <1>8, <1>9, <1>10, <1>11 DEF FillsExit, Commit

\* The commit of a close.
LEMMA CloseCommit ==
  ASSUME StatementInv, NEW t \in Sessions, Commit(t), call[t].op = "userCloseActive"
  PROVE  /\ call[t].position \in Positions /\ call[t].sig \in Signatures
         /\ PositionFor(call[t]) = call[t].position
         /\ \E d \in Orders : ClosesPosition(call[t].position, call[t].sig, d, Cancelled(t))
<1> DEFINE c == call[t]
           p == c.position
           s == c.sig
<1>0. TypeOK /\ Step(t) = "commit" /\ SessionOK(t)
  BY DEF StatementInv, SessionInv, TablesOK, Commit, At, Step
<1>1. p \in Positions /\ PositionFor(c) = p
  BY <1>0 DEF SessionOK, CallOK, PositionFor
<1>2. /\ state[p] = "ACTIVE" /\ state' = [state EXCEPT ![p] = "CLOSED"]
      /\ closedReason' = [closedReason EXCEPT ![p] = "USER_CLOSE"]
      /\ hasTokens' = hasTokens
  <2>1. ~ SkipsPosition(c)
    BY DEF SkipsPosition
  <2>2. /\ PositionMatches(c, Position(p))
        /\ state' = [state EXCEPT ![p] = PositionUpdate(c, Position(p)).state]
        /\ closedReason' = [closedReason EXCEPT ![p] = PositionUpdate(c, Position(p)).closedReason]
        /\ hasTokens' = [hasTokens EXCEPT ![p] = PositionUpdate(c, Position(p)).hasTokens]
    BY <1>1, <2>1, CommitPosition
  <2>3. /\ PositionUpdate(c, Position(p)).state = "CLOSED"
        /\ PositionUpdate(c, Position(p)).closedReason = "USER_CLOSE"
        /\ PositionUpdate(c, Position(p)).hasTokens = hasTokens[p]
    BY DEF PositionUpdate
  <2>4. [hasTokens EXCEPT ![p] = hasTokens[p]] = hasTokens
    BY <1>0 DEF TypeOK
  <2>5. state[p] = "ACTIVE"
    BY <2>2 DEF PositionMatches, FromStates
  <2>. QED
    BY <2>2, <2>3, <2>4, <2>5
<1>3. writes[t].trades = {<<p, "USER_CLOSE">>}
  <2>1. InsertedTrades(c) = {<<p, "USER_CLOSE">>}
    BY <1>1 DEF InsertedTrades
  <2>. QED
    BY <1>0, <2>1 DEF SessionOK, RowsOK
<1>4. Cancelled(t) \subseteq OpenExits
  <2>1. ExitKinds(c) = ProtectionKinds
    BY DEF ExitKinds
  <2>. QED
    BY <1>0, <2>1, CancelledOpen DEF OpenOrders, OpenExits
<1>5. PICK d \in Orders : Inserted(t, "CLOSE_SWAP") = {d}
  BY InsertedOnce DEF InsertedKinds
<1>6. \A k \in OrderKinds : Inserted(t, k) \subseteq {d}
  BY <1>5, InsertedOnce DEF InsertedKinds
<1>7. /\ status[d] = "ABSENT" /\ kind'[d] = "CLOSE_SWAP" /\ positionOf'[d] = p
      /\ status'[d] = "FILLED" /\ txSignature'[d] = s
  BY <1>1, <1>5, CommitOtherRows
<1>8. ASSUME NEW x \in Orders \ {d}
      PROVE  /\ kind'[x] = kind[x] /\ positionOf'[x] = positionOf[x]
             /\ txSignature'[x] = txSignature[x]
             /\ status'[x] = IF x \in Cancelled(t) THEN "CANCELLED" ELSE status[x]
  BY <1>6, CommitOtherRows
<1>9. kind' = [kind EXCEPT ![d] = "CLOSE_SWAP"] /\ positionOf' = [positionOf EXCEPT ![d] = p]
  BY <1>0, <1>7, <1>8, CommitColumns DEF TypeOK
<1>10. status' = [x \in Orders |-> IF x = d THEN "FILLED"
                                   ELSE IF x \in Cancelled(t) THEN "CANCELLED" ELSE status[x]]
  BY <1>7, <1>8, CommitColumns
<1>11. txSignature' = [txSignature EXCEPT ![d] = s]
  BY <1>0, <1>7, <1>8, CommitColumns DEF TypeOK
<1>12. BookTrade(p, "USER_CLOSE")
  BY <1>0, <1>1, <1>3, CommitBooks
<1>13. s \in Signatures /\ ~ SignatureUsed(s)
  BY <1>0 DEF SessionOK, CallOK, SignatureOK, HasSigned
<1>14. ClosesPosition(p, s, d, Cancelled(t))
  BY <1>1, <1>2, <1>4, <1>7, <1>9, <1>10, <1>11, <1>12, <1>13 DEF ClosesPosition, FreshOrders, Commit
<1>. QED
  BY <1>1, <1>5, <1>13, <1>14

\* The commit of a replacement or of a new exit.
LEMMA RearmCommit ==
  ASSUME StatementInv, NEW t \in Sessions, Commit(t),
         call[t].op \in {"replaceProtectionOrders", "placeProtectionOrder"}
  PROVE  /\ call[t].position \in Positions /\ PositionFor(call[t]) = call[t].position
         /\ InsertedKinds(call[t]) = call[t].kinds /\ call[t].kinds \subseteq ProtectionKinds
         /\ RearmsExits(call[t].position, Cancelled(t),
                        Inserted(t, "TAKE_PROFIT") \cup Inserted(t, "STOP_LOSS"))
         /\ \A k \in ProtectionKinds : \A o \in Inserted(t, k) :
              o \in Orders /\ status[o] = "ABSENT" /\ kind'[o] = k
<1> DEFINE c == call[t]
           p == c.position
           N == Inserted(t, "TAKE_PROFIT") \cup Inserted(t, "STOP_LOSS")
<1>0. TypeOK /\ Step(t) = "commit" /\ SessionOK(t)
  BY DEF StatementInv, SessionInv, TablesOK, Commit, At, Step
<1>1. /\ p \in Positions /\ PositionFor(c) = p
      /\ InsertedKinds(c) = c.kinds /\ c.kinds \subseteq ProtectionKinds
  BY <1>0 DEF SessionOK, CallOK, PositionFor, InsertedKinds
<1>2. state[p] # "ABSENT" /\ UNCHANGED positionVars
  <2>1. CASE c.op = "placeProtectionOrder"
    BY <1>0, <1>1, <2>1, CommitPosition DEF SessionOK, ReadOK, SkipsPosition
  <2>2. CASE c.op = "replaceProtectionOrders"
    <3>1. PositionUpdate(c, Position(p)) = Position(p) /\ ~ SkipsPosition(c)
      BY <2>2 DEF PositionUpdate, SkipsPosition
    <3>2. /\ PositionMatches(c, Position(p))
          /\ state' = [state EXCEPT ![p] = state[p]]
          /\ closedReason' = [closedReason EXCEPT ![p] = closedReason[p]]
          /\ hasTokens' = [hasTokens EXCEPT ![p] = hasTokens[p]]
      BY <1>1, <3>1, CommitPosition
    <3>3. /\ [state EXCEPT ![p] = state[p]] = state
          /\ [closedReason EXCEPT ![p] = closedReason[p]] = closedReason
          /\ [hasTokens EXCEPT ![p] = hasTokens[p]] = hasTokens
      BY <1>0 DEF TypeOK
    <3>4. state[p] = "ACTIVE"
      BY <2>2, <3>2 DEF PositionMatches, FromStates
    <3>. QED
      BY <3>2, <3>3, <3>4 DEF positionVars
  <2>. QED
    BY <2>1, <2>2
<1>3. trades' = trades
  <2>1. InsertedTrades(c) = {}
    BY DEF InsertedTrades
  <2>. QED
    BY <1>0, <2>1, CommitBooksNothing DEF SessionOK, RowsOK
<1>4. Cancelled(t) \subseteq OpenExits
  <2>1. ExitKinds(c) = c.kinds
    BY DEF ExitKinds
  <2>. QED
    BY <1>0, <1>1, <2>1, CancelledOpen DEF OpenOrders, OpenExits
<1>5. ASSUME NEW k \in ProtectionKinds, NEW o \in Inserted(t, k)
      PROVE  /\ o \in Orders /\ status[o] = "ABSENT" /\ kind'[o] = k
             /\ positionOf'[o] = p /\ status'[o] = "OPEN" /\ txSignature'[o] = NULL
  <2>1. o \in Orders
    BY <1>0, <1>5 DEF Inserted, SessionOK, RowsOK
  <2>. QED
    BY <1>1, <1>5, <2>1, CommitOtherRows
<1>6. \A k \in OrderKinds : Inserted(t, k) \subseteq N
  BY <1>1, InsertedOnce
<1>7. ASSUME NEW x \in Orders \ N
      PROVE  /\ kind'[x] = kind[x] /\ positionOf'[x] = positionOf[x]
             /\ txSignature'[x] = txSignature[x]
             /\ status'[x] = IF x \in Cancelled(t) THEN "CANCELLED" ELSE status[x]
  BY <1>6, CommitOtherRows
<1>8. /\ \A o \in N : /\ o \in Orders /\ status[o] = "ABSENT" /\ kind'[o] \in ProtectionKinds
                      /\ positionOf'[o] = p /\ status'[o] = "OPEN" /\ txSignature'[o] = NULL
  BY <1>5
<1>9. \A o \in N : txSignature[o] = NULL
  BY <1>8 DEF StatementInv, TablesOK, SignatureSettlesOneOrder
<1> HIDE DEF N
<1>10. kind' = [o \in Orders |-> IF o \in N THEN kind'[o] ELSE kind[o]]
  BY <1>7, CommitColumns
<1>11. status' = [o \in Orders |-> IF o \in N THEN "OPEN"
                                   ELSE IF o \in Cancelled(t) THEN "CANCELLED" ELSE status[o]]
  BY <1>7, <1>8, CommitColumns
<1>12. positionOf' = [o \in Orders |-> IF o \in N THEN p ELSE positionOf[o]]
  BY <1>7, <1>8, CommitColumns
<1>13. txSignature' = txSignature
  BY <1>0, <1>7, <1>8, <1>9, CommitColumns DEF TypeOK
<1>14. RearmsExits(p, Cancelled(t), N)
  BY <1>2, <1>3, <1>4, <1>8, <1>10, <1>11, <1>12, <1>13 DEF RearmsExits, Commit
<1>. QED
  BY <1>1, <1>5, <1>14 DEF N

--------------------------------------------------------------------------------
(* The invariant.                                                          *)

\* A commit keeps the tables right.
LEMMA CommitTables == ASSUME StatementInv, NEW t \in Sessions, Commit(t) PROVE TablesOK'
<1> DEFINE c == call[t]
<1>0. TablesOK /\ SessionOK(t) /\ c.op \in OrderOps \cup PositionOps
  BY DEF StatementInv, SessionInv, SessionOK, CallOK, Commit, At, Step
<1>1. CASE c.op \in Claiming \cup {"cancelOpenOrder"}
  BY <1>0, <1>1, OneOrderStep, LifecycleKeeps DEF Next, ClaimNext, ProtectionNext
<1>2. CASE c.op = "confirmBuyFill"
  BY <1>0, <1>2, BuyFillStep, LifecycleKeeps DEF Next, EntryNext
<1>3. CASE c.op = "confirmExitFill"
  BY <1>0, <1>3, ExitFillCommit, FillsExitKeeps
<1>4. CASE c.op = "userCloseActive"
  BY <1>0, <1>4, CloseCommit, ClosesPositionKeeps
<1>5. CASE c.op \in {"replaceProtectionOrders", "placeProtectionOrder"}
  <2>1. Inserted(t, "TAKE_PROFIT") \cup Inserted(t, "STOP_LOSS") \in SUBSET Orders
    BY <1>5, RearmCommit
  <2>. QED
    BY <1>0, <1>5, <2>1, RearmCommit, RearmsExitsKeeps
<1>. QED
  BY <1>0, <1>1, <1>2, <1>3, <1>4, <1>5

\* A commit keeps the tables right and what the other sessions hold.
LEMMA CommitKeeps == ASSUME StatementInv, NEW t \in Sessions, Commit(t) PROVE StatementInv'
<1>1. TablesOK'
  BY CommitTables
<1>2. /\ SessionsTyped' /\ SessionOK(t)' /\ ~ HasSigned(t)' /\ writes'[t] = NoWrites
      /\ \A u \in Others(t) : call'[u] = call[u] /\ pc'[u] = pc[u] /\ writes'[u] = writes[u]
  BY FinishClears DEF StatementInv, SessionInv, SessionOK, Commit
<1>3. \A u \in Sessions : SessionOK(u)'
  BY <1>2, CommitUnseen DEF Others
<1>4. LocksExclusive'
  <2>1. \A u \in Others(t) : HasSigned(u)' <=> HasSigned(u)
    BY <1>2 DEF HasSigned, Step
  <2>2. DOMAIN writes'[t].orders = {} /\ DOMAIN writes'[t].positions = {}
    BY <1>2 DEF NoWrites
  <2>3. ASSUME NEW u \in Sessions, NEW v \in Sessions, u # v
        PROVE  /\ DOMAIN writes'[u].orders \cap DOMAIN writes'[v].orders = {}
               /\ DOMAIN writes'[u].positions \cap DOMAIN writes'[v].positions = {}
               /\ HasSigned(u)' /\ HasSigned(v)' => call'[u].sig # call'[v].sig
    <3>1. CASE u = t \/ v = t
      BY <1>2, <2>2, <3>1
    <3>2. CASE u # t /\ v # t
      BY <1>2, <2>1, <2>3, <3>2 DEF Others, StatementInv, SessionInv, LocksExclusive
    <3>. QED
      BY <3>1, <3>2
  <2>. QED
    BY <2>3 DEF LocksExclusive
<1>. QED
  BY <1>1, <1>2, <1>3, <1>4 DEF StatementInv, SessionInv

\* With no session in a transaction the invariant is that of the tables.
LEMMA StartsRight == StatementInit => StatementInv
<1> SUFFICES ASSUME StatementInit PROVE StatementInv
  OBVIOUS
<1>1. TablesOK
  BY DEF StatementInit, TablesOK, TypeOK, RowsWellFormed, EntryOrderTracksPosition, EntryStatus,
         ClaimIsExclusive, LedgerMatchesPosition, Bought, SoldBy, SourceOf, OneFilledExit,
         SignatureSettlesOneOrder
<1>2. SessionsTyped
  BY DEF StatementInit, SessionsTyped, NoWrites
<1>3. ASSUME NEW t \in Sessions
      PROVE  /\ SessionOK(t) /\ ~ HasSigned(t)
             /\ DOMAIN writes[t].orders = {} /\ DOMAIN writes[t].positions = {}
  <2>1. /\ Step(t) = "idle" /\ call[t] = NoCall /\ todo[t] = {} /\ pc[t] = <<>>
        /\ DOMAIN writes[t].orders = {} /\ DOMAIN writes[t].positions = {} /\ writes[t].trades = {}
    BY DEF StatementInit, Step, NoWrites
  <2>2. PlanOK(t) /\ CallOK(t) /\ ReadOK(t)
    BY <2>1 DEF PlanOK, CallOK, ReadOK, NoCall, Call
  <2>3. OrderOK(t) /\ PositionOK(t) /\ TodoOK(t) /\ SignatureOK(t) /\ ~ HasSigned(t)
    BY <2>1 DEF OrderOK, PositionOK, TodoOK, SignatureOK, HasSigned
  <2>4. RowsOK(t)
    BY <2>1 DEF RowsOK
  <2>. QED
    BY <2>1, <2>2, <2>3, <2>4 DEF SessionOK
<1>. QED
  BY <1>1, <1>2, <1>3 DEF StatementInv, SessionInv, LocksExclusive

\* Every statement keeps the invariant.
LEMMA StatementStep == StatementInv /\ [StatementNext]_statementVars => StatementInv'
<1> SUFFICES ASSUME StatementInv, [StatementNext]_statementVars PROVE StatementInv'
  OBVIOUS
<1>1. CASE StatementNext
  BY <1>1, BeginKeeps, RollbackKeeps, ReadKeeps, UpdateOrderKeeps, UpdatePositionKeeps,
     ReadExitsKeeps, CancelExitKeeps, InsertKeeps, CommitKeeps DEF StatementNext
<1>2. CASE UNCHANGED statementVars
  <2>1. UNCHANGED vars /\ UNCHANGED <<call, pc, todo, writes>>
    BY <1>2 DEF statementVars, sessionVars
  <2>2. CASE Sessions = {}
    BY <2>1, <2>2, LifecycleKeeps
    DEF StatementInv, SessionInv, SessionsTyped, LocksExclusive
  <2>3. ASSUME NEW t \in Sessions PROVE StatementInv'
    <3>1. /\ SessionsTyped' /\ SessionOK(t)' /\ (HasSigned(t)' <=> HasSigned(t))
      BY <2>1, Unseen DEF StatementInv, SessionInv, SessionsTyped, HasSigned, Step
    <3>2. \A u \in Others(t) :
            /\ DOMAIN writes'[t].orders \cap DOMAIN writes[u].orders = {}
            /\ DOMAIN writes'[t].positions \cap DOMAIN writes[u].positions = {}
            /\ HasSigned(t)' /\ HasSigned(u) => call'[t].sig # call[u].sig
      BY <2>1, <3>1 DEF StatementInv, SessionInv, LocksExclusive, Others
    <3>. QED
      BY <2>1, <3>1, <3>2, OneMoves
  <2>. QED
    BY <2>2, <2>3
<1>. QED
  BY <1>1, <1>2

\* Every session holds what its function says it holds, at every statement, and
\* the committed tables are right.
THEOREM StatementsCorrect == StatementSpec => []StatementInv
BY StartsRight, StatementStep, PTL DEF StatementSpec

--------------------------------------------------------------------------------
(* What the invariant entails.                                             *)

\* The columns of the sessions keep to their types.
THEOREM StatementTypeCorrect == StatementSpec => []StatementTypeOK
<1>1. StatementInv => StatementTypeOK
  <2> SUFFICES ASSUME StatementInv PROVE StatementTypeOK
    OBVIOUS
  <2>1. TypeOK /\ todo \in [Sessions -> SUBSET Orders]
    BY DEF StatementInv, SessionInv, SessionsTyped, TablesOK
  <2>2. ASSUME NEW t \in Sessions, pc[t] # <<>> PROVE Head(pc[t]) \in Statements
    BY <2>2 DEF StatementInv, SessionInv, SessionOK, PlanOK, Rests, Statements
  <2>3. ASSUME NEW t \in Sessions, NEW o \in DOMAIN writes[t].orders
        PROVE  o \in Orders /\ writes[t].orders[o].status \in OrderStatuses
    <3>1. SessionOK(t) /\ o \in Orders
      BY <2>3 DEF StatementInv, SessionInv, SessionOK, RowsOK
    <3>2. CASE call[t].op \in OrderOps /\ o = call[t].order
      BY <2>3, <3>1, <3>2 DEF SessionOK, OrderOK, OrderUpdate
    <3>3. CASE CancelledBy(t, o)
      <4>1. writes[t].orders[o].status = "CANCELLED"
        BY <3>3 DEF CancelledBy
      <4>. QED
        BY <3>1, <4>1
    <3>4. ASSUME NEW k, InsertedBy(t, o, k) PROVE writes[t].orders[o].status \in OrderStatuses
      BY <3>4 DEF InsertedBy, NewRow
    <3>. QED
      BY <2>3, <3>1, <3>2, <3>3, <3>4 DEF SessionOK, RowsOK
  <2>. QED
    BY <2>1, <2>2, <2>3 DEF StatementTypeOK
<1>. QED
  BY <1>1, StatementsCorrect, PTL

\* Whatever the transactions interleave, the committed tables are those of whole
\* transactions: no double fill, no claim held twice, no trade booked twice.
THEOREM MoneyIsConsistent == StatementSpec => []MoneyStaysConsistent
<1>1. StatementInv => MoneyStaysConsistent
  BY DEF StatementInv, TablesOK, MoneyStaysConsistent
<1>. QED
  BY <1>1, StatementsCorrect, PTL

\* The LifecycleInvariantError of cancelPendingBuyTx and the rollback of
\* confirmBuyFill after its order statement cannot happen.
THEOREM NoInvariantError == StatementSpec => []InvariantErrorUnreachable
<1>1. ASSUME StatementInv, NEW t \in Sessions, At(t, "position"), call[t].order # NULL,
             kind[call[t].order] = "BUY_TRIGGER"
      PROVE  PositionMatches(call[t], Position(PositionFor(call[t])))
  <2> DEFINE c == call[t]
             o == c.order
             p == positionOf[o]
  <2>1. Step(t) = "position" /\ SessionOK(t) /\ TypeOK /\ RowsWellFormed /\ EntryOrderTracksPosition
    BY <1>1 DEF StatementInv, SessionInv, TablesOK, At, Step
  <2>2. c.op \in OrderOps /\ o \in Orders /\ p \in Positions /\ PositionFor(c) = p
    BY <1>1, <2>1 DEF SessionOK, CallOK, PositionFor, TypeOK, RowsWellFormed
  <2>3. OrderMatches(c, Order(o)) /\ c.op # "confirmExitFill"
    BY <1>1, <2>1, <2>2 DEF SessionOK, OrderOK, OrderMatches
  <2>4. status[o] = EntryStatus(p)
    <3>1. state[p] # "ABSENT"
      BY <2>1, <2>2 DEF SessionOK, CallOK, RowsWellFormed
    <3>. QED
      BY <1>1, <2>1, <2>2, <3>1 DEF EntryOrderTracksPosition
  <2>5. status[o] = "OPEN" => state[p] = "BUY_PENDING"
    BY <2>4 DEF EntryStatus
  <2>6. status[o] = "PENDING" => state[p] = "ENTERING"
    BY <2>4 DEF EntryStatus
  <2>7. status[o] \in FromStatuses(c)
    BY <2>3 DEF OrderMatches
  <2>. QED
    BY <1>1, <2>2, <2>3, <2>5, <2>6, <2>7
    DEF PositionMatches, FromStates, FromStatuses, Before, Pending
<1>2. StatementInv => InvariantErrorUnreachable
  BY <1>1 DEF InvariantErrorUnreachable
<1>. QED
  BY <1>2, StatementsCorrect, PTL

\* The functions that write their order before their position never deadlock
\* among themselves.
THEOREM OrderFirstIsDeadlockFree == StatementSpec => []OrderFirstNeverDeadlocks
<1>1. ASSUME StatementInv, NEW S \in SUBSET {t \in Sessions : call[t].op \in OrderFirst}, S # {}
      PROVE  \E t \in S : \A u \in S : ~ WaitsFor(t, u)
  <2>1. ASSUME NEW t \in S
        PROVE  /\ t \in Sessions /\ SessionOK(t) /\ call[t].op \in OrderFirst
               /\ Step(t) \in {"idle", "read", "order", "position", "insert", "commit"}
    BY <1>1 DEF StatementInv, SessionInv, SessionOK, PlanOK, Rests, Step, OrderFirst
  <2>2. CASE \E t \in S : Step(t) \notin {"order", "position"}
    <3>1. PICK t \in S : Step(t) \notin {"order", "position"}
      BY <2>2
    <3>2. ~ At(t, "order") /\ ~ At(t, "position")
      BY <3>1 DEF At, Step
    <3>3. todo[t] = {} /\ call[t].op # "userCloseActive"
      BY <2>1 DEF SessionOK, TodoOK, OrderFirst, CallOK
    <3>. QED
      BY <3>2, <3>3 DEF WaitsFor
  <2>3. CASE /\ \A u \in S : Step(u) \in {"order", "position"}
             /\ \E t \in S : Step(t) = "position"
    <3>1. PICK t \in S : Step(t) = "position"
      BY <2>3
    <3>2. ~ At(t, "order") /\ ~ At(t, "insert")
      BY <3>1 DEF At, Step
    <3>3. \A u \in S : DOMAIN writes[u].positions = {}
      BY <2>1, <2>3 DEF SessionOK, PositionOK
    <3>. QED
      BY <3>2, <3>3 DEF WaitsFor, PositionHeldBy
  <2>4. CASE \A u \in S : Step(u) = "order"
    <3>1. \A u \in S : ~ At(u, "position") /\ ~ At(u, "insert")
      BY <2>4 DEF At, Step
    <3>2. \A u \in S : DOMAIN writes[u].orders = {}
      BY <2>1, <2>4, EmptyHands
    <3>. QED
      BY <1>1, <3>1, <3>2 DEF WaitsFor, OrderHeldBy, SignatureHeldBy
  <2>. QED
    BY <2>2, <2>3, <2>4
<1>2. StatementInv => OrderFirstNeverDeadlocks
  BY <1>1 DEF OrderFirstNeverDeadlocks
<1>. QED
  BY <1>2, StatementsCorrect, PTL

--------------------------------------------------------------------------------
(* Without placeProtectionOrder every commit is a step of the lifecycle.   *)

Swept == "placeProtectionOrder" \notin Operations

\* At its commit a session has cancelled every exit that is open.
LEMMA SweepDone ==
  ASSUME StatementInv, NEW t \in Sessions, Commit(t), SweepOK(t), call[t].op \in Cancelling
  PROVE  Cancelled(t) = OpenOrders(PositionFor(call[t]), ExitKinds(call[t]))
<1> DEFINE c == call[t]
<1>0. SessionOK(t) /\ Step(t) = "commit" /\ TypeOK
  BY DEF StatementInv, SessionInv, TablesOK, Commit, At, Step
<1>1. Cancelled(t) \subseteq OpenOrders(PositionFor(c), ExitKinds(c))
  BY <1>0, CancelledOpen
<1>2. ASSUME NEW o \in OpenOrders(PositionFor(c), ExitKinds(c)) PROVE o \in Cancelled(t)
  <2>1. o \in Orders /\ status[o] = "OPEN" /\ kind[o] \in ExitKinds(c)
    BY <1>2 DEF OpenOrders
  <2>2. todo[t] = {}
    BY <1>0 DEF SessionOK, TodoOK
  <2>3. o \in DOMAIN writes[t].orders
    BY <1>0, <1>2, <2>2 DEF SweepOK
  <2>4. ~ (c.op \in OrderOps /\ o = c.order)
    <3>1. ASSUME c.op \in OrderOps, o = c.order PROVE FALSE
      <4>1. c.op = "confirmExitFill" /\ kind[o] \in {SiblingOf(kind[o])}
        BY <2>1, <3>1 DEF ExitKinds
      <4>2. kind[o] \in ProtectionKinds
        BY <1>0, <3>1, <4>1 DEF SessionOK, OrderOK, OrderMatches
      <4>. QED
        BY <4>1, <4>2 DEF SiblingOf
    <3>. QED
      BY <3>1
  <2>5. \A k \in OrderKinds : ~ InsertedBy(t, o, k)
    BY <2>1 DEF InsertedBy
  <2>. QED
    BY <1>0, <2>3, <2>4, <2>5 DEF SessionOK, RowsOK, Cancelled
<1>. QED
  BY <1>1, <1>2

\* An exit opens only under the lock of its position.
LEMMA CommitOpens ==
  ASSUME Swept, StatementInv, NEW t \in Sessions, Commit(t), NEW o \in Orders,
         status'[o] = "OPEN", status[o] # "OPEN"
  PROVE  positionOf'[o] \in DOMAIN writes[t].positions
<1> DEFINE c == call[t]
<1>0. /\ SessionOK(t) /\ Step(t) = "commit"
      /\ c.op \in OrderOps \cup PositionOps /\ c.op # "placeProtectionOrder"
  BY DEF StatementInv, SessionInv, SessionOK, CallOK, Commit, At, Step, Swept
<1>1. CASE c.op \in OrderOps /\ o = c.order
  <2>1. /\ status'[o] = OrderUpdate(c, Order(o)).status /\ positionOf'[o] = positionOf[o]
        /\ OrderMatches(c, Order(o)) /\ PositionFor(c) = positionOf[o]
    BY <1>1, CommitWrites
  <2>2. c.op = "releaseOrderExecutionClaim"
    BY <1>1, <2>1 DEF OrderUpdate
  <2>3. DOMAIN writes[t].positions = {PositionFor(c)}
    BY <1>0, <2>2 DEF SessionOK, PositionOK, SkipsPosition
  <2>. QED
    BY <2>1, <2>3
<1>2. CASE ~ (c.op \in OrderOps /\ o = c.order)
  <2>1. o \notin Cancelled(t) /\ \E k \in OrderKinds : o \in Inserted(t, k)
    BY <1>2, CommitOtherRows
  <2>2. positionOf'[o] = PositionFor(c) /\ c.op \in Inserting
    BY <1>2, <2>1, CommitOtherRows DEF Inserted, InsertedBy
  <2>3. DOMAIN writes[t].positions = {PositionFor(c)}
    BY <1>0, <2>2 DEF SessionOK, PositionOK, SkipsPosition
  <2>. QED
    BY <2>2, <2>3
<1>. QED
  BY <1>1, <1>2

\* The commit of one session opens no exit behind another that has read them.
LEMMA SweepUnseen ==
  ASSUME Swept, StatementInv, NEW t \in Sessions, NEW u \in Others(t), Commit(t), SweepOK(u)
  PROVE  SweepOK(u)'
<1> DEFINE c == call[u]
<1>0. u \in Sessions /\ u # t /\ SessionOK(u) /\ SessionsTyped /\ TypeOK /\ RowsWellFormed
  BY DEF StatementInv, SessionInv, TablesOK, Others
<1>1. call'[u] = call[u] /\ pc'[u] = pc[u] /\ todo'[u] = todo[u] /\ writes'[u] = writes[u]
  BY <1>0, FinishClears DEF Commit
<1>2. Step(u)' = Step(u)
  BY <1>1 DEF Step
<1>3. CASE ~ (c.op \in Cancelling /\ Step(u) \in {"insert", "commit"})
  BY <1>1, <1>2, <1>3 DEF SweepOK
<1>4. CASE c.op \in Cancelling /\ Step(u) \in {"insert", "commit"}
  <2> DEFINE p  == PositionFor(c)
             ks == ExitKinds(c)
  <2>1. p \in DOMAIN writes[u].positions
    BY <1>0, <1>4 DEF SessionOK, PositionOK, SkipsPosition
  <2>2. c.op \in OrderOps => c.order \in Orders /\ status[c.order] # "ABSENT"
    BY <1>0 DEF SessionOK, CallOK
  <2>3. c.op \notin OrderOps => c.order = NULL
    BY <1>0, <1>4 DEF SessionOK, CallOK
  <2>4. c.op \in OrderOps => /\ kind'[c.order] = kind[c.order]
                             /\ positionOf'[c.order] = positionOf[c.order]
                             /\ c.order # NULL
    BY <2>2, SessionAssumption, CommitKeepsRows
  <2>5. PositionFor(call[u])' = p /\ ExitKinds(call[u])' = ks
    <3>1. CASE c.op \in OrderOps
      BY <1>1, <2>4, <3>1 DEF PositionFor, ExitKinds, SiblingOf
    <3>2. CASE c.op \notin OrderOps
      BY <1>1, <1>4, <2>3, <3>2 DEF PositionFor, ExitKinds
    <3>. QED
      BY <3>1, <3>2
  <2>6. ASSUME NEW o \in Orders, positionOf'[o] = p, kind'[o] \in ks, status'[o] = "OPEN"
        PROVE  o \in todo[u] \cup DOMAIN writes[u].orders
    <3>1. status[o] = "OPEN"
      <4>1. ASSUME status[o] # "OPEN" PROVE FALSE
        <5>1. p \in DOMAIN writes[t].positions
          BY <2>6, <4>1, CommitOpens
        <5>. QED
          BY <1>0, <2>1, <5>1 DEF StatementInv, SessionInv, LocksExclusive
      <4>. QED
        BY <4>1
    <3>2. kind'[o] = kind[o] /\ positionOf'[o] = positionOf[o]
      BY <3>1, CommitKeepsRows
    <3>3. o \in OpenOrders(p, ks)
      BY <2>6, <3>1, <3>2 DEF OpenOrders
    <3>. QED
      BY <1>4, <3>3 DEF SweepOK
  <2> HIDE DEF p, ks
  <2>7. {o \in Orders : positionOf'[o] = p /\ kind'[o] \in ks /\ status'[o] = "OPEN"}
          \subseteq todo[u] \cup DOMAIN writes[u].orders
    BY <2>6
  <2>8. OpenOrders(PositionFor(call[u]), ExitKinds(call[u]))' =
          {o \in Orders : positionOf'[o] = p /\ kind'[o] \in ks /\ status'[o] = "OPEN"}
    BY <2>5 DEF OpenOrders
  <2>. QED
    BY <1>1, <2>7, <2>8 DEF SweepOK
<1>. QED
  BY <1>3, <1>4

\* There is at most one exit for findFirst to find.
LEMMA OneSibling ==
  ASSUME ExitsOK, NEW p, NEW k \in ProtectionKinds
  PROVE  \A o1, o2 \in OpenOrders(p, {k}) : o1 = o2
BY DEF ExitsOK, OpenOrders

\* The commits that arm or cancel exits, as steps of the lifecycle.
LEMMA ExitFillStep ==
  ASSUME ExitsOK, StatementInv, NEW t \in Sessions, SweepOK(t), Commit(t),
         call[t].op = "confirmExitFill"
  PROVE  \E o \in Orders, s \in Signatures :
           \E X \in AtMostOneOf(Orders) : ConfirmExitFill(o, s, X)
<1> DEFINE o == call[t].order
           X == OpenOrders(positionOf[o], {SiblingOf(kind[o])})
<1>1. /\ o \in Orders /\ call[t].sig \in Signatures /\ PositionFor(call[t]) = positionOf[o]
      /\ FillsExit(o, call[t].sig, Cancelled(t))
  BY ExitFillCommit
<1>2. Cancelled(t) = X
  BY <1>1, SweepDone DEF ExitKinds
<1>3. \A o1, o2 \in X : o1 = o2
  BY OneSibling DEF SiblingOf
<1>4. X \in SiblingChoices(o) /\ X \in AtMostOneOf(Orders)
  <2>1. CASE X = {}
    BY <2>1 DEF SiblingChoices, AtMostOneOf
  <2>2. CASE X # {}
    <3>1. PICK x \in X : TRUE
      BY <2>2
    <3>2. X = {x} /\ x \in Orders
      BY <1>3, <3>1 DEF OpenOrders
    <3>3. X \in {{y} : y \in X} /\ X \in {{y} : y \in Orders}
      BY <3>1, <3>2
    <3>. QED
      BY <2>2, <3>3 DEF SiblingChoices, AtMostOneOf
  <2>. QED
    BY <2>1, <2>2
<1>5. ConfirmExitFill(o, call[t].sig, X)
  BY <1>1, <1>2, <1>4 DEF FillsExit, ConfirmExitFill
<1>. QED
  BY <1>1, <1>4, <1>5

\* The commit of a close, whose exits are all cancelled, is UserCloseActive.
LEMMA CloseStep ==
  ASSUME StatementInv, NEW t \in Sessions, SweepOK(t), Commit(t), call[t].op = "userCloseActive"
  PROVE  \E p \in Positions, s \in Signatures, d \in Orders : UserCloseActive(p, s, d)
<1> DEFINE p == call[t].position
           s == call[t].sig
<1>1. p \in Positions /\ s \in Signatures /\ PositionFor(call[t]) = p
  BY CloseCommit
<1>2. PICK d \in Orders : ClosesPosition(p, s, d, Cancelled(t))
  BY CloseCommit
<1>3. Cancelled(t) = OpenOrders(p, ProtectionKinds)
  BY <1>1, SweepDone DEF ExitKinds
<1>4. UserCloseActive(p, s, d)
  BY <1>2, <1>3 DEF ClosesPosition, UserCloseActive, CloseActivePosition
<1>. QED
  BY <1>1, <1>4

\* The commit of a replacement, whose exits are all cancelled, is
\* ReplaceProtectionOrders.
LEMMA ReplaceStep ==
  ASSUME StatementInv, NEW t \in Sessions, SweepOK(t), Commit(t),
         call[t].op = "replaceProtectionOrders"
  PROVE  \E p \in Positions, tps, sls \in AtMostOneOf(Orders) : ReplaceProtectionOrders(p, tps, sls)
<1> DEFINE c   == call[t]
           p   == c.position
           tps == Inserted(t, "TAKE_PROFIT")
           sls == Inserted(t, "STOP_LOSS")
           X   == Cancelled(t)
<1>0. SessionOK(t) /\ Step(t) = "commit" /\ RowsWellFormed
  BY DEF StatementInv, SessionInv, TablesOK, Commit, At, Step
<1>1. /\ p \in Positions /\ PositionFor(c) = p /\ RearmsExits(p, X, tps \cup sls)
      /\ InsertedKinds(c) = c.kinds /\ c.kinds \subseteq ProtectionKinds
      /\ \A o \in tps : o \in Orders /\ status[o] = "ABSENT" /\ kind'[o] = "TAKE_PROFIT"
      /\ \A o \in sls : o \in Orders /\ status[o] = "ABSENT" /\ kind'[o] = "STOP_LOSS"
  BY RearmCommit
<1>2. state[p] = "ACTIVE" /\ hasTokens[p]
  <2>1. PositionMatches(c, Position(p))
    BY <1>0, <1>1 DEF SessionOK, PositionOK, SkipsPosition
  <2>. QED
    BY <1>0, <1>1, <2>1 DEF PositionMatches, FromStates, RowsWellFormed
<1>3. ASSUME NEW k \in ProtectionKinds
      PROVE  /\ Inserted(t, k) \in AtMostOneOf(Orders)
             /\ Inserted(t, k) # {} <=> k \in c.kinds
  <2>1. CASE k \in c.kinds
    <3>1. PICK o \in Orders : Inserted(t, k) = {o}
      BY <1>1, <2>1, InsertedOnce
    <3>. QED
      BY <2>1, <3>1 DEF AtMostOneOf
  <2>2. CASE k \notin c.kinds
    <3>1. Inserted(t, k) = {}
      BY <1>1, <2>2, InsertedOnce
    <3>. QED
      BY <2>2, <3>1 DEF AtMostOneOf
  <2>. QED
    BY <2>1, <2>2
<1>4. c.kinds # {}
  BY <1>0 DEF SessionOK, CallOK
<1>5. tps \in AtMostOneOf(Orders) /\ sls \in AtMostOneOf(Orders) /\ tps \cup sls # {}
  BY <1>1, <1>3, <1>4
<1>6. {k \in ProtectionKinds : IF k = "TAKE_PROFIT" THEN tps # {} ELSE sls # {}} = c.kinds
  BY <1>1, <1>3
<1>7. X = OpenOrders(p, c.kinds)
  BY <1>1, SweepDone DEF ExitKinds
<1>8. tps \cap sls = {} /\ tps \cup sls \subseteq FreshOrders
  BY <1>1 DEF FreshOrders
<1> HIDE DEF tps, sls, X
<1>9. /\ kind' = [o \in Orders |-> IF o \in tps THEN "TAKE_PROFIT"
                                   ELSE IF o \in sls THEN "STOP_LOSS" ELSE kind[o]]
      /\ status' = [o \in Orders |-> IF o \in tps \cup sls THEN "OPEN"
                                     ELSE IF o \in X THEN "CANCELLED" ELSE status[o]]
      /\ positionOf' = [o \in Orders |-> IF o \in tps \cup sls THEN p ELSE positionOf[o]]
      /\ UNCHANGED <<proposalVars, positionVars, txSignature, trades>>
  <2>1. kind' = [o \in Orders |-> IF o \in tps \cup sls THEN kind'[o] ELSE kind[o]]
    BY <1>1 DEF RearmsExits
  <2>. QED
    BY <1>1, <2>1 DEF RearmsExits
<1>10. ReplaceProtectionOrders(p, tps, sls)
  BY <1>2, <1>5, <1>6, <1>7, <1>8, <1>9 DEF ReplaceProtectionOrders
<1>. QED
  BY <1>1, <1>5, <1>10

\* A commit is a step of the lifecycle other than PlaceProtectionOrder.
LEMMA CommitIsStep ==
  ASSUME Swept, StatementInv, SweepInv, NEW t \in Sessions, Commit(t)
  PROVE  \/ ClaimNext
         \/ \E o \in Orders : CancelOpenOrder(o)
         \/ \E o, tp, sl \in Orders, s \in Signatures : ConfirmBuyFill(o, s, tp, sl)
         \/ \E o \in Orders, s \in Signatures :
              \E X \in AtMostOneOf(Orders) : ConfirmExitFill(o, s, X)
         \/ \E p \in Positions, s \in Signatures, d \in Orders : UserCloseActive(p, s, d)
         \/ \E p \in Positions, tps, sls \in AtMostOneOf(Orders) :
              ReplaceProtectionOrders(p, tps, sls)
<1> DEFINE c == call[t]
<1>0. ExitsOK /\ SweepOK(t) /\ c.op \in OrderOps \cup PositionOps /\ c.op # "placeProtectionOrder"
  BY DEF StatementInv, SessionInv, SessionOK, CallOK, SweepInv, Commit, At, Step, Swept
<1>1. CASE c.op \in Claiming \cup {"cancelOpenOrder"}
  BY <1>1, OneOrderStep DEF ClaimNext
<1>2. CASE c.op = "confirmBuyFill"
  BY <1>2, BuyFillStep
<1>3. CASE c.op = "confirmExitFill"
  BY <1>0, <1>3, ExitFillStep
<1>4. CASE c.op = "userCloseActive"
  BY <1>0, <1>4, CloseStep
<1>5. CASE c.op = "replaceProtectionOrders"
  BY <1>0, <1>5, ReplaceStep
<1>. QED
  BY <1>0, <1>1, <1>2, <1>3, <1>4, <1>5

\* Those steps keep one live exit of a kind to a position.
LEMMA CommitExits ==
  ASSUME Swept, StatementInv, SweepInv, NEW t \in Sessions, Commit(t)
  PROVE  ExitsOK'
<1> USE DEF positionVars
<1>0. /\ TypeOK /\ RowsWellFormed /\ ClaimIsExclusive /\ ExitsOK
      /\ \A x \in Orders : status[x] # "ABSENT" => positionOf[x] \in Positions
      /\ \A x \in Orders : kind[x] \in ProtectionKinds => positionOf[x] \in Positions
  BY DEF StatementInv, TablesOK, SweepInv, TypeOK, RowsWellFormed
<1>1. ASSUME NEW o \in Orders, ClaimOrderExecution(o) \/ ReleaseOrderExecutionClaim(o) PROVE ExitsOK'
  <2>1. /\ kind' = kind /\ positionOf' = positionOf
        /\ \A x \in Orders : status'[x] \in {"OPEN", "PENDING"} => status[x] \in {"OPEN", "PENDING"}
    BY <1>0, <1>1 DEF ClaimOrderExecution, ReleaseOrderExecutionClaim, TypeOK
  <2>2. ASSUME NEW x \in Orders, kind[x] \in ProtectionKinds
        PROVE  state'[positionOf[x]] \in {"ACTIVE", "CLOSING", "CLOSED"}
    BY <1>0, <1>1, <2>2 DEF ClaimOrderExecution, ReleaseOrderExecutionClaim, Before, Pending, ExitsOK, TypeOK
  <2>. QED
    BY <1>0, <2>1, <2>2 DEF ExitsOK
<1>2. ASSUME NEW o \in Orders, CancelOpenOrder(o) PROVE ExitsOK'
  <2>1. /\ kind' = kind /\ positionOf' = positionOf
        /\ \A x \in Orders : status'[x] \in {"OPEN", "PENDING"} => status[x] \in {"OPEN", "PENDING"}
    BY <1>0, <1>2 DEF CancelOpenOrder, CancelPendingBuy, CancelProtectionOrder, TypeOK
  <2>2. ASSUME NEW x \in Orders, kind[x] \in ProtectionKinds
        PROVE  state'[positionOf[x]] \in {"ACTIVE", "CLOSING", "CLOSED"}
    BY <1>0, <1>2, <2>2 DEF CancelOpenOrder, CancelPendingBuy, CancelProtectionOrder, ExitsOK, TypeOK
  <2>. QED
    BY <1>0, <2>1, <2>2 DEF ExitsOK
<1>3. ASSUME NEW o \in Orders, NEW tp \in Orders, NEW sl \in Orders, NEW s \in Signatures,
             ConfirmBuyFill(o, s, tp, sl)
      PROVE  ExitsOK'
  <2> DEFINE p == positionOf[o]
  <2>1. /\ p \in Positions /\ state[p] \in {"BUY_PENDING", "ENTERING"}
        /\ state' = [state EXCEPT ![p] = "ACTIVE"]
        /\ tp # sl /\ status[tp] = "ABSENT" /\ status[sl] = "ABSENT"
    BY <1>0, <1>3 DEF ConfirmBuyFill, FreshOrders
  <2>2. /\ kind'[tp] = "TAKE_PROFIT" /\ kind'[sl] = "STOP_LOSS"
        /\ positionOf'[tp] = p /\ positionOf'[sl] = p
        /\ \A x \in Orders \ {tp, sl} : /\ kind'[x] = kind[x] /\ positionOf'[x] = positionOf[x]
                                        /\ status'[x] \in {status[x], "FILLED"}
    BY <1>0, <1>3, <2>1 DEF ConfirmBuyFill, TypeOK
  <2>3. \A x \in Orders : kind[x] \in ProtectionKinds => positionOf[x] # p
    BY <1>0, <2>1 DEF ExitsOK
  <2>4. \A x \in Orders \ {tp, sl} : kind'[x] \in ProtectionKinds =>
          state'[positionOf'[x]] \in {"ACTIVE", "CLOSING", "CLOSED"} /\ positionOf'[x] # p
    BY <1>0, <2>1, <2>2, <2>3 DEF ExitsOK, TypeOK
  <2>5. state'[p] = "ACTIVE"
    BY <1>0, <2>1 DEF TypeOK
  <2> HIDE DEF p
  <2>6. ASSUME NEW o1 \in Orders, NEW o2 \in Orders,
               status'[o1] \in {"OPEN", "PENDING"}, status'[o2] \in {"OPEN", "PENDING"},
               kind'[o1] \in ProtectionKinds, kind'[o2] = kind'[o1],
               positionOf'[o1] = positionOf'[o2]
        PROVE  o1 = o2
    <3>1. CASE o1 \in {tp, sl} \/ o2 \in {tp, sl}
      BY <2>2, <2>4, <2>6, <3>1
    <3>2. CASE o1 \notin {tp, sl} /\ o2 \notin {tp, sl}
      BY <1>0, <2>2, <2>6, <3>2 DEF ExitsOK
    <3>. QED
      BY <3>1, <3>2
  <2>. QED
    BY <2>2, <2>4, <2>5, <2>6 DEF ExitsOK
<1>4. ASSUME NEW o \in Orders, NEW s \in Signatures, NEW X, ConfirmExitFill(o, s, X) PROVE ExitsOK'
  <2>1. /\ kind' = kind /\ positionOf' = positionOf
        /\ \A x \in Orders : status'[x] \in {"OPEN", "PENDING"} => status[x] \in {"OPEN", "PENDING"}
    BY <1>4 DEF ConfirmExitFill
  <2>2. ASSUME NEW x \in Orders, kind[x] \in ProtectionKinds
        PROVE  state'[positionOf[x]] \in {"ACTIVE", "CLOSING", "CLOSED"}
    BY <1>0, <1>4, <2>2 DEF ConfirmExitFill, ExitsOK, TypeOK
  <2>. QED
    BY <1>0, <2>1, <2>2 DEF ExitsOK
<1>5. ASSUME NEW p \in Positions, NEW s \in Signatures, NEW d \in Orders, UserCloseActive(p, s, d)
      PROVE  ExitsOK'
  <2>1. /\ kind'[d] = "CLOSE_SWAP" /\ status[d] = "ABSENT"
        /\ \A x \in Orders \ {d} : /\ kind'[x] = kind[x] /\ positionOf'[x] = positionOf[x]
                                   /\ status'[x] \in {"OPEN", "PENDING"} =>
                                       status[x] \in {"OPEN", "PENDING"}
    BY <1>0, <1>5 DEF UserCloseActive, CloseActivePosition, FreshOrders, TypeOK
  <2>2. ASSUME NEW x \in Orders, kind[x] \in ProtectionKinds
        PROVE  state'[positionOf[x]] \in {"ACTIVE", "CLOSING", "CLOSED"}
    BY <1>0, <1>5, <2>2 DEF UserCloseActive, CloseActivePosition, ExitsOK, TypeOK
  <2>3. ASSUME NEW o1 \in Orders, NEW o2 \in Orders,
               status'[o1] \in {"OPEN", "PENDING"}, status'[o2] \in {"OPEN", "PENDING"},
               kind'[o1] \in ProtectionKinds, kind'[o2] = kind'[o1],
               positionOf'[o1] = positionOf'[o2]
        PROVE  o1 = o2
    <3>1. o1 # d /\ o2 # d
      BY <2>1, <2>3 DEF ProtectionKinds
    <3>. QED
      BY <1>0, <2>1, <2>3, <3>1 DEF ExitsOK
  <2>4. \A x \in Orders : kind'[x] \in ProtectionKinds =>
          state'[positionOf'[x]] \in {"ACTIVE", "CLOSING", "CLOSED"}
    BY <2>1, <2>2 DEF ProtectionKinds
  <2>. QED
    BY <2>3, <2>4 DEF ExitsOK
<1>6. ASSUME NEW p \in Positions, NEW tps \in AtMostOneOf(Orders), NEW sls \in AtMostOneOf(Orders),
             ReplaceProtectionOrders(p, tps, sls)
      PROVE  ExitsOK'
  <2>1. /\ state[p] = "ACTIVE" /\ state' = state
        /\ tps \cap sls = {} /\ \A x \in tps \cup sls : x \in Orders /\ status[x] = "ABSENT"
        /\ \A x, y \in tps : x = y
        /\ \A x, y \in sls : x = y
    BY <1>6 DEF ReplaceProtectionOrders, AtMostOneOf, FreshOrders
  <2>2. /\ \A x \in tps : kind'[x] = "TAKE_PROFIT" /\ positionOf'[x] = p
        /\ \A x \in sls : kind'[x] = "STOP_LOSS" /\ positionOf'[x] = p
        /\ \A x \in Orders \ (tps \cup sls) :
             /\ kind'[x] = kind[x] /\ positionOf'[x] = positionOf[x]
             /\ status'[x] \in {"OPEN", "PENDING"} => status'[x] = status[x]
    BY <1>6, <2>1 DEF ReplaceProtectionOrders
  <2>3. ASSUME NEW x \in Orders \ (tps \cup sls), positionOf'[x] = p,
               status'[x] \in {"OPEN", "PENDING"},
               \/ tps # {} /\ kind'[x] = "TAKE_PROFIT"
               \/ sls # {} /\ kind'[x] = "STOP_LOSS"
        PROVE  FALSE
    <3>1. status[x] = status'[x] /\ kind[x] = kind'[x] /\ positionOf[x] = p
      BY <2>2, <2>3
    <3>2. status[x] # "PENDING"
      BY <1>0, <2>1, <2>3, <3>1 DEF ClaimIsExclusive, Pending
    <3>3. status'[x] = "CANCELLED"
      BY <1>6, <2>3, <3>1, <3>2 DEF ReplaceProtectionOrders, OpenOrders
    <3>. QED
      BY <2>3, <3>3
  <2>4. ASSUME NEW o1 \in Orders, NEW o2 \in Orders,
               status'[o1] \in {"OPEN", "PENDING"}, status'[o2] \in {"OPEN", "PENDING"},
               kind'[o1] \in ProtectionKinds, kind'[o2] = kind'[o1],
               positionOf'[o1] = positionOf'[o2]
        PROVE  o1 = o2
    <3>1. CASE o1 \in tps \cup sls \/ o2 \in tps \cup sls
      BY <2>1, <2>2, <2>3, <2>4, <3>1
    <3>2. CASE o1 \notin tps \cup sls /\ o2 \notin tps \cup sls
      BY <1>0, <2>2, <2>4, <3>2 DEF ExitsOK
    <3>. QED
      BY <3>1, <3>2
  <2>5. \A x \in Orders : kind'[x] \in ProtectionKinds =>
          state'[positionOf'[x]] \in {"ACTIVE", "CLOSING", "CLOSED"}
    BY <1>0, <2>1, <2>2 DEF ExitsOK
  <2>. QED
    BY <2>4, <2>5 DEF ExitsOK
<1>. QED
  BY <1>1, <1>2, <1>3, <1>4, <1>5, <1>6, CommitIsStep DEF ClaimNext

\* A session that commits nothing leaves what the others have read.
LEMMA SweepFrame ==
  ASSUME StatementInv, SweepInv, NEW t \in Sessions, UNCHANGED vars, SweepOK(t)',
         \A u \in Others(t) : /\ call'[u] = call[u] /\ pc'[u] = pc[u]
                              /\ todo'[u] = todo[u] /\ writes'[u] = writes[u]
  PROVE  SweepInv'
<1> USE DEF vars, proposalVars, positionVars, orderVars
<1>1. ExitsOK'
  BY DEF SweepInv, ExitsOK
<1>2. \A u \in Others(t) : SweepOK(u)'
  <2> SUFFICES ASSUME NEW u \in Others(t) PROVE SweepOK(u)'
    OBVIOUS
  <2>1. /\ PositionFor(call[u])' = PositionFor(call[u])
        /\ ExitKinds(call[u])' = ExitKinds(call[u])
        /\ Step(u)' = Step(u)
    BY DEF PositionFor, ExitKinds, SiblingOf, Step
  <2>2. OpenOrders(PositionFor(call[u]), ExitKinds(call[u]))'
          = OpenOrders(PositionFor(call[u]), ExitKinds(call[u]))
    BY <2>1 DEF OpenOrders
  <2>. QED
    BY <2>1, <2>2 DEF SweepInv, SweepOK, Others
<1>. QED
  BY <1>1, <1>2 DEF SweepInv, Others

\* Every statement keeps what is known of the exits.
LEMMA SweepStep ==
  ASSUME Swept, StatementInv, SweepInv, [StatementNext]_statementVars
  PROVE  SweepInv'
<1> USE DEF vars, proposalVars, positionVars, orderVars
<1>0. SessionsTyped /\ \A t \in Sessions : SessionOK(t) /\ SweepOK(t)
  BY DEF StatementInv, SessionInv, SweepInv
<1>1. ASSUME NEW t \in Sessions, Begin(t) PROVE SweepInv'
  <2>1. PICK c \in Calls : call' = [call EXCEPT ![t] = c] /\ pc' = [pc EXCEPT ![t] = Plan(c)]
    BY <1>1 DEF Begin
  <2>2. /\ Step(t)' \in {"read", "order"} /\ UNCHANGED <<vars, todo, writes>>
        /\ \A u \in Others(t) : call'[u] = call[u] /\ pc'[u] = pc[u]
    BY <1>0, <1>1, <2>1, PlanRests DEF Begin, SessionsTyped, Step, Others
  <2>. QED
    BY <2>2, SweepFrame DEF SweepOK, Others
<1>2. ASSUME NEW t \in Sessions, Rollback(t) PROVE SweepInv'
  <2>1. /\ Step(t)' = "idle" /\ UNCHANGED vars
        /\ \A u \in Others(t) : /\ call'[u] = call[u] /\ pc'[u] = pc[u]
                                /\ todo'[u] = todo[u] /\ writes'[u] = writes[u]
    BY <1>0, <1>2, FinishClears DEF Rollback
  <2>. QED
    BY <2>1, SweepFrame DEF SweepOK
<1>3. ASSUME NEW t \in Sessions, Read(t) \/ UpdateOrder(t) \/ UpdatePosition(t) PROVE SweepInv'
  <2> DEFINE c == call[t]
  <2>1. /\ SessionOK(t) /\ pc[t] # <<>> /\ Step(t) \in {"read", "order", "position"}
        /\ Advance(t) /\ UNCHANGED <<vars, call, todo>>
        /\ \A u \in Others(t) : writes'[u] = writes[u]
    BY <1>0, <1>3 DEF Read, UpdateOrder, UpdatePosition, At, Step, SessionsTyped, Others
  <2>2. /\ Step(t)' = Following(c, Step(t))
        /\ \A u \in Others(t) : pc'[u] = pc[u]
    BY <1>0, <2>1, AdvanceStep DEF SessionOK, SessionsTyped, Others
  <2>3. c.op \in Cancelling => Step(t)' \notin {"insert", "commit"}
    BY <2>1, <2>2 DEF Following, SkipsPosition
  <2>. QED
    BY <2>1, <2>2, <2>3, SweepFrame DEF SweepOK, Others
<1>4. ASSUME NEW t \in Sessions, ReadExits(t) PROVE SweepInv'
  <2> DEFINE c    == call[t]
             open == OpenOrders(PositionFor(c), ExitKinds(c))
  <2>1. /\ SessionOK(t) /\ pc[t] # <<>> /\ Step(t) = "exits"
        /\ Advance(t) /\ UNCHANGED <<vars, call, writes>>
    BY <1>0, <1>4 DEF ReadExits, At, Step
  <2>2. c.op \in Cancelling
    BY <2>1 DEF SessionOK, CallOK, PlanOK, Rests, Step
  <2>3. /\ \A u \in Others(t) : pc'[u] = pc[u]
    BY <1>0, <2>1, AdvanceStep DEF SessionOK, SessionsTyped, Others
  <2>4. PICK S \in IF c.op = "confirmExitFill"
                     THEN {{o} : o \in open} \cup (IF open = {} THEN {{}} ELSE {})
                     ELSE {open} :
          todo' = [todo EXCEPT ![t] = S]
    BY <1>4, <2>2 DEF ReadExits, ExitKinds
  <2>5. S = open
    <3>1. CASE c.op = "confirmExitFill"
      <4>1. \A o1, o2 \in open : o1 = o2
        BY <3>1, OneSibling DEF SweepInv, ExitKinds, SiblingOf
      <4>. QED
        BY <2>4, <3>1, <4>1
    <3>. QED
      BY <2>4, <3>1
  <2>6. /\ todo'[t] = open
        /\ \A u \in Others(t) : todo'[u] = todo[u]
    BY <1>0, <2>4, <2>5 DEF SessionsTyped, Others
  <2>7. OpenOrders(PositionFor(call[t]), ExitKinds(call[t]))' = open
    BY <2>1 DEF OpenOrders, PositionFor, ExitKinds, SiblingOf
  <2>8. SweepOK(t)'
    BY <2>6, <2>7 DEF SweepOK
  <2>. QED
    BY <2>1, <2>3, <2>6, <2>8, SweepFrame DEF Others
<1>5. ASSUME NEW t \in Sessions, NEW o \in Orders, CancelExit(t, o) PROVE SweepInv'
  <2> DEFINE c    == call[t]
             open == OpenOrders(PositionFor(c), ExitKinds(c))
  <2>1. /\ SessionOK(t) /\ Step(t) = "insert" /\ o \in todo[t] /\ UNCHANGED <<vars, call, pc>>
        /\ todo' = [todo EXCEPT ![t] = @ \ {o}]
        /\ writes' = IF status[o] = "OPEN"
             THEN [writes EXCEPT ![t].orders =
                     With(@, [x \in {o} |-> [Order(o) EXCEPT !.status = "CANCELLED"]])]
             ELSE writes
    BY <1>0, <1>5 DEF CancelExit, At, Step
  <2>2. /\ todo'[t] = todo[t] \ {o}
        /\ \A u \in Others(t) : todo'[u] = todo[u] /\ writes'[u] = writes[u]
    BY <1>0, <2>1 DEF SessionsTyped, Others
  <2>3. DOMAIN writes[t].orders \subseteq DOMAIN writes'[t].orders
        /\ (status[o] = "OPEN" => o \in DOMAIN writes'[t].orders)
    <3>1. CASE status[o] = "OPEN"
      <4>1. writes'[t].orders =
              With(writes[t].orders, [x \in {o} |-> [Order(o) EXCEPT !.status = "CANCELLED"]])
        BY <1>0, <2>1, <3>1 DEF SessionsTyped
      <4>. QED
        BY <4>1 DEF With
    <3>2. CASE status[o] # "OPEN"
      BY <2>1, <3>2
    <3>. QED
      BY <3>1, <3>2
  <2>4. c.op \in Cancelling => open \subseteq todo[t] \cup DOMAIN writes[t].orders
    BY <1>0, <2>1 DEF SweepOK
  <2>5. c.op \in Cancelling => open \subseteq todo'[t] \cup DOMAIN writes'[t].orders
    BY <2>2, <2>3, <2>4 DEF OpenOrders
  <2>6. OpenOrders(PositionFor(call[t]), ExitKinds(call[t]))' = open
    BY <2>1 DEF OpenOrders, PositionFor, ExitKinds, SiblingOf
  <2>7. SweepOK(t)'
    BY <2>1, <2>5, <2>6 DEF SweepOK
  <2>. QED
    BY <2>1, <2>2, <2>7, SweepFrame DEF Others
<1>6. ASSUME NEW t \in Sessions, Insert(t) PROVE SweepInv'
  <2> DEFINE c    == call[t]
             open == OpenOrders(PositionFor(c), ExitKinds(c))
  <2>1. /\ SessionOK(t) /\ pc[t] # <<>> /\ Step(t) = "insert" /\ todo[t] = {}
        /\ Advance(t) /\ UNCHANGED <<vars, call, todo>>
        /\ \E new, trade : writes' = [writes EXCEPT ![t].orders = With(@, new), ![t].trades = trade]
    BY <1>0, <1>6 DEF Insert, At, Step
  <2>2. \A u \in Others(t) : pc'[u] = pc[u]
    BY <1>0, <2>1, AdvanceStep DEF SessionOK, SessionsTyped, Others
  <2>3. PICK new, trade :
          writes' = [writes EXCEPT ![t].orders = With(@, new), ![t].trades = trade]
    BY <2>1
  <2>4. DOMAIN writes[t].orders \subseteq DOMAIN writes'[t].orders
        /\ \A u \in Others(t) : writes'[u] = writes[u]
    <3> DEFINE held == [writes EXCEPT ![t].orders = With(@, new)]
    <3>1. writes' = [held EXCEPT ![t].trades = trade]
      BY <2>3
    <3>2. held[t].orders = With(writes[t].orders, new) /\ DOMAIN held = Sessions
          /\ \A u \in Others(t) : held[u] = writes[u]
      BY <1>0 DEF SessionsTyped, Others
    <3> HIDE DEF held
    <3>3. writes'[t].orders = held[t].orders /\ \A u \in Others(t) : writes'[u] = held[u]
      BY <3>1, <3>2 DEF Others
    <3>. QED
      BY <3>2, <3>3 DEF With
  <2>5. c.op \in Cancelling => open \subseteq DOMAIN writes'[t].orders
    BY <1>0, <2>1, <2>4 DEF SweepOK
  <2>6. OpenOrders(PositionFor(call[t]), ExitKinds(call[t]))' = open
    BY <2>1 DEF OpenOrders, PositionFor, ExitKinds, SiblingOf
  <2>7. SweepOK(t)'
    BY <2>1, <2>5, <2>6 DEF SweepOK
  <2>. QED
    BY <2>1, <2>2, <2>4, <2>7, SweepFrame DEF Others
<1>7. ASSUME NEW t \in Sessions, Commit(t) PROVE SweepInv'
  <2>1. SweepOK(t)'
    BY <1>0, <1>7, FinishClears DEF Commit, SweepOK
  <2>2. \A u \in Others(t) : SweepOK(u)'
    BY <1>0, <1>7, SweepUnseen DEF Others
  <2>. QED
    BY <1>7, <2>1, <2>2, CommitExits DEF SweepInv, Others
<1>8. CASE UNCHANGED statementVars
  <2>1. UNCHANGED vars /\ UNCHANGED <<call, pc, todo, writes>>
    BY <1>8 DEF statementVars, sessionVars
  <2>. QED
    BY <2>1 DEF SweepInv, ExitsOK, SweepOK, Step, OpenOrders, PositionFor, ExitKinds, SiblingOf
<1>. QED
  BY <1>1, <1>2, <1>3, <1>4, <1>5, <1>6, <1>7, <1>8 DEF StatementNext

\* Without placeProtectionOrder, what a transaction commits is one step of
\* PositionLifecycle taken at its commit, whatever it has read before and
\* whatever has committed since.
THEOREM CommitsAreSteps ==
  ASSUME "placeProtectionOrder" \notin Operations
  PROVE  StatementSpec => CommitsAreLifecycleSteps
<1>1. StatementInit => SweepInv
  <2> SUFFICES ASSUME StatementInit PROVE SweepInv
    OBVIOUS
  <2>1. ExitsOK
    BY DEF StatementInit, ExitsOK
  <2>2. \A t \in Sessions : SweepOK(t)
    BY DEF StatementInit, SweepOK, NoCall, Call
  <2>. QED
    BY <2>1, <2>2 DEF SweepInv
<1>2. StatementInv /\ SweepInv /\ [StatementNext]_statementVars => SweepInv'
  BY SweepStep DEF Swept
<1>3. StatementInv /\ SweepInv /\ [StatementNext]_statementVars => [Next]_vars
  <2> SUFFICES ASSUME StatementInv, SweepInv, StatementNext PROVE [Next]_vars
    BY DEF statementVars
  <2>1. ASSUME NEW t \in Sessions, Commit(t) PROVE Next
    BY <2>1, CommitIsStep
    DEF Swept, Next, ClaimNext, EntryNext, ProtectionNext, ExitNext
  <2>2. ASSUME NEW t \in Sessions,
               \/ Begin(t) \/ Rollback(t) \/ Read(t) \/ UpdateOrder(t) \/ UpdatePosition(t)
               \/ ReadExits(t) \/ Insert(t) \/ \E o \in Orders : CancelExit(t, o)
        PROVE  UNCHANGED vars
    BY <2>2 DEF Begin, Rollback, Read, UpdateOrder, UpdatePosition, ReadExits, Insert, CancelExit
  <2>. QED
    BY <2>1, <2>2 DEF StatementNext
<1>. QED
  BY <1>1, <1>2, <1>3, StatementsCorrect, PTL DEF StatementSpec, CommitsAreLifecycleSteps

================================================================================
