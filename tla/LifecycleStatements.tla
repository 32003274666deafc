-------------------------- MODULE LifecycleStatements --------------------------
(***************************************************************************)
(* The transactions of position-lifecycle.ts on orders and positions, one  *)
(* SQL statement at a time.  Prisma runs an interactive transaction at     *)
(* PostgreSQL's default isolation, READ COMMITTED: every statement sees    *)
(* what is committed when it runs, with the transaction's own writes; an   *)
(* UPDATE whose WHERE clause matches a row that another transaction has    *)
(* written waits for that transaction to end and then asks again; a write  *)
(* of a signature that another transaction has written waits likewise, and *)
(* fails if that one commits (Order.txSignature is unique); an INSERT      *)
(* waits for nothing else.                                                 *)
(*                                                                         *)
(* A transaction is rolled back when it throws, when it is the victim of a *)
(* deadlock, when Prisma's timeout ends it or when its process dies:       *)
(* Rollback may therefore happen at any point.                             *)
(*                                                                         *)
(* The transactions start on a position that an accepted BUY proposal has  *)
(* opened; the proposal tables stay as they are.                           *)
(*                                                                         *)
(* The columns of PositionLifecycle are what is committed, and each commit *)
(* is to be one of its steps.                                              *)
(***************************************************************************)
EXTENDS PositionLifecycle, Sequences

CONSTANTS
  Sessions,   \* the connections that run transactions
  Operations  \* the functions the sessions call

ASSUME SessionAssumption == NULL \notin Orders

VARIABLES
  call,       \* the function a session runs, with its arguments
  pc,         \* the statements its transaction still has to run
  todo,       \* the exits it has read and not yet cancelled
  writes      \* its uncommitted rows

sessionVars   == <<call, pc, todo, writes>>
statementVars == <<vars, sessionVars>>

--------------------------------------------------------------------------------
(* Rows, calls and statements.                                             *)

OrderRow(k, st, p, s) == [kind |-> k, status |-> st, positionOf |-> p, txSignature |-> s]

\* The committed rows.
Order(o)    == OrderRow(kind[o], status[o], positionOf[o], txSignature[o])
Position(p) == [state |-> state[p], closedReason |-> closedReason[p], hasTokens |-> hasTokens[p]]

\* Rows that replace or extend others.
With(rows, new) ==
  [x \in DOMAIN rows \cup DOMAIN new |-> IF x \in DOMAIN new THEN new[x] ELSE rows[x]]

NoWrites == [orders |-> <<>>, positions |-> <<>>, trades |-> {}]

Call(op, o, p, s, ks) == [op |-> op, order |-> o, position |-> p, sig |-> s, kinds |-> ks]
NoCall == Call("none", NULL, NULL, NULL, {})

Calls ==
  LET Present == Orders \ FreshOrders
  IN  {c \in      {Call(op, o, NULL, NULL, {}) :
                     op \in {"cancelOpenOrder", "claimOrderExecution",
                             "releaseOrderExecutionClaim"}, o \in Present}
             \cup {Call(op, o, NULL, s, {}) :
                     op \in {"confirmBuyFill", "confirmExitFill"},
                     o \in Present, s \in Signatures}
             \cup {Call("userCloseActive", NULL, p, s, {}) : p \in Positions, s \in Signatures}
             \cup {Call("replaceProtectionOrders", NULL, p, NULL, ks) :
                     p \in Positions, ks \in (SUBSET ProtectionKinds) \ {{}}}
             \cup {Call("placeProtectionOrder", NULL, p, NULL, {k}) :
                     p \in Positions, k \in ProtectionKinds} :
         c.op \in Operations}

\* The position a call is about, and the order's row.
PositionFor(c) == IF c.order = NULL THEN c.position ELSE positionOf[c.order]

Statements == {"read", "order", "position", "exits", "insert", "commit"}

\* The claim takes the position before the order.
MutantPlan(c) ==
  CASE c.op = "claimOrderExecution" -> <<"read", "position", "order", "commit">>
    [] c.op = "releaseOrderExecutionClaim" -> <<"read", "order", "position", "commit">>
    [] c.op = "cancelOpenOrder" /\ kind[c.order] = "BUY_TRIGGER" ->
         <<"read", "order", "position", "commit">>
    [] c.op = "cancelOpenOrder" /\ kind[c.order] # "BUY_TRIGGER" ->
         <<"read", "order", "commit">>
    [] c.op = "confirmBuyFill"  -> <<"order", "position", "insert", "commit">>
    [] c.op = "confirmExitFill" -> <<"order", "position", "exits", "insert", "commit">>
    [] OTHER                    -> <<"read", "position", "exits", "insert", "commit">>

\* The statements of each function, in the order it awaits them.
Plan(c) ==
  CASE c.op \in {"claimOrderExecution", "releaseOrderExecutionClaim"} ->
         <<"read", "order", "position", "commit">>
    [] c.op = "cancelOpenOrder" /\ kind[c.order] = "BUY_TRIGGER" ->
         <<"read", "order", "position", "commit">>
    [] c.op = "cancelOpenOrder" /\ kind[c.order] # "BUY_TRIGGER" ->
         <<"read", "order", "commit">>
    [] c.op = "confirmBuyFill"  -> <<"order", "position", "insert", "commit">>
    [] c.op = "confirmExitFill" -> <<"order", "position", "exits", "insert", "commit">>
    [] c.op \in {"userCloseActive", "replaceProtectionOrders"} ->
         <<"read", "position", "exits", "insert", "commit">>
    [] c.op = "placeProtectionOrder" -> <<"read", "insert", "commit">>

\* The next statement of the transaction of t; pc is empty when it has none.
At(t, statement) == pc[t] # <<>> /\ Head(pc[t]) = statement
Advance(t)       == pc' = [pc EXCEPT ![t] = Tail(@)]

--------------------------------------------------------------------------------
(* The WHERE clauses, on a row, and what the UPDATE writes.                *)

\* The checks a transaction makes on its first read before it writes anything.
ReadPasses(c) ==
  CASE c.op = "claimOrderExecution" ->
         /\ kind[c.order] \in ExecutableKinds
         /\ status[c.order] = "OPEN"
         /\ state[PositionFor(c)] = Before(kind[c.order])
    [] c.op = "releaseOrderExecutionClaim" ->
         /\ kind[c.order] \in ExecutableKinds
         /\ status[c.order] = "PENDING"
         /\ txSignature[c.order] = NULL
         /\ state[PositionFor(c)] = Pending(kind[c.order])
    [] c.op = "cancelOpenOrder" ->
         \/ kind[c.order] = "BUY_TRIGGER"
         \/ kind[c.order] \in ProtectionKinds /\ status[c.order] = "OPEN"
    [] c.op = "userCloseActive" -> ~ SignatureUsed(c.sig)
    [] c.op = "replaceProtectionOrders" ->
         state[c.position] = "ACTIVE" /\ hasTokens[c.position]
    [] c.op = "placeProtectionOrder" ->
         state[c.position] \in {"ACTIVE", "ENTERING"}

\* A claimed BUY can be cancelled.
MutantFromStatuses(c) ==
  CASE c.op = "claimOrderExecution"        -> {"OPEN"}
    [] c.op = "releaseOrderExecutionClaim" -> {"PENDING"}
    [] OTHER                               -> {"OPEN", "PENDING"}

FromStatuses(c) ==
  CASE c.op \in {"claimOrderExecution", "cancelOpenOrder"} -> {"OPEN"}
    [] c.op = "releaseOrderExecutionClaim"                 -> {"PENDING"}
    [] OTHER                                               -> {"OPEN", "PENDING"}

OrderMatches(c, row) ==
  /\ row.status \in FromStatuses(c)
  /\ c.op = "releaseOrderExecutionClaim" => row.txSignature = NULL
  /\ c.op = "confirmBuyFill"  => row.kind = "BUY_TRIGGER"
  /\ c.op = "confirmExitFill" => row.kind \in ProtectionKinds

OrderUpdate(c, row) ==
  CASE c.op = "claimOrderExecution"        -> [row EXCEPT !.status = "PENDING"]
    [] c.op = "releaseOrderExecutionClaim" -> [row EXCEPT !.status = "OPEN"]
    [] c.op = "cancelOpenOrder"            -> [row EXCEPT !.status = "CANCELLED"]
    [] OTHER -> [row EXCEPT !.status = "FILLED", !.txSignature = c.sig]

\* An exit fills on a position that is closed already.
MutantFromStates(c) ==
  CASE c.op = "claimOrderExecution"        -> {Before(kind[c.order])}
    [] c.op = "releaseOrderExecutionClaim" -> {Pending(kind[c.order])}
    [] c.op = "cancelOpenOrder"            -> {"BUY_PENDING"}
    [] c.op = "confirmBuyFill"             -> {"BUY_PENDING", "ENTERING"}
    [] c.op = "confirmExitFill"            -> {"ACTIVE", "CLOSING", "CLOSED"}
    [] OTHER                               -> {"ACTIVE"}

\* The claim trusts what it has read of the position.
MutantTrustedRead(c) ==
  CASE c.op = "claimOrderExecution"        -> PositionStates
    [] c.op = "releaseOrderExecutionClaim" -> {Pending(kind[c.order])}
    [] c.op = "cancelOpenOrder"            -> {"BUY_PENDING"}
    [] c.op = "confirmBuyFill"             -> {"BUY_PENDING", "ENTERING"}
    [] c.op = "confirmExitFill"            -> {"ACTIVE", "CLOSING"}
    [] OTHER                               -> {"ACTIVE"}

FromStates(c) ==
  CASE c.op = "claimOrderExecution"        -> {Before(kind[c.order])}
    [] c.op = "releaseOrderExecutionClaim" -> {Pending(kind[c.order])}
    [] c.op = "cancelOpenOrder"            -> {"BUY_PENDING"}
    [] c.op = "confirmBuyFill"             -> {"BUY_PENDING", "ENTERING"}
    [] c.op = "confirmExitFill"            -> {"ACTIVE", "CLOSING"}
    [] OTHER                               -> {"ACTIVE"}

PositionMatches(c, row) == row.state \in FromStates(c)

PositionUpdate(c, row) ==
  CASE c.op = "claimOrderExecution"        ->
         [row EXCEPT !.state = Pending(kind[c.order])]
    [] c.op = "releaseOrderExecutionClaim" ->
         [row EXCEPT !.state = Before(kind[c.order])]
    [] c.op = "cancelOpenOrder"            ->
         [row EXCEPT !.state = "CLOSED", !.closedReason = "BUY_CANCELLED"]
    [] c.op = "confirmBuyFill"             ->
         [row EXCEPT !.state = "ACTIVE", !.hasTokens = TRUE]
    [] c.op = "confirmExitFill"            ->
         [row EXCEPT !.state = "CLOSED", !.closedReason = ReasonOf(kind[c.order])]
    [] c.op = "userCloseActive"            ->
         [row EXCEPT !.state = "CLOSED", !.closedReason = "USER_CLOSE"]
    [] OTHER                               -> row    \* replaceProtectionOrders: updatedAt alone

--------------------------------------------------------------------------------
(* Waiting.                                                                *)

OrderHeldBy(u, o)     == o \in DOMAIN writes[u].orders
PositionHeldBy(u, p)  == p \in DOMAIN writes[u].positions
SignatureHeldBy(u, s) ==
  \E o \in DOMAIN writes[u].orders : writes[u].orders[o].txSignature = s

Others(t) == Sessions \ {t}

\* The next statement of t waits for the transaction of u.
WaitsFor(t, u) ==
  LET c == call[t]
  IN  /\ u # t
      /\ \/ /\ At(t, "order")
            /\ OrderMatches(c, Order(c.order))
            /\ OrderHeldBy(u, c.order) \/ (c.sig # NULL /\ SignatureHeldBy(u, c.sig))
         \/ /\ At(t, "position")
            /\ PositionMatches(c, Position(PositionFor(c)))
            /\ PositionHeldBy(u, PositionFor(c))
         \/ /\ At(t, "insert")
            /\ \E o \in todo[t] : status[o] = "OPEN" /\ OrderHeldBy(u, o)
         \/ /\ At(t, "insert")
            /\ todo[t] = {}
            /\ c.op = "userCloseActive"
            /\ SignatureHeldBy(u, c.sig)

--------------------------------------------------------------------------------
(* The statements.                                                         *)

\* The transaction is over and the session idle.
Finish(t) ==
  /\ pc' = [pc EXCEPT ![t] = <<>>]
  /\ call' = [call EXCEPT ![t] = NoCall]
  /\ todo' = [todo EXCEPT ![t] = {}]
  /\ writes' = [writes EXCEPT ![t] = NoWrites]

Begin(t) ==
  /\ pc[t] = <<>>
  /\ \E c \in Calls :
       /\ call' = [call EXCEPT ![t] = c]
       /\ pc' = [pc EXCEPT ![t] = Plan(c)]
  /\ UNCHANGED <<vars, todo, writes>>

\* A throw, a deadlock, a timeout or a crash.
Rollback(t) ==
  /\ pc[t] # <<>>
  /\ Finish(t)
  /\ UNCHANGED vars

\* findUnique: what is seen here may be gone at the next statement.
Read(t) ==
  /\ At(t, "read")
  /\ ReadPasses(call[t])
  /\ Advance(t)
  /\ UNCHANGED <<vars, call, todo, writes>>

\* order.updateMany: no row matches and the function answers (a rollback of
\* nothing), or the row is written.
UpdateOrder(t) ==
  LET c   == call[t]
      row == Order(c.order)
  IN  /\ At(t, "order")
      /\ OrderMatches(c, row)
      /\ \A u \in Others(t) : ~ WaitsFor(t, u)
      /\ c.sig # NULL => ~ SignatureUsed(c.sig)
      /\ writes' = [writes EXCEPT ![t].orders = With(@, [o \in {c.order} |-> OrderUpdate(c, row)])]
      /\ Advance(t)
      /\ UNCHANGED <<vars, call, todo>>

\* position.updateMany
UpdatePosition(t) ==
  LET c == call[t]
      p == PositionFor(c)
  IN  /\ At(t, "position")
      /\ PositionMatches(c, Position(p))
      /\ \A u \in Others(t) : ~ WaitsFor(t, u)
      /\ writes' = [writes EXCEPT ![t].positions = With(@, [q \in {p} |-> PositionUpdate(c, Position(p))])]
      /\ Advance(t)
      /\ UNCHANGED <<vars, call, todo>>

\* findFirst of the sibling of a filled exit, or findMany of the exits a close
\* or a replacement takes away.
ReadExits(t) ==
  LET c          == call[t]
      kinds      == CASE c.op = "confirmExitFill" -> {SiblingOf(kind[c.order])}
                      [] c.op = "userCloseActive" -> ProtectionKinds
                      [] OTHER                    -> c.kinds
      open       == OpenOrders(PositionFor(c), kinds)
  IN  /\ At(t, "exits")
      /\ todo' \in {[todo EXCEPT ![t] = S] :
                      S \in IF c.op = "confirmExitFill"
                              THEN {{o} : o \in open} \cup (IF open = {} THEN {{}} ELSE {})
                              ELSE {open}}
      /\ Advance(t)
      /\ UNCHANGED <<vars, call, writes>>

\* order.updateMany on the exits read: the rows are locked and cancelled one
\* after the other, in any order, those that are still OPEN.
CancelExit(t, o) ==
  /\ At(t, "insert")
  /\ o \in todo[t]
  /\ status[o] = "OPEN" => \A u \in Others(t) : ~ OrderHeldBy(u, o)
  /\ todo' = [todo EXCEPT ![t] = @ \ {o}]
  /\ writes' = IF status[o] = "OPEN"
                 THEN [writes EXCEPT ![t].orders =
                         With(@, [x \in {o} |-> [Order(o) EXCEPT !.status = "CANCELLED"]])]
                 ELSE writes
  /\ UNCHANGED <<vars, call, pc>>

\* The rows a transaction inserts at its end: new orders, by kind, and a trade.
InsertedKinds(c) ==
  CASE c.op = "confirmBuyFill"  -> ProtectionKinds
    [] c.op = "confirmExitFill" -> {}
    [] c.op = "userCloseActive" -> {"CLOSE_SWAP"}
    [] OTHER                    -> c.kinds

InsertedTrades(c) ==
  CASE c.op = "confirmBuyFill"  -> {<<PositionFor(c), "BUY_APPROVAL">>}
    [] c.op = "confirmExitFill" -> {<<PositionFor(c), SourceOf(kind[c.order])>>}
    [] c.op = "userCloseActive" -> {<<c.position, "USER_CLOSE">>}
    [] OTHER                    -> {}

Unwritten == {o \in FreshOrders : \A u \in Sessions : ~ OrderHeldBy(u, o)}

Insert(t) ==
  LET c     == call[t]
      kinds == InsertedKinds(c)
      close == c.op = "userCloseActive"
  IN  /\ At(t, "insert")
      /\ todo[t] = {}
      /\ close => ~ SignatureUsed(c.sig) /\ \A u \in Others(t) : ~ WaitsFor(t, u)
      /\ \E id \in [kinds -> Unwritten] :
           /\ \A j, k \in kinds : id[j] = id[k] => j = k
           /\ LET new == [o \in {id[k] : k \in kinds} |->
                            OrderRow(CHOOSE k \in kinds : id[k] = o,
                                     IF close THEN "FILLED" ELSE "OPEN",
                                     PositionFor(c),
                                     IF close THEN c.sig ELSE NULL)]
              IN  writes' = [writes EXCEPT ![t].orders = With(@, new),
                                           ![t].trades = InsertedTrades(c)]
      /\ Advance(t)
      /\ UNCHANGED <<vars, call, todo>>

Commit(t) ==
  /\ At(t, "commit")
  /\ LET row(o)  == IF o \in DOMAIN writes[t].orders THEN writes[t].orders[o] ELSE Order(o)
         of(p)   == IF p \in DOMAIN writes[t].positions THEN writes[t].positions[p]
                                                        ELSE Position(p)
     IN  /\ kind' = [o \in Orders |-> row(o).kind]
         /\ status' = [o \in Orders |-> row(o).status]
         /\ positionOf' = [o \in Orders |-> row(o).positionOf]
         /\ txSignature' = [o \in Orders |-> row(o).txSignature]
         /\ state' = [p \in Positions |-> of(p).state]
         /\ closedReason' = [p \in Positions |-> of(p).closedReason]
         /\ hasTokens' = [p \in Positions |-> of(p).hasTokens]
  /\ trades' = [p \in Positions |-> [s \in TradeSources |->
                  trades[p][s] + (IF <<p, s>> \in writes[t].trades THEN 1 ELSE 0)]]
  /\ UNCHANGED proposalVars
  /\ Finish(t)

--------------------------------------------------------------------------------

\* What acceptBuyProposal leaves: the proposal x has opened the position p with the
\* BUY order b.
StatementInit ==
  /\ \E x \in Proposals, p \in Positions, b \in Orders :
       /\ proposalStatus = [y \in Proposals |-> IF y = x THEN "EXECUTED" ELSE "ABSENT"]
       /\ proposalAction = [y \in Proposals |-> IF y = x THEN "BUY" ELSE NULL]
       /\ proposalPosition = [y \in Proposals |-> IF y = x THEN p ELSE NULL]
       /\ state = [q \in Positions |-> IF q = p THEN "BUY_PENDING" ELSE "ABSENT"]
       /\ kind = [o \in Orders |-> IF o = b THEN "BUY_TRIGGER" ELSE NULL]
       /\ status = [o \in Orders |-> IF o = b THEN "OPEN" ELSE "ABSENT"]
       /\ positionOf = [o \in Orders |-> IF o = b THEN p ELSE NULL]
  /\ lapsed = {}
  /\ closedReason = [p \in Positions |-> NULL]
  /\ hasTokens = [p \in Positions |-> FALSE]
  /\ txSignature = [o \in Orders |-> NULL]
  /\ trades = [p \in Positions |-> [s \in TradeSources |-> 0]]
  /\ call = [t \in Sessions |-> NoCall]
  /\ pc = [t \in Sessions |-> <<>>]
  /\ todo = [t \in Sessions |-> {}]
  /\ writes = [t \in Sessions |-> NoWrites]

StatementNext ==
  \E t \in Sessions :
    \/ Begin(t) \/ Rollback(t) \/ Read(t) \/ UpdateOrder(t) \/ UpdatePosition(t)
    \/ ReadExits(t) \/ Insert(t) \/ Commit(t)
    \/ \E o \in Orders : CancelExit(t, o)

StatementSpec == StatementInit /\ [][StatementNext]_statementVars

--------------------------------------------------------------------------------
(* Properties.                                                             *)

StatementTypeOK ==
  /\ TypeOK
  /\ \A t \in Sessions : pc[t] # <<>> => Head(pc[t]) \in Statements
  /\ todo \in [Sessions -> SUBSET Orders]
  /\ \A t \in Sessions :
       /\ DOMAIN writes[t].orders \subseteq Orders
       /\ \A o \in DOMAIN writes[t].orders : writes[t].orders[o].status \in OrderStatuses

\* What a transaction commits is one step of PositionLifecycle taken at its
\* commit, although what it read may be stale by then and other transactions
\* committed between its statements.
CommitsAreLifecycleSteps == [][Next]_vars

\* What PositionLifecycle proves of whole transactions holds of interleaved
\* ones, those of placeProtectionOrder included, which commits what no single
\* step of PositionLifecycle does.
MoneyStaysConsistent ==
  /\ EntryOrderTracksPosition
  /\ ClaimIsExclusive
  /\ LedgerMatchesPosition
  /\ OneFilledExit
  /\ SignatureSettlesOneOrder

\* cancelPendingBuyTx never throws its LifecycleInvariantError, nor confirmBuyFill
\* its rollback: whoever has written the BUY order finds the position where the
\* order says it is.
InvariantErrorUnreachable ==
  \A t \in Sessions :
    /\ At(t, "position") /\ call[t].order # NULL
    /\ kind[call[t].order] = "BUY_TRIGGER"
    => PositionMatches(call[t], Position(PositionFor(call[t])))

OrderFirst == {"cancelOpenOrder", "claimOrderExecution", "releaseOrderExecutionClaim",
               "confirmBuyFill"}

\* The functions that write their order and then its position never wait for
\* each other in a circle: a deadlock takes a close, a replacement or an exit fill.
OrderFirstNeverDeadlocks ==
  \A S \in SUBSET {t \in Sessions : call[t].op \in OrderFirst} :
    S # {} => \E t \in S : \A u \in S : ~ WaitsFor(t, u)

================================================================================
