--------------------------- MODULE PositionAbstract ---------------------------
(***************************************************************************)
(* What the lifecycle of a position promises to everything that calls it,  *)
(* with no order, no claim and no proposal left in sight: a position is    *)
(* asked for once, then either dropped or bought, by one swap, and once    *)
(* bought it is sold at most once, by one other swap.  No swap serves two  *)
(* purposes.                                                               *)
(***************************************************************************)

CONSTANTS Positions, Signatures

VARIABLES
  stage,  \* how far each position has come
  buys,   \* the swaps that bought each position
  sells   \* the swaps that sold it

vars == <<stage, buys, sells>>

Stages == {"none", "wanted", "dropped", "held", "sold"}

TypeOK ==
  /\ stage \in [Positions -> Stages]
  /\ buys \in [Positions -> SUBSET Signatures]
  /\ sells \in [Positions -> SUBSET Signatures]

Init ==
  /\ stage = [p \in Positions |-> "none"]
  /\ buys = [p \in Positions |-> {}]
  /\ sells = [p \in Positions |-> {}]

\* The swaps that have served already.
Spent == UNION {buys[p] \cup sells[p] : p \in Positions}

\* A BUY proposal is accepted.
Want(p) ==
  /\ stage[p] = "none"
  /\ stage' = [stage EXCEPT ![p] = "wanted"]
  /\ UNCHANGED <<buys, sells>>

\* The pending BUY is cancelled.
Drop(p) ==
  /\ stage[p] = "wanted"
  /\ stage' = [stage EXCEPT ![p] = "dropped"]
  /\ UNCHANGED <<buys, sells>>

\* The BUY is settled with the swap s.
Buy(p, s) ==
  /\ stage[p] = "wanted"
  /\ s \notin Spent
  /\ stage' = [stage EXCEPT ![p] = "held"]
  /\ buys' = [buys EXCEPT ![p] = {s}]
  /\ UNCHANGED sells

\* The take-profit, the stop-loss or the manual close is settled with the swap s.
Sell(p, s) ==
  /\ stage[p] = "held"
  /\ s \notin Spent
  /\ stage' = [stage EXCEPT ![p] = "sold"]
  /\ sells' = [sells EXCEPT ![p] = {s}]
  /\ UNCHANGED buys

Next ==
  \E p \in Positions :
    \/ Want(p)
    \/ Drop(p)
    \/ \E s \in Signatures : Buy(p, s) \/ Sell(p, s)

Spec == Init /\ [][Next]_vars

================================================================================
