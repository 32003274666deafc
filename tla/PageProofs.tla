------------------------------ MODULE PageProofs ------------------------------
(***************************************************************************)
(* What stale pages cannot break: the exits of a position that several     *)
(* tabs edit (PositionPage), the one purchase of an analysis whose draft   *)
(* several pages show (GrillDrafts), the transfer that lands when its form *)
(* is edited meanwhile (WithdrawPage), and the page that answers to old    *)
(* tokens and requests lead to (SessionGate).  Each has an inductive       *)
(* invariant that says what a page may hold.                               *)
(***************************************************************************)
EXTENDS PositionPage, GrillDrafts, WithdrawPage, SessionGate, FiniteSetTheorems, SequenceTheorems, TLAPS

--------------------------------------------------------------------------------
(* What a filter keeps of a list.                                          *)

\* The place of a position is its rank: places go from 1 to the number of positions,
\* in their order, and leave none out.
LEMMA PlaceIsRank ==
  ASSUME NEW n \in Nat, NEW S \in SUBSET (1 .. n)
  PROVE  /\ IsFiniteSet(S) /\ Cardinality(S) \in 0 .. n
         /\ \A i \in S : Place(i, S) \in 1 .. Cardinality(S)
         /\ \A i, j \in S : i < j => Place(i, S) < Place(j, S)
         /\ \A k \in 1 .. Cardinality(S) : \E i \in S : Place(i, S) = k
<1>0. S \subseteq Int
  OBVIOUS
<1>1. IsFiniteSet(1 .. n) /\ Cardinality(1 .. n) = n
  BY FS_Interval
<1>2. IsFiniteSet(S) /\ Cardinality(S) <= n /\ Cardinality(S) \in Nat
  BY <1>1, FS_Subset, FS_CardinalityType
<1> DEFINE UpTo(i) == {j \in S : j <= i}
<1>3. ASSUME NEW i \in S
      PROVE  /\ IsFiniteSet(UpTo(i))
             /\ Place(i, S) = Cardinality(UpTo(i)) /\ Place(i, S) \in Nat
             /\ Place(i, S) \in 1 .. Cardinality(S)
  <2>1. UpTo(i) \in SUBSET S /\ i \in UpTo(i)
    BY <1>0
  <2>2. IsFiniteSet(UpTo(i)) /\ Cardinality(UpTo(i)) <= Cardinality(S)
    BY <2>1, <1>2, FS_Subset
  <2>3. Cardinality(UpTo(i)) \in Nat /\ Cardinality(UpTo(i)) # 0
    BY <2>1, <2>2, FS_CardinalityType, FS_EmptySet
  <2> QED BY <2>2, <2>3, <1>2 DEF Place
<1>4. ASSUME NEW i \in S, NEW j \in S, i < j PROVE Place(i, S) < Place(j, S)
  <2>1. UpTo(i) \in SUBSET UpTo(j) /\ j \in UpTo(j) /\ j \notin UpTo(i)
    <3>1. i \in Int /\ j \in Int
      BY <1>0
    <3>2. \A m \in S : m <= i => m <= j
      BY <3>1, <1>0, <1>4
    <3>3. UpTo(i) \subseteq UpTo(j)
      BY <3>2
    <3>4. j \in UpTo(j) /\ j \notin UpTo(i)
      BY <3>1, <1>4
    <3> HIDE DEF UpTo
    <3> QED BY <3>3, <3>4
  <2>2. Cardinality(UpTo(i)) <= Cardinality(UpTo(j)) /\ Cardinality(UpTo(i)) # Cardinality(UpTo(j))
    BY <2>1, <1>3, FS_Subset
  <2> HIDE DEF UpTo
  <2> QED BY <2>2, <1>3
<1>5. \A k \in 1 .. Cardinality(S) : \E i \in S : Place(i, S) = k
  <2> DEFINE T == 1 .. Cardinality(S)
             place == [i \in S |-> Place(i, S)]
  <2>1. place \in [S -> T]
    BY <1>3
  <2>2. \A i, j \in S : place[i] = place[j] => i = j
    <3> SUFFICES ASSUME NEW i \in S, NEW j \in S, place[i] = place[j], i # j PROVE FALSE
      OBVIOUS
    <3>1. i < j \/ j < i
      BY <1>0
    <3>2. Place(i, S) \in Nat /\ Place(j, S) \in Nat /\ Place(i, S) = Place(j, S)
      BY <1>3
    <3> QED BY <3>1, <3>2, <1>4
  <2>3. place \in Injection(S, T)
    BY <2>1, <2>2 DEF Injection, IsInjective
  <2>4. IsFiniteSet(T) /\ Cardinality(T) = Cardinality(S)
    BY <1>2, FS_Interval
  <2>5. place \in Surjection(S, T)
    BY <2>3, <2>4, FS_Injection
  <2> QED BY <2>5 DEF Surjection
<1> HIDE DEF UpTo
<1> QED BY <1>2, <1>3, <1>4, <1>5

\* The element at a position is picked at the place of that position.
LEMMA PickedAtPlaces ==
  ASSUME NEW n \in Nat, NEW S \in SUBSET (1 .. n), NEW seq
  PROVE  /\ Picked(seq, S) = [k \in 1 .. Cardinality(S) |-> Picked(seq, S)[k]]
         /\ \A i \in S : Picked(seq, S)[Place(i, S)] = seq[i]
<1>1. ASSUME NEW i \in S PROVE Picked(seq, S)[Place(i, S)] = seq[i]
  <2>1. Place(i, S) \in 1 .. Cardinality(S) /\ \A j \in S : Place(j, S) = Place(i, S) => j = i
    <3>1. \A j \in S : Place(j, S) \in 1 .. Cardinality(S) /\ Cardinality(S) \in Nat
      BY PlaceIsRank
    <3>2. \A j, m \in S : j < m => Place(j, S) < Place(m, S)
      BY PlaceIsRank
    <3>3. ASSUME NEW j \in S, j # i PROVE Place(j, S) # Place(i, S)
      <4>1. j < i \/ i < j
        BY <3>3
      <4> QED BY <4>1, <3>1, <3>2
    <3> QED BY <3>1, <3>3
  <2>2. (CHOOSE j \in S : Place(j, S) = Place(i, S)) = i
    BY <2>1, Zenon
  <2> QED BY <2>1, <2>2, Zenon DEF Picked
<1>2. Picked(seq, S) = [k \in 1 .. Cardinality(S) |-> Picked(seq, S)[k]]
  BY DEF Picked
<1> QED BY <1>1, <1>2

\* What is picked of a list of R is a list of R, each of its elements from a position
\* of its own.
LEMMA PickedIsSeq ==
  ASSUME NEW R, NEW seq \in Seq(R), NEW S \in SUBSET DOMAIN seq
  PROVE  /\ Picked(seq, S) \in Seq(R)
         /\ Len(Picked(seq, S)) = Cardinality(S)
         /\ Cardinality(S) \in 0 .. Len(seq)
         /\ \A k \in 1 .. Cardinality(S) : \E i \in S : Place(i, S) = k /\ Picked(seq, S)[k] = seq[i]
<1>1. Len(seq) \in Nat /\ S \in SUBSET (1 .. Len(seq))
  OBVIOUS
<1>2. \A k \in 1 .. Cardinality(S) : \E i \in S : Place(i, S) = k /\ Picked(seq, S)[k] = seq[i]
  BY <1>1, PlaceIsRank, PickedAtPlaces
<1>3. \A k \in 1 .. Cardinality(S) : Picked(seq, S)[k] \in R
  BY <1>2
<1>4. Picked(seq, S) = [k \in 1 .. Cardinality(S) |-> Picked(seq, S)[k]] /\ Cardinality(S) \in 0 .. Len(seq)
  BY <1>1, PlaceIsRank, PickedAtPlaces
<1>5. Picked(seq, S) \in Seq(R) /\ Len(Picked(seq, S)) = Cardinality(S)
  BY <1>3, <1>4
<1> QED BY <1>2, <1>4, <1>5

\* ... and if no element is twice in the list, none is twice in what is picked.
LEMMA PickedIsInjective ==
  ASSUME NEW R, NEW seq \in Seq(R), NEW S \in SUBSET DOMAIN seq, IsInjective(seq)
  PROVE  IsInjective(Picked(seq, S))
<1>0. DOMAIN Picked(seq, S) = 1 .. Cardinality(S)
  BY DEF Picked
<1>1. \A k \in 1 .. Cardinality(S) : \E i \in S : Place(i, S) = k /\ Picked(seq, S)[k] = seq[i]
  BY PickedIsSeq
<1>2. \A i, j \in S : seq[i] = seq[j] => i = j
  BY DEF IsInjective
<1> SUFFICES ASSUME NEW k \in 1 .. Cardinality(S), NEW l \in 1 .. Cardinality(S),
                    Picked(seq, S)[k] = Picked(seq, S)[l]
             PROVE  k = l
  BY <1>0 DEF IsInjective
<1>3. PICK i \in S : Place(i, S) = k /\ Picked(seq, S)[k] = seq[i]
  BY <1>1
<1>4. PICK j \in S : Place(j, S) = l /\ Picked(seq, S)[l] = seq[j]
  BY <1>1
<1> QED BY <1>2, <1>3, <1>4

\* What is picked of a list does not change as the list grows ...
LEMMA PickedOfLonger ==
  ASSUME NEW R, NEW seq \in Seq(R), NEW x \in R, NEW S \in SUBSET DOMAIN seq
  PROVE  Picked(Append(seq, x), S) = Picked(seq, S)
<1>1. Len(seq) \in Nat /\ S \in SUBSET (1 .. Len(seq))
  OBVIOUS
<1>2. ASSUME NEW k \in 1 .. Cardinality(S)
      PROVE  Append(seq, x)[CHOOSE i \in S : Place(i, S) = k] = seq[CHOOSE i \in S : Place(i, S) = k]
  <2>1. \E i \in S : Place(i, S) = k
    BY <1>1, PlaceIsRank
  <2>2. (CHOOSE i \in S : Place(i, S) = k) \in S
    BY <2>1
  <2>3. \A i \in S : Append(seq, x)[i] = seq[i]
    OBVIOUS
  <2> QED BY <2>2, <2>3
<1> DEFINE at(k) == CHOOSE i \in S : Place(i, S) = k
<1>3. /\ Picked(Append(seq, x), S) = [k \in 1 .. Cardinality(S) |-> Append(seq, x)[at(k)]]
      /\ Picked(seq, S) = [k \in 1 .. Cardinality(S) |-> seq[at(k)]]
  BY Zenon DEF Picked
<1>4. \A k \in 1 .. Cardinality(S) : Append(seq, x)[at(k)] = seq[at(k)]
  BY <1>2
<1> HIDE DEF at
<1> QED BY <1>3, <1>4

\* ... and the last position adds its element.
LEMMA PickedWithLast ==
  ASSUME NEW R, NEW seq \in Seq(R), NEW n \in Nat, Len(seq) = n + 1, NEW S \in SUBSET (1 .. n)
  PROVE  Picked(seq, S \cup {n + 1}) = Append(Picked(seq, S), seq[n + 1])
<1> DEFINE T == S \cup {n + 1}
           c == Cardinality(S)
<1>1. /\ S \in SUBSET (1 .. n + 1) /\ T \in SUBSET (1 .. n + 1)
      /\ n + 1 \in Nat /\ n + 1 \in T /\ n + 1 \notin S /\ S \subseteq T
  OBVIOUS
<1>2. DOMAIN seq = 1 .. n + 1 /\ seq[n + 1] \in R
  BY LenProperties, ElementOfSeq
<1>3. IsFiniteSet(S) /\ c \in Nat /\ Cardinality(T) = c + 1
  <2>1. IsFiniteSet(S)
    BY PlaceIsRank
  <2> QED BY <1>1, <2>1, FS_CardinalityType, FS_AddElement
<1>4. ASSUME NEW i \in S PROVE Place(i, T) = Place(i, S)
  <2>1. {j \in T : j <= i} = {j \in S : j <= i}
    OBVIOUS
  <2> HIDE DEF T
  <2> QED BY <2>1 DEF Place
<1>5. Place(n + 1, T) = c + 1
  <2>1. {j \in T : j <= n + 1} = T
    <3>1. \A j \in T : j <= n + 1
      BY <1>1
    <3> HIDE DEF T
    <3> QED BY <3>1
  <2> HIDE DEF T, c
  <2> QED BY <1>3, <2>1 DEF Place
<1> HIDE DEF T
<1>6. S \in SUBSET DOMAIN seq /\ T \in SUBSET DOMAIN seq
  BY <1>1, <1>2
<1>7. /\ Picked(seq, S) \in Seq(R) /\ Len(Picked(seq, S)) = c
      /\ \A k \in 1 .. c : \E i \in S : Place(i, S) = k /\ Picked(seq, S)[k] = seq[i]
      /\ Picked(seq, T) \in Seq(R) /\ Len(Picked(seq, T)) = Cardinality(T)
      /\ \A k \in 1 .. Cardinality(T) : \E i \in T : Place(i, T) = k /\ Picked(seq, T)[k] = seq[i]
  <2>1. ASSUME NEW P \in SUBSET DOMAIN seq
        PROVE  /\ Picked(seq, P) \in Seq(R) /\ Len(Picked(seq, P)) = Cardinality(P)
               /\ \A k \in 1 .. Cardinality(P) : \E i \in P : Place(i, P) = k /\ Picked(seq, P)[k] = seq[i]
    BY PickedIsSeq
  <2> QED BY <1>6, <2>1
<1>8. ASSUME NEW i \in T PROVE Picked(seq, T)[Place(i, T)] = seq[i]
  <2>1. /\ Place(i, T) \in 1 .. Cardinality(T)
        /\ \A j \in T : Place(j, T) = Place(i, T) => j = i
    <3>1. ASSUME NEW j \in T PROVE Place(j, T) \in 1 .. Cardinality(T) /\ j \in Int
      BY <1>1, PlaceIsRank
    <3>2. ASSUME NEW j \in T, NEW k \in T, j < k PROVE Place(j, T) < Place(k, T)
      BY <1>1, <3>2, PlaceIsRank
    <3> QED BY <1>3, <3>1, <3>2
  <2>2. PICK j \in T : Place(j, T) = Place(i, T) /\ Picked(seq, T)[Place(i, T)] = seq[j]
    BY <1>7, <2>1
  <2> QED BY <2>1, <2>2
<1> HIDE DEF c
<1>9. \A k \in 1 .. c : Picked(seq, T)[k] = Picked(seq, S)[k]
  BY <1>1, <1>4, <1>7, <1>8
<1>10. Picked(seq, T)[c + 1] = seq[n + 1]
  BY <1>1, <1>5, <1>8
<1> DEFINE longer == Append(Picked(seq, S), seq[n + 1])
<1>11. /\ longer \in Seq(R) /\ Len(longer) = c + 1 /\ longer[c + 1] = seq[n + 1]
       /\ \A k \in 1 .. c : longer[k] = Picked(seq, S)[k]
  BY <1>2, <1>7, AppendProperties
<1> HIDE DEF longer
<1>12. ASSUME NEW k \in 1 .. c + 1 PROVE Picked(seq, T)[k] = longer[k]
  <2>1. k \in 1 .. c \/ k = c + 1
    BY <1>3 DEF c
  <2> QED BY <1>9, <1>10, <1>11, <2>1
<1>13. Picked(seq, T) = longer
  BY <1>3, <1>7, <1>11, <1>12, SeqEqual
<1> QED BY <1>13 DEF T, longer

--------------------------------------------------------------------------------
(* The exits of a position on its page.                                    *)

\* The types of what a page shows, types and sends.
Typed == UNION {LegPrices[leg] : leg \in Legs}
ExitRows == [kind : Legs, price : Typed, status : {"OPEN", "PENDING"}]
RowStates == {"BUY_PENDING", "ENTERING", "ACTIVE", "CLOSING", "CLOSED"}
PageViews == [state : RowStates, amount : {0, 1}, price : [Legs -> Typed]]
PageDrafts == [Legs -> Typed \cup {NOTHING}]

Held == [view : PageViews, draft : PageDrafts,
         at : {"idle", "TAKE_PROFIT", "STOP_LOSS", "replacing", "refetching", "closing"},
         body : PageViews \cup PageDrafts \cup {NOTHING}]

\* What a page may hold: a view that is ENTERING shows no tokens, and it is the only
\* view that is ever sent to be placed.
PageOK(pg) ==
  /\ pg \in Held
  /\ pg.view.state = "ENTERING" => pg.view.amount = 0
  /\ pg.at \in Legs => pg.body \in PageViews /\ pg.body.amount = 0
  /\ pg.at = "replacing" => pg.body \in PageDrafts

\* The two exits of a position that holds tokens, at the prices of its row.
Pair(pair) ==
  /\ Len(pair) = 2
  /\ pair[1].kind # pair[2].kind
  /\ \A i \in 1 .. 2 : pair[i].price = seedPrice[pair[i].kind]

\* The exits each state of the position has.
ExitsOK ==
  /\ exits \in Seq(ExitRows) /\ Len(exits) <= 2
  /\ positionState \in {"BUY_PENDING", "ENTERING"} => exits = <<>> /\ tokenAmount = 0
  /\ positionState = "ACTIVE" => Pair(exits) /\ \A i \in 1 .. 2 : exits[i].status = "OPEN"
  /\ positionState = "CLOSING" => Pair(exits) /\ exits[1].status # exits[2].status

\* Every page is one that may be.
PagesOK ==
  /\ page \in [Tabs -> Held \cup {NOTHING}]
  /\ \A t \in Tabs : page[t] # NOTHING => PageOK(page[t])

\* The inductive invariant of PageSpec.
PageInv ==
  /\ positionState \in RowStates
  /\ tokenAmount \in {0, 1}
  /\ seedPrice \in [Legs -> Typed]
  /\ ExitsOK
  /\ PagesOK

\* The legs, and what is typed for them.
LEMMA LegsAre == Legs = {"TAKE_PROFIT", "STOP_LOSS"} /\ Typed \subseteq Nat \ {0}
  BY PageAssumption DEF Typed, Legs

\* The sets of positions of a pair.
LEMMA CardinalitiesOfPair ==
  /\ Cardinality({}) = 0 /\ Cardinality({1}) = 1 /\ Cardinality({2}) = 1
  /\ Cardinality({1, 2}) = 2
<1>1. Cardinality({}) = 0 /\ Cardinality({1}) = 1 /\ Cardinality({2}) = 1 /\ IsFiniteSet({1})
  BY FS_EmptySet, FS_Singleton
<1>2. Cardinality({1} \cup {2}) = 2
  BY <1>1, FS_AddElement
<1>3. {1} \cup {2} = {1, 2}
  OBVIOUS
<1> QED BY <1>1, <1>2, <1>3

\* The positions and the rows of a pair.
LEMMA PairHasDomain ==
  ASSUME NEW R, NEW pair \in Seq(R), Len(pair) = 2
  PROVE  DOMAIN pair = {1, 2} /\ pair[1] \in R /\ pair[2] \in R
<1>1. DOMAIN pair = 1 .. 2
  OBVIOUS
<1> QED BY <1>1

\* Two rows, joined the ways replaceProtectionOrders joins what it keeps and creates.
LEMMA TwoJoined ==
  ASSUME NEW R, NEW a \in R, NEW b \in R, NEW pair,
         \/ pair = <<a>> \o <<b>> \o <<>>
         \/ pair = <<a>> \o <<>> \o <<b>>
         \/ pair = <<>> \o <<a>> \o <<b>>
  PROVE  pair \in Seq(R) /\ Len(pair) = 2 /\ pair[1] = a /\ pair[2] = b
<1>1. <<a>> \in Seq(R) /\ <<b>> \in Seq(R) /\ <<>> \in Seq(R)
  OBVIOUS
<1>2. Len(<<a>>) = 1 /\ Len(<<b>>) = 1 /\ <<a>>[1] = a /\ <<b>>[1] = b
  OBVIOUS
<1>3. <<a>> \o <<b>> \in Seq(R) /\ <<a>> \o <<>> = <<a>> /\ <<>> \o <<a>> = <<a>>
  BY <1>1
<1>4. pair = <<a>> \o <<b>>
  BY <1>1, <1>3, <<a>> \o <<b>> \o <<>> = <<a>> \o <<b>>
<1>5. Len(<<a>> \o <<b>>) = 2 /\ (<<a>> \o <<b>>)[1] = a /\ (<<a>> \o <<b>>)[2] = b
  BY <1>1, <1>2
<1> QED BY <1>3, <1>4, <1>5

\* What a pair of exits is without some of them.
LEMMA KeptOfPair ==
  ASSUME exits \in Seq(ExitRows), Len(exits) = 2
  PROVE  /\ ExitsWithout({}) = exits
         /\ ExitsWithout({1}) = <<exits[2]>>
         /\ ExitsWithout({2}) = <<exits[1]>>
         /\ ExitsWithout({1, 2}) = <<>>
<1>1. DOMAIN exits = {1, 2} /\ 1 .. 2 = {1, 2}
  BY PairHasDomain
<1>2. /\ Place(1, {1, 2}) = 1 /\ Place(2, {1, 2}) = 2
      /\ Place(1, {1}) = 1 /\ Place(2, {2}) = 1
  <2>1. /\ {j \in {1, 2} : j <= 1} = {1} /\ {j \in {1, 2} : j <= 2} = {1, 2}
        /\ {j \in {1} : j <= 1} = {1} /\ {j \in {2} : j <= 2} = {2}
    OBVIOUS
  <2> QED BY <2>1, CardinalitiesOfPair DEF Place
<1>3. ASSUME NEW left \in SUBSET (1 .. 2), NEW cut, {1, 2} \ cut = left
      PROVE  /\ ExitsWithout(cut) = [k \in 1 .. Cardinality(left) |-> ExitsWithout(cut)[k]]
             /\ \A i \in left : ExitsWithout(cut)[Place(i, left)] = exits[i]
  <2>1. ExitsWithout(cut) = Picked(exits, left)
    BY <1>1, <1>3 DEF ExitsWithout
  <2>2. \A i \in left : Picked(exits, left)[Place(i, left)] = exits[i]
    BY 2 \in Nat, PickedAtPlaces
  <2>3. Picked(exits, left) = [k \in 1 .. Cardinality(left) |-> Picked(exits, left)[k]]
    BY DEF Picked
  <2> QED BY <2>1, <2>2, <2>3, Zenon
<1>4. ExitsWithout({}) = exits
  <2>1. /\ ExitsWithout({}) = [k \in 1 .. 2 |-> ExitsWithout({})[k]]
        /\ ExitsWithout({})[1] = exits[1] /\ ExitsWithout({})[2] = exits[2]
    BY <1>2, <1>3, CardinalitiesOfPair, {1, 2} \ {} = {1, 2}
  <2>2. exits = [k \in 1 .. 2 |-> exits[k]]
    OBVIOUS
  <2> QED BY <2>1, <2>2
<1>5. ExitsWithout({1}) = <<exits[2]>>
  <2>1. /\ ExitsWithout({1}) = [k \in 1 .. 1 |-> ExitsWithout({1})[k]]
        /\ ExitsWithout({1})[1] = exits[2]
    BY <1>2, <1>3, CardinalitiesOfPair, {1, 2} \ {1} = {2}
  <2> QED BY <2>1
<1>6. ExitsWithout({2}) = <<exits[1]>>
  <2>1. /\ ExitsWithout({2}) = [k \in 1 .. 1 |-> ExitsWithout({2})[k]]
        /\ ExitsWithout({2})[1] = exits[1]
    BY <1>2, <1>3, CardinalitiesOfPair, {1, 2} \ {2} = {1}
  <2> QED BY <2>1
<1>7. ExitsWithout({1, 2}) = <<>>
  <2>1. ExitsWithout({1, 2}) = [k \in 1 .. 0 |-> ExitsWithout({1, 2})[k]]
    BY <1>3, CardinalitiesOfPair, {1, 2} \ {1, 2} = {}
  <2> QED BY <2>1
<1> QED BY <1>4, <1>5, <1>6, <1>7

\* Two exits of different legs, both OPEN, at the prices of the row: that is armed.
LEMMA PairIsArmed ==
  ASSUME PageInv, positionState = "ACTIVE"
  PROVE  ExitsStayArmed
<1>1. /\ exits \in Seq(ExitRows) /\ Len(exits) = 2 /\ exits[1].kind # exits[2].kind
      /\ exits[1].status = "OPEN" /\ exits[2].status = "OPEN"
      /\ exits[1].price = seedPrice[exits[1].kind] /\ exits[2].price = seedPrice[exits[2].kind]
  BY DEF PageInv, ExitsOK, Pair
<1>2. DOMAIN exits = {1, 2} /\ exits[1] \in ExitRows /\ exits[2] \in ExitRows
  BY <1>1, PairHasDomain
<1>3. exits[1].kind \in Legs /\ exits[2].kind \in Legs
  BY <1>2 DEF ExitRows
<1>4. ASSUME NEW leg \in Legs
      PROVE  \E i \in DOMAIN exits : OpenLeg(leg) = {i} /\ exits[i].price = seedPrice[leg]
  <2>1. CASE exits[1].kind = leg
    <3>1. OpenLeg(leg) = {1}
      BY <2>1, <1>1, <1>2 DEF OpenLeg
    <3> QED BY <3>1, <2>1, <1>1, <1>2
  <2>2. CASE exits[2].kind = leg
    <3>1. OpenLeg(leg) = {2}
      BY <2>2, <1>1, <1>2 DEF OpenLeg
    <3> QED BY <3>1, <2>2, <1>1, <1>2
  <2> QED BY <2>1, <2>2, <1>1, <1>3, LegsAre
<1> QED BY <1>4 DEF ExitsStayArmed

\* What a page reads is a view, and shows no tokens while the position is ENTERING.
LEMMA ShownIsTyped ==
  ASSUME PageInv
  PROVE  /\ Shown \in PageViews
         /\ Shown.state = "ENTERING" => Shown.amount = 0
         /\ Shown.price \in PageDrafts
<1>1. exits \in Seq(ExitRows) /\ DOMAIN exits \subseteq {1, 2}
  BY DEF PageInv, ExitsOK
<1>2. ASSUME NEW leg \in Legs, OpenLeg(leg) # {}
      PROVE  exits[Min(OpenLeg(leg))].price \in Typed
  <2>1. OpenLeg(leg) \subseteq {1, 2} /\ OpenLeg(leg) \subseteq DOMAIN exits
    BY <1>1 DEF OpenLeg
  <2>2. \E i \in OpenLeg(leg) : \A j \in OpenLeg(leg) : i <= j
    BY <2>1, <1>2
  <2>3. Min(OpenLeg(leg)) \in OpenLeg(leg)
    BY <2>2, <2>1 DEF Min
  <2>4. exits[Min(OpenLeg(leg))] \in ExitRows
    BY <2>3, <2>1, <1>1
  <2> QED BY <2>4 DEF ExitRows
<1>3. Shown.price \in [Legs -> Typed]
  BY <1>2 DEF Shown, PageInv
<1> QED BY <1>3 DEF Shown, PageInv, ExitsOK, PageViews, PageDrafts, RowStates

\* One page changes, into one that it may be.
LEMMA PagesKept ==
  ASSUME PagesOK, NEW t \in Tabs, NEW new, new = NOTHING \/ PageOK(new),
         page' = [page EXCEPT ![t] = new]
  PROVE  PagesOK'
  BY DEF PagesOK, PageOK

\* What happens in a tab alone.
LEMMA TabStepKeeps ==
  ASSUME PageInv, NEW t \in Tabs,
         \/ LoadPage(t) \/ LeavePage(t) \/ RefetchPosition(t)
         \/ \E leg \in Legs :
              \E draft \in LegPrices[leg] \cup {NOTHING} : TypeDraft(t, leg, draft)
         \/ HandleConfirmExit(t) \/ HandleSubmitTpSl(t) \/ SubmitEnds(t)
         \/ HandleClosePosition(t) \/ LoseCall(t)
  PROVE  PageInv'
<1>1. UNCHANGED <<positionState, tokenAmount, seedPrice, exits>>
  BY DEF LoadPage, LeavePage, RefetchPosition, TypeDraft, HandleConfirmExit,
         HandleSubmitTpSl, SubmitEnds, HandleClosePosition, LoseCall
<1>2. ASSUME PagesOK' PROVE PageInv'
  BY <1>1, <1>2 DEF PageInv, ExitsOK, Pair, ExitRows
<1>3. PagesOK /\ page[t] \in Held \cup {NOTHING} /\ (page[t] # NOTHING => PageOK(page[t]))
  BY DEF PageInv, PagesOK
<1>4. ASSUME NEW new, PageOK(new), page' = [page EXCEPT ![t] = new] PROVE PagesOK'
  BY <1>3, <1>4, PagesKept
<1>5. CASE LeavePage(t)
  BY <1>2, <1>3, <1>5, PagesKept DEF LeavePage
<1>6. CASE LoadPage(t)
  <2> DEFINE new == [view |-> Shown, draft |-> Shown.price, at |-> "idle", body |-> NOTHING]
  <2>1. PageOK(new)
    BY ShownIsTyped, LegsAre DEF PageOK, Held
  <2> QED BY <2>1, <1>2, <1>4, <1>6 DEF LoadPage
<1>7. CASE RefetchPosition(t)
  <2> DEFINE new == [page[t] EXCEPT !.view = Shown]
  <2>1. PageOK(new)
    BY ShownIsTyped, <1>3, <1>7 DEF PageOK, Held, RefetchPosition
  <2> QED BY <2>1, <1>2, <1>4, <1>7 DEF RefetchPosition
<1>8. ASSUME NEW leg \in Legs, NEW draft \in LegPrices[leg] \cup {NOTHING}, TypeDraft(t, leg, draft)
      PROVE  PageInv'
  <2> DEFINE new == [page[t] EXCEPT !.draft = [page[t].draft EXCEPT ![leg] = draft]]
  <2>1. draft \in Typed \cup {NOTHING}
    BY DEF Typed
  <2>2. [page[t].draft EXCEPT ![leg] = draft] \in PageDrafts
    BY <2>1, <1>3, <1>8 DEF PageOK, Held, TypeDraft, Idle, PageDrafts
  <2>3. PageOK(new)
    BY <2>2, <1>3, <1>8 DEF PageOK, Held, TypeDraft, Idle
  <2>4. page' = [page EXCEPT ![t] = new]
    BY <1>3, <1>8 DEF TypeDraft, Held, Idle
  <2> QED BY <2>3, <2>4, <1>2, <1>4
<1> DEFINE goes(at, body) == [page[t] EXCEPT !.at = at, !.body = body]
<1>9. CASE HandleConfirmExit(t)
  <2>1. PageOK(goes("TAKE_PROFIT", page[t].view))
    BY <1>3, <1>9 DEF PageOK, Held, HandleConfirmExit, Idle
  <2> QED BY <2>1, <1>2, <1>4, <1>9 DEF HandleConfirmExit, PageGoes
<1>10. CASE HandleSubmitTpSl(t)
  <2>1. PageOK(goes("replacing", page[t].draft))
    BY <1>3, <1>10, LegsAre DEF PageOK, Held, HandleSubmitTpSl, Idle
  <2> QED BY <2>1, <1>2, <1>4, <1>10 DEF HandleSubmitTpSl, PageGoes
<1>11. CASE HandleClosePosition(t)
  <2>1. PageOK(goes("closing", NOTHING))
    BY <1>3, <1>11, LegsAre DEF PageOK, Held, HandleClosePosition, Idle
  <2> QED BY <2>1, <1>2, <1>4, <1>11 DEF HandleClosePosition, PageGoes
<1>12. CASE LoseCall(t)
  <2>1. PageOK(goes("idle", NOTHING))
    BY <1>3, <1>12, LegsAre DEF PageOK, Held, LoseCall
  <2> QED BY <2>1, <1>2, <1>4, <1>12 DEF LoseCall, Done, PageGoes
<1>13. CASE SubmitEnds(t)
  <2> DEFINE new == [page[t] EXCEPT !.at = "idle", !.view = Shown]
  <2>1. PageOK(new)
    BY ShownIsTyped, <1>3, <1>13, LegsAre DEF PageOK, Held, SubmitEnds
  <2> QED BY <2>1, <1>2, <1>4, <1>13 DEF SubmitEnds
<1> QED BY <1>5, <1>6, <1>7, <1>8, <1>9, <1>10, <1>11, <1>12, <1>13

\* What a call of a page does to the exits: a position that is not ACTIVE is left
\* alone, and what is placed from the banner of a position that was ENTERING is refused.
LEMMA CallKeeps ==
  ASSUME PageInv, NEW t \in Tabs,
         PlaceLeg(t) \/ ReplaceProtection(t) \/ PersistManualClose(t)
  PROVE  PageInv'
<1>1. PagesOK /\ page[t] \in Held \cup {NOTHING} /\ (page[t] # NOTHING => PageOK(page[t]))
  BY DEF PageInv, PagesOK
<1>2. ASSUME NEW new, PageOK(new), page' = [page EXCEPT ![t] = new] PROVE PagesOK'
  BY <1>1, <1>2, PagesKept
<1> DEFINE goes(at, body) == [page[t] EXCEPT !.at = at, !.body = body]
<1>3. ASSUME page[t] # NOTHING
      PROVE  PageOK(goes("idle", NOTHING)) /\ PageOK(goes("refetching", NOTHING))
  BY <1>1, <1>3, LegsAre DEF PageOK, Held
<1>4. CASE PlaceLeg(t)
  <2>1. page[t].at \in Legs /\ page[t].body \in PageViews /\ page[t].body.amount = 0
    BY <1>1, <1>4 DEF PlaceLeg, PageOK
  <2>2. page[t].body.price[page[t].at] \in Nat
    BY <2>1, LegsAre DEF PageViews
  <2>3. ~ (page[t].body.price[page[t].at] * page[t].body.amount > 0)
    BY <2>1, <2>2
  <2>4. page' = [page EXCEPT ![t] = goes("idle", NOTHING)]
    BY <2>3, <1>4 DEF PlaceLeg, Done, PageGoes
  <2>5. PagesOK'
    BY <2>4, <1>2, <1>3, <1>4 DEF PlaceLeg
  <2>6. UNCHANGED <<positionState, tokenAmount, seedPrice, exits>>
    BY <2>3, <1>4 DEF PlaceLeg
  <2> QED BY <2>5, <2>6 DEF PageInv, ExitsOK, Pair, ExitRows
<1>5. CASE PersistManualClose(t)
  <2>1. PagesOK'
    BY <1>1, <1>2, <1>3, <1>5, PagesKept DEF PersistManualClose, Done, PageGoes
  <2>2. CASE positionState = "ACTIVE"
    <3>1. exits' = <<>> /\ positionState' = "CLOSED"
      BY <1>5, <2>2 DEF PersistManualClose
    <3>2. ExitsOK'
      BY <3>1 DEF ExitsOK
    <3> QED BY <2>1, <3>1, <3>2, <1>5 DEF PersistManualClose, PageInv, RowStates
  <2>3. CASE positionState # "ACTIVE"
    <3>1. UNCHANGED <<positionState, tokenAmount, seedPrice, exits>>
      BY <1>5, <2>3 DEF PersistManualClose
    <3> QED BY <2>1, <3>1 DEF PageInv, ExitsOK, Pair, ExitRows
  <2> QED BY <2>2, <2>3
<1>6. CASE ReplaceProtection(t)
  <2> DEFINE body == page[t].body
             replaced == {leg \in Legs : body[leg] # NOTHING}
             cut == UNION {OpenLeg(leg) : leg \in replaced}
             new(leg) == IF leg \in replaced THEN <<Row(leg, body[leg])>> ELSE <<>>
             price == [leg \in Legs |-> IF leg \in replaced THEN body[leg] ELSE seedPrice[leg]]
  <2>1. PagesOK'
    BY <1>1, <1>2, <1>3, <1>6 DEF ReplaceProtection, Done, PageGoes
  <2>2. UNCHANGED <<positionState, tokenAmount>>
    BY <1>6 DEF ReplaceProtection
  <2>3. CASE UNCHANGED <<exits, seedPrice>>
    BY <2>1, <2>2, <2>3 DEF PageInv, ExitsOK, Pair, ExitRows
  <2>4. CASE /\ positionState = "ACTIVE"
             /\ exits' = ExitsWithout(cut) \o new("TAKE_PROFIT") \o new("STOP_LOSS")
             /\ seedPrice' = price
    <3>1. body \in PageDrafts
      BY <1>1, <1>6 DEF ReplaceProtection, PageOK
    <3>2. \A leg \in replaced : body[leg] \in Typed /\ Row(leg, body[leg]) \in ExitRows
      BY <3>1 DEF PageDrafts, Row, ExitRows
    <3>3. price \in [Legs -> Typed]
      BY <3>2 DEF PageInv
    <3>4. /\ exits \in Seq(ExitRows) /\ Len(exits) = 2
          /\ exits[1].kind # exits[2].kind
          /\ exits[1].status = "OPEN" /\ exits[2].status = "OPEN"
          /\ exits[1].price = seedPrice[exits[1].kind] /\ exits[2].price = seedPrice[exits[2].kind]
      <4>1. positionState = "ACTIVE"
        BY <2>4
      <4> HIDE DEF body, replaced, cut, new, price
      <4> QED BY <4>1 DEF PageInv, ExitsOK, Pair
    <3>5. DOMAIN exits = {1, 2} /\ exits[1] \in ExitRows /\ exits[2] \in ExitRows
      BY <3>4, PairHasDomain
    <3>6. exits[1].kind \in Legs /\ exits[2].kind \in Legs
      BY <3>5 DEF ExitRows
    <3>7. /\ \A leg \in Legs : OpenLeg(leg) = {i \in {1, 2} : exits[i].kind = leg}
      BY <3>4, <3>5 DEF OpenLeg
    <3>8. cut = {i \in {1, 2} : exits[i].kind \in replaced}
      BY <3>7
    <3> HIDE DEF cut
    <3> DEFINE pair == ExitsWithout(cut) \o new("TAKE_PROFIT") \o new("STOP_LOSS")
    <3>9. /\ pair \in Seq(ExitRows) /\ Len(pair) = 2 /\ pair[1].kind # pair[2].kind
          /\ \A i \in 1 .. 2 : pair[i].status = "OPEN" /\ pair[i].price = price[pair[i].kind]
      <4> DEFINE tp == Row("TAKE_PROFIT", body["TAKE_PROFIT"])
                 sl == Row("STOP_LOSS", body["STOP_LOSS"])
      <4>1. CASE replaced = {}
        <5>1. pair = exits
          <6>1. cut = {}
            BY <4>1, <3>8
          <6>2. ExitsWithout(cut) = exits
            BY <6>1, <3>4, KeptOfPair
          <6>3. new("TAKE_PROFIT") = <<>> /\ new("STOP_LOSS") = <<>>
            BY <4>1
          <6>4. pair = exits \o <<>> \o <<>>
            BY <6>2, <6>3
          <6>5. exits \o <<>> = exits
            BY <3>4
          <6> QED BY <6>4, <6>5
        <5>2. \A leg \in Legs : price[leg] = seedPrice[leg]
          BY <4>1
        <5> HIDE DEF pair, price, tp, sl
        <5> QED BY <5>1, <5>2, <3>4, <3>6
      <4>2. CASE replaced = {"TAKE_PROFIT"}
        <5>1. tp \in ExitRows /\ tp.kind = "TAKE_PROFIT" /\ tp.status = "OPEN"
              /\ tp.price = price["TAKE_PROFIT"]
          BY <4>2, <3>2, LegsAre DEF Row
        <5>2. CASE exits[1].kind = "TAKE_PROFIT"
          <6>1. cut = {1} /\ exits[2].kind = "STOP_LOSS"
            BY <5>2, <4>2, <3>8, <3>4, <3>6, LegsAre
          <6>2. pair \in Seq(ExitRows) /\ Len(pair) = 2 /\ pair[1] = exits[2] /\ pair[2] = tp
            <7>1. ExitsWithout(cut) = <<exits[2]>>
              BY <6>1, <3>4, KeptOfPair
            <7>2. new("TAKE_PROFIT") = <<tp>> /\ new("STOP_LOSS") = <<>>
              BY <4>2
            <7>3. pair = <<exits[2]>> \o <<tp>> \o <<>>
              BY <7>1, <7>2
            <7> HIDE DEF pair, tp, sl
            <7> QED BY <7>3, <5>1, <3>5, TwoJoined
          <6>3. price["STOP_LOSS"] = seedPrice["STOP_LOSS"]
            BY <4>2, LegsAre
          <6> HIDE DEF pair, price, tp, sl
          <6> QED BY <6>1, <6>2, <6>3, <5>1, <3>4, <3>5, <3>6
        <5>3. CASE exits[2].kind = "TAKE_PROFIT"
          <6>1. cut = {2} /\ exits[1].kind = "STOP_LOSS"
            BY <5>3, <4>2, <3>8, <3>4, <3>6, LegsAre
          <6>2. pair \in Seq(ExitRows) /\ Len(pair) = 2 /\ pair[1] = exits[1] /\ pair[2] = tp
            <7>1. ExitsWithout(cut) = <<exits[1]>>
              BY <6>1, <3>4, KeptOfPair
            <7>2. new("TAKE_PROFIT") = <<tp>> /\ new("STOP_LOSS") = <<>>
              BY <4>2
            <7>3. pair = <<exits[1]>> \o <<tp>> \o <<>>
              BY <7>1, <7>2
            <7> HIDE DEF pair, tp, sl
            <7> QED BY <7>3, <5>1, <3>5, TwoJoined
          <6>3. price["STOP_LOSS"] = seedPrice["STOP_LOSS"]
            BY <4>2, LegsAre
          <6> HIDE DEF pair, price, tp, sl
          <6> QED BY <6>1, <6>2, <6>3, <5>1, <3>4, <3>5, <3>6
        <5> QED BY <5>2, <5>3, <3>4, <3>6, LegsAre
      <4>3. CASE replaced = {"STOP_LOSS"}
        <5>1. sl \in ExitRows /\ sl.kind = "STOP_LOSS" /\ sl.status = "OPEN"
              /\ sl.price = price["STOP_LOSS"]
          BY <4>3, <3>2, LegsAre DEF Row
        <5>2. CASE exits[1].kind = "STOP_LOSS"
          <6>1. cut = {1} /\ exits[2].kind = "TAKE_PROFIT"
            BY <5>2, <4>3, <3>8, <3>4, <3>6, LegsAre
          <6>2. pair \in Seq(ExitRows) /\ Len(pair) = 2 /\ pair[1] = exits[2] /\ pair[2] = sl
            <7>1. ExitsWithout(cut) = <<exits[2]>>
              BY <6>1, <3>4, KeptOfPair
            <7>2. new("TAKE_PROFIT") = <<>> /\ new("STOP_LOSS") = <<sl>>
              BY <4>3
            <7>3. pair = <<exits[2]>> \o <<>> \o <<sl>>
              BY <7>1, <7>2
            <7> HIDE DEF pair, tp, sl
            <7> QED BY <7>3, <5>1, <3>5, TwoJoined
          <6>3. price["TAKE_PROFIT"] = seedPrice["TAKE_PROFIT"]
            BY <4>3, LegsAre
          <6> HIDE DEF pair, price, tp, sl
          <6> QED BY <6>1, <6>2, <6>3, <5>1, <3>4, <3>5, <3>6
        <5>3. CASE exits[2].kind = "STOP_LOSS"
          <6>1. cut = {2} /\ exits[1].kind = "TAKE_PROFIT"
            BY <5>3, <4>3, <3>8, <3>4, <3>6, LegsAre
          <6>2. pair \in Seq(ExitRows) /\ Len(pair) = 2 /\ pair[1] = exits[1] /\ pair[2] = sl
            <7>1. ExitsWithout(cut) = <<exits[1]>>
              BY <6>1, <3>4, KeptOfPair
            <7>2. new("TAKE_PROFIT") = <<>> /\ new("STOP_LOSS") = <<sl>>
              BY <4>3
            <7>3. pair = <<exits[1]>> \o <<>> \o <<sl>>
              BY <7>1, <7>2
            <7> HIDE DEF pair, tp, sl
            <7> QED BY <7>3, <5>1, <3>5, TwoJoined
          <6>3. price["TAKE_PROFIT"] = seedPrice["TAKE_PROFIT"]
            BY <4>3, LegsAre
          <6> HIDE DEF pair, price, tp, sl
          <6> QED BY <6>1, <6>2, <6>3, <5>1, <3>4, <3>5, <3>6
        <5> QED BY <5>2, <5>3, <3>4, <3>6, LegsAre
      <4>4. CASE replaced = Legs
        <5>1. /\ tp \in ExitRows /\ tp.kind = "TAKE_PROFIT" /\ tp.status = "OPEN"
              /\ tp.price = price["TAKE_PROFIT"]
              /\ sl \in ExitRows /\ sl.kind = "STOP_LOSS" /\ sl.status = "OPEN"
              /\ sl.price = price["STOP_LOSS"]
          BY <4>4, <3>2, LegsAre DEF Row
        <5>2. cut = {1, 2}
          BY <4>4, <3>8, <3>6
        <5>3. pair \in Seq(ExitRows) /\ Len(pair) = 2 /\ pair[1] = tp /\ pair[2] = sl
          <6>1. ExitsWithout(cut) = <<>>
            BY <5>2, <3>4, KeptOfPair
          <6>2. new("TAKE_PROFIT") = <<tp>> /\ new("STOP_LOSS") = <<sl>>
            BY <4>4, LegsAre
          <6>3. pair = <<>> \o <<tp>> \o <<sl>>
            BY <6>1, <6>2
          <6> HIDE DEF pair, tp, sl
          <6> QED BY <6>3, <5>1, TwoJoined
        <5> HIDE DEF pair, price, tp, sl
        <5> QED BY <5>1, <5>3
      <4> QED BY <4>1, <4>2, <4>3, <4>4, LegsAre
    <3>10. exits' = pair /\ seedPrice' = price
      BY <2>4
    <3> HIDE DEF price, pair
    <3>11. Pair(exits)'
      BY <3>9, <3>10 DEF Pair
    <3>12. /\ exits' \in Seq(ExitRows) /\ Len(exits') = 2
           /\ \A i \in 1 .. 2 : exits'[i].status = "OPEN"
      BY <3>9, <3>10
    <3>13. positionState' = "ACTIVE"
      BY <2>2, <2>4
    <3>14. ExitsOK'
      BY <3>11, <3>12, <3>13 DEF ExitsOK, ExitRows
    <3> QED BY <2>1, <2>2, <2>4, <3>3, <3>10, <3>14 DEF PageInv
  <2> QED BY <2>3, <2>4, <1>6 DEF ReplaceProtection
<1> QED BY <1>4, <1>5, <1>6

\* What the agents do that execute the orders.
LEMMA OrderStepKeeps ==
  ASSUME PageInv, ExecuteOrders
  PROVE  PageInv'
<1>1. CASE ClaimBuy \/ ReleaseBuy
  <2>1. ExitsOK' /\ positionState' \in RowStates
    BY <1>1 DEF ClaimBuy, ReleaseBuy, PageInv, ExitsOK, Pair, ExitRows, RowStates
  <2> QED BY <1>1, <2>1 DEF ClaimBuy, ReleaseBuy, PageInv, PagesOK
<1>2. CASE FillBuy
  <2> DEFINE pair == <<Row("TAKE_PROFIT", seedPrice["TAKE_PROFIT"]),
                       Row("STOP_LOSS", seedPrice["STOP_LOSS"])>>
  <2>1. exits = <<>> /\ <<>> \o pair = pair
    BY <1>2 DEF FillBuy, PageInv, ExitsOK
  <2>2. Row("TAKE_PROFIT", seedPrice["TAKE_PROFIT"]) \in ExitRows
        /\ Row("STOP_LOSS", seedPrice["STOP_LOSS"]) \in ExitRows
    BY LegsAre DEF Row, ExitRows, PageInv
  <2>3. exits' = pair /\ positionState' = "ACTIVE" /\ tokenAmount' = 1 /\ UNCHANGED <<seedPrice, page>>
    BY <1>2, <2>1 DEF FillBuy
  <2>4. Pair(exits)' /\ exits' \in Seq(ExitRows) /\ Len(exits') = 2
        /\ \A i \in 1 .. 2 : exits'[i].status = "OPEN"
    BY <2>2, <2>3 DEF Pair, Row
  <2>5. ExitsOK'
    BY <2>3, <2>4 DEF ExitsOK, ExitRows
  <2> QED BY <2>3, <2>5 DEF PageInv, PagesOK, RowStates
<1>3. ASSUME NEW i \in DOMAIN exits, ClaimExit(i) \/ ReleaseExit(i) PROVE PageInv'
  <2>1. positionState \in {"ACTIVE", "CLOSING"} /\ Pair(exits) /\ exits \in Seq(ExitRows) /\ Len(exits) = 2
    BY <1>3 DEF ClaimExit, ReleaseExit, PageInv, ExitsOK, Pair
  <2>2. DOMAIN exits = {1, 2} /\ exits[1] \in ExitRows /\ exits[2] \in ExitRows
    BY <2>1, PairHasDomain
  <2>3. PICK status \in {"OPEN", "PENDING"} : exits' = [exits EXCEPT ![i].status = status]
    BY <1>3 DEF ClaimExit, ReleaseExit
  <2>4. \A j \in {1, 2} : /\ exits'[j] \in ExitRows
                          /\ exits'[j].kind = exits[j].kind /\ exits'[j].price = exits[j].price
                          /\ exits'[j].status = IF j = i THEN status ELSE exits[j].status
    BY <2>2, <2>3 DEF ExitRows
  <2>5. exits' \in Seq(ExitRows) /\ Len(exits') = 2
    <3>1. [exits[i] EXCEPT !.status = status] \in ExitRows
      BY <2>2 DEF ExitRows
    <3>2. exits' = [exits EXCEPT ![i] = [exits[i] EXCEPT !.status = status]]
      BY <2>3
    <3>3. i \in 1 .. Len(exits)
      BY <2>1
    <3>4. ASSUME NEW new \in ExitRows, exits' = [exits EXCEPT ![i] = new]
          PROVE  exits' \in Seq(ExitRows) /\ Len(exits') = 2
      BY <2>1, <3>3, <3>4, ExceptSeq
    <3> QED BY <3>1, <3>2, <3>4
  <2>6. UNCHANGED <<tokenAmount, seedPrice, page>>
    BY <1>3 DEF ClaimExit, ReleaseExit
  <2>7. Pair(exits)'
    BY <2>1, <2>4, <2>5, <2>6 DEF Pair
  <2>8. ExitsOK' /\ positionState' \in RowStates
    <3>1. CASE ClaimExit(i)
      BY <3>1, <2>2, <2>3, <2>4, <2>5, <2>7 DEF ClaimExit, ExitsOK, PageInv, ExitRows, RowStates
    <3>2. CASE ReleaseExit(i)
      BY <3>2, <2>2, <2>3, <2>4, <2>5, <2>7 DEF ReleaseExit, ExitsOK, PageInv, ExitRows, RowStates
    <3> QED BY <3>1, <3>2, <1>3
  <2> QED BY <2>6, <2>8 DEF PageInv, PagesOK
<1>4. ASSUME NEW i \in DOMAIN exits, FillExit(i) PROVE PageInv'
  <2>1. Pair(exits) /\ exits \in Seq(ExitRows) /\ Len(exits) = 2
    BY <1>4 DEF FillExit, PageInv, ExitsOK, Pair
  <2>2. DOMAIN exits = {1, 2} /\ exits[1] \in ExitRows /\ exits[2] \in ExitRows
    BY <2>1, PairHasDomain
  <2> DEFINE siblings == UNION {OpenLeg(leg) : leg \in Legs \ {exits[i].kind}}
             cut == {i} \cup (IF siblings = {} THEN {} ELSE {Min(siblings)})
  <2>3. cut \in {{1}, {2}, {1, 2}}
    <3>1. siblings \subseteq {1, 2}
      BY <2>2 DEF OpenLeg
    <3>2. siblings # {} => \E m \in siblings : \A j \in siblings : m <= j
      BY <3>1
    <3>3. siblings # {} => Min(siblings) \in {1, 2}
      BY <3>1, <3>2 DEF Min
    <3> QED BY <3>3, <2>2
  <2>4. exits' = ExitsWithout(cut) /\ positionState' = "CLOSED" /\ UNCHANGED <<tokenAmount, seedPrice, page>>
    BY <1>4 DEF FillExit
  <2>5. exits' \in {<<exits[1]>>, <<exits[2]>>, <<>>}
    BY <2>1, <2>3, <2>4, KeptOfPair
  <2>6. exits' \in Seq(ExitRows) /\ Len(exits') <= 2
    <3>1. ASSUME NEW row \in ExitRows PROVE <<row>> \in Seq(ExitRows) /\ Len(<<row>>) <= 2
      OBVIOUS
    <3>2. <<>> \in Seq(ExitRows) /\ Len(<<>>) <= 2
      OBVIOUS
    <3> QED BY <2>2, <2>5, <3>1, <3>2, Zenon
  <2>7. ExitsOK'
    BY <2>4, <2>6 DEF ExitsOK, ExitRows
  <2> QED BY <2>4, <2>7 DEF PageInv, PagesOK, RowStates
<1> QED BY <1>1, <1>2, <1>3, <1>4 DEF ExecuteOrders

\* The invariant is inductive.
LEMMA PageInvHolds == PageSpec => []PageInv
<1>1. PageInit => PageInv
  <2> SUFFICES ASSUME PageInit PROVE PageInv
    OBVIOUS
  <2>1. seedPrice \in [Legs -> Typed]
    BY DEF PageInit, Typed
  <2> QED BY <2>1 DEF PageInit, PageInv, ExitsOK, PagesOK, RowStates
<1>2. PageInv /\ [PageNext]_positionPageVars => PageInv'
  <2> SUFFICES ASSUME PageInv, [PageNext]_positionPageVars PROVE PageInv'
    OBVIOUS
  <2>1. CASE UNCHANGED positionPageVars
    BY <2>1 DEF positionPageVars, PageInv, ExitsOK, Pair, PagesOK, ExitRows
  <2>2. CASE PageNext
    BY <2>2, OrderStepKeeps, TabStepKeeps, CallKeeps DEF PageNext
  <2> QED BY <2>1, <2>2
<1> QED BY <1>1, <1>2, PTL DEF PageSpec

\* An ACTIVE position is guarded by exactly one OPEN take-profit and one OPEN
\* stop-loss, at the prices on its row, for any tabs and any typed prices.
THEOREM ExitsAlwaysArmed == PageSpec => []ExitsStayArmed
<1>1. PageInv => ExitsStayArmed
  BY PairIsArmed DEF ExitsStayArmed
<1> QED BY <1>1, PageInvHolds, PTL

--------------------------------------------------------------------------------
(* Teams, analyses and drafts of a Grill.                                  *)

\* A team as the pages keep it: of the catalogue, not too many, each once.
NormalTeams ==
  {team \in Seq(Analysts) : Len(team) \in 1 .. MaxTeam /\ IsInjective(team)}

\* The team a user has who stored none.
LEMMA DefaultTeamIsNormal == DefaultTeam \in NormalTeams
<1>1. PICK n \in 1 .. MaxTeam : DefaultTeam \in [1 .. n -> Analysts]
  BY GrillAssumption DEF Teams
<1> QED BY <1>1, GrillAssumption DEF NormalTeams

\* What is picked at every position is the list.
LEMMA PickedWhole ==
  ASSUME NEW R, NEW seq \in Seq(R)
  PROVE  /\ \A i \in DOMAIN seq : Place(i, DOMAIN seq) = i
         /\ Picked(seq, DOMAIN seq) = seq
<1>1. ASSUME NEW i \in DOMAIN seq PROVE Place(i, DOMAIN seq) = i
  <2>1. {j \in DOMAIN seq : j <= i} = 1 .. i
    OBVIOUS
  <2>2. i \in Nat /\ Cardinality(1 .. i) = i
    BY FS_Interval
  <2> QED BY <2>1, <2>2 DEF Place
<1>2. Len(seq) \in Nat /\ DOMAIN seq \in SUBSET (1 .. Len(seq)) /\ DOMAIN seq = 1 .. Len(seq)
  OBVIOUS
<1>3. Cardinality(DOMAIN seq) = Len(seq)
  BY <1>2, FS_Interval
<1>4. Picked(seq, DOMAIN seq) = [k \in 1 .. Len(seq) |-> seq[k]]
  BY <1>1, <1>2, <1>3, PickedAtPlaces
<1> QED BY <1>1, <1>4

\* A normal team is a fixed point of what the pages and the route make of one.
LEMMA NormalTeamIsKept ==
  ASSUME NEW team \in NormalTeams
  PROVE  selectAiAnalysts(team) = team
<1> DEFINE firsts == {i \in DOMAIN team : team[i] \in Analysts /\ \A j \in 1 .. i - 1 : team[j] # team[i]}
<1>1. team \in Seq(Analysts) /\ Len(team) \in 1 .. MaxTeam /\ DOMAIN team = 1 .. Len(team)
  BY DEF NormalTeams
<1>2. firsts = DOMAIN team
  <2> SUFFICES ASSUME NEW i \in DOMAIN team, NEW j \in 1 .. i - 1 PROVE team[j] # team[i]
    BY <1>1
  <2>1. j \in DOMAIN team /\ j # i
    BY <1>1
  <2> QED BY <2>1 DEF NormalTeams, IsInjective
<1>3. {i \in firsts : Place(i, firsts) <= MaxTeam} = DOMAIN team
  <2>1. \A i \in DOMAIN team : Place(i, DOMAIN team) = i
    BY <1>1, PickedWhole
  <2>2. \A i \in DOMAIN team : i <= MaxTeam
    BY <1>1, GrillAssumption
  <2> HIDE DEF firsts
  <2> QED BY <2>1, <2>2, <1>2
<1>4. collectAiAnalysts(team) = Picked(team, DOMAIN team)
  BY <1>3 DEF collectAiAnalysts
<1>5. collectAiAnalysts(team) = team /\ team # <<>>
  BY <1>1, <1>4, PickedWhole
<1> QED BY <1>5 DEF selectAiAnalysts

\* A page of the team leaves a normal team.
LEMMA EditedTeamIsNormal ==
  ASSUME storedTeam # NOTHING => storedTeam \in NormalTeams, EditTeam
  PROVE  storedTeam' \in NormalTeams
<1>1. storedTeam \in NormalTeams
  BY DEF EditTeam
<1>2. storedTeam \in Seq(Analysts) /\ Len(storedTeam) \in 1 .. MaxTeam /\ IsInjective(storedTeam)
  BY <1>1 DEF NormalTeams
<1>3. CASE storedTeam' = DefaultTeam
  BY <1>3, DefaultTeamIsNormal
<1>4. ASSUME NEW id \in Analysts
      PROVE  LET kept == Picked(storedTeam, {i \in DOMAIN storedTeam : storedTeam[i] # id})
             IN  IF Len(kept) < Len(storedTeam)
                 THEN kept # <<>> => kept \in NormalTeams
                 ELSE Len(kept) < MaxTeam => Append(kept, id) \in NormalTeams
  <2> DEFINE others == {i \in DOMAIN storedTeam : storedTeam[i] # id}
             kept == Picked(storedTeam, others)
  <2>1. others \in SUBSET DOMAIN storedTeam /\ others \in SUBSET (1 .. Len(storedTeam)) /\ Len(storedTeam) \in Nat
    BY <1>2
  <2>a. \A i \in others : storedTeam[i] # id
    OBVIOUS
  <2> HIDE DEF others
  <2>2. /\ kept \in Seq(Analysts) /\ Len(kept) = Cardinality(others)
        /\ Cardinality(others) \in 0 .. Len(storedTeam)
        /\ \A k \in 1 .. Cardinality(others) : \E i \in others : kept[k] = storedTeam[i]
    BY <2>1, <1>2, PickedIsSeq
  <2>3. IsInjective(kept)
    BY <2>1, <1>2, PickedIsInjective
  <2>4. \A k \in 1 .. Len(kept) : kept[k] # id
    BY <2>2, <2>a
  <2> HIDE DEF kept, others
  <2>5. ASSUME kept # <<>> PROVE kept \in NormalTeams
    <3>1. Len(kept) \in 1 .. MaxTeam
      BY <2>2, <2>5, <1>2, GrillAssumption
    <3> QED BY <3>1, <2>2, <2>3 DEF NormalTeams
  <2>6. ASSUME Len(kept) < MaxTeam PROVE Append(kept, id) \in NormalTeams
    <3>1. Append(kept, id) \in Seq(Analysts) /\ Len(Append(kept, id)) = Len(kept) + 1
      BY <2>2
    <3>2. Len(Append(kept, id)) \in 1 .. MaxTeam
      BY <3>1, <2>2, <2>6, GrillAssumption
    <3>3. IsInjective(Append(kept, id))
      BY <2>2, <2>3, <2>4 DEF IsInjective
    <3> QED BY <3>1, <3>2, <3>3 DEF NormalTeams
  <2> QED BY <2>5, <2>6 DEF kept, others
<1> QED BY <1>3, <1>4 DEF EditTeam

\* An analysis as the route answers it.
IsAnalysis(r, count) == r \in [idea : Ideas, opinions : NormalTeams, number : 1 .. count]

\* Its draft is there under the request a page makes of it, or is gone.
Buyable(r, kept, lost) ==
  \/ <<r.idea, r.opinions>> \in DOMAIN kept /\ kept[<<r.idea, r.opinions>>].analysis = r
  \/ r.number \in lost

\* What each page keeps, shows and waits for.
PagesTyped ==
  /\ storedTeam # NOTHING => storedTeam \in NormalTeams
  /\ selectedIds \in [Pages -> NormalTeams]
  /\ grillBusy \in [Pages -> {NOTHING, "analysis", "proposal"}]
  /\ DOMAIN grillAsked = Pages
  /\ \A p \in Pages : grillBusy[p] # NOTHING => grillAsked[p] \in Ideas \X NormalTeams

\* A draft is kept under the idea and the opinions of its analysis.
DraftsTyped ==
  /\ analyses \in Nat
  /\ \A k \in DOMAIN drafts :
       /\ IsAnalysis(drafts[k].analysis, analyses)
       /\ k = <<drafts[k].analysis.idea, drafts[k].analysis.opinions>>

\* What a page shows, and may buy, came from one of the analyses.
ShownBuyable ==
  /\ DOMAIN shown = Pages /\ DOMAIN answered = Pages
  /\ \A p \in Pages : shown[p] # NOTHING =>
       IsAnalysis(shown[p], analyses) /\ Buyable(shown[p], drafts, gone)
  /\ \A p \in Pages : answered[p] \notin {NOTHING, FAILED, CREATED} =>
       IsAnalysis(answered[p], analyses) /\ Buyable(answered[p], drafts, gone)

\* An analysis is of one draft, or is being bought by one page, or was bought, once.
BoughtApart ==
  /\ \A k, l \in DOMAIN drafts : drafts[k].analysis.number = drafts[l].analysis.number => k = l
  /\ DOMAIN buying = Pages
  /\ \A p \in Pages : buying[p] # NOTHING =>
       /\ buying[p].number \in 1 .. analyses
       /\ \A k \in DOMAIN drafts : buying[p].number # drafts[k].analysis.number
       /\ \A q \in Pages : buying[q] # NOTHING /\ buying[q].number = buying[p].number => q = p
       /\ \A i \in DOMAIN bought : bought[i] # buying[p].number
  /\ bought \in Seq(1 .. analyses)
  /\ \A i \in DOMAIN bought, k \in DOMAIN drafts : bought[i] # drafts[k].analysis.number
  /\ IsInjective(bought)

\* The inductive invariant of GrillSpec.
GrillInv == PagesTyped /\ DraftsTyped /\ ShownBuyable /\ BoughtApart

\* Every step of a page, of the route and of the store keeps the invariant.
LEMMA GrillStepKeeps ==
  ASSUME GrillInv, [GrillNext]_grillVars
  PROVE  GrillInv'
<1> USE DEF GrillInv
<1>1. CASE UNCHANGED grillVars
  BY <1>1 DEF grillVars, pageVars, PagesTyped, DraftsTyped, ShownBuyable, BoughtApart, IsAnalysis, Buyable
<1>2. ASSUME NEW p \in Pages, OpenGrill(p) PROVE GrillInv'
  <2>1. selectedIds'[p] \in NormalTeams /\ selectedIds' \in [Pages -> NormalTeams]
    BY <1>2, DefaultTeamIsNormal, NormalTeamIsKept DEF OpenGrill, PagesTyped
  <2>2. PagesTyped'
    BY <1>2, <2>1 DEF OpenGrill, PagesTyped
  <2>3. DraftsTyped' /\ ShownBuyable'
    BY <1>2 DEF OpenGrill, DraftsTyped, ShownBuyable, IsAnalysis, Buyable
  <2>4. BoughtApart'
    BY <1>2 DEF OpenGrill, BoughtApart
  <2> QED BY <2>2, <2>3, <2>4
<1>3. CASE EditTeam
  <2>1. PagesTyped'
    BY <1>3, EditedTeamIsNormal DEF EditTeam, pageVars, PagesTyped
  <2>2. DraftsTyped' /\ ShownBuyable'
    BY <1>3 DEF EditTeam, pageVars, DraftsTyped, ShownBuyable, IsAnalysis, Buyable
  <2>3. BoughtApart'
    BY <1>3 DEF EditTeam, BoughtApart
  <2> QED BY <2>1, <2>2, <2>3
<1>4. ASSUME NEW p \in Pages, NEW idea \in Ideas, RunAnalysis(p, idea) PROVE GrillInv'
  <2>1. PagesTyped'
    BY <1>4 DEF RunAnalysis, PagesTyped
  <2>2. DraftsTyped' /\ ShownBuyable'
    BY <1>4 DEF RunAnalysis, DraftsTyped, ShownBuyable, IsAnalysis, Buyable
  <2>3. BoughtApart'
    BY <1>4 DEF RunAnalysis, BoughtApart
  <2> QED BY <2>1, <2>2, <2>3
<1>5. ASSUME NEW p \in Pages, CreateProposal(p) PROVE GrillInv'
  <2>1. buildGrillProposalRequest(p) \in Ideas \X NormalTeams
    BY <1>5 DEF CreateProposal, buildGrillProposalRequest, ShownBuyable, IsAnalysis
  <2>2. PagesTyped'
    BY <1>5, <2>1 DEF CreateProposal, PagesTyped
  <2>3. DraftsTyped' /\ ShownBuyable'
    BY <1>5 DEF CreateProposal, DraftsTyped, ShownBuyable, IsAnalysis, Buyable
  <2>4. BoughtApart'
    BY <1>5 DEF CreateProposal, BoughtApart
  <2> QED BY <2>2, <2>3, <2>4
<1>6. ASSUME NEW p \in Pages, Answer(p) PROVE GrillInv'
  <2>1. PagesTyped'
    BY <1>6 DEF Answer, PagesTyped
  <2>2. DraftsTyped' /\ ShownBuyable'
    BY <1>6 DEF Answer, DraftsTyped, ShownBuyable, IsAnalysis, Buyable
  <2>3. BoughtApart'
    BY <1>6 DEF Answer, BoughtApart
  <2> QED BY <2>1, <2>2, <2>3
<1>7. CASE DraftTimePasses
  <2>1. PagesTyped' /\ DraftsTyped'
    BY <1>7 DEF DraftTimePasses, pageVars, PagesTyped, DraftsTyped, IsAnalysis
  <2>2. ShownBuyable'
    BY <1>7 DEF DraftTimePasses, pageVars, ShownBuyable, IsAnalysis, Buyable
  <2>3. BoughtApart'
    BY <1>7 DEF DraftTimePasses, BoughtApart
  <2> QED BY <2>1, <2>2, <2>3
<1>8. CASE ReplaceWeb
  <2>1. PagesTyped'
    BY <1>8 DEF ReplaceWeb, PagesTyped
  <2>2. DraftsTyped' /\ DOMAIN drafts' = {}
    BY <1>8 DEF ReplaceWeb, DraftsTyped
  <2>3. ShownBuyable'
    BY <1>8 DEF ReplaceWeb, ShownBuyable, IsAnalysis, Buyable
  <2>4. BoughtApart'
    BY <1>8, <2>2 DEF ReplaceWeb, BoughtApart
  <2> QED BY <2>1, <2>2, <2>3, <2>4
<1>9. ASSUME NEW p \in Pages, AnalyzeRoute(p) PROVE GrillInv'
  <2> DEFINE key == grillAsked[p]
             made == [idea |-> key[1], opinions |-> selectAiAnalysts(key[2]), number |-> analyses + 1]
  <2>1. PagesTyped'
    BY <1>9 DEF AnalyzeRoute, PagesTyped
  <2>2. CASE UNCHANGED <<analyses, drafts, gone>> /\ answered' = [answered EXCEPT ![p] = FAILED]
    <3>1. DraftsTyped' /\ ShownBuyable'
      BY <1>9, <2>2 DEF AnalyzeRoute, DraftsTyped, ShownBuyable, IsAnalysis, Buyable
    <3>2. BoughtApart'
      BY <1>9, <2>2 DEF AnalyzeRoute, BoughtApart
    <3> QED BY <2>1, <3>1, <3>2
  <2>3. CASE /\ analyses' = analyses + 1
             /\ drafts' = [k \in DOMAIN drafts \cup {key} |->
                   IF k = key THEN [analysis |-> made, expires |-> draftTime + DraftLife]
                   ELSE drafts[k]]
             /\ gone' = gone \cup At(key)
             /\ answered' = [answered EXCEPT ![p] = made]
    <3>1. key \in Ideas \X NormalTeams
      BY <1>9, GrillAssumption DEF AnalyzeRoute, PagesTyped
    <3>2. made.opinions = key[2] /\ key = <<made.idea, made.opinions>>
      BY <3>1, NormalTeamIsKept
    <3>3. made.number = analyses' /\ analyses' \in Nat /\ IsAnalysis(made, analyses')
      BY <2>3, <3>1, <3>2 DEF DraftsTyped, IsAnalysis
    <3>4. \A r : IsAnalysis(r, analyses) => IsAnalysis(r, analyses') /\ r.number # analyses'
      BY <2>3 DEF DraftsTyped, IsAnalysis
    <3> HIDE DEF key, made
    <3>5. /\ DOMAIN drafts' = DOMAIN drafts \cup {key}
          /\ drafts'[key].analysis = made
          /\ \A k \in DOMAIN drafts \ {key} : drafts'[k] = drafts[k]
      BY <2>3
    <3>6. DraftsTyped'
      BY <3>2, <3>3, <3>4, <3>5 DEF DraftsTyped
    <3>7. Buyable(made, drafts', gone')
      BY <3>2, <3>5 DEF Buyable
    <3>8. ASSUME NEW r, Buyable(r, drafts, gone) PROVE Buyable(r, drafts', gone')
      BY <2>3, <3>5, <3>8 DEF Buyable, At
    <3>9. ShownBuyable'
      <4>1. shown' = shown /\ answered' = [answered EXCEPT ![p] = made]
        BY <1>9, <2>3 DEF AnalyzeRoute
      <4>2. DOMAIN shown' = Pages /\ DOMAIN answered' = Pages
        BY <4>1 DEF ShownBuyable
      <4>3. ASSUME NEW r, IsAnalysis(r, analyses), Buyable(r, drafts, gone)
            PROVE  IsAnalysis(r, analyses') /\ Buyable(r, drafts', gone')
        BY <3>4, <3>8, <4>3
      <4>4. ASSUME NEW q \in Pages, shown'[q] # NOTHING
            PROVE  IsAnalysis(shown'[q], analyses') /\ Buyable(shown'[q], drafts', gone')
        BY <4>1, <4>3, <4>4 DEF ShownBuyable
      <4>5. ASSUME NEW q \in Pages, answered'[q] \notin {NOTHING, FAILED, CREATED}
            PROVE  IsAnalysis(answered'[q], analyses') /\ Buyable(answered'[q], drafts', gone')
        BY <3>3, <3>7, <4>1, <4>3, <4>5 DEF ShownBuyable
      <4> QED BY <4>2, <4>4, <4>5 DEF ShownBuyable
    <3>10. BoughtApart'
      <4>1. UNCHANGED <<buying, bought>>
        BY <1>9 DEF AnalyzeRoute
      <4>2. \A k \in DOMAIN drafts \ {key} : drafts'[k].analysis.number # made.number
        BY <3>3, <3>4, <3>5 DEF DraftsTyped
      <4>3. \A q \in Pages : buying[q] # NOTHING => buying[q].number # made.number
        BY <2>3, <3>3 DEF BoughtApart, DraftsTyped
      <4>4. bought \in Seq(1 .. analyses) /\ \A i \in DOMAIN bought : bought[i] # made.number
        BY <2>3, <3>3 DEF BoughtApart, DraftsTyped
      <4>5. 1 .. analyses \subseteq 1 .. analyses' /\ bought \in Seq(1 .. analyses')
        BY <2>3, <4>4 DEF DraftsTyped
      <4> QED BY <3>5, <4>1, <4>2, <4>3, <4>4, <4>5 DEF BoughtApart
    <3> QED BY <2>1, <3>6, <3>9, <3>10
  <2> QED BY <2>2, <2>3, <1>9 DEF AnalyzeRoute
<1>10. ASSUME NEW p \in Pages, ConsumeRoute(p) PROVE GrillInv'
  <2> DEFINE key == grillAsked[p]
  <2>1. /\ DOMAIN drafts' = DOMAIN drafts \ {key}
        /\ \A k \in DOMAIN drafts \ {key} : drafts'[k] = drafts[k]
        /\ gone' = gone \cup At(key)
        /\ UNCHANGED <<storedTeam, selectedIds, grillBusy, grillAsked, shown, analyses, bought>>
    BY <1>10 DEF ConsumeRoute, ConsumeDraft, Without
  <2>2. PagesTyped'
    BY <2>1 DEF PagesTyped
  <2>3. DraftsTyped'
    BY <2>1 DEF DraftsTyped
  <2>4. ASSUME NEW r, Buyable(r, drafts, gone) PROVE Buyable(r, drafts', gone')
    BY <2>1, <2>4 DEF Buyable, At
  <2>5. answered' = answered \/ answered' = [answered EXCEPT ![p] = FAILED]
    BY <1>10 DEF ConsumeRoute
  <2>6. ShownBuyable'
    BY <2>1, <2>4, <2>5 DEF ShownBuyable
  <2>7. CASE UNCHANGED buying
    BY <2>1, <2>2, <2>3, <2>6, <2>7 DEF BoughtApart
  <2>8. CASE key \in DOMAIN drafts /\ buying' = [buying EXCEPT ![p] = drafts[key].analysis]
    <3>1. /\ drafts[key].analysis.number \in 1 .. analyses
          /\ \A k \in DOMAIN drafts' : drafts'[k].analysis.number # drafts[key].analysis.number
      BY <2>1, <2>8 DEF DraftsTyped, IsAnalysis, BoughtApart
    <3>2. BoughtApart'
      BY <2>1, <2>8, <3>1 DEF BoughtApart
    <3> QED BY <2>2, <2>3, <2>6, <3>2
  <2> QED BY <2>7, <2>8, <1>10 DEF ConsumeRoute
<1>11. ASSUME NEW p \in Pages, BuyRoute(p) PROVE GrillInv'
  <2>1. /\ UNCHANGED <<storedTeam, selectedIds, grillBusy, grillAsked, shown, drafts, analyses, gone>>
        /\ buying[p] # NOTHING /\ buying' = [buying EXCEPT ![p] = NOTHING]
        /\ bought' = bought \/ bought' = Append(bought, buying[p].number)
        /\ \E next \in {answered[p], CREATED, FAILED} : answered' = [answered EXCEPT ![p] = next]
    BY <1>11 DEF BuyRoute
  <2>2. PagesTyped' /\ DraftsTyped'
    BY <2>1 DEF PagesTyped, DraftsTyped
  <2>3. ShownBuyable'
    BY <2>1 DEF ShownBuyable
  <2>4. CASE bought' = bought
    <3>1. BoughtApart'
      BY <2>1, <2>4 DEF BoughtApart
    <3> QED BY <2>2, <2>3, <3>1
  <2>5. CASE bought' = Append(bought, buying[p].number)
    <3>1. /\ bought \in Seq(1 .. analyses) /\ buying[p].number \in 1 .. analyses
          /\ \A i \in DOMAIN bought : bought[i] # buying[p].number
      BY <2>1 DEF BoughtApart
    <3>2. /\ bought' \in Seq(1 .. analyses) /\ Len(bought') = Len(bought) + 1
          /\ \A i \in DOMAIN bought' : \/ i \in DOMAIN bought /\ bought'[i] = bought[i]
                                       \/ i = Len(bought) + 1 /\ bought'[i] = buying[p].number
      BY <2>5, <3>1
    <3>3. IsInjective(bought')
      BY <3>1, <3>2 DEF BoughtApart, IsInjective
    <3>4. BoughtApart'
      BY <2>1, <3>2, <3>3 DEF BoughtApart
    <3> QED BY <2>2, <2>3, <3>4
  <2> QED BY <2>1, <2>4, <2>5
<1> QED BY <1>1, <1>2, <1>3, <1>4, <1>5, <1>6, <1>7, <1>8, <1>9, <1>10, <1>11 DEF GrillNext

\* It holds at first, when every page has the default team.
LEMMA GrillStartsRight == GrillInit => GrillInv
  BY DefaultTeamIsNormal DEF GrillInit, GrillInv, PagesTyped, DraftsTyped, ShownBuyable, BoughtApart, IsInjective

\* The invariant is inductive.
LEMMA GrillInvHolds == GrillSpec => []GrillInv
  BY GrillStartsRight, GrillStepKeeps, PTL DEF GrillSpec

\* What a page shows can be proposed, unless its draft is gone, and no analysis is proposed
\* twice: for any pages, ideas and catalogue, and teams of any size.
THEOREM AnalysesBuyOnce == GrillSpec => []AnalysisBuysOnce
<1>1. GrillInv => AnalysisBuysOnce
  BY DEF GrillInv, ShownBuyable, BoughtApart, AnalysisBuysOnce, buildGrillProposalRequest, Buyable
<1> QED BY <1>1, GrillInvHolds, PTL

--------------------------------------------------------------------------------
(* Transfers out of the wallet.                                            *)

\* Some numbers have a least one: of the intervals below them one is inside no other.
LEMMA LeastOf ==
  ASSUME NEW S \in SUBSET Nat, S # {}
  PROVE  \E m \in S : \A n \in S : m <= n
<1> DEFINE R == StrictSubsetOrdering(Nat)
           T == {0 .. (n - 1) : n \in S}
<1>1. IsWellFoundedOn(R, FiniteSubsetsOf(Nat))
  BY FS_StrictSubsetOrderingWellFounded
<1>2. T # {} /\ T \subseteq FiniteSubsetsOf(Nat)
  <2>1. ASSUME NEW n \in S PROVE 0 .. (n - 1) \in SUBSET Nat /\ IsFiniteSet(0 .. (n - 1))
    BY FS_Interval
  <2>2. T = {0 .. (n - 1) : n \in S}
    OBVIOUS
  <2> HIDE DEF T
  <2> QED BY <2>1, <2>2 DEF FiniteSubsetsOf
<1> HIDE DEF R, T
<1>3. PICK x \in T : \A y \in T : ~ (<<y, x>> \in R)
  BY <1>1, <1>2, WFMin
<1>4. PICK m \in S : x = 0 .. (m - 1)
  BY DEF T
<1>5. ASSUME NEW n \in S, n < m PROVE FALSE
  <2>1. 0 .. (n - 1) \in T
    BY DEF T
  <2>2. /\ 0 .. (n - 1) \subseteq 0 .. (m - 1) /\ n \in 0 .. (m - 1) /\ n \notin 0 .. (n - 1)
        /\ 0 .. (n - 1) \in SUBSET Nat /\ 0 .. (m - 1) \in SUBSET Nat
    BY <1>5
  <2>3. <<0 .. (n - 1), 0 .. (m - 1)>> \in R
    BY <2>2 DEF R, StrictSubsetOrdering
  <2> QED BY <1>3, <1>4, <2>1, <2>3
<1> QED BY <1>5

\* Induction, for a set of numbers.
LEMMA InductiveSet ==
  ASSUME NEW S \in SUBSET Nat, 0 \in S, \A n \in S : n + 1 \in S
  PROVE  S = Nat
<1> SUFFICES ASSUME Nat \ S # {} PROVE FALSE
  OBVIOUS
<1>1. PICK m \in Nat \ S : \A n \in Nat \ S : m <= n
  <2>1. Nat \ S \in SUBSET Nat
    OBVIOUS
  <2> QED BY <2>1, LeastOf
<1>2. m - 1 \in Nat /\ ~ (m <= m - 1) /\ m = (m - 1) + 1
  BY <1>1
<1>3. m - 1 \in S
  BY <1>1, <1>2
<1> QED BY <1>1, <1>2, <1>3

\* Accounts hold finitely many units.
LEMMA TotalIsNat ==
  ASSUME NEW accounts, IsFiniteSet(accounts), NEW amounts, \A a \in accounts : amounts[a] \in Nat
  PROVE  /\ IsFiniteSet(UNION {{a} \X (1 .. amounts[a]) : a \in accounts})
         /\ Total(amounts, accounts) \in Nat
<1> DEFINE units == [a \in accounts |-> {a} \X (1 .. amounts[a])]
           U == {{a} \X (1 .. amounts[a]) : a \in accounts}
<1>1. units \in Surjection(accounts, U)
  BY DEF Surjection
<1>2. IsFiniteSet(U)
  BY <1>1, FS_Surjection
<1>3. \A T \in U : IsFiniteSet(T)
  <2> SUFFICES ASSUME NEW a \in accounts PROVE IsFiniteSet({a} \X (1 .. amounts[a]))
    OBVIOUS
  <2>1. IsFiniteSet({a}) /\ IsFiniteSet(1 .. amounts[a])
    BY FS_Singleton, FS_Interval, 1 \in Int, amounts[a] \in Int
  <2> QED BY <2>1, FS_Product
<1>4. IsFiniteSet(UNION U)
  <2> HIDE DEF U
  <2> QED BY <1>2, <1>3, FS_UNION
<1> QED BY <1>4, FS_CardinalityType DEF Total

\* One more account adds what it holds.
LEMMA TotalOfOneMore ==
  ASSUME NEW accounts, IsFiniteSet(accounts), NEW amounts, \A a \in accounts : amounts[a] \in Nat,
         NEW a \in accounts, NEW others, others = accounts \ {a}
  PROVE  Total(amounts, accounts) = Total(amounts, others) + amounts[a]
<1> DEFINE A == UNION {{b} \X (1 .. amounts[b]) : b \in others}
           B == {a} \X (1 .. amounts[a])
<1>0. amounts[a] \in Nat /\ \A b \in others : amounts[b] \in Nat
  OBVIOUS
<1>1. IsFiniteSet(others)
  BY FS_Subset
<1>2. IsFiniteSet(A) /\ Cardinality(A) \in Nat
  BY <1>0, <1>1, TotalIsNat DEF Total
<1>3. /\ IsFiniteSet({a}) /\ Cardinality({a}) = 1
      /\ IsFiniteSet(1 .. amounts[a]) /\ Cardinality(1 .. amounts[a]) = amounts[a]
  <2>1. IsFiniteSet({a}) /\ Cardinality({a}) = 1
    BY FS_Singleton
  <2>2. ASSUME NEW n \in Nat PROVE IsFiniteSet(1 .. n) /\ Cardinality(1 .. n) = n
    BY FS_Interval
  <2> QED BY <1>0, <2>1, <2>2
<1>4. IsFiniteSet(B) /\ Cardinality(B) = amounts[a]
  <2>1. IsFiniteSet(B) /\ Cardinality(B) = 1 * amounts[a]
    BY <1>3, FS_Product
  <2> QED BY <1>0, <2>1
<1>5. A \cap B = {}
  OBVIOUS
<1>6. UNION {{b} \X (1 .. amounts[b]) : b \in accounts} = A \cup B
  OBVIOUS
<1>7. Total(amounts, others) = Cardinality(A) /\ Total(amounts, accounts) = Cardinality(A \cup B)
  BY <1>6 DEF Total
<1> HIDE DEF A, B
<1>8. Cardinality(A \cup B) = Cardinality(A) + Cardinality(B) - 0
  BY <1>2, <1>4, <1>5, FS_Union, FS_EmptySet
<1> QED BY <1>0, <1>2, <1>4, <1>7, <1>8

\* The loop over the accounts takes the amount, no less and no more.
LEMMA ChunksAddUp ==
  ASSUME usdc \in [Accounts -> Nat], NEW amount \in Nat, Total(usdc, Accounts) >= amount,
         NEW place \in Listings
  PROVE  /\ ChunksOf(amount, place) \in [Accounts -> Nat]
         /\ \A a \in Accounts : ChunksOf(amount, place)[a] <= usdc[a]
         /\ Total(ChunksOf(amount, place), Accounts) = amount
<1> DEFINE upTo(k) == {a \in Accounts : place[a] <= k}
           given   == ChunksOf(amount, place)
           Claim(k) == Total(given, upTo(k)) =
                         IF Total(usdc, upTo(k)) < amount THEN Total(usdc, upTo(k)) ELSE amount
           Proved  == {k \in Nat : Claim(k)}
<1>1. /\ place \in [Accounts -> 1 .. Cardinality(Accounts)] /\ Cardinality(Accounts) \in Nat
      /\ \A a, b \in Accounts : place[a] = place[b] => a = b
  BY WithdrawAssumption, FS_CardinalityType DEF Listings, IsInjective
<1>2. ASSUME NEW accounts \in SUBSET Accounts
      PROVE  IsFiniteSet(accounts) /\ Total(usdc, accounts) \in Nat
  <2>1. IsFiniteSet(accounts) /\ \A a \in accounts : usdc[a] \in Nat
    BY WithdrawAssumption, FS_Subset
  <2> QED BY <2>1, TotalIsNat
<1>3. ASSUME NEW a \in Accounts
      PROVE  LET before == Total(usdc, {b \in Accounts : place[b] < place[a]})
                 left   == IF before < amount THEN amount - before ELSE 0
             IN  given[a] = IF usdc[a] < left THEN usdc[a] ELSE left
  BY DEF ChunksOf
<1>4. ASSUME NEW a \in Accounts PROVE given[a] \in Nat /\ given[a] <= usdc[a]
  <2>1. PICK before \in Nat : before = Total(usdc, {b \in Accounts : place[b] < place[a]})
    BY <1>2
  <2> DEFINE left == IF before < amount THEN amount - before ELSE 0
  <2>2. left \in Nat
    OBVIOUS
  <2>3. given[a] = IF usdc[a] < left THEN usdc[a] ELSE left
    BY <1>3, <2>1
  <2>4. usdc[a] \in Nat
    OBVIOUS
  <2> HIDE DEF given, left
  <2> QED BY <2>2, <2>3, <2>4
<1>5. given \in [Accounts -> Nat]
  <2>1. given = [a \in Accounts |-> given[a]]
    BY DEF ChunksOf
  <2> HIDE DEF given
  <2> QED BY <1>4, <2>1
<1> HIDE DEF given
<1>6. Claim(0)
  <2>1. upTo(0) = {}
    BY <1>1
  <2>2. Total(usdc, {}) = 0 /\ Total(given, {}) = 0
    BY FS_EmptySet DEF Total
  <2> QED BY <2>1, <2>2
<1>7. ASSUME NEW k \in Nat, Claim(k) PROVE Claim(k + 1)
  <2>1. CASE \A a \in Accounts : place[a] # k + 1
    <3>1. upTo(k + 1) = upTo(k)
      BY <1>1, <2>1
    <3> HIDE DEF upTo
    <3> QED BY <1>7, <3>1
  <2>2. ASSUME NEW a \in Accounts, place[a] = k + 1 PROVE Claim(k + 1)
    <3>1. /\ upTo(k) = upTo(k + 1) \ {a} /\ a \in upTo(k + 1)
          /\ upTo(k) = {b \in Accounts : place[b] < place[a]}
          /\ upTo(k) \in SUBSET Accounts /\ upTo(k + 1) \in SUBSET Accounts
      BY <1>1, <2>2
    <3> HIDE DEF upTo
    <3>2. /\ Total(usdc, upTo(k + 1)) = Total(usdc, upTo(k)) + usdc[a]
          /\ Total(given, upTo(k + 1)) = Total(given, upTo(k)) + given[a]
      <4>1. IsFiniteSet(upTo(k + 1)) /\ \A b \in upTo(k + 1) : usdc[b] \in Nat /\ given[b] \in Nat
        BY <1>2, <1>5, <3>1
      <4> QED BY <3>1, <4>1, TotalOfOneMore
    <3>3. PICK before \in Nat : before = Total(usdc, upTo(k))
      BY <1>2, <3>1
    <3>4. given[a] = LET left == IF before < amount THEN amount - before ELSE 0
                     IN  IF usdc[a] < left THEN usdc[a] ELSE left
      BY <1>3, <3>1, <3>3
    <3>5. Total(given, upTo(k)) = IF before < amount THEN before ELSE amount
      BY <1>7, <3>3
    <3>6. usdc[a] \in Nat
      OBVIOUS
    <3> QED BY <3>2, <3>3, <3>4, <3>5, <3>6
  <2> QED BY <2>1, <2>2
<1>8. Proved = Nat
  <2>1. 0 \in Proved /\ \A k \in Proved : k + 1 \in Proved
    BY <1>6, <1>7
  <2>2. Proved \in SUBSET Nat
    OBVIOUS
  <2> HIDE DEF Proved
  <2> QED BY <2>1, <2>2, InductiveSet
<1>9. Claim(Cardinality(Accounts))
  BY <1>1, <1>8
<1>10. upTo(Cardinality(Accounts)) = Accounts
  BY <1>1
<1>11. Total(usdc, Accounts) \in Nat
  BY <1>2
<1> HIDE DEF upTo
<1>12. Total(given, Accounts) = amount
  BY <1>9, <1>10, <1>11
<1> QED BY <1>4, <1>5, <1>12 DEF given

\* A transfer of USDC takes its amount from the accounts.
TakesItsAmount(t) == t.asset = "USDC" => Total(t.chunks, Accounts) = t.amount

\* What is asked of prepare is a whole form, and what it gives takes its amount.
PreparesTransfers ==
  /\ preparing # NOTHING => preparing.amount > 0 /\ preparing.destination # NOTHING
  /\ prepared # NOTHING => TakesItsAmount(prepared)

\* The clicks whose transfer the wallet has been asked to sign, and has answered.
AnsweredClicks == {i \in DOMAIN reviewed : sendStep = "sign" => i # Len(reviewed)}

\* While a transfer is signed, it is the one reviewed last; what has landed is
\* some of the others.
ClicksAreAnswered ==
  /\ \A i \in DOMAIN reviewed : TakesItsAmount(reviewed[i])
  /\ sendStep = "sign" => reviewed # <<>> /\ sending = reviewed[Len(reviewed)]
  /\ \E clicks \in SUBSET AnsweredClicks : landed = Picked(reviewed, clicks)

WithdrawInv == WithdrawTypeOK /\ PreparesTransfers /\ ClicksAreAnswered

\* Whatever a whole form asks for, in whatever order the accounts come.
LEMMA PreparedTakesItsAmount ==
  ASSUME WithdrawTypeOK, NEW args \in Forms, args.amount > 0, args.destination # NOTHING,
         NEW place \in Listings, NEW cost \in {Fee, Fee + Rent}, NEW t \in prepare(args, place, cost)
  PROVE  t \in Transfers /\ TakesItsAmount(t)
<1>1. /\ args.asset \in Assets2 /\ args.amount \in 1 .. MaxAmount /\ args.destination \in Destinations
      /\ MaxAmount \in Nat
  BY WithdrawAssumption DEF Forms
<1>2. usdc \in [Accounts -> 0 .. MaxAmount] /\ usdc \in [Accounts -> Nat]
  BY <1>1 DEF WithdrawTypeOK
<1>3. CASE args.asset = "SOL"
  <2>1. t = [asset |-> "SOL", amount |-> args.amount, destination |-> args.destination,
             chunks |-> [a \in Accounts |-> 0], cost |-> Fee]
    BY <1>3 DEF prepare
  <2>2. [a \in Accounts |-> 0] \in [Accounts -> 0 .. MaxAmount]
    BY <1>1
  <2> QED BY <1>1, <2>1, <2>2 DEF Transfers, TakesItsAmount, Assets2
<1>4. CASE args.asset # "SOL"
  <2>1. /\ t = [asset |-> "USDC", amount |-> args.amount, destination |-> args.destination,
                chunks |-> ChunksOf(args.amount, place), cost |-> cost]
        /\ Total(usdc, Accounts) >= args.amount
    BY <1>4 DEF prepare
  <2>2. /\ ChunksOf(args.amount, place) \in [Accounts -> Nat]
        /\ \A a \in Accounts : ChunksOf(args.amount, place)[a] <= usdc[a]
        /\ Total(ChunksOf(args.amount, place), Accounts) = args.amount
    BY <1>1, <1>2, <2>1, ChunksAddUp
  <2>3. ChunksOf(args.amount, place) \in [Accounts -> 0 .. MaxAmount]
    BY <1>1, <1>2, <2>2
  <2> QED BY <1>1, <2>1, <2>2, <2>3 DEF Transfers, TakesItsAmount, Assets2
<1> QED BY <1>3, <1>4

\* The invariant holds at first ...
LEMMA WithdrawStartsRight == WithdrawInit => WithdrawInv
<1> SUFFICES ASSUME WithdrawInit PROVE WithdrawInv
  OBVIOUS
<1>1. WithdrawTypeOK
  <2>1. <<>> \in Seq(Transfers)
    OBVIOUS
  <2> QED BY <2>1, WithdrawAssumption DEF WithdrawInit, WithdrawTypeOK, Forms, Assets2
<1>2. landed = Picked(reviewed, {})
  <2>1. Cardinality({}) = 0 /\ reviewed = <<>> /\ landed = <<>>
    BY FS_EmptySet DEF WithdrawInit
  <2>2. Picked(<<>>, {}) = <<>>
    BY <2>1 DEF Picked
  <2> QED BY <2>1, <2>2
<1>3. \E clicks \in SUBSET AnsweredClicks : landed = Picked(reviewed, clicks)
  BY <1>2
<1> QED BY <1>1, <1>3 DEF WithdrawInv, WithdrawInit, PreparesTransfers, ClicksAreAnswered

LEMMA WithdrawStepKeeps ==
  ASSUME WithdrawInv, [WithdrawNext]_withdrawVars
  PROVE  WithdrawInv'
<1> DEFINE Quiet == UNCHANGED <<reviewed, landed>> /\ (sendStep' = "sign" => UNCHANGED <<sendStep, sending>>)
<1>1. ASSUME Quiet PROVE ClicksAreAnswered'
  <2>1. AnsweredClicks \subseteq AnsweredClicks'
    BY <1>1 DEF AnsweredClicks
  <2> QED BY <1>1, <2>1 DEF WithdrawInv, ClicksAreAnswered, TakesItsAmount
<1>2. \A a \in Accounts : usdc[a] \in 0 .. MaxAmount
  BY DEF WithdrawInv, WithdrawTypeOK
<1>3. CASE ChangeForm
  <2>1. WithdrawTypeOK' /\ PreparesTransfers'
    BY <1>3 DEF ChangeForm, WithdrawInv, WithdrawTypeOK, PreparesTransfers, chainVars
  <2>2. ClicksAreAnswered'
    BY <1>1, <1>3 DEF ChangeForm
  <2> QED BY <2>1, <2>2 DEF WithdrawInv
<1>4. CASE FillMax
  <2>1. WithdrawTypeOK' /\ PreparesTransfers'
    BY <1>4 DEF FillMax, WithdrawInv, WithdrawTypeOK, PreparesTransfers, chainVars, sendVars, Forms, TakesItsAmount
  <2>2. ClicksAreAnswered'
    BY <1>1, <1>4 DEF FillMax, sendVars
  <2> QED BY <2>1, <2>2 DEF WithdrawInv
<1>5. CASE MaxArrives
  <2>1. Total(usdc, Accounts) \in Nat
    <3>1. \A a \in Accounts : usdc[a] \in Nat
      BY <1>2
    <3> QED BY <3>1, TotalIsNat, WithdrawAssumption
  <2>2. form' \in Forms
    <3>1. CASE UNCHANGED form
      BY <3>1 DEF WithdrawInv, WithdrawTypeOK
    <3>2. ASSUME NEW max \in Nat, form' = [form EXCEPT !.amount = IF max < MaxAmount THEN max ELSE MaxAmount]
          PROVE  form' \in Forms
      <4>1. (IF max < MaxAmount THEN max ELSE MaxAmount) \in 0 .. MaxAmount
        BY WithdrawAssumption
      <4> QED BY <3>2, <4>1 DEF WithdrawInv, WithdrawTypeOK, Forms
    <3>3. (IF loadingMax = "USDC" THEN Total(usdc, Accounts) ELSE IF sol > Fee THEN sol - Fee ELSE 0) \in Nat
      BY <2>1, WithdrawAssumption DEF WithdrawInv, WithdrawTypeOK
    <3> QED BY <1>5, <3>1, <3>2, <3>3 DEF MaxArrives
  <2>3. WithdrawTypeOK' /\ PreparesTransfers'
    BY <1>5, <2>2 DEF MaxArrives, WithdrawInv, WithdrawTypeOK, PreparesTransfers, chainVars, TakesItsAmount
  <2>4. ClicksAreAnswered'
    BY <1>1, <1>5 DEF MaxArrives
  <2> QED BY <2>3, <2>4 DEF WithdrawInv
<1>6. CASE PrepareTransfer
  <2>1. WithdrawTypeOK' /\ PreparesTransfers'
    BY <1>6 DEF PrepareTransfer, canContinue, WithdrawInv, WithdrawTypeOK, PreparesTransfers, chainVars, TakesItsAmount
  <2>2. ClicksAreAnswered'
    BY <1>1, <1>6 DEF PrepareTransfer
  <2> QED BY <2>1, <2>2 DEF WithdrawInv
<1>7. CASE Prepared
  <2>1. preparing \in Forms /\ preparing.amount > 0 /\ preparing.destination # NOTHING
    BY <1>7 DEF Prepared, WithdrawInv, WithdrawTypeOK, PreparesTransfers
  <2>2. prepared' = NOTHING \/ (prepared' \in Transfers /\ TakesItsAmount(prepared'))
    BY <1>7, <2>1, PreparedTakesItsAmount DEF Prepared, WithdrawInv
  <2>3. WithdrawTypeOK' /\ PreparesTransfers'
    BY <1>7, <2>2 DEF Prepared, WithdrawInv, WithdrawTypeOK, PreparesTransfers, chainVars, sendVars, TakesItsAmount
  <2>4. ClicksAreAnswered'
    BY <1>1, <1>7 DEF Prepared, sendVars
  <2> QED BY <2>3, <2>4 DEF WithdrawInv
<1>8. CASE EditTransfer
  <2>1. WithdrawTypeOK' /\ PreparesTransfers'
    BY <1>8 DEF EditTransfer, WithdrawInv, WithdrawTypeOK, PreparesTransfers, chainVars, sendVars
  <2>2. ClicksAreAnswered'
    BY <1>1, <1>8 DEF EditTransfer, sendVars
  <2> QED BY <2>1, <2>2 DEF WithdrawInv
<1>9. CASE SendTransfer
  <2>1. prepared \in Transfers /\ TakesItsAmount(prepared) /\ reviewed \in Seq(Transfers)
    BY <1>9 DEF SendTransfer, onReview, WithdrawInv, WithdrawTypeOK, PreparesTransfers
  <2>2. /\ reviewed' \in Seq(Transfers) /\ reviewed' # <<>>
        /\ Len(reviewed') = Len(reviewed) + 1 /\ reviewed'[Len(reviewed) + 1] = prepared
        /\ \A i \in 1 .. Len(reviewed) : reviewed'[i] = reviewed[i]
    BY <1>9, <2>1, AppendProperties DEF SendTransfer
  <2>3. /\ DOMAIN reviewed = 1 .. Len(reviewed) /\ DOMAIN reviewed' = 1 .. Len(reviewed) + 1
        /\ Len(reviewed) \in Nat
    BY <2>1, <2>2, LenProperties
  <2>4. WithdrawTypeOK' /\ PreparesTransfers'
    BY <1>9, <2>1, <2>2
    DEF SendTransfer, WithdrawInv, WithdrawTypeOK, PreparesTransfers, chainVars, formVars, TakesItsAmount
  <2>5. \A i \in DOMAIN reviewed' : TakesItsAmount(reviewed'[i])
    <3>1. ASSUME NEW i \in 1 .. Len(reviewed) + 1 PROVE TakesItsAmount(reviewed'[i])
      <4>1. i \in 1 .. Len(reviewed) \/ i = Len(reviewed) + 1
        BY <2>3
      <4> QED BY <2>1, <2>2, <2>3, <4>1 DEF WithdrawInv, ClicksAreAnswered
    <3> QED BY <2>3, <3>1
  <2>6. PICK clicks \in SUBSET DOMAIN reviewed : landed = Picked(reviewed, clicks)
    BY DEF WithdrawInv, ClicksAreAnswered, AnsweredClicks
  <2>7. landed' = Picked(reviewed', clicks)
    BY <1>9, <2>1, <2>6, PickedOfLonger DEF SendTransfer
  <2>8. clicks \subseteq AnsweredClicks'
    BY <2>2, <2>3 DEF AnsweredClicks
  <2>9. sending' = reviewed'[Len(reviewed')]
    BY <1>9, <2>2 DEF SendTransfer
  <2> QED BY <2>2, <2>4, <2>5, <2>7, <2>8, <2>9 DEF WithdrawInv, ClicksAreAnswered, TakesItsAmount
<1>10. CASE Sign
  <2>1. sendStep' # "sign" /\ UNCHANGED <<form, prepared, preparing, loadingMax, reviewed>>
    BY <1>10 DEF Sign, SendThrows, formVars
  <2>2. reviewed \in Seq(Transfers) /\ reviewed # <<>> /\ sending = reviewed[Len(reviewed)]
    BY <1>10 DEF Sign, WithdrawInv, WithdrawTypeOK, ClicksAreAnswered
  <2>3. PICK n \in Nat : Len(reviewed) = n + 1
    <3>1. Len(reviewed) \in Nat \ {0}
      BY <2>2, EmptySeq
    <3>2. Len(reviewed) - 1 \in Nat /\ Len(reviewed) = (Len(reviewed) - 1) + 1
      BY <3>1
    <3> QED BY <3>2
  <2>4. DOMAIN reviewed = 1 .. n + 1 /\ sending \in Transfers
    BY <2>2, <2>3, LenProperties, ElementOfSeq
  <2>5. PICK clicks \in SUBSET (1 .. n) : landed = Picked(reviewed, clicks)
    <3>1. sendStep = "sign" /\ AnsweredClicks \subseteq 1 .. n
      BY <1>10, <2>3, <2>4 DEF Sign, AnsweredClicks
    <3> QED BY <3>1 DEF WithdrawInv, ClicksAreAnswered
  <2>6. /\ sending' \in {sending, NOTHING} /\ result' \in {result, NOTHING}
        /\ sendStep' \in {"idle", "confirm", "fails"}
    BY <1>10 DEF Sign, SendThrows
  <2>7. CASE UNCHANGED <<usdc, landed>> /\ sol' \in {sol, IF sol > Fee THEN sol - Fee ELSE 0}
    <3>1. sol' \in Nat
      BY <2>7, WithdrawAssumption DEF WithdrawInv, WithdrawTypeOK
    <3>2. WithdrawTypeOK' /\ PreparesTransfers'
      BY <2>1, <2>6, <2>7, <3>1 DEF WithdrawInv, WithdrawTypeOK, PreparesTransfers, TakesItsAmount
    <3>3. ClicksAreAnswered'
      BY <1>1, <2>1, <2>7
    <3> QED BY <3>2, <3>3 DEF WithdrawInv
  <2>8. CASE /\ \A a \in Accounts : usdc[a] >= sending.chunks[a]
             /\ sol >= sending.cost + (IF sending.asset = "SOL" THEN sending.amount ELSE 0)
             /\ usdc' = [a \in Accounts |-> usdc[a] - sending.chunks[a]]
             /\ sol' = sol - sending.cost - (IF sending.asset = "SOL" THEN sending.amount ELSE 0)
             /\ landed' = Append(landed, sending)
    <3>1. /\ sending.chunks \in [Accounts -> 0 .. MaxAmount] /\ MaxAmount \in Nat
          /\ sending.cost \in Nat /\ sending.amount \in Nat
      BY <2>4, WithdrawAssumption DEF Transfers
    <3>2. usdc' \in [Accounts -> 0 .. MaxAmount]
      <4>1. \A a \in Accounts : usdc[a] - sending.chunks[a] \in 0 .. MaxAmount
        BY <1>2, <2>8, <3>1
      <4> QED BY <2>8, <4>1
    <3>3. sol' \in Nat
      <4>1. PICK paid \in Nat : paid = (IF sending.asset = "SOL" THEN sending.amount ELSE 0)
        BY <3>1
      <4> QED BY <2>8, <3>1, <4>1 DEF WithdrawInv, WithdrawTypeOK
    <3>4. landed' \in Seq(Transfers)
      BY <2>4, <2>8, AppendProperties DEF WithdrawInv, WithdrawTypeOK
    <3>5. WithdrawTypeOK' /\ PreparesTransfers'
      BY <2>1, <2>6, <3>2, <3>3, <3>4 DEF WithdrawInv, WithdrawTypeOK, PreparesTransfers, TakesItsAmount
    <3>6. landed' = Picked(reviewed, clicks \cup {n + 1})
      BY <2>2, <2>3, <2>5, <2>8, PickedWithLast
    <3>7. clicks \cup {n + 1} \in SUBSET AnsweredClicks'
      BY <2>1, <2>4 DEF AnsweredClicks
    <3>8. ClicksAreAnswered'
      BY <2>1, <3>6, <3>7 DEF WithdrawInv, ClicksAreAnswered, TakesItsAmount
    <3> QED BY <3>5, <3>8 DEF WithdrawInv
  <2> QED BY <1>10, <2>7, <2>8 DEF Sign, Signed, chainVars
<1>11. CASE Confirm
  <2>1. WithdrawTypeOK' /\ PreparesTransfers'
    BY <1>11 DEF Confirm, Finishes, WithdrawInv, WithdrawTypeOK, PreparesTransfers, chainVars, formVars, TakesItsAmount
  <2>2. ClicksAreAnswered'
    BY <1>1, <1>11 DEF Confirm, Finishes
  <2> QED BY <2>1, <2>2 DEF WithdrawInv
<1>12. CASE SyncBalance
  <2>1. WithdrawTypeOK' /\ PreparesTransfers'
    BY <1>12 DEF SyncBalance, Finishes, WithdrawInv, WithdrawTypeOK, PreparesTransfers, chainVars, formVars,
                 TakesItsAmount
  <2>2. ClicksAreAnswered'
    BY <1>1, <1>12 DEF SyncBalance, Finishes
  <2> QED BY <2>1, <2>2 DEF WithdrawInv
<1>13. CASE NewTransfer
  <2>1. PICK f \in Forms : f = [form EXCEPT !.amount = 0]
    <3>1. form \in Forms /\ 0 \in 0 .. MaxAmount
      BY WithdrawAssumption DEF WithdrawInv, WithdrawTypeOK
    <3>2. [form EXCEPT !.amount = 0] \in Forms
      BY <3>1 DEF Forms
    <3> QED BY <3>2
  <2>2. form' = [f EXCEPT !.destination = NOTHING]
    BY <1>13, <2>1 DEF NewTransfer, WithdrawInv, WithdrawTypeOK, Forms
  <2>3. form' \in Forms
    BY <2>2 DEF Forms
  <2>4. WithdrawTypeOK' /\ PreparesTransfers'
    BY <1>13, <2>3 DEF NewTransfer, WithdrawInv, WithdrawTypeOK, PreparesTransfers, chainVars
  <2>5. ClicksAreAnswered'
    BY <1>1, <1>13 DEF NewTransfer
  <2> QED BY <2>4, <2>5 DEF WithdrawInv
<1>14. CASE Outside
  <2>1. usdc' \in [Accounts -> 0 .. MaxAmount]
    <3>1. PICK a \in Accounts : usdc' = [usdc EXCEPT ![a] = 1 - @] /\ usdc[a] \in {0, 1}
      BY <1>14 DEF Outside
    <3>2. 1 - usdc[a] \in 0 .. MaxAmount
      BY <3>1, WithdrawAssumption
    <3> QED BY <3>1, <3>2 DEF WithdrawInv, WithdrawTypeOK
  <2>2. WithdrawTypeOK' /\ PreparesTransfers'
    BY <1>14, <2>1 DEF Outside, WithdrawInv, WithdrawTypeOK, PreparesTransfers, sendVars, formVars, TakesItsAmount
  <2>3. ClicksAreAnswered'
    BY <1>1, <1>14 DEF Outside, sendVars
  <2> QED BY <2>2, <2>3 DEF WithdrawInv
<1>15. CASE UNCHANGED withdrawVars
  <2>1. WithdrawTypeOK' /\ PreparesTransfers'
    BY <1>15 DEF withdrawVars, WithdrawInv, WithdrawTypeOK, PreparesTransfers, chainVars, sendVars, formVars,
                 TakesItsAmount
  <2>2. ClicksAreAnswered'
    BY <1>1, <1>15 DEF withdrawVars, sendVars
  <2> QED BY <2>1, <2>2 DEF WithdrawInv
<1> QED
  BY <1>3, <1>4, <1>5, <1>6, <1>7, <1>8, <1>9, <1>10, <1>11, <1>12, <1>13, <1>14, <1>15 DEF WithdrawNext

\* What lands is what was on the card at a click on Send, one transfer a click, and takes
\* its amount from the accounts: for any accounts, balances and amounts, any order of the
\* accounts, and any number of transfers.
THEOREM TransfersLandAsReviewed == WithdrawSpec => [](WithdrawTypeOK /\ LandsAsReviewed)
<1>1. WithdrawInv => WithdrawTypeOK /\ LandsAsReviewed
  <2> SUFFICES ASSUME WithdrawInv PROVE LandsAsReviewed
    BY DEF WithdrawInv
  <2>1. PICK clicks \in SUBSET DOMAIN reviewed : landed = Picked(reviewed, clicks)
    BY DEF WithdrawInv, ClicksAreAnswered, AnsweredClicks
  <2>2. /\ Len(landed) = Cardinality(clicks) /\ DOMAIN landed = 1 .. Len(landed)
        /\ \A k \in 1 .. Cardinality(clicks) : \E i \in clicks : landed[k] = reviewed[i]
    BY <2>1, PickedIsSeq, LenProperties DEF WithdrawInv, WithdrawTypeOK
  <2>3. \A i \in DOMAIN landed : TakesItsAmount(landed[i])
    BY <2>1, <2>2 DEF WithdrawInv, ClicksAreAnswered
  <2> QED BY <2>1, <2>3 DEF LandsAsReviewed, TakesItsAmount
<1> QED BY <1>1, WithdrawStartsRight, WithdrawStepKeeps, PTL DEF WithdrawSpec

--------------------------------------------------------------------------------
(* The gates between a visitor and a page.                                 *)

\* A request that a verified token does not see refused.
Harmless(a) == a.route = "/api/mandates" \/ rows[a.user] # "none"

\* The requests whose answer sends the browser on.
Followed == {a \in stateAsks : a.mine}

\* What was answered READY stays so.
AnswersLast ==
  \A a \in stateAsks : a.stage = "READY" /\ a.stage # NOTHING => rows[a.user] = "mandate"

\* Since the count began: the browser has at most come to a page that asks who the
\* user is ...
Untold == \A p \in AppPages : reached[p] <= IF p \in {"/", "/login"} THEN 1 ELSE 0

\* ... or has been sent on by the answer, to a page that does not ask ...
SentOn == Followed = {} /\ \A p \in AppPages : reached[p] <= 1

\* ... or back to the login page by a refusal, with no request left but that page's own ...
SentBack ==
  /\ window.path = "/login" /\ apiAsks = {}
  /\ \A a \in Followed : a.user = signedIn
  /\ \A p \in AppPages : reached[p] <= IF p = "/login" THEN 2 ELSE 1

\* ... and from there to a page where nothing is refused.
Arrived ==
  /\ Followed = {} /\ \A a \in apiAsks : Harmless(a)
  /\ window.path \in {"/desk", "/withdraw"} /\ signedIn # NOTHING => rows[signedIn] # "none"
  /\ \A p \in AppPages : reached[p] <= 2

\* The order of the phases is the order of what may happen without the user.
GateInv == GateTypeOK /\ AnswersLast /\ (Untold \/ SentOn \/ SentBack \/ Arrived)

\* The sets of GateTypeOK.
GateWindows == [path : AppPages, next : (AppPages \ {"/login"}) \cup {NOTHING}]
StateAsks   == [user : Visitors, mine : BOOLEAN, stage : Stages \cup {NOTHING}]
ApiAsks     == [route : {"/api/mandates", "/api/portfolio"}, user : Visitors]

\* Where the server sends a browser it holds for signed out, and one it does not.
LEMMA ServedPages ==
  ASSUME NEW path \in AppPages, NEW stage \in Stages
  PROVE  /\ Served(path, stage) \in GateWindows
         /\ stage = "SIGNED_OUT" => Served(path, stage).path \notin {"/desk", "/mandate"}
         /\ path # "/login" /\ stage # "SIGNED_OUT" => Served(path, stage).path \notin {"/", "/login"}
         /\ path = "/mandate" /\ stage # "SIGNED_OUT" => Served(path, stage).path = "/mandate"
<1>1. CASE path \in GatedPages /\ stage = "SIGNED_OUT"
  <2>1. Served(path, stage) = login(path) /\ path \in AppPages \ {"/login"}
    BY <1>1 DEF Served, GatedPages, AppPages
  <2> QED BY <1>1, <2>1 DEF GateWindows, login, AppPages
<1>2. CASE path = "/desk" /\ stage = "NEEDS_MANDATE"
  <2>1. Served(path, stage) = pageAt("/mandate")
    BY <1>2 DEF Served
  <2> QED BY <1>2, <2>1 DEF GateWindows, pageAt, AppPages, GatedPages
<1>3. CASE path = "/" /\ stage = "READY"
  <2>1. Served(path, stage) = pageAt("/desk")
    BY <1>3 DEF Served, GatedPages
  <2> QED BY <1>3, <2>1 DEF GateWindows, pageAt, AppPages, GatedPages
<1>4. CASE path = "/" /\ stage = "NEEDS_MANDATE"
  <2>1. Served(path, stage) = pageAt("/mandate")
    BY <1>4 DEF Served, GatedPages
  <2> QED BY <1>4, <2>1 DEF GateWindows, pageAt, AppPages, GatedPages
<1>5. CASE /\ ~ (path \in GatedPages /\ stage = "SIGNED_OUT") /\ ~ (path = "/desk" /\ stage = "NEEDS_MANDATE")
           /\ ~ (path = "/" /\ stage = "READY") /\ ~ (path = "/" /\ stage = "NEEDS_MANDATE")
  <2>1. Served(path, stage) = pageAt(path)
    BY <1>5 DEF Served
  <2> QED BY <1>5, <2>1 DEF GateWindows, pageAt, AppPages, GatedPages, Stages
<1> QED BY <1>1, <1>2, <1>3, <1>4, <1>5

\* What a page asks for is asked by who is connected, and only the pages behind a query
\* ask a route that may refuse.
LEMMA AsksOfPages ==
  ASSUME NEW path \in AppPages, NEW u \in Visitors \cup {NOTHING}
  PROVE  /\ StateAsksOf(path, u) \in SUBSET StateAsks
         /\ \A a \in StateAsksOf(path, u) : a.user = u /\ a.mine /\ a.stage = NOTHING
         /\ path \notin {"/", "/login"} => StateAsksOf(path, u) = {}
         /\ ApiAsksOf(path, u) \in SUBSET ApiAsks
         /\ \A a \in ApiAsksOf(path, u) : /\ a.user = u /\ u # NOTHING
                                          /\ path \in {"/desk", "/withdraw"} \/ a.route = "/api/mandates"
         /\ path = "/login" => ApiAsksOf(path, u) = {}
<1>1. /\ StateAsksOf(path, u) \in SUBSET StateAsks
      /\ \A a \in StateAsksOf(path, u) : a.user = u /\ a.mine /\ a.stage = NOTHING
      /\ path \notin {"/", "/login"} => StateAsksOf(path, u) = {}
  BY DEF StateAsksOf, StateAsks
<1>2. CASE u = NOTHING
  BY <1>1, <1>2 DEF ApiAsksOf
<1>3. CASE u # NOTHING /\ path = "/mandate"
  <2>1. ApiAsksOf(path, u) = {[route |-> "/api/mandates", user |-> u]}
    BY <1>3 DEF ApiAsksOf
  <2> QED BY <1>1, <1>3, <2>1 DEF ApiAsks
<1>4. CASE u # NOTHING /\ path \in {"/desk", "/withdraw"}
  <2>1. ApiAsksOf(path, u) = {[route |-> "/api/portfolio", user |-> u]}
    BY <1>4 DEF ApiAsksOf
  <2> QED BY <1>1, <1>4, <2>1 DEF ApiAsks
<1>5. CASE u # NOTHING /\ path # "/mandate" /\ path \notin {"/desk", "/withdraw"}
  <2>1. ApiAsksOf(path, u) = {}
    BY <1>5 DEF ApiAsksOf
  <2> QED BY <1>1, <1>5, <2>1
<1> QED BY <1>2, <1>3, <1>4, <1>5

\* Going to a page, with the requests of the old one on their way.
LEMMA PushKeeps ==
  ASSUME GateTypeOK, AnswersLast, NEW to \in GateWindows, NEW asks \in SUBSET stateAsks, PushTo(to, asks)
  PROVE  /\ window' = to /\ stateAsks' \in SUBSET StateAsks /\ apiAsks' \in SUBSET ApiAsks
         /\ \A a \in stateAsks' : a.stage = "READY" /\ a.stage # NOTHING => rows[a.user] = "mandate"
         /\ to.path \notin {"/", "/login"} => Followed' = {}
         /\ apiAsks' = apiAsks \cup ApiAsksOf(to.path, signedIn)
<1>1. to.path \in AppPages /\ signedIn \in Visitors \cup {NOTHING}
  BY DEF GateWindows, GateTypeOK
<1>2. /\ window' = to
      /\ stateAsks' = {[a EXCEPT !.mine = FALSE] : a \in asks} \cup StateAsksOf(to.path, signedIn)
      /\ apiAsks' = apiAsks \cup ApiAsksOf(to.path, signedIn)
  BY DEF PushTo
<1>3. ASSUME NEW a \in asks
      PROVE  /\ [a EXCEPT !.mine = FALSE] \in StateAsks /\ ~ [a EXCEPT !.mine = FALSE].mine
             /\ [a EXCEPT !.mine = FALSE].user = a.user /\ [a EXCEPT !.mine = FALSE].stage = a.stage
             /\ a.stage = "READY" /\ a.stage # NOTHING => rows[a.user] = "mandate"
  <2>1. a \in StateAsks
    BY DEF GateTypeOK, StateAsks
  <2>2. a.stage = "READY" /\ a.stage # NOTHING => rows[a.user] = "mandate"
    BY DEF AnswersLast
  <2> QED BY <2>1, <2>2 DEF StateAsks
<1>4. apiAsks \in SUBSET ApiAsks
  BY DEF GateTypeOK, ApiAsks
<1>5. ASSUME NEW a \in stateAsks'
      PROVE  /\ a \in StateAsks
             /\ a.stage = "READY" /\ a.stage # NOTHING => rows[a.user] = "mandate"
             /\ to.path \notin {"/", "/login"} => ~ a.mine
  <2>1. CASE a \in StateAsksOf(to.path, signedIn)
    BY <1>1, <2>1, AsksOfPages
  <2>2. CASE a \in {[b EXCEPT !.mine = FALSE] : b \in asks}
    <3>1. PICK b \in asks : a = [b EXCEPT !.mine = FALSE]
      BY <2>2
    <3>2. a.user = b.user /\ a.stage = b.stage /\ ~ a.mine /\ a \in StateAsks
      BY <1>3, <3>1
    <3> QED BY <1>3, <3>2
  <2> QED BY <1>2, <2>1, <2>2
<1>6. apiAsks' \in SUBSET ApiAsks
  BY <1>1, <1>2, <1>4, AsksOfPages
<1> QED BY <1>2, <1>5, <1>6 DEF Followed

\* Loading a page: the old requests are gone.
LEMMA LoadKeeps ==
  ASSUME GateTypeOK, NEW to \in GateWindows, to.path = "/login", LoadWindow(to)
  PROVE  /\ window' = to /\ stateAsks' \in SUBSET StateAsks /\ apiAsks' = {}
         /\ \A a \in stateAsks' : a.user = signedIn /\ a.stage = NOTHING
<1>1. "/login" \in AppPages /\ signedIn \in Visitors \cup {NOTHING}
  BY DEF AppPages, GateTypeOK
<1>2. /\ window' = to /\ stateAsks' = StateAsksOf("/login", signedIn)
      /\ apiAsks' = ApiAsksOf("/login", signedIn)
  BY DEF LoadWindow
<1> QED BY <1>1, <1>2, AsksOfPages

\* A verified token of a visitor is never signed out.
LEMMA StageOfToken ==
  ASSUME GateTypeOK, NEW u \in Visitors \cup {FORMER, NOTHING}, NEW ok \in BOOLEAN
  PROVE  /\ stateForPrivyUserId(u, ok) \in Stages
         /\ ~ ok => stateForPrivyUserId(u, ok) = "SIGNED_OUT"
         /\ ok /\ u \in Visitors => /\ stateForPrivyUserId(u, ok) # "SIGNED_OUT"
                                    /\ stateForPrivyUserId(u, ok) = "READY" <=> rows[u] = "mandate"
BY GateAssumption DEF stateForPrivyUserId, Stages

\* An act of the user, or the end of a session: the count begins again.
LEMMA CountBegins ==
  ASSUME reached' = NoPage
  PROVE  Untold' /\ reached' \in [AppPages -> 0 .. 3]
BY DEF NoPage, Untold

\* A page reached by itself counts once more, or first if a token was refused.
LEMMA CountGoesOn ==
  ASSUME GateTypeOK, NEW ok \in BOOLEAN, window'.path \in AppPages, OnItsOwn(ok),
         NEW most \in [AppPages -> 0 .. 2], \A p \in AppPages : reached[p] <= most[p]
  PROVE  /\ \A p \in AppPages : reached'[p] \in Nat
         /\ ok => \A p \in AppPages : reached'[p] <= IF p = window'.path THEN most[p] + 1 ELSE most[p]
         /\ ~ ok => \A p \in AppPages : reached'[p] <= IF p = window'.path THEN 1 ELSE 0
         /\ reached' \in [AppPages -> 0 .. 3]
<1>1. /\ reached \in [AppPages -> 0 .. 3] /\ \A p \in AppPages : reached[p] \in 0 .. 2
      /\ NoPage \in [AppPages -> 0 .. 3] /\ \A p \in AppPages : NoPage[p] = 0
  BY DEF GateTypeOK, NoPage
<1>2. CASE ok
  <2>1. reached' = [reached EXCEPT ![window'.path] = @ + 1]
    BY <1>2 DEF OnItsOwn, Counted
  <2> QED BY <1>1, <1>2, <2>1
<1>3. CASE ~ ok
  <2>1. reached' = [NoPage EXCEPT ![window'.path] = @ + 1]
    BY <1>3 DEF OnItsOwn, Counted
  <2> QED BY <1>1, <1>3, <2>1
<1> QED BY <1>2, <1>3

\* A step that sends the browser nowhere, and asks nothing that may be refused.
LEMMA StaysInPhase ==
  ASSUME GateTypeOK, UNCHANGED <<rows, signedIn, window, reached>>,
         \A a \in Followed' : \E b \in Followed : a.user = b.user,
         \A a \in apiAsks' : a \in apiAsks \/ a \in ApiAsksOf(window.path, signedIn),
         Untold \/ SentOn \/ SentBack \/ Arrived
  PROVE  Untold' \/ SentOn' \/ SentBack' \/ Arrived'
<1>1. /\ window.path \in AppPages /\ signedIn \in Visitors \cup {NOTHING}
      /\ window' = window /\ signedIn' = signedIn /\ reached' = reached /\ rows' = rows
  BY DEF GateTypeOK
<1>2. CASE Untold
  BY <1>1, <1>2 DEF Untold
<1>3. CASE SentOn
  BY <1>1, <1>3 DEF SentOn
<1>4. CASE SentBack
  <2>1. apiAsks' = {}
    BY <1>1, <1>4, AsksOfPages DEF SentBack
  <2> QED BY <1>1, <1>4, <2>1 DEF SentBack
<1>5. CASE Arrived
  <2>1. ASSUME NEW a \in apiAsks' PROVE Harmless(a)'
    <3>1. CASE a \in apiAsks
      BY <1>1, <1>5, <3>1 DEF Arrived, Harmless
    <3>2. CASE a \in ApiAsksOf(window.path, signedIn)
      <4>1. a.user = signedIn /\ signedIn # NOTHING /\ (window.path \in {"/desk", "/withdraw"} \/ a.route = "/api/mandates")
        BY <1>1, <3>2, AsksOfPages
      <4> QED BY <1>1, <1>5, <4>1 DEF Arrived, Harmless
    <3> QED BY <3>1, <3>2
  <2> QED BY <1>1, <1>5, <2>1 DEF Arrived
<1> QED BY <1>2, <1>3, <1>4, <1>5

\* The answer on the state of a user sends the browser on.
LEMMA AnswerSendsOn ==
  ASSUME GateInv, NEW a \in stateAsks, a.stage # NOTHING, a.mine, a.stage # "SIGNED_OUT",
         NEW ok \in BOOLEAN, OnItsOwn(ok), UNCHANGED <<rows, signedIn>>,
         PushTo(Served(NextPath(a.stage), stateForPrivyUserId(a.user, ok)), stateAsks \ {a})
  PROVE  /\ window' \in GateWindows /\ stateAsks' \in SUBSET StateAsks /\ apiAsks' \in SUBSET ApiAsks
         /\ reached' \in [AppPages -> 0 .. 3] /\ AnswersLast'
         /\ SentOn' \/ Untold' \/ Arrived'
<1> DEFINE stage == stateForPrivyUserId(a.user, ok)
           to    == Served(NextPath(a.stage), stage)
<1>1. a \in StateAsks /\ a.user \in Visitors /\ a.stage \in {"NEEDS_MANDATE", "READY"} /\ a \in Followed
  BY DEF GateInv, GateTypeOK, StateAsks, Stages, Followed
<1>2. /\ NextPath(a.stage) \in AppPages /\ NextPath(a.stage) # "/login"
      /\ a.stage = "NEEDS_MANDATE" => NextPath(a.stage) = "/mandate"
  <2>1. window.next \in (AppPages \ {"/login"}) \cup {NOTHING}
    BY DEF GateInv, GateTypeOK
  <2>2. CASE a.stage = "NEEDS_MANDATE"
    BY <2>2 DEF NextPath, AppPages, GatedPages
  <2>3. CASE a.stage # "NEEDS_MANDATE" /\ window.next # NOTHING
    BY <2>1, <2>3 DEF NextPath
  <2>4. CASE a.stage # "NEEDS_MANDATE" /\ window.next = NOTHING
    BY <2>4 DEF NextPath, AppPages, GatedPages
  <2> QED BY <2>2, <2>3, <2>4
<1>3. /\ stage \in Stages /\ (ok => stage # "SIGNED_OUT") /\ (~ ok => stage = "SIGNED_OUT")
  BY <1>1, StageOfToken DEF GateInv
<1>4. /\ to \in GateWindows /\ to.path \in AppPages
      /\ ~ ok => to.path \notin {"/desk", "/mandate"}
      /\ ok => to.path \notin {"/", "/login"}
      /\ ok /\ a.stage = "NEEDS_MANDATE" => to.path = "/mandate"
  <2> HIDE DEF stage
  <2>1. to \in GateWindows => to.path \in AppPages
    BY DEF GateWindows
  <2> QED BY <1>2, <1>3, <2>1, ServedPages
<1> HIDE DEF stage
<1>5. PushTo(to, stateAsks \ {a})
  BY DEF stage
<1> HIDE DEF to
<1>6. /\ window' = to /\ stateAsks' \in SUBSET StateAsks /\ apiAsks' \in SUBSET ApiAsks
      /\ AnswersLast' /\ (to.path \notin {"/", "/login"} => Followed' = {})
      /\ apiAsks' = apiAsks \cup ApiAsksOf(to.path, signedIn)
  <2>1. stateAsks \ {a} \in SUBSET stateAsks
    OBVIOUS
  <2> QED BY <1>4, <1>5, <2>1, PushKeeps DEF GateInv, AnswersLast
<1>7. \A p \in AppPages : reached[p] \in Nat
  BY DEF GateInv, GateTypeOK
<1>8. CASE ~ ok
  <2>1. PICK most \in [AppPages -> 0 .. 2] : \A p \in AppPages : reached[p] <= most[p]
    <3>1. [p \in AppPages |-> 2] \in [AppPages -> 0 .. 2] /\ \A p \in AppPages : reached[p] <= [q \in AppPages |-> 2][p]
      BY <1>7 DEF GateInv, Untold, SentOn, SentBack, Arrived
    <3> QED BY <3>1
  <2>2. /\ \A p \in AppPages : reached'[p] \in Nat /\ reached'[p] <= IF p = to.path THEN 1 ELSE 0
        /\ reached' \in [AppPages -> 0 .. 3]
    BY <1>4, <1>6, <1>8, <2>1, CountGoesOn DEF GateInv
  <2>3. CASE to.path \in {"/", "/login"}
    BY <1>4, <1>6, <2>2, <2>3 DEF Untold
  <2>4. CASE to.path \notin {"/", "/login"}
    BY <1>4, <1>6, <2>2, <2>4 DEF SentOn
  <2> QED BY <1>4, <1>6, <2>2, <2>3, <2>4
<1>9. CASE ok /\ Untold
  <2> DEFINE most == [p \in AppPages |-> IF p \in {"/", "/login"} THEN 1 ELSE 0]
  <2>1. most \in [AppPages -> 0 .. 2] /\ \A p \in AppPages : reached[p] <= most[p]
    BY <1>9 DEF Untold
  <2>2. \A p \in AppPages : most[p] = IF p \in {"/", "/login"} THEN 1 ELSE 0
    OBVIOUS
  <2> HIDE DEF most
  <2>3. /\ \A p \in AppPages : reached'[p] \in Nat /\ reached'[p] <= IF p = to.path THEN most[p] + 1 ELSE most[p]
        /\ reached' \in [AppPages -> 0 .. 3]
    BY <1>4, <1>6, <1>9, <2>1, CountGoesOn DEF GateInv
  <2>4. SentOn'
    BY <1>4, <1>6, <1>9, <2>2, <2>3 DEF SentOn
  <2> QED BY <1>4, <1>6, <2>3, <2>4
<1>10. CASE ok /\ SentBack
  <2> DEFINE most == [p \in AppPages |-> IF p = "/login" THEN 2 ELSE 1]
  <2>1. most \in [AppPages -> 0 .. 2] /\ \A p \in AppPages : reached[p] <= most[p]
    BY <1>10 DEF SentBack
  <2>2. \A p \in AppPages : most[p] = IF p = "/login" THEN 2 ELSE 1
    OBVIOUS
  <2> HIDE DEF most
  <2>3. /\ \A p \in AppPages : reached'[p] \in Nat /\ reached'[p] <= IF p = to.path THEN most[p] + 1 ELSE most[p]
        /\ reached' \in [AppPages -> 0 .. 3]
    BY <1>4, <1>6, <1>10, <2>1, CountGoesOn DEF GateInv
  <2>4. \A p \in AppPages : reached'[p] <= 2
    BY <1>4, <1>10, <2>2, <2>3
  <2>5. a.user = signedIn /\ apiAsks' = ApiAsksOf(to.path, signedIn) /\ signedIn \in Visitors
    BY <1>1, <1>6, <1>10 DEF SentBack
  <2>6. a.stage = "READY" => rows[signedIn] = "mandate"
    BY <2>5 DEF GateInv, AnswersLast
  <2>7. \A b \in apiAsks' : /\ b.user = signedIn
                            /\ to.path \in {"/desk", "/withdraw"} \/ b.route = "/api/mandates"
    BY <1>4, <2>5, AsksOfPages
  <2>8. \A b \in apiAsks' : Harmless(b)'
    BY <1>1, <1>4, <1>10, <2>6, <2>7 DEF Harmless
  <2>9. window'.path \in {"/desk", "/withdraw"} => rows'[signedIn'] # "none"
    BY <1>1, <1>4, <1>6, <1>10, <2>6
  <2>10. Arrived'
    BY <1>4, <1>6, <1>10, <2>4, <2>8, <2>9 DEF Arrived
  <2> QED BY <1>4, <1>6, <2>3, <2>10
<1> QED
  <2>1. Untold \/ SentBack
    BY <1>1 DEF GateInv, SentOn, Arrived
  <2> QED BY <1>8, <1>9, <1>10, <2>1

\* A refusal sends back to the login page.
LEMMA RefusalSendsBack ==
  ASSUME GateInv, window.path # "/login", NEW ok \in BOOLEAN, OnItsOwn(ok),
         UNCHANGED <<rows, signedIn>>, LoadWindow(login(window.path)), ok => ~ Arrived
  PROVE  /\ window' \in GateWindows /\ stateAsks' \in SUBSET StateAsks /\ apiAsks' \in SUBSET ApiAsks
         /\ reached' \in [AppPages -> 0 .. 3] /\ AnswersLast'
         /\ Untold' \/ SentBack'
<1>1. login(window.path) \in GateWindows /\ login(window.path).path = "/login" /\ "/login" \in AppPages
  BY DEF GateInv, GateTypeOK, GateWindows, login, AppPages
<1>2. /\ window' = login(window.path) /\ stateAsks' \in SUBSET StateAsks /\ apiAsks' = {}
      /\ \A a \in stateAsks' : a.user = signedIn /\ a.stage = NOTHING
  BY <1>1, LoadKeeps DEF GateInv
<1>3. AnswersLast'
  BY <1>2 DEF AnswersLast
<1>4. \A p \in AppPages : reached[p] \in Nat
  BY DEF GateInv, GateTypeOK
<1>5. CASE ~ ok
  <2>1. PICK most \in [AppPages -> 0 .. 2] : \A p \in AppPages : reached[p] <= most[p]
    <3>1. [p \in AppPages |-> 2] \in [AppPages -> 0 .. 2] /\ \A p \in AppPages : reached[p] <= [q \in AppPages |-> 2][p]
      BY <1>4 DEF GateInv, Untold, SentOn, SentBack, Arrived
    <3> QED BY <3>1
  <2>2. /\ \A p \in AppPages : reached'[p] \in Nat /\ reached'[p] <= IF p = "/login" THEN 1 ELSE 0
        /\ reached' \in [AppPages -> 0 .. 3]
    BY <1>1, <1>2, <1>5, <2>1, CountGoesOn DEF GateInv
  <2>3. Untold'
    BY <2>2 DEF Untold
  <2> QED BY <1>1, <1>2, <1>3, <2>2, <2>3
<1>6. CASE ok
  <2>1. Untold \/ SentOn
    BY <1>6 DEF GateInv, SentBack
  <2> DEFINE most == [p \in AppPages |-> 1]
  <2>2. most \in [AppPages -> 0 .. 2] /\ \A p \in AppPages : reached[p] <= most[p] /\ most[p] = 1
    BY <1>4, <2>1 DEF Untold, SentOn
  <2> HIDE DEF most
  <2>3. /\ \A p \in AppPages : reached'[p] \in Nat /\ reached'[p] <= IF p = "/login" THEN most[p] + 1 ELSE most[p]
        /\ reached' \in [AppPages -> 0 .. 3]
    BY <1>1, <1>2, <1>6, <2>2, CountGoesOn DEF GateInv
  <2>4. \A p \in AppPages : reached'[p] <= IF p = "/login" THEN 2 ELSE 1
    BY <2>2, <2>3
  <2>5. SentBack'
    BY <1>1, <1>2, <2>4 DEF SentBack, Followed
  <2> QED BY <1>1, <1>2, <1>3, <2>3, <2>5
<1> QED BY <1>5, <1>6

\* Every step keeps the invariant.
LEMMA GateStepKeeps ==
  ASSUME GateInv, [GateNext]_gateVars
  PROVE  GateInv'
<1> DEFINE Phases == Untold \/ SentOn \/ SentBack \/ Arrived
<1>1. /\ rows \in [Visitors -> {"none", "user", "mandate"}] /\ failures \in 0 .. MaxFailures
      /\ signedIn \in Visitors \cup {NOTHING} /\ jar \in Visitors \cup {FORMER, NOTHING}
      /\ window \in GateWindows /\ window.path \in AppPages
      /\ stateAsks \in SUBSET StateAsks /\ apiAsks \in SUBSET ApiAsks
      /\ reached \in [AppPages -> 0 .. 3] /\ AnswersLast /\ Phases
  BY DEF GateInv, GateTypeOK, GateWindows, StateAsks, ApiAsks
<1>2. ASSUME /\ rows' \in [Visitors -> {"none", "user", "mandate"}] /\ failures' \in 0 .. MaxFailures
             /\ signedIn' \in Visitors \cup {NOTHING} /\ jar' \in Visitors \cup {FORMER, NOTHING}
             /\ window' \in GateWindows
             /\ stateAsks' \in SUBSET StateAsks /\ apiAsks' \in SUBSET ApiAsks
             /\ reached' \in [AppPages -> 0 .. 3] /\ AnswersLast' /\ Phases'
      PROVE  GateInv'
  BY <1>2 DEF GateInv, GateTypeOK, GateWindows, StateAsks, ApiAsks
<1>3. ASSUME NEW ok \in BOOLEAN, Verifies(ok) PROVE failures' \in 0 .. MaxFailures
  BY <1>1, <1>3, GateAssumption DEF Verifies
<1>4. ASSUME reached' = NoPage PROVE Phases' /\ reached' \in [AppPages -> 0 .. 3]
  BY <1>4, CountBegins
<1>5. ASSUME UNCHANGED <<rows, signedIn, window, reached>>,
             \A a \in Followed' : \E b \in Followed : a.user = b.user,
             \A a \in apiAsks' : a \in apiAsks \/ a \in ApiAsksOf(window.path, signedIn)
      PROVE  Phases'
  BY <1>5, StaysInPhase DEF GateInv
<1>6. ASSUME NEW a \in stateAsks, ServeState(a) PROVE GateInv'
  <2>1. PICK ok \in BOOLEAN : /\ Verifies(ok) /\ reached' = Counted(ok)
                              /\ stateAsks' = (stateAsks \ {a}) \cup {[a EXCEPT !.stage = stateForPrivyUserId(a.user, ok)]}
    BY <1>6 DEF ServeState
  <2>2. PICK stage \in Stages : /\ stage = stateForPrivyUserId(a.user, ok)
                                /\ stage = "READY" => rows[a.user] = "mandate"
    <3>1. a.user \in Visitors
      BY <1>1 DEF StateAsks
    <3>2. /\ stateForPrivyUserId(a.user, ok) \in Stages
          /\ stateForPrivyUserId(a.user, ok) = "READY" => rows[a.user] = "mandate"
      BY <3>1, StageOfToken DEF GateInv
    <3> QED BY <3>2
  <2>3. PICK b \in StateAsks : /\ b = [a EXCEPT !.stage = stage]
                               /\ b.user = a.user /\ b.mine = a.mine /\ b.stage = stage
    <3>1. a \in StateAsks
      BY <1>1
    <3>2. /\ [a EXCEPT !.stage = stage] \in StateAsks
          /\ [a EXCEPT !.stage = stage].user = a.user /\ [a EXCEPT !.stage = stage].mine = a.mine
          /\ [a EXCEPT !.stage = stage].stage = stage
      BY <3>1 DEF StateAsks
    <3> QED BY <3>2
  <2>4. stateAsks' = (stateAsks \ {a}) \cup {b}
    BY <2>1, <2>2, <2>3
  <2>5. stateAsks' \in SUBSET StateAsks /\ AnswersLast'
    BY <1>1, <1>6, <2>2, <2>3, <2>4 DEF AnswersLast, ServeState
  <2>6. CASE ok
    <3>1. UNCHANGED <<rows, signedIn, window, reached, apiAsks>>
      BY <1>6, <2>1, <2>6 DEF ServeState, Counted
    <3>2. \A c \in Followed' : \E d \in Followed : c.user = d.user
      BY <2>3, <2>4 DEF Followed
    <3>3. Phases'
      BY <1>5, <3>1, <3>2
    <3> QED BY <1>1, <1>2, <1>3, <1>6, <2>1, <2>5, <3>1, <3>3 DEF ServeState
  <2>7. CASE ~ ok
    <3>1. reached' = NoPage
      BY <2>1, <2>7 DEF Counted
    <3> QED BY <1>1, <1>2, <1>3, <1>4, <1>6, <2>1, <2>5, <3>1 DEF ServeState
  <2> QED BY <2>6, <2>7
<1>7. ASSUME NEW a \in stateAsks, stateAsks' = stateAsks \ {a}, jar' \in {jar, NOTHING, a.user},
             UNCHANGED <<rows, failures, signedIn, window, apiAsks, reached>>
      PROVE  GateInv'
  <2>1. stateAsks' \in SUBSET StateAsks /\ AnswersLast' /\ jar' \in Visitors \cup {FORMER, NOTHING}
    BY <1>1, <1>7 DEF AnswersLast, StateAsks
  <2>2. \A c \in Followed' : \E d \in Followed : c.user = d.user
    BY <1>7 DEF Followed
  <2>3. Phases'
    BY <1>5, <1>7, <2>2
  <2> QED BY <1>1, <1>2, <1>7, <2>1, <2>3
<1>8. ASSUME NEW a \in stateAsks, StateArrives(a) PROVE GateInv'
  <2>1. CASE a.mine /\ a.stage # "SIGNED_OUT"
    <3>1. PICK ok \in BOOLEAN :
            /\ Verifies(ok) /\ OnItsOwn(ok)
            /\ PushTo(Served(NextPath(a.stage), stateForPrivyUserId(a.user, ok)), stateAsks \ {a})
      BY <1>8, <2>1 DEF StateArrives
    <3>2. a.stage # NOTHING /\ UNCHANGED <<rows, signedIn>> /\ jar' \in Visitors \cup {NOTHING}
      BY <1>1, <1>8 DEF StateArrives, StateAsks
    <3>3. /\ window' \in GateWindows /\ stateAsks' \in SUBSET StateAsks /\ apiAsks' \in SUBSET ApiAsks
          /\ reached' \in [AppPages -> 0 .. 3] /\ AnswersLast'
          /\ SentOn' \/ Untold' \/ Arrived'
      BY <2>1, <3>1, <3>2, AnswerSendsOn
    <3> QED BY <1>1, <1>2, <1>3, <3>1, <3>2, <3>3
  <2>2. CASE ~ (a.mine /\ a.stage # "SIGNED_OUT")
    BY <1>7, <1>8, <2>2 DEF StateArrives
  <2> QED BY <2>1, <2>2
<1>9. ASSUME NEW a \in stateAsks, StateFails(a) PROVE GateInv'
  BY <1>7, <1>9 DEF StateFails
<1>10. ASSUME NEW a \in apiAsks, ApiAnswers(a) PROVE GateInv'
  <2>1. PICK ok \in BOOLEAN :
          /\ Verifies(ok)
          /\ \/ Refuses(a.route, a.user, ok) /\ window.path # "/login"
                /\ LoadWindow(login(window.path)) /\ OnItsOwn(ok)
             \/ /\ apiAsks' = apiAsks \ {a} /\ reached' = Counted(ok)
                /\ UNCHANGED <<window, stateAsks>>
    BY <1>10 DEF ApiAnswers
  <2>2. UNCHANGED <<rows, signedIn, jar>> /\ failures' \in 0 .. MaxFailures
    BY <1>3, <1>10, <2>1 DEF ApiAnswers
  <2>3. CASE /\ Refuses(a.route, a.user, ok) /\ window.path # "/login"
             /\ LoadWindow(login(window.path)) /\ OnItsOwn(ok)
    <3>1. ok => ~ Arrived
      BY <2>3 DEF Refuses, Arrived, Harmless
    <3>2. /\ window' \in GateWindows /\ stateAsks' \in SUBSET StateAsks /\ apiAsks' \in SUBSET ApiAsks
          /\ reached' \in [AppPages -> 0 .. 3] /\ AnswersLast'
          /\ Untold' \/ SentBack'
      BY <2>2, <2>3, <3>1, RefusalSendsBack
    <3> QED BY <1>1, <1>2, <2>2, <3>2
  <2>4. CASE apiAsks' = apiAsks \ {a} /\ reached' = Counted(ok) /\ UNCHANGED <<window, stateAsks>>
    <3>1. apiAsks' \in SUBSET ApiAsks /\ AnswersLast'
      BY <1>1, <2>2, <2>4 DEF AnswersLast
    <3>2. CASE ok
      <4>1. reached' = reached /\ \A c \in Followed' : \E d \in Followed : c.user = d.user
        BY <2>4, <3>2 DEF Counted, Followed
      <4>2. Phases'
        BY <1>5, <2>2, <2>4, <4>1
      <4> QED BY <1>1, <1>2, <2>2, <2>4, <3>1, <4>1, <4>2
    <3>3. CASE ~ ok
      <4>1. reached' = NoPage
        BY <2>4, <3>3 DEF Counted
      <4> QED BY <1>1, <1>2, <1>4, <2>2, <2>4, <3>1, <4>1
    <3> QED BY <3>2, <3>3
  <2> QED BY <2>1, <2>3, <2>4
<1>11. CASE AskAgain
  <2>1. apiAsks' \in SUBSET ApiAsks /\ AnswersLast'
    BY <1>1, <1>11, AsksOfPages DEF AskAgain, AnswersLast
  <2>2. \A c \in Followed' : \E d \in Followed : c.user = d.user
    BY <1>11 DEF AskAgain, Followed
  <2>3. Phases'
    BY <1>5, <1>11, <2>2 DEF AskAgain
  <2> QED BY <1>1, <1>2, <1>11, <2>1, <2>3 DEF AskAgain
<1>12. ASSUME NEW path \in AppPages, Visit(path) PROVE GateInv'
  <2>1. PICK ok \in BOOLEAN : Verifies(ok) /\ PushTo(Served(path, stateForPrivyUserId(jar, ok)), stateAsks)
    BY <1>12 DEF Visit
  <2>2. Served(path, stateForPrivyUserId(jar, ok)) \in GateWindows
    <3>1. stateForPrivyUserId(jar, ok) \in Stages
      BY <1>1, StageOfToken DEF GateInv
    <3> QED BY <3>1, ServedPages
  <2>3. /\ window' \in GateWindows /\ stateAsks' \in SUBSET StateAsks /\ apiAsks' \in SUBSET ApiAsks
        /\ \A a \in stateAsks' : a.stage = "READY" /\ a.stage # NOTHING => rows[a.user] = "mandate"
    BY <2>1, <2>2, PushKeeps DEF GateInv
  <2>4. AnswersLast'
    BY <1>12, <2>3 DEF AnswersLast, Visit
  <2> QED BY <1>1, <1>2, <1>3, <1>4, <1>12, <2>1, <2>3, <2>4 DEF Visit
<1>13. ASSUME NEW u \in Visitors, LogIn(u) PROVE GateInv'
  <2>1. /\ StateAsksOf(window.path, u) \in SUBSET StateAsks /\ ApiAsksOf(window.path, u) \in SUBSET ApiAsks
        /\ \A a \in StateAsksOf(window.path, u) : a.stage = NOTHING
    BY <1>1, AsksOfPages
  <2>2. stateAsks' \in SUBSET StateAsks /\ apiAsks' \in SUBSET ApiAsks /\ AnswersLast'
    BY <1>1, <1>13, <2>1 DEF LogIn, AnswersLast
  <2> QED BY <1>1, <1>2, <1>4, <1>13, <2>2 DEF LogIn
<1>14. CASE LogOut
  <2>1. AnswersLast'
    BY <1>1, <1>14 DEF LogOut, AnswersLast
  <2> QED BY <1>1, <1>2, <1>4, <1>14, <2>1 DEF LogOut
<1>15. CASE SubmitMandate
  <2>1. signedIn \in Visitors /\ UNCHANGED <<signedIn, jar>> /\ reached' = NoPage
    BY <1>1, <1>15 DEF SubmitMandate
  <2>2. CASE /\ rows' = [rows EXCEPT ![signedIn] = "mandate"]
             /\ \E ok \in BOOLEAN :
                  Verifies(ok) /\ PushTo(Served("/", stateForPrivyUserId(jar, ok)'), stateAsks)
    <3>1. PICK ok \in BOOLEAN : Verifies(ok) /\ PushTo(Served("/", stateForPrivyUserId(jar, ok)'), stateAsks)
      BY <2>2
    <3>2. PICK stage \in Stages : stage = stateForPrivyUserId(jar, ok)'
      <4>1. stateForPrivyUserId(jar, ok)' \in Stages
        BY DEF stateForPrivyUserId, Stages
      <4> QED BY <4>1
    <3>3. Served("/", stage) \in GateWindows
      BY ServedPages DEF AppPages
    <3>4. /\ window' \in GateWindows /\ stateAsks' \in SUBSET StateAsks /\ apiAsks' \in SUBSET ApiAsks
          /\ \A a \in stateAsks' : a.stage = "READY" /\ a.stage # NOTHING => rows[a.user] = "mandate"
      BY <3>1, <3>2, <3>3, PushKeeps DEF GateInv
    <3>5. rows' \in [Visitors -> {"none", "user", "mandate"}] /\ AnswersLast'
      BY <1>1, <2>1, <2>2, <3>4 DEF AnswersLast, StateAsks
    <3> QED BY <1>1, <1>2, <1>3, <1>4, <2>1, <3>1, <3>4, <3>5
  <2>3. CASE /\ rows' = [rows EXCEPT ![signedIn] = IF @ = "none" THEN "user" ELSE @]
             /\ UNCHANGED <<failures, window, stateAsks, apiAsks>>
    <3>1. rows' \in [Visitors -> {"none", "user", "mandate"}] /\ AnswersLast'
      BY <1>1, <2>1, <2>3 DEF AnswersLast, StateAsks
    <3> QED BY <1>1, <1>2, <1>4, <2>1, <2>3, <3>1
  <2>4. CASE /\ Verifies(FALSE)
             /\ LoadWindow(login("/mandate")) /\ UNCHANGED rows
    <3>1. login("/mandate") \in GateWindows /\ login("/mandate").path = "/login"
      BY DEF GateWindows, login, AppPages, GatedPages
    <3>2. /\ window' \in GateWindows /\ stateAsks' \in SUBSET StateAsks /\ apiAsks' = {}
          /\ \A a \in stateAsks' : a.user = signedIn /\ a.stage = NOTHING
      BY <2>4, <3>1, LoadKeeps DEF GateInv
    <3>3. AnswersLast'
      BY <3>2 DEF AnswersLast
    <3> QED BY <1>1, <1>2, <1>3, <1>4, <2>1, <2>4, <3>2, <3>3
  <2> QED BY <1>15, <2>2, <2>3, <2>4 DEF SubmitMandate
<1>16. CASE TokenExpires
  <2>1. AnswersLast'
    BY <1>1, <1>16 DEF TokenExpires, AnswersLast
  <2> QED BY <1>1, <1>2, <1>4, <1>16, <2>1 DEF TokenExpires
<1>17. CASE UNCHANGED gateVars
  <2>1. AnswersLast' /\ \A c \in Followed' : \E d \in Followed : c.user = d.user
    BY <1>1, <1>17 DEF gateVars, AnswersLast, Followed
  <2>2. Phases'
    BY <1>5, <1>17, <2>1 DEF gateVars
  <2> QED BY <1>1, <1>2, <1>17, <2>1, <2>2 DEF gateVars
<1> QED
  BY <1>6, <1>8, <1>9, <1>10, <1>11, <1>12, <1>13, <1>14, <1>15, <1>16, <1>17 DEF GateNext

\* Whoever uses the browser, and however often tokens are refused: no page is reached a
\* third time while nobody acts.
THEOREM RedirectsEnd == GateSpec => [](GateTypeOK /\ NoRedirectLoop)
<1>1. GateInit => GateInv
  <2> SUFFICES ASSUME GateInit PROVE GateInv
    OBVIOUS
  <2>1. GateTypeOK /\ AnswersLast
    BY GateAssumption DEF GateInit, GateTypeOK, AnswersLast, NoPage, AppPages, GatedPages
  <2>2. Untold
    BY DEF GateInit, Untold, NoPage
  <2> QED BY <2>1, <2>2 DEF GateInv
<1>2. GateInv => GateTypeOK /\ NoRedirectLoop
  <2> SUFFICES ASSUME GateInv PROVE NoRedirectLoop
    BY DEF GateInv
  <2>1. \A p \in AppPages : reached[p] \in Nat
    BY DEF GateInv, GateTypeOK
  <2> QED BY <2>1 DEF GateInv, Untold, SentOn, SentBack, Arrived, NoRedirectLoop
<1> QED BY <1>1, <1>2, GateStepKeeps, PTL DEF GateSpec

================================================================================
