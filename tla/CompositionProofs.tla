--------------------------- MODULE CompositionProofs ---------------------------
(***************************************************************************)
(* What the run of all the components shows is of each of them: a behaviour *)
(* of ComponentsSpec whose subject is a component is a behaviour of that   *)
(* component, so that what is proved of the component holds in the run.    *)
(* The types of the components that no other proof needed whole come       *)
(* first.                                                                  *)
(***************************************************************************)
EXTENDS ComponentProofs, AnalysisProofs, MCComponents

--------------------------------------------------------------------------------
(* Sets as sequences.                                                      *)

\* Each order of a finite set is a sequence of it, and is empty only if the set is.
LEMMA OrdersAreSeqs ==
  ASSUME NEW S, IsFiniteSet(S), NEW q \in SetToSeqs(S)
  PROVE  q \in Seq(S) /\ (S # {} => q # <<>>)
<1>1. Cardinality(S) \in Nat /\ (S # {} => Cardinality(S) # 0)
  BY FS_CardinalityType, FS_EmptySet
<1>2. q \in [1 .. Cardinality(S) -> S]
  BY DEF SetToSeqs
<1> HIDE DEF SetToSeqs
<1>3. q \in Seq(S) /\ Len(q) = Cardinality(S)
  BY <1>1, <1>2
<1> QED BY <1>1, <1>3

\* So is the one that is chosen.
LEMMA SetToSeqIsSeq ==
  ASSUME NEW S, IsFiniteSet(S)
  PROVE  SetToSeq(S) \in Seq(S) /\ (S # {} => SetToSeq(S) # <<>>)
<1>1. Cardinality(S) \in Nat /\ (S # {} => Cardinality(S) # 0)
  BY FS_CardinalityType, FS_EmptySet
<1>2. ExistsBijection(1 .. Cardinality(S), S)
  BY FS_CardinalityType
<1>3. PICK f \in Bijection(1 .. Cardinality(S), S) : TRUE
  BY <1>2 DEF ExistsBijection
<1>4. f \in [1 .. Cardinality(S) -> S] /\ IsInjective(f)
  BY <1>3 DEF Bijection, Injection, IsInjective
<1>5. SetToSeq(S) \in [1 .. Cardinality(S) -> S]
  BY <1>4 DEF SetToSeq
<1>6. SetToSeq(S) \in Seq(S) /\ Len(SetToSeq(S)) = Cardinality(S)
  BY <1>1, <1>5
<1> QED BY <1>1, <1>6

--------------------------------------------------------------------------------
(* The trigger monitor.                                                    *)

\* The claim the tick holds is no tab's.
ClaimsApart == \A o \in Watched : Holds(o) => book[o] = "PENDING" /\ o \notin tabs

\* The task, and its walk: there is a current order during a dispatch.
TaskTyped ==
  /\ busy \in BOOLEAN /\ stopped \in BOOLEAN /\ step \in Waits
  /\ queue \in Seq(Watched) /\ (step \in Waits \ {"idle", "orders", "walk"} => queue # <<>>)
  /\ seen \subseteq Watched /\ outcome \in Outcomes
  /\ cooling \in [Watched -> 0 .. Cooldown] /\ elapsed \in 0 .. Cooldown

\* What the task shares.
BookTyped ==
  /\ book \in [Watched -> Statuses]
  /\ market \subseteq Watched /\ offers \subseteq Watched /\ left \subseteq Watched
  /\ tabs \subseteq {o \in Watched : book[o] = "PENDING"}
  /\ faults \in 0 .. Faults

MonitorTyped == TaskTyped /\ BookTyped /\ ClaimsApart

\* The end of a tick, the end of an order's turn, and another await of it.
LEMMA TurnsEnd ==
  ASSUME TaskTyped
  PROVE  /\ \A thrown : TickEnds(thrown) => TaskTyped' /\ step' = "idle"
         /\ queue # <<>> => Current \in Watched
         /\ queue # <<>> /\ NextOrder /\ (UNCHANGED cooling \/ Cool) => TaskTyped' /\ step' = "walk"
         /\ queue # <<>> => \A wait \in Waits : Goes(wait) => TaskTyped' /\ step' = wait /\ Current' = Current
         /\ queue # <<>> => \A ending \in Outcomes :
              ReleaseFor(ending) => TaskTyped' /\ step' = "release" /\ Current' = Current
<1>0. 0 \in 0 .. Cooldown /\ <<>> \in Seq(Watched)
  BY MonitorAssumption
<1>1. \A thrown : TickEnds(thrown) => TaskTyped' /\ step' = "idle"
  <2> SUFFICES ASSUME NEW thrown, TickEnds(thrown) PROVE TaskTyped' /\ step' = "idle"
    OBVIOUS
  <2>1. /\ step' = "idle" /\ queue' = <<>> /\ seen' = {} /\ outcome' = "none" /\ elapsed' = 0
        /\ busy' = FALSE /\ stopped' = stopped /\ cooling' = cooling
    BY DEF TickEnds
  <2>2. queue' \in Seq(Watched) /\ elapsed' \in 0 .. Cooldown
    BY <1>0, <2>1
  <2> QED BY <2>1, <2>2 DEF TaskTyped, Waits, Outcomes
<1>2. queue # <<>> => Current \in Watched /\ Tail(queue) \in Seq(Watched)
  BY DEF Current, TaskTyped
<1>3. Cool /\ queue # <<>> => cooling' \in [Watched -> 0 .. Cooldown]
  <2>1. Cooldown - elapsed \in 0 .. Cooldown
    BY MonitorAssumption DEF TaskTyped
  <2> QED BY <1>2, <2>1 DEF Cool, TaskTyped
<1>4. queue # <<>> /\ NextOrder /\ (UNCHANGED cooling \/ Cool) => TaskTyped' /\ step' = "walk"
  BY <1>0, <1>2, <1>3 DEF NextOrder, TaskTyped, Waits, Outcomes
<1>5. queue # <<>> => \A wait \in Waits : Goes(wait) => TaskTyped' /\ step' = wait /\ Current' = Current
  BY DEF Goes, TaskTyped, Current
<1>6. queue # <<>> => \A ending \in Outcomes :
              ReleaseFor(ending) => TaskTyped' /\ step' = "release" /\ Current' = Current
  BY DEF ReleaseFor, TaskTyped, Current, Waits
<1> QED BY <1>1, <1>2, <1>4, <1>5, <1>6

\* A failure more.
LEMMA FaultsTyped == ASSUME BookTyped, AllowsFault PROVE faults' \in 0 .. Faults
  BY MonitorAssumption DEF AllowsFault, BookTyped

\* The awaits of a tick.
LEMMA TickStepTyped ==
  ASSUME MonitorTyped, TickStep
  PROVE  MonitorTyped'
<1>a. TaskTyped /\ BookTyped /\ ClaimsApart
  BY DEF MonitorTyped
<1>b. step \in Waits \ {"idle", "orders", "walk"} => queue # <<>>
  BY <1>a DEF TaskTyped
<1>c. {"prices", "walk", "quote", "preflight", "claim", "order", "execute", "settle"} \subseteq Waits
      /\ {"quoteWaiting", "notAvailable", "preBroadcastFailed"} \subseteq Outcomes
  BY DEF Waits, Outcomes
<1>d. ASSUME TaskTyped', UNCHANGED <<book, market, tabs>>, offers' \subseteq Watched, left' \subseteq Watched,
             faults' \in 0 .. Faults, \A o \in Watched : Holds(o)' => Holds(o)
      PROVE  MonitorTyped'
  BY <1>a, <1>d DEF MonitorTyped, BookTyped, ClaimsApart
<1>e. ASSUME step' \in {"idle", "prices", "walk", "quote", "preflight", "claim"}
      PROVE  \A o \in Watched : ~ Holds(o)'
  BY <1>e DEF Holds
<1>1. CASE ReadOrders
  <2>0. UNCHANGED <<book, market, offers, tabs, left>> /\ offers \subseteq Watched /\ left \subseteq Watched
        /\ faults \in 0 .. Faults
    BY <1>1, <1>a DEF ReadOrders, BookTyped
  <2>1. ASSUME NEW q \in ByTicker({o \in Watched : book[o] = "OPEN"}), {o \in Watched : book[o] = "OPEN"} # {}
        PROVE  q \in Seq(Watched) /\ q # <<>>
    <3> DEFINE open == {o \in Watched : book[o] = "OPEN"}
    <3>0. q \in SetToSeqs(open) /\ open # {} /\ open \in SUBSET Watched
      BY <2>1 DEF ByTicker
    <3> HIDE DEF open
    <3>1. IsFiniteSet(open)
      BY <3>0, MonitorAssumption, FS_Subset
    <3>2. q \in Seq(open) /\ q # <<>>
      BY <3>0, <3>1, OrdersAreSeqs
    <3> QED BY <3>0, <3>2
  <2>2. CASE /\ {o \in Watched : book[o] = "OPEN"} # {}
             /\ queue' \in ByTicker({o \in Watched : book[o] = "OPEN"})
             /\ step' = "prices"
             /\ UNCHANGED <<busy, stopped, seen, cooling, elapsed, outcome, faults>>
    <3>1. TaskTyped'
      BY <1>a, <1>c, <2>1, <2>2 DEF TaskTyped
    <3> QED BY <1>d, <1>e, <2>0, <2>2, <3>1
  <2>3. CASE TickEnds(FALSE) /\ UNCHANGED faults
    BY <1>a, <1>d, <1>e, <2>0, <2>3, TurnsEnd
  <2>4. CASE Throws
    BY <1>a, <1>d, <1>e, <2>0, <2>4, TurnsEnd, FaultsTyped DEF Throws
  <2> QED BY <1>1, <2>2, <2>3, <2>4 DEF ReadOrders
<1>2. CASE ReadPrices
  <2>0. UNCHANGED <<book, market, offers, tabs, left>> /\ offers \subseteq Watched /\ left \subseteq Watched
        /\ faults \in 0 .. Faults /\ step = "prices"
    BY <1>2, <1>a DEF ReadPrices, BookTyped
  <2>1. CASE Throws
    BY <1>a, <1>d, <1>e, <2>0, <2>1, TurnsEnd, FaultsTyped DEF Throws
  <2>2. CASE ~ Throws
    <3>1. PICK missing \in {t \in SUBSET {TickerOf[o] : o \in Watched} : t # {} => faults < Faults} :
             /\ faults' = IF missing = {} THEN faults ELSE faults + 1
             /\ \E near \in {s \in SUBSET Watched : market \subseteq s} :
                  seen' = {o \in near : TickerOf[o] \notin missing}
      BY <1>2, <2>2 DEF ReadPrices
    <3>2. missing # {} => faults < Faults
      OBVIOUS
    <3>3. faults' \in 0 .. Faults
      BY <2>0, <3>1, <3>2, MonitorAssumption
    <3>4. seen' \subseteq Watched
      BY <3>1
    <3>5. step' = "walk" /\ UNCHANGED <<busy, stopped, queue, cooling, elapsed, outcome>>
      BY <1>2, <2>2 DEF ReadPrices
    <3>6. TaskTyped'
      BY <1>a, <1>c, <3>4, <3>5 DEF TaskTyped
    <3> QED BY <1>d, <1>e, <2>0, <3>3, <3>5, <3>6
  <2> QED BY <2>1, <2>2
<1>3. CASE Walk
  <2>0. UNCHANGED <<book, market, offers, tabs, left, faults>> /\ offers \subseteq Watched
        /\ left \subseteq Watched /\ faults \in 0 .. Faults
    BY <1>3, <1>a DEF Walk, BookTyped
  <2>1. TaskTyped' /\ step' \in {"idle", "quote", "walk"}
    BY <1>3, <1>a, <1>c, TurnsEnd DEF Walk
  <2> QED BY <1>d, <1>e, <2>0, <2>1
<1>4. CASE Quote
  <2>0. UNCHANGED <<book, market, tabs, left>> /\ offers \subseteq Watched
        /\ left \subseteq Watched /\ faults \in 0 .. Faults /\ queue # <<>>
    BY <1>4, <1>a, <1>b DEF Quote, BookTyped, Waits
  <2>1. faults' \in 0 .. Faults /\ offers' \subseteq Watched
    BY <1>4, <1>a, <2>0, TurnsEnd, FaultsTyped DEF Quote, Dispatch, EmitTriggerHit
  <2>2. TaskTyped' /\ step' \in {"walk", "preflight"}
    BY <1>4, <1>a, <1>c, <2>0, TurnsEnd DEF Quote, Dispatch
  <2> QED BY <1>d, <1>e, <2>0, <2>1, <2>2
<1>5. CASE Preflight
  <2>0. UNCHANGED <<book, market, tabs, left, faults>> /\ offers \subseteq Watched
        /\ left \subseteq Watched /\ faults \in 0 .. Faults /\ queue # <<>>
    BY <1>5, <1>a, <1>b DEF Preflight, BookTyped, Waits
  <2>1. offers' \subseteq Watched
    BY <1>5, <1>a, <2>0, TurnsEnd DEF Preflight, EmitTriggerHit
  <2>2. TaskTyped' /\ step' \in {"walk", "claim"}
    BY <1>5, <1>a, <1>c, <2>0, TurnsEnd DEF Preflight
  <2> QED BY <1>d, <1>e, <2>0, <2>1, <2>2
<1>6. CASE ClaimTrigger
  <2>0. /\ UNCHANGED <<market, offers, tabs>> /\ queue # <<>> /\ Current \in Watched
        /\ book' = book \/ (book[Current] = "OPEN" /\ book' = [book EXCEPT ![Current] = "PENDING"])
        /\ left' \subseteq Watched /\ faults' \in 0 .. Faults
    BY <1>6, <1>a, <1>b, TurnsEnd, FaultsTyped DEF ClaimTrigger, BookTyped, Waits, Throws
  <2>1. /\ TaskTyped'
        /\ \/ step' \in {"idle", "walk"}
           \/ step' = "order" /\ Current' = Current /\ book' = [book EXCEPT ![Current] = "PENDING"]
              /\ book[Current] = "OPEN"
    BY <1>6, <1>a, <1>c, <2>0, TurnsEnd DEF ClaimTrigger, Throws
  <2>2. BookTyped'
    BY <1>a, <2>0 DEF BookTyped, Statuses
  <2>3. ClaimsApart'
    BY <1>a, <2>0, <2>1 DEF ClaimsApart, Holds, BookTyped
  <2> QED BY <2>1, <2>2, <2>3 DEF MonitorTyped
<1>7. CASE RequestSwap
  <2>0. UNCHANGED <<book, market, offers, tabs, left, faults>> /\ offers \subseteq Watched
        /\ left \subseteq Watched /\ faults \in 0 .. Faults /\ queue # <<>> /\ step = "order"
    BY <1>7, <1>a, <1>b DEF RequestSwap, BookTyped, Waits
  <2>1. TaskTyped' /\ Current' = Current
    BY <1>7, <1>a, <1>c, <2>0, TurnsEnd DEF RequestSwap
  <2>2. \A o \in Watched : Holds(o)' => Holds(o)
    BY <2>0, <2>1 DEF Holds
  <2> QED BY <1>d, <2>0, <2>1, <2>2
<1>8. CASE ExecuteTrigger
  <2>0. UNCHANGED <<book, market, offers, tabs, faults>> /\ offers \subseteq Watched
        /\ left' \subseteq Watched /\ faults \in 0 .. Faults /\ queue # <<>> /\ step = "execute"
    BY <1>8, <1>a, <1>b, TurnsEnd DEF ExecuteTrigger, BookTyped, Waits, Abandons
  <2>1. TaskTyped' /\ (step' = "walk" \/ Current' = Current)
    BY <1>8, <1>a, <1>c, <2>0, TurnsEnd DEF ExecuteTrigger
  <2>2. \A o \in Watched : Holds(o)' => Holds(o)
    BY <2>0, <2>1 DEF Holds
  <2> QED BY <1>d, <2>0, <2>1, <2>2
<1>9. CASE SettleTrigger \/ ReleaseTrigger
  <2>0. /\ UNCHANGED <<market, tabs>> /\ queue # <<>> /\ Current \in Watched /\ Holds(Current)
        /\ book' = book \/ \E s \in {"OPEN", "FILLED"} : book' = [book EXCEPT ![Current] = s]
    BY <1>9, <1>a, <1>b, TurnsEnd DEF SettleTrigger, ReleaseTrigger, Waits, Holds
  <2>1. offers' \subseteq Watched /\ left' \subseteq Watched /\ faults' \in 0 .. Faults
    BY <1>9, <1>a, <2>0, FaultsTyped
       DEF SettleTrigger, ReleaseTrigger, Throws, Answered, EmitTriggerHit, Abandons, BookTyped
  <2>2. TaskTyped' /\ step' \in {"idle", "walk"}
    BY <1>9, <1>a, <1>c, <2>0, TurnsEnd DEF SettleTrigger, ReleaseTrigger, Throws, Answered
  <2>3. BookTyped'
    BY <1>a, <2>0, <2>1 DEF BookTyped, Statuses, ClaimsApart
  <2>4. ClaimsApart'
    BY <1>e, <2>2 DEF ClaimsApart
  <2> QED BY <2>2, <2>3, <2>4 DEF MonitorTyped
<1> QED BY <1>1, <1>2, <1>3, <1>4, <1>5, <1>6, <1>7, <1>8, <1>9 DEF TickStep

\* The types of the monitor.
LEMMA MonitorTypeHolds == MonitorInit /\ [][MonitorNext]_monitorVars => []MonitorTypeOK
<1>0. 0 \in 0 .. Cooldown /\ 0 \in 0 .. Faults /\ <<>> \in Seq(Watched)
  BY MonitorAssumption
<1>1. MonitorInit => MonitorTyped
  <2> SUFFICES ASSUME MonitorInit PROVE MonitorTyped
    OBVIOUS
  <2>1. queue \in Seq(Watched) /\ elapsed \in 0 .. Cooldown /\ faults \in 0 .. Faults
    BY <1>0 DEF MonitorInit
  <2>2. TaskTyped
    BY <1>0, <2>1 DEF MonitorInit, TaskTyped, Waits, Outcomes
  <2>3. BookTyped /\ ClaimsApart
    BY <2>1 DEF MonitorInit, BookTyped, ClaimsApart, Holds, Statuses
  <2> QED BY <2>2, <2>3 DEF MonitorTyped
<1>2. MonitorTyped /\ [MonitorNext]_monitorVars => MonitorTyped'
  <2> SUFFICES ASSUME MonitorTyped, [MonitorNext]_monitorVars PROVE MonitorTyped'
    OBVIOUS
  <2> USE DEF MonitorTyped, TaskTyped, BookTyped, ClaimsApart, Holds, Waits, Outcomes, Statuses
  <2>1. CASE TimerFires
    BY <2>1 DEF TimerFires
  <2>2. CASE TickStep
    BY <2>2, TickStepTyped
  <2>3. CASE StopAll
    BY <2>3 DEF StopAll, Current
  <2>4. CASE Restart
    <3>1. faults' \in 0 .. Faults
      BY <2>4, MonitorAssumption, FaultsTyped DEF Restart
    <3>2. /\ busy' = FALSE /\ stopped' = FALSE /\ step' = "idle" /\ queue' = <<>> /\ seen' = {}
          /\ outcome' = "none" /\ elapsed' = 0 /\ cooling' = [o \in Watched |-> 0]
      BY <2>4 DEF Restart
    <3>3. queue' \in Seq(Watched) /\ elapsed' \in 0 .. Cooldown /\ cooling' \in [Watched -> 0 .. Cooldown]
      BY <1>0, <3>2
    <3> QED BY <2>4, <3>1, <3>2, <3>3 DEF Restart, Abandons
  <2>5. CASE Elapse
    BY <2>5, MonitorAssumption DEF Elapse, Current
  <2>6. ASSUME NEW o \in Watched, CrossTrigger(o) PROVE MonitorTyped'
    BY <2>6 DEF CrossTrigger, taskVars, Current
  <2>7. ASSUME NEW o \in Watched, TabTakes(o) PROVE MonitorTyped'
    BY <2>7 DEF TabTakes, taskVars, Current
  <2>8. ASSUME NEW o \in Watched, TabEnds(o) PROVE MonitorTyped'
    <3>1. PICK status \in Statuses \ {"PENDING", "CANCELLED"} :
            \/ o \in tabs /\ tabs' = tabs \ {o} /\ book' = [book EXCEPT ![o] = status]
            \/ o \notin tabs /\ UNCHANGED <<book, tabs>>
      BY <2>8 DEF TabEnds
    <3>2. /\ UNCHANGED <<busy, stopped, step, queue, seen, cooling, elapsed, outcome, market, left, faults>>
          /\ offers' = offers \ {o}
      BY <2>8 DEF TabEnds, taskVars
    <3>3. TaskTyped'
      BY <3>2
    <3>4. BookTyped'
      BY <3>1, <3>2
    <3>5. ClaimsApart'
      BY <3>1, <3>2 DEF Current
    <3> QED BY <3>3, <3>4, <3>5
  <2>9. CASE UNCHANGED monitorVars
    BY <2>9 DEF monitorVars, taskVars, Current
  <2> QED
    BY <2>1, <2>2, <2>3, <2>4, <2>5, <2>6, <2>7, <2>8, <2>9 DEF MonitorNext
<1>3. MonitorTyped => MonitorTypeOK
  BY DEF MonitorTypeOK, MonitorTyped, TaskTyped, BookTyped
<1> QED BY <1>1, <1>2, <1>3, PTL

--------------------------------------------------------------------------------
(* The sales of a wallet.                                                  *)

\* Each page makes one sale, or none.
SalesTyped == SalesTypeOK /\ closing \in [Closers -> Sales \cup {NOTHING}]

\* A page moves its sale on.
LEMMA SaleMovesTyped ==
  ASSUME SalesTyped, NEW c \in Closers, NEW sale \in Sales \cup {NOTHING},
         closing' = [closing EXCEPT ![c] = sale],
         UNCHANGED <<home, listed, detail>>,
         tokens' \in 0 .. Total(Size, Holdings) + Dust, held' \subseteq Holdings,
         panicList' \in [Closers -> Seq(Holdings)], begun' \in 0 .. MaxSales,
         \A s \in sold' : s \in Sales
  PROVE  SalesTyped'
<1>1. closing' \in [Closers -> Sales \cup {NOTHING}]
  BY DEF SalesTyped
<1> QED BY <1>1 DEF SalesTyped, SalesTypeOK

\* A sale begins with nothing read.
LEMMA SaleBeginsTyped ==
  ASSUME SalesTyped, NEW c \in Closers, NEW p \in Holdings, NEW want \in Nat \cup {ALL},
         StartsSale(c, p, want), UNCHANGED <<home, tokens, held, listed, detail, sold>>,
         panicList' \in [Closers -> Seq(Holdings)]
  PROVE  SalesTyped'
<1> DEFINE sale == [position |-> p, want |-> want, step |-> "balance", raw |-> 0, asked |-> 0,
                    amount |-> 0, onChain |-> 0]
<1>1. sale \in Sales
  BY DEF Sales, SaleSteps, SELL_BALANCE_TOKEN_PROGRAM_IDS
<1>2. closing' = [closing EXCEPT ![c] = sale] /\ begun' \in 0 .. MaxSales
  BY SalesAssumption DEF StartsSale, SalesTyped, SalesTypeOK
<1> HIDE DEF sale
<1>3. /\ tokens' \in 0 .. Total(Size, Holdings) + Dust /\ held' \subseteq Holdings
      /\ \A s \in sold' : s \in Sales
  BY DEF SalesTyped, SalesTypeOK
<1> QED BY <1>1, <1>2, <1>3, SaleMovesTyped

\* The awaits of a sale.
LEMMA SaleStepTyped ==
  ASSUME SalesTyped, NEW c \in Closers,
         \/ ReadProgram(c) \/ PrepareAmount(c) \/ RequestOrder(c) \/ SignOrder(c)
         \/ ExecuteOrder(c) \/ PersistClose(c)
  PROVE  SalesTyped'
<1> DEFINE was == closing[c]
<1>1. was \in Sales /\ was # NOTHING
  BY DEF SalesTyped, ReadProgram, PrepareAmount, RequestOrder, SignOrder, ExecuteOrder, PersistClose
<1>2. /\ was.position \in Holdings /\ was.want \in Nat \cup {ALL} /\ was.raw \in Nat
      /\ was.asked \in 0 .. 2 /\ was.amount \in Nat /\ was.onChain \in Nat
  BY <1>1 DEF Sales, SELL_BALANCE_TOKEN_PROGRAM_IDS
<1>3. tokens \in Nat /\ Total(Size, Holdings) + Dust \in Nat
  <2>1. Total(Size, Holdings) \in Nat
    BY SalesAssumption, TotalIsNat
  <2> QED BY <2>1, SalesAssumption DEF SalesTyped, SalesTypeOK
<1>4. PICK sale \in Sales \cup {NOTHING} : closing' = [closing EXCEPT ![c] = sale]
  <2>1. CASE SaleEnds(c)
    BY <2>1 DEF SaleEnds
  <2>2. ASSUME NEW to \in SaleSteps, SaleGoes(c, to)
        PROVE  \E sale \in Sales \cup {NOTHING} : closing' = [closing EXCEPT ![c] = sale]
    <3>1. [was EXCEPT !.step = to] \in Sales
      BY <1>1 DEF Sales
    <3>2. closing' = [closing EXCEPT ![c] = [was EXCEPT !.step = to]]
      BY <2>2 DEF SaleGoes
    <3> QED BY <3>1, <3>2
  <2>3. CASE ReadProgram(c)
    <3>0. was.asked + 1 \in 0 .. 2
      BY <1>2, <2>3 DEF ReadProgram, SELL_BALANCE_TOKEN_PROGRAM_IDS
    <3>1. [was EXCEPT !.asked = was.asked + 1, !.raw = tokens, !.onChain = tokens] \in Sales
          /\ [was EXCEPT !.asked = was.asked + 1] \in Sales
      BY <1>1, <1>3, <3>0 DEF Sales, SELL_BALANCE_TOKEN_PROGRAM_IDS
    <3>2. \/ closing' = [closing EXCEPT ![c] = [was EXCEPT !.asked = was.asked + 1, !.raw = tokens, !.onChain = tokens]]
          \/ closing' = [closing EXCEPT ![c] = [was EXCEPT !.asked = was.asked + 1]]
      BY <2>3 DEF ReadProgram
    <3> QED BY <3>1, <3>2
  <2>4. CASE PrepareAmount(c) /\ ~ SaleEnds(c)
    <3>1. SellRaw(was.want, was.raw) \in Nat
      BY <1>2 DEF SellRaw
    <3>2. [was EXCEPT !.step = "order", !.amount = SellRaw(was.want, was.raw)] \in Sales
      BY <1>1, <3>1 DEF Sales, SaleSteps
    <3>3. closing' = [closing EXCEPT ![c] = [was EXCEPT !.step = "order", !.amount = SellRaw(was.want, was.raw)]]
      BY <2>4 DEF PrepareAmount
    <3> QED BY <3>2, <3>3
  <2> QED
    BY <2>1, <2>2, <2>3, <2>4
       DEF PrepareAmount, RequestOrder, SignOrder, ExecuteOrder, PersistClose, SaleSteps
<1>5. UNCHANGED <<home, listed, detail, panicList, begun>>
  BY DEF ReadProgram, PrepareAmount, RequestOrder, SignOrder, ExecuteOrder, PersistClose
<1>6. tokens' \in 0 .. Total(Size, Holdings) + Dust
  <2>1. tokens' = tokens \/ (was.amount <= tokens /\ tokens' = tokens - was.amount)
    BY DEF ReadProgram, PrepareAmount, RequestOrder, SignOrder, ExecuteOrder, PersistClose
  <2> QED BY <2>1, <1>2, <1>3 DEF SalesTyped, SalesTypeOK
<1>7. held' \subseteq Holdings /\ \A s \in sold' : s \in Sales
  BY <1>1 DEF ReadProgram, PrepareAmount, RequestOrder, SignOrder, ExecuteOrder, PersistClose,
     SalesTyped, SalesTypeOK
<1>8. panicList' \in [Closers -> Seq(Holdings)] /\ begun' \in 0 .. MaxSales
  BY <1>5 DEF SalesTyped, SalesTypeOK
<1> QED BY <1>4, <1>5, <1>6, <1>7, <1>8, SaleMovesTyped

\* The types of the sales.
LEMMA SalesTypeHolds == SalesSpec => []SalesTypeOK
<1>1. SalesInit => SalesTyped
  <2> SUFFICES ASSUME SalesInit PROVE SalesTyped
    OBVIOUS
  <2>1. Total(Size, Holdings) \in Nat
    BY SalesAssumption, TotalIsNat
  <2>2. tokens \in 0 .. Total(Size, Holdings) + Dust /\ begun \in 0 .. MaxSales
    BY <2>1, SalesAssumption DEF SalesInit
  <2>3. <<>> \in Seq(Holdings)
    OBVIOUS
  <2> QED BY <2>2, <2>3 DEF SalesInit, SalesTyped, SalesTypeOK
<1>2. SalesTyped /\ [SalesNext]_saleVars => SalesTyped'
  <2> SUFFICES ASSUME SalesTyped, [SalesNext]_saleVars PROVE SalesTyped'
    OBVIOUS
  <2>a. panicList \in [Closers -> Seq(Holdings)] /\ held \subseteq Holdings
        /\ \A c \in Closers : listed[c] \subseteq Holdings
    BY DEF SalesTyped, SalesTypeOK
  <2>1. ASSUME NEW c \in Closers, Refetch(c) PROVE SalesTyped'
    <3>1. listed' \in [Closers -> SUBSET Holdings] /\ detail' \in [Closers -> SUBSET Holdings]
      <4>1. listed \in [Closers -> SUBSET Holdings] /\ detail \in [Closers -> SUBSET Holdings]
        BY DEF SalesTyped, SalesTypeOK
      <4>2. CASE listed' = [listed EXCEPT ![c] = held] /\ UNCHANGED detail
        BY <2>a, <4>1, <4>2
      <4>3. ASSUME NEW p \in Holdings,
                   detail' = [detail EXCEPT ![c] = @ \cup {p}], UNCHANGED listed
            PROVE  listed' \in [Closers -> SUBSET Holdings] /\ detail' \in [Closers -> SUBSET Holdings]
        <5>1. detail[c] \cup {p} \in SUBSET Holdings
          BY <4>1
        <5> QED BY <4>1, <4>3, <5>1
      <4> QED BY <2>1, <4>2, <4>3 DEF Refetch
    <3>2. UNCHANGED <<home, tokens, held, closing, panicList, begun, sold>>
      BY <2>1 DEF Refetch
    <3> QED BY <3>1, <3>2 DEF SalesTyped, SalesTypeOK
  <2>2. ASSUME NEW c \in Closers, HandleAll(c) \/ HandleCloseAll(c) PROVE SalesTyped'
    <3>1. PICK S \in SUBSET Holdings : panicList' \in {[panicList EXCEPT ![c] = order] : order \in SetToSeqs(S)}
      BY <2>a, <2>2 DEF HandleAll, HandleCloseAll
    <3>2. PICK q \in SetToSeqs(S) : panicList' = [panicList EXCEPT ![c] = q]
      BY <3>1
    <3>3. IsFiniteSet(S)
      BY SalesAssumption, FS_Subset
    <3>4. q \in Seq(Holdings)
      BY <3>2, <3>3, OrdersAreSeqs
    <3>5. panicList' \in [Closers -> Seq(Holdings)]
      BY <2>a, <3>2, <3>4
    <3> QED BY <2>2, <3>5 DEF HandleAll, HandleCloseAll, SalesTyped, SalesTypeOK
  <2>3. ASSUME NEW c \in Closers, NextOfAll(c) PROVE SalesTyped'
    <3>1. Head(panicList[c]) \in Holdings /\ panicList' \in [Closers -> Seq(Holdings)]
      BY <2>a, <2>3 DEF NextOfAll
    <3>2. Size[Head(panicList[c])] \in Nat
      BY <3>1, SalesAssumption
    <3>3. CASE UNCHANGED <<closing, begun>>
      BY <2>3, <3>1, <3>3 DEF NextOfAll, SalesTyped, SalesTypeOK
    <3>4. CASE StartsSale(c, Head(panicList[c]), Size[Head(panicList[c])])
      BY <2>3, <3>1, <3>2, <3>4, SaleBeginsTyped DEF NextOfAll
    <3> QED BY <2>3, <3>3, <3>4 DEF NextOfAll
  <2>4. ASSUME NEW c \in Closers, NEW p \in Holdings, HandleClose(c, p) \/ HandleConfirmSell(c, p)
        PROVE  SalesTyped'
    <3>1. Size[p] \in Nat
      BY SalesAssumption
    <3>2. PICK want \in Nat \cup {ALL} : StartsSale(c, p, want)
      BY <2>4, <3>1 DEF HandleClose, HandleConfirmSell
    <3>3. UNCHANGED <<home, tokens, held, listed, detail, sold, panicList>>
      BY <2>4 DEF HandleClose, HandleConfirmSell
    <3> QED BY <2>a, <3>2, <3>3, SaleBeginsTyped
  <2>5. CASE UNCHANGED saleVars
    BY <2>5 DEF saleVars, pageState, SalesTyped, SalesTypeOK
  <2> QED BY <2>1, <2>2, <2>3, <2>4, <2>5, SaleStepTyped DEF SalesNext
<1>3. SalesTyped => SalesTypeOK
  BY DEF SalesTyped
<1> QED BY <1>1, <1>2, <1>3, PTL DEF SalesSpec

--------------------------------------------------------------------------------
(* The signal engine.                                                      *)

\* A tick that has begun has an asset to walk, and between the bars and the answer it
\* has the snapshot it analyses.
SignalTyped ==
  /\ SignalTypeOK
  /\ \A t \in Loops : at[t] # "idle" => todo[t] # <<>>
  /\ \A t \in Loops : at[t] \in {"bars", "llm", "answer"} => snap[t] \in Snapshots

\* The bar of a time began by then.
LEMMA BucketsAreTimes ==
  ASSUME NEW time \in 0 .. LastTime
  PROVE  barBucketUnix(time) \in 0 .. LastTime
<1>0. time \in Nat /\ time <= LastTime /\ LastTime \in Nat /\ BarClose \in Nat \ {0}
  BY SignalAssumption
<1> DEFINE q == time \div BarClose
<1>1. q \in Nat /\ BarClose * q <= time
  BY <1>0, QuotientBounds
<1> HIDE DEF q
<1>2. BarClose * q \in Nat
  BY <1>0, <1>1, ProductsAreNat
<1>3. q * BarClose = BarClose * q
  BY <1>0, <1>1
<1>4. q * BarClose \in 0 .. LastTime
  BY <1>0, <1>1, <1>2, <1>3
<1> QED BY <1>4 DEF barBucketUnix, q

\* The asset a tick is at, and those it has left.
LEMMA AssetIsOne ==
  ASSUME SignalTyped, NEW t \in Loops, at[t] # "idle"
  PROVE  /\ Asset(t) \in Assets /\ Tail(todo[t]) \in Seq(Assets)
         /\ Len(todo[t]) > 1 => Tail(todo[t]) # <<>>
<1>1. todo[t] \in Seq(Assets) /\ todo[t] # <<>>
  <2>1. todo \in [Loops -> Seq(Assets)]
    BY DEF SignalTyped, SignalTypeOK
  <2>2. todo[t] # <<>>
    BY DEF SignalTyped
  <2> QED BY <2>1, <2>2
<1> DEFINE q == todo[t]
<1>2. Asset(t) = Head(q)
  BY DEF Asset
<1> HIDE DEF q
<1>3. q \in Seq(Assets) /\ q # <<>>
  BY <1>1 DEF q
<1>4. Head(q) \in Assets /\ Tail(q) \in Seq(Assets) /\ (Len(q) > 1 => Len(Tail(q)) > 0)
  BY <1>3
<1>5. \A s \in Seq(Assets) : s = <<>> => ~ (Len(s) > 0)
  OBVIOUS
<1>6. Len(q) > 1 => Tail(q) # <<>>
  BY <1>4, <1>5
<1> QED BY <1>2, <1>4, <1>6 DEF q

\* What a tick has, after one of its steps.
TickTyped(t) ==
  /\ at[t] \in TickSteps
  /\ todo[t] \in Seq(Assets) /\ (at[t] # "idle" => todo[t] # <<>>)
  /\ snap[t] \in Snapshots \cup {NOTHING}
  /\ at[t] \in {"bars", "llm", "answer"} => snap[t] \in Snapshots
  /\ mandateOf[t] \in 0 .. LastMandate

\* A step of one tick.
LEMMA TickMovesTyped ==
  ASSUME SignalTyped, NEW t \in Loops,
         \E v : at' = [at EXCEPT ![t] = v], \E v : todo' = [todo EXCEPT ![t] = v],
         \E v : snap' = [snap EXCEPT ![t] = v], \E v : mandateOf' = [mandateOf EXCEPT ![t] = v],
         TickTyped(t)', UNCHANGED <<clock, quote, mandateVars>>,
         gate' \in [Assets -> Analyses \cup {NOTHING}], spendUsd' \in Nat, live' \subseteq LiveBuys
  PROVE  SignalTyped'
<1>1. /\ at' = [s \in Loops |-> IF s = t THEN at'[t] ELSE at[s]]
      /\ todo' = [s \in Loops |-> IF s = t THEN todo'[t] ELSE todo[s]]
      /\ snap' = [s \in Loops |-> IF s = t THEN snap'[t] ELSE snap[s]]
      /\ mandateOf' = [s \in Loops |-> IF s = t THEN mandateOf'[t] ELSE mandateOf[s]]
  BY DEF SignalTyped, SignalTypeOK
<1>2. /\ at' \in [Loops -> TickSteps]
      /\ todo' \in [Loops -> Seq(Assets)] /\ snap' \in [Loops -> Snapshots \cup {NOTHING}]
      /\ mandateOf' \in [Loops -> 0 .. LastMandate]
  BY <1>1 DEF SignalTyped, SignalTypeOK, TickTyped
<1>3. \A s \in Loops : at'[s] # "idle" => todo'[s] # <<>>
  BY <1>1 DEF SignalTyped, TickTyped
<1>4. \A s \in Loops : at'[s] \in {"bars", "llm", "answer"} => snap'[s] \in Snapshots
  BY <1>1 DEF SignalTyped, TickTyped
<1> QED BY <1>2, <1>3, <1>4 DEF SignalTyped, SignalTypeOK, mandateVars

\* The steps of a tick that has begun.
LEMMA TickNextTyped ==
  ASSUME SignalTyped, NEW t \in Loops, SignalStep(t)
  PROVE  SignalTyped'
<1>a. /\ at[t] # "idle" /\ Asset(t) \in Assets /\ todo[t] \in Seq(Assets) /\ todo[t] # <<>>
      /\ Tail(todo[t]) \in Seq(Assets) /\ (Len(todo[t]) > 1 => Tail(todo[t]) # <<>>)
  <2>1. at[t] # "idle"
    BY DEF SignalStep, FetchPrice, FetchBars, AskLlm, LlmAnswers, ReadMandate, ReadProposals,
           InsertProposal
  <2>2. todo \in [Loops -> Seq(Assets)] /\ todo[t] # <<>>
    BY <2>1 DEF SignalTyped, SignalTypeOK
  <2> QED BY <2>1, <2>2, AssetIsOne
<1>b. /\ at \in [Loops -> TickSteps]
      /\ todo \in [Loops -> Seq(Assets)] /\ snap \in [Loops -> Snapshots \cup {NOTHING}]
      /\ mandateOf \in [Loops -> 0 .. LastMandate]
      /\ at[t] \in {"bars", "llm", "answer"} => snap[t] \in Snapshots
  BY DEF SignalTyped, SignalTypeOK
<1>c. /\ clock \in 0 .. LastTime /\ quote \in [Assets -> Quotes] /\ spendUsd \in Nat
      /\ gate \in [Assets -> Analyses \cup {NOTHING}] /\ live \subseteq LiveBuys
      /\ mandate \in 0 .. LastMandate
  BY DEF SignalTyped, SignalTypeOK
<1> DEFINE Stepped ==
             /\ \E v : at' = [at EXCEPT ![t] = v]
             /\ \E v : todo' = [todo EXCEPT ![t] = v]
             /\ \E v : snap' = [snap EXCEPT ![t] = v]
             /\ \E v : mandateOf' = [mandateOf EXCEPT ![t] = v]
             /\ TickTyped(t)'
<1>d. todo = [todo EXCEPT ![t] = todo[t]] /\ snap = [snap EXCEPT ![t] = snap[t]]
      /\ mandateOf = [mandateOf EXCEPT ![t] = mandateOf[t]]
  BY <1>b
<1>1. ASSUME NextAsset(t) PROVE Stepped
  <2>1. /\ todo' = [todo EXCEPT ![t] = Tail(todo[t])] /\ snap' = [snap EXCEPT ![t] = NOTHING]
        /\ at' = [at EXCEPT ![t] = IF Len(todo[t]) > 1 THEN "asset" ELSE "idle"]
        /\ mandateOf' = mandateOf
    BY <1>1 DEF NextAsset
  <2>2. /\ at'[t] = (IF Len(todo[t]) > 1 THEN "asset" ELSE "idle") /\ todo'[t] = Tail(todo[t])
        /\ snap'[t] = NOTHING /\ mandateOf'[t] \in 0 .. LastMandate
    BY <1>b, <2>1
  <2>3. TickTyped(t)'
    BY <1>a, <2>2 DEF TickTyped, TickSteps
  <2> QED BY <1>d, <2>1, <2>3
<1>2. ASSUME NEW to \in {"llm", "answer", "match", "mandate", "insert"}, Await(t, to), UNCHANGED snap,
             to \in {"llm", "answer"} => at[t] \in {"bars", "llm", "answer"}
      PROVE  Stepped
  <2>1. at' = [at EXCEPT ![t] = to] /\ todo' = todo /\ mandateOf' = mandateOf /\ snap' = snap
    BY <1>2 DEF Await
  <2>2. at'[t] = to
    BY <1>b, <2>1
  <2>3. TickTyped(t)'
    BY <1>a, <1>b, <1>2, <2>1, <2>2 DEF TickTyped, TickSteps
  <2> QED BY <1>d, <2>1, <2>3
<1>3. ASSUME Analyzed(t), at[t] \in {"llm", "answer"}
      PROVE  Stepped /\ gate' \in [Assets -> Analyses \cup {NOTHING}]
  <2>1. Stepped
    BY <1>1, <1>2, <1>3 DEF Analyzed
  <2>2. snap[t].price \in Quotes /\ snap[t].time \in 0 .. LastTime
    BY <1>b, <1>3 DEF Snapshots
  <2>3. barBucketUnix(snap[t].time) \in 0 .. LastTime
    BY <2>2, BucketsAreTimes
  <2>4. Analysis(t) \in Analyses
    BY <1>c, <2>2, <2>3 DEF Analysis, Analyses
  <2>5. gate' = [gate EXCEPT ![Asset(t)] = Analysis(t)]
    BY <1>3 DEF Analyzed
  <2>6. gate' \in [Assets -> Analyses \cup {NOTHING}]
    BY <1>a, <1>c, <2>4, <2>5
  <2> QED BY <2>1, <2>6
<1>4. ASSUME Stepped, UNCHANGED <<clock, quote, mandateVars>>,
             gate' \in [Assets -> Analyses \cup {NOTHING}], spendUsd' \in Nat, live' \subseteq LiveBuys
      PROVE  SignalTyped'
  BY <1>4, TickMovesTyped
<1>5. CASE FetchPrice(t)
  <2>1. Stepped
    <3>1. CASE NextAsset(t)
      BY <1>1, <3>1
    <3>2. CASE ~ NextAsset(t)
      <4> DEFINE s == [price |-> quote[Asset(t)], time |-> clock]
      <4>1. s \in Snapshots
        BY <1>a, <1>c DEF Snapshots
      <4>2. snap' = [snap EXCEPT ![t] = s] /\ Await(t, "bars")
        BY <1>5, <3>2 DEF FetchPrice
      <4> HIDE DEF s
      <4>3. snap'[t] = s /\ at'[t] = "bars" /\ todo' = todo /\ mandateOf' = mandateOf
        BY <1>b, <4>2 DEF Await
      <4>4. TickTyped(t)'
        BY <1>a, <1>b, <4>1, <4>3 DEF TickTyped, TickSteps
      <4>5. at' = [at EXCEPT ![t] = "bars"]
        BY <4>2 DEF Await
      <4> QED BY <1>d, <4>2, <4>3, <4>4, <4>5
    <3> QED BY <3>1, <3>2
  <2> QED BY <1>4, <1>5, <1>c, <2>1 DEF FetchPrice
<1>6. CASE FetchBars(t)
  <2>1. Stepped
    BY <1>1, <1>2, <1>6 DEF FetchBars
  <2> QED BY <1>4, <1>6, <1>c, <2>1 DEF FetchBars
<1>7. CASE AskLlm(t)
  <2>1. Stepped /\ gate' \in [Assets -> Analyses \cup {NOTHING}]
    BY <1>2, <1>3, <1>7, <1>c DEF AskLlm
  <2> QED BY <1>4, <1>7, <1>c, <2>1 DEF AskLlm
<1>8. CASE LlmAnswers(t)
  <2>1. Stepped /\ gate' \in [Assets -> Analyses \cup {NOTHING}]
    BY <1>3, <1>8 DEF LlmAnswers
  <2>2. spendUsd' \in Nat
    BY <1>8, <1>c DEF LlmAnswers
  <2> QED BY <1>4, <1>8, <1>c, <2>1, <2>2 DEF LlmAnswers
<1>9. CASE ReadMandate(t)
  <2>1. PICK next \in {"proposals", "insert"} :
          /\ at' = [at EXCEPT ![t] = next] /\ mandateOf' = [mandateOf EXCEPT ![t] = mandate]
          /\ todo' = todo /\ snap' = snap
    BY <1>9 DEF ReadMandate
  <2>2. at'[t] = next /\ mandateOf'[t] = mandate
    BY <1>b, <2>1
  <2>3. TickTyped(t)'
    BY <1>a, <1>b, <1>c, <2>1, <2>2 DEF TickTyped, TickSteps
  <2>4. Stepped
    BY <1>d, <2>1, <2>3
  <2> QED BY <1>4, <1>9, <1>c, <2>4 DEF ReadMandate
<1>11. CASE ReadProposals(t)
  <2>1. Stepped
    BY <1>1, <1>2, <1>11 DEF ReadProposals
  <2> QED BY <1>4, <1>11, <1>c, <2>1 DEF ReadProposals
<1>10. CASE InsertProposal(t)
  <2> DEFINE buy == [asset |-> Asset(t), version |-> mandateOf[t], afterEdit |-> editing = 0]
  <2>1. (editing = 0) \in BOOLEAN
    OBVIOUS
  <2>2. buy \in LiveBuys
    BY <1>a, <1>b, <2>1 DEF LiveBuys
  <2>3. live' \in {live, live \cup {buy}}
    BY <1>10 DEF InsertProposal
  <2> HIDE DEF buy
  <2>4. live' \subseteq LiveBuys
    BY <1>c, <2>2, <2>3
  <2> QED BY <1>1, <1>4, <1>10, <1>c, <2>4 DEF InsertProposal
<1> QED BY <1>5, <1>6, <1>7, <1>8, <1>9, <1>10, <1>11 DEF SignalStep

\* The statements of an edit: the form writes a version, or its proposals.
LEMMA EditTyped ==
  ASSUME SignalTyped, NEW method \in {"PUT", "POST"}, EditMandate(method)
  PROVE  SignalTyped'
<1>a. /\ mandate \in 0 .. LastMandate /\ editing \in {0, 1} /\ live \subseteq LiveBuys
      /\ mandateForm \in {"closed", "asked", "blank", "filled"} /\ saved \in {"PUT", "POST", "FAILED"}
  BY DEF SignalTyped, SignalTypeOK
<1>1. /\ method = "PUT" => Len(StatementsOf(method)) = 2 /\ StatementsOf(method)[2] = "expire"
      /\ method = "POST" => Len(StatementsOf(method)) = 1
      /\ editing = 1 => method = "PUT"
      /\ editing = 0 => mandate < LastMandate
  BY DEF StatementsOf, EditStatements, EditMandate
<1>2. mandate' \in 0 .. LastMandate
  <2>1. mandate' = mandate \/ (editing = 0 /\ mandate' = mandate + 1)
    BY <1>a, <1>1 DEF EditMandate
  <2> QED BY <1>a, <1>1, <2>1, SignalAssumption
<1>3. live' \subseteq LiveBuys
  <2>1. \A x \in LiveBuys : [x EXCEPT !.afterEdit = FALSE] \in LiveBuys
    BY DEF LiveBuys
  <2> QED BY <1>a, <2>1 DEF EditMandate
<1>4. /\ editing' \in {0, 1} /\ saved' \in {"PUT", "POST", "FAILED"}
      /\ mandateForm' \in {"closed", "asked", "blank", "filled"}
  <2> DEFINE last == editing + 1 = Len(StatementsOf(method))
  <2>1. /\ last => editing' = 0 /\ saved' = method /\ mandateForm' = "closed"
        /\ ~ last => editing' = editing + 1 /\ saved' = "FAILED" /\ mandateForm' = mandateForm
    <3> USE DEF EditMandate
    <3>1. CASE last
      BY <3>1
    <3>2. CASE ~ last
      BY <3>2
    <3> QED BY <3>1, <3>2
  <2>2. ~ last => editing = 0
    <3> SUFFICES ASSUME editing = 1 PROVE last
      BY <1>a
    <3>1. Len(StatementsOf(method)) = 2
      BY <1>1
    <3> QED BY <3>1
  <2> HIDE DEF last
  <2> QED BY <1>a, <2>1, <2>2
<1>5. UNCHANGED <<clock, quote, gate, at, todo, snap, mandateOf, spendUsd>>
  BY DEF EditMandate, tickVars
<1> QED BY <1>2, <1>3, <1>4, <1>5 DEF SignalTyped, SignalTypeOK

\* The types of the signal engine.
LEMMA SignalTypeHolds == SignalSpec => []SignalTypeOK
<1>0. 0 \in 0 .. LastTime /\ 0 \in 0 .. LastMandate /\ <<>> \in Seq(Assets)
  BY SignalAssumption
<1>1. SignalInit => SignalTyped
  <2> SUFFICES ASSUME SignalInit PROVE SignalTyped
    OBVIOUS
  <2>1. /\ clock \in 0 .. LastTime /\ quote \in [Assets -> Quotes] /\ spendUsd \in Nat
        /\ gate \in [Assets -> Analyses \cup {NOTHING}] /\ live \subseteq LiveBuys
        /\ mandate \in 0 .. LastMandate /\ editing \in {0, 1}
        /\ mandateForm \in {"closed", "asked", "blank", "filled"} /\ saved \in {"PUT", "POST", "FAILED"}
    BY <1>0 DEF SignalInit
  <2>2. at = [t \in Loops |-> "idle"] /\ todo = [t \in Loops |-> <<>>]
        /\ snap = [t \in Loops |-> NOTHING] /\ mandateOf = [t \in Loops |-> 0]
    BY DEF SignalInit
  <2>3. /\ at \in [Loops -> TickSteps]
        /\ todo \in [Loops -> Seq(Assets)] /\ snap \in [Loops -> Snapshots \cup {NOTHING}]
        /\ mandateOf \in [Loops -> 0 .. LastMandate]
    BY <1>0, <2>2 DEF TickSteps
  <2>4. \A t \in Loops : at[t] = "idle"
    BY <2>2
  <2> QED BY <2>1, <2>3, <2>4 DEF SignalTyped, SignalTypeOK
<1>2. SignalTyped /\ [SignalNext]_signalVars => SignalTyped'
  <2> SUFFICES ASSUME SignalTyped, [SignalNext]_signalVars PROVE SignalTyped'
    OBVIOUS
  <2>1. ASSUME NEW t \in Loops, StartTick(t) PROVE SignalTyped'
    <3>1. SetToSeq(Assets) \in Seq(Assets) /\ SetToSeq(Assets) # <<>>
      BY SetToSeqIsSeq, SignalAssumption
    <3>2. /\ at \in [Loops -> TickSteps]
          /\ todo \in [Loops -> Seq(Assets)] /\ snap \in [Loops -> Snapshots \cup {NOTHING}]
          /\ mandateOf \in [Loops -> 0 .. LastMandate]
      BY DEF SignalTyped, SignalTypeOK
    <3>3. /\ at' = [at EXCEPT ![t] = "asset"] /\ todo' = [todo EXCEPT ![t] = SetToSeq(Assets)]
          /\ snap' = snap /\ mandateOf' = mandateOf
      BY <2>1 DEF StartTick
    <3>4. at'[t] = "asset" /\ todo'[t] = SetToSeq(Assets)
      BY <3>2, <3>3
    <3>5. TickTyped(t)'
      BY <3>1, <3>2, <3>3, <3>4 DEF TickTyped, TickSteps
    <3>6. snap' = [snap EXCEPT ![t] = snap[t]] /\ mandateOf' = [mandateOf EXCEPT ![t] = mandateOf[t]]
      BY <3>2, <3>3
    <3>7. /\ UNCHANGED <<clock, quote, mandateVars>> /\ spendUsd' \in Nat /\ live' \subseteq LiveBuys
          /\ gate' \in [Assets -> Analyses \cup {NOTHING}]
      BY <2>1 DEF StartTick, SignalTyped, SignalTypeOK
    <3> QED BY <3>3, <3>5, <3>6, <3>7, TickMovesTyped
  <2>2. ASSUME NEW x \in live, Leaves(x) PROVE SignalTyped'
    BY <2>2 DEF Leaves, tickVars, mandateVars, SignalTyped, SignalTypeOK
  <2>3. CASE Publish
    <3>1. clock' \in 0 .. LastTime /\ spendUsd' \in Nat /\ quote' \in [Assets -> Quotes]
      BY <1>0, <2>3, SignalAssumption DEF Publish, SignalTyped, SignalTypeOK
    <3> QED BY <2>3, <3>1 DEF Publish, tickVars, mandateVars, SignalTyped, SignalTypeOK
  <2>4. CASE OpenForm \/ FormAnswered \/ EditFails
    BY <2>4 DEF OpenForm, FormAnswered, EditFails, tickVars, SignalTyped, SignalTypeOK
  <2>5. CASE UNCHANGED signalVars
    BY <2>5 DEF signalVars, tickVars, mandateVars, SignalTyped, SignalTypeOK
  <2> QED
    BY <2>1, <2>2, <2>3, <2>4, <2>5, TickNextTyped, EditTyped DEF SignalNext
<1>3. SignalTyped => SignalTypeOK
  BY DEF SignalTyped
<1> QED BY <1>1, <1>2, <1>3, PTL DEF SignalSpec

--------------------------------------------------------------------------------
(* The position page and the Grill.                                        *)

\* The types of the page of a position.
LEMMA PageTypeHolds == PageSpec => []PageTypeOK
<1>1. PageInv => PageTypeOK
  <2> SUFFICES ASSUME PageInv PROVE PageTypeOK
    OBVIOUS
  <2>1. \A i \in DOMAIN exits : exits[i] \in ExitRows
    BY DEF PageInv, ExitsOK
  <2>2. ASSUME NEW t \in Tabs, page[t] # NOTHING
        PROVE  /\ page[t].view \in PageViews /\ page[t].draft \in PageDrafts
               /\ page[t].at \in Legs => page[t].body \in PageViews
               /\ page[t].at = "replacing" => page[t].body \in PageDrafts
    <3>1. PageOK(page[t])
      BY <2>2 DEF PageInv, PagesOK
    <3>2. page[t] \in Held
      BY <3>1 DEF PageOK
    <3>3. page[t].view \in PageViews /\ page[t].draft \in PageDrafts
      BY <3>2 DEF Held
    <3> QED BY <3>1, <3>3 DEF PageOK
  <2> QED BY <2>1, <2>2 DEF PageInv, PageTypeOK, ExitRows, PageViews, PageDrafts, RowStates, Typed
<1> QED BY <1>1, PageInvHolds, PTL

\* What the invariant leaves out of the types of a Grill.
GrillTyped == GrillInv /\ GrillTypeOK

\* A normal team is a team, an analysis of one a result.
LEMMA NormalTeamsAreTeams ==
  /\ NormalTeams \subseteq Teams
  /\ \A count \in 0 .. MaxAnalyses : \A r : IsAnalysis(r, count) => r \in Results
<1>1. ASSUME NEW team \in NormalTeams PROVE team \in Teams
  <2>1. team \in [1 .. Len(team) -> Analysts] /\ Len(team) \in 1 .. MaxTeam
    BY DEF NormalTeams
  <2> QED BY <2>1 DEF Teams
<1>2. ASSUME NEW count \in 0 .. MaxAnalyses, NEW r, IsAnalysis(r, count) PROVE r \in Results
  <2>1. count \in Nat /\ 1 .. count \subseteq 1 .. MaxAnalyses
    BY GrillAssumption
  <2>2. r \in [idea : Ideas, opinions : NormalTeams, number : 1 .. count]
    BY <1>2 DEF IsAnalysis
  <2> QED BY <1>1, <2>1, <2>2 DEF Results
<1> QED BY <1>1, <1>2

\* What the pages know keeps its types when a page is opened, asks or is answered.
LEMMA GrillPagesTyped ==
  ASSUME GrillTyped, GrillInv', NEW p \in Pages,
         \/ OpenGrill(p)
         \/ \E idea \in Ideas : RunAnalysis(p, idea)
         \/ CreateProposal(p)
         \/ Answer(p)
  PROVE  GrillTypeOK'
<1> USE DEF GrillTyped
<1>1. storedTeam' \in Teams \cup {NOTHING} /\ selectedIds' \in [Pages -> Teams]
  BY NormalTeamsAreTeams DEF GrillInv, PagesTyped
<1>2. grillBusy' \in [Pages -> {NOTHING, "analysis", "proposal"}]
  BY DEF GrillInv, PagesTyped
<1>3. /\ grillAsked' \in [Pages -> Keys \cup {NOTHING}]
      /\ \A q \in Pages : grillBusy'[q] = NOTHING => grillAsked'[q] = NOTHING
  <2>1. CASE OpenGrill(p) \/ Answer(p)
    BY <2>1 DEF OpenGrill, Answer, GrillTypeOK
  <2>2. ASSUME NEW idea \in Ideas, RunAnalysis(p, idea)
        PROVE  /\ grillAsked' \in [Pages -> Keys \cup {NOTHING}]
               /\ \A q \in Pages : grillBusy'[q] = NOTHING => grillAsked'[q] = NOTHING
    <3>1. <<idea, selectedIds[p]>> \in Keys
      BY DEF Keys, GrillTypeOK
    <3> QED BY <2>2, <3>1, GrillAssumption DEF RunAnalysis, GrillTypeOK
  <2>3. CASE CreateProposal(p)
    <3>1. buildGrillProposalRequest(p) \in Keys
      BY <2>3 DEF CreateProposal, buildGrillProposalRequest, GrillTypeOK, Results, Keys
    <3> QED BY <2>3, <3>1, GrillAssumption DEF CreateProposal, GrillTypeOK
  <2> QED BY <2>1, <2>2, <2>3
<1>4. shown' \in [Pages -> Results \cup {NOTHING}]
  BY DEF OpenGrill, RunAnalysis, CreateProposal, Answer, GrillTypeOK
<1>5. answered' \in [Pages -> Results \cup {NOTHING, FAILED, CREATED}]
  BY DEF OpenGrill, RunAnalysis, CreateProposal, Answer, GrillTypeOK
<1>6. UNCHANGED <<drafts, draftTime, buying, analyses, bought, gone>>
  BY DEF OpenGrill, RunAnalysis, CreateProposal, Answer
<1> QED BY <1>1, <1>2, <1>3, <1>4, <1>5, <1>6 DEF GrillTypeOK

\* The route of the analyses, and of the proposals drafted of them.
LEMMA GrillRoutesTyped ==
  ASSUME GrillTyped, GrillInv', NEW p \in Pages, AnalyzeRoute(p) \/ ConsumeRoute(p) \/ BuyRoute(p)
  PROVE  GrillTypeOK'
<1> USE DEF GrillTyped
<1>1. /\ UNCHANGED <<storedTeam, selectedIds, grillBusy, grillAsked, shown, draftTime>>
  BY DEF AnalyzeRoute, ConsumeRoute, BuyRoute
<1>2. CASE AnalyzeRoute(p)
  <2> DEFINE key == grillAsked[p]
             drafted == [idea |-> key[1], opinions |-> selectAiAnalysts(key[2]), number |-> analyses + 1]
  <2>1. UNCHANGED <<buying, bought>>
    BY <1>2 DEF AnalyzeRoute
  <2>2. CASE UNCHANGED <<analyses, drafts, gone>> /\ answered' = [answered EXCEPT ![p] = FAILED]
    BY <1>1, <2>1, <2>2 DEF GrillTypeOK
  <2>3. CASE /\ analyses < MaxAnalyses /\ analyses' = analyses + 1
             /\ drafts' = [k \in DOMAIN drafts \cup {key} |->
                   IF k = key THEN [analysis |-> drafted, expires |-> draftTime + DraftLife]
                   ELSE drafts[k]]
             /\ gone' = gone \cup At(key)
             /\ answered' = [answered EXCEPT ![p] = drafted]
    <3>1. key \in Ideas \X NormalTeams
      BY <1>2, GrillAssumption DEF AnalyzeRoute, GrillInv, PagesTyped
    <3>2. analyses' \in 0 .. MaxAnalyses /\ analyses + 1 \in 1 .. MaxAnalyses
      BY <2>3, GrillAssumption DEF GrillTypeOK
    <3>3. key \in Keys /\ drafted \in Results
      BY <3>1, <3>2, NormalTeamIsKept, NormalTeamsAreTeams DEF Keys, Results
    <3>4. draftTime + DraftLife \in Nat
      BY GrillAssumption DEF GrillTypeOK
    <3>5. At(key) \subseteq 1 .. MaxAnalyses
      BY DEF At, GrillTypeOK, Results
    <3> HIDE DEF key, drafted
    <3>6. /\ DOMAIN drafts' \subseteq Keys
          /\ \A k \in DOMAIN drafts' : drafts'[k] \in [analysis : Results, expires : Nat]
      BY <2>3, <3>3, <3>4 DEF GrillTypeOK
    <3>7. answered' \in [Pages -> Results \cup {NOTHING, FAILED, CREATED}]
      BY <2>3, <3>3 DEF GrillTypeOK
    <3> QED BY <1>1, <2>1, <2>3, <3>2, <3>5, <3>6, <3>7 DEF GrillTypeOK
  <2> QED BY <1>2, <2>2, <2>3 DEF AnalyzeRoute
<1>3. CASE ConsumeRoute(p)
  <2> DEFINE key == grillAsked[p]
  <2>1. /\ UNCHANGED <<analyses, bought>>
        /\ drafts' = Without(key) /\ gone' = gone \cup At(key)
        /\ answered' = answered \/ answered' = [answered EXCEPT ![p] = FAILED]
        /\ \/ buying' = buying
           \/ key \in DOMAIN drafts /\ buying' = [buying EXCEPT ![p] = drafts[key].analysis]
    BY <1>3 DEF ConsumeRoute, ConsumeDraft
  <2> HIDE DEF key
  <2>2. At(key) \subseteq 1 .. MaxAnalyses
    BY DEF At, GrillTypeOK, Results
  <2>3. /\ DOMAIN drafts' \subseteq Keys
        /\ \A k \in DOMAIN drafts' : drafts'[k] \in [analysis : Results, expires : Nat]
    BY <2>1 DEF Without, GrillTypeOK
  <2>4. buying' \in [Pages -> Results \cup {NOTHING}]
    BY <2>1 DEF GrillTypeOK
  <2>5. answered' \in [Pages -> Results \cup {NOTHING, FAILED, CREATED}]
    BY <2>1 DEF GrillTypeOK
  <2> QED BY <1>1, <2>1, <2>2, <2>3, <2>4, <2>5 DEF GrillTypeOK
<1>4. CASE BuyRoute(p)
  <2>1. /\ UNCHANGED <<drafts, analyses, gone>>
        /\ buying[p] # NOTHING /\ buying' = [buying EXCEPT ![p] = NOTHING]
        /\ bought' = bought \/ bought' = Append(bought, buying[p].number)
        /\ \E next \in {answered[p], CREATED, FAILED} : answered' = [answered EXCEPT ![p] = next]
    BY <1>4 DEF BuyRoute
  <2>2. buying[p].number \in 1 .. MaxAnalyses /\ bought' \in Seq(1 .. MaxAnalyses)
    <3>1. bought \in Seq(1 .. MaxAnalyses) /\ buying[p] \in Results
      BY <2>1 DEF GrillTypeOK
    <3>2. buying[p].number \in 1 .. MaxAnalyses
      BY <3>1 DEF Results
    <3>3. \A n \in 1 .. MaxAnalyses : Append(bought, n) \in Seq(1 .. MaxAnalyses)
      BY <3>1
    <3> QED BY <2>1, <3>1, <3>2, <3>3
  <2>3. answered' \in [Pages -> Results \cup {NOTHING, FAILED, CREATED}]
    BY <2>1 DEF GrillTypeOK
  <2> QED BY <1>1, <2>1, <2>2, <2>3 DEF GrillTypeOK
<1> QED BY <1>2, <1>3, <1>4

\* The types of a Grill.
LEMMA GrillTypeHolds == GrillSpec => []GrillTypeOK
<1>1. GrillInit => GrillTypeOK
  <2> SUFFICES ASSUME GrillInit PROVE GrillTypeOK
    OBVIOUS
  <2>1. DefaultTeam \in Teams /\ 0 \in 0 .. LastDraftTime /\ 0 \in 0 .. MaxAnalyses
        /\ <<>> \in Seq(1 .. MaxAnalyses)
    BY GrillAssumption
  <2>2. drafts = <<>> /\ DOMAIN drafts = {}
    BY DEF GrillInit
  <2> QED BY <2>1, <2>2 DEF GrillInit, GrillTypeOK
<1>2. GrillInit => GrillInv
  BY GrillStartsRight
<1>3. GrillTyped /\ [GrillNext]_grillVars => GrillTyped'
  <2> SUFFICES ASSUME GrillTyped, [GrillNext]_grillVars PROVE GrillTypeOK'
    BY GrillStepKeeps DEF GrillTyped
  <2>1. GrillInv'
    BY GrillStepKeeps DEF GrillTyped
  <2>2. CASE UNCHANGED grillVars
    BY <2>2 DEF GrillTyped, grillVars, pageVars, GrillTypeOK
  <2>3. CASE EditTeam
    BY <2>1, <2>3, NormalTeamsAreTeams DEF EditTeam, pageVars, GrillTyped, GrillTypeOK, GrillInv, PagesTyped
  <2>a. \A k \in DOMAIN drafts : drafts[k].analysis.number \in 1 .. MaxAnalyses
    BY DEF GrillTyped, GrillTypeOK, Results
  <2>b. gone \subseteq 1 .. MaxAnalyses
    BY DEF GrillTyped, GrillTypeOK
  <2>4. CASE DraftTimePasses
    <3>1. draftTime' \in 0 .. LastDraftTime
      BY <2>4, GrillAssumption DEF DraftTimePasses, GrillTyped, GrillTypeOK
    <3>2. gone' \subseteq 1 .. MaxAnalyses
      BY <2>4, <2>a, <2>b DEF DraftTimePasses
    <3> QED BY <2>4, <3>1, <3>2 DEF DraftTimePasses, pageVars, GrillTyped, GrillTypeOK
  <2>5. CASE ReplaceWeb
    <3>1. gone' \subseteq 1 .. MaxAnalyses
      BY <2>5, <2>a, <2>b DEF ReplaceWeb
    <3>2. drafts' = <<>> /\ DOMAIN drafts' = {}
      BY <2>5 DEF ReplaceWeb
    <3>3. /\ buying' \in [Pages -> Results \cup {NOTHING}]
          /\ answered' \in [Pages -> Results \cup {NOTHING, FAILED, CREATED}]
      BY <2>5 DEF ReplaceWeb, GrillTyped, GrillTypeOK
    <3> QED BY <2>5, <3>1, <3>2, <3>3 DEF ReplaceWeb, GrillTyped, GrillTypeOK
  <2> QED
    BY <2>1, <2>2, <2>3, <2>4, <2>5, GrillPagesTyped, GrillRoutesTyped DEF GrillNext
<1>4. GrillTyped => GrillTypeOK
  BY DEF GrillTyped
<1>5. GrillInit => GrillTyped
  BY <1>1, <1>2 DEF GrillTyped
<1> QED BY <1>3, <1>4, <1>5, PTL DEF GrillSpec

--------------------------------------------------------------------------------
(* The calendars.                                                          *)

\* The eight trigrams are the triples of lines, each once.
LEMMA TrigramsAre ==
  /\ \A i \in 1 .. 8 : \E x, y, z \in {0, 1} : MEIHUA_LINES[i] = <<x, y, z>>
  /\ \A x, y, z \in {0, 1} : \E i \in 1 .. 8 : MEIHUA_LINES[i] = <<x, y, z>>
  /\ \A i, j \in 1 .. 8 : MEIHUA_LINES[i] = MEIHUA_LINES[j] => i = j
<1>1. /\ MEIHUA_LINES[1] = <<1, 1, 1>> /\ MEIHUA_LINES[2] = <<1, 1, 0>>
      /\ MEIHUA_LINES[3] = <<1, 0, 1>> /\ MEIHUA_LINES[4] = <<1, 0, 0>>
      /\ MEIHUA_LINES[5] = <<0, 1, 1>> /\ MEIHUA_LINES[6] = <<0, 1, 0>>
      /\ MEIHUA_LINES[7] = <<0, 0, 1>> /\ MEIHUA_LINES[8] = <<0, 0, 0>>
  BY DEF MEIHUA_LINES
<1>2. ASSUME NEW i \in 1 .. 8 PROVE \E x, y, z \in {0, 1} : MEIHUA_LINES[i] = <<x, y, z>>
  <2>1. i \in {1, 2, 3, 4, 5, 6, 7, 8}
    OBVIOUS
  <2> QED BY <1>1, <2>1
<1>3. \A x, y, z \in {0, 1} : \E i \in 1 .. 8 : MEIHUA_LINES[i] = <<x, y, z>>
  BY <1>1
<1>4. ASSUME NEW i \in 1 .. 8, NEW j \in 1 .. 8, MEIHUA_LINES[i] = MEIHUA_LINES[j] PROVE i = j
  <2>1. i \in {1, 2, 3, 4, 5, 6, 7, 8} /\ j \in {1, 2, 3, 4, 5, 6, 7, 8}
    OBVIOUS
  <2>2. \A k \in 1 .. 3 : MEIHUA_LINES[i][k] = MEIHUA_LINES[j][k]
    BY <1>4
  <2> QED BY <1>1, <2>1, <2>2
<1> QED BY <1>2, <1>3, <1>4, Zenon

\* No hexagram stands twice in a row or in a column of the table of King Wen.
LEMMA HexagramsDiffer ==
  ASSUME NEW a \in 1 .. 8, NEW b \in 1 .. 8, NEW c \in 1 .. 8, b # c
  PROVE  /\ MEIHUA_KING_WEN[a][b] # MEIHUA_KING_WEN[a][c]
         /\ MEIHUA_KING_WEN[b][a] # MEIHUA_KING_WEN[c][a]
<1>1. /\ MEIHUA_KING_WEN[1] = <<1, 43, 14, 34, 9, 5, 26, 11>>
      /\ MEIHUA_KING_WEN[2] = <<10, 58, 38, 54, 61, 60, 41, 19>>
      /\ MEIHUA_KING_WEN[3] = <<13, 49, 30, 21, 37, 63, 22, 36>>
      /\ MEIHUA_KING_WEN[4] = <<25, 17, 55, 51, 42, 3, 27, 24>>
      /\ MEIHUA_KING_WEN[5] = <<44, 28, 50, 32, 57, 48, 18, 46>>
      /\ MEIHUA_KING_WEN[6] = <<6, 47, 64, 40, 59, 29, 4, 7>>
      /\ MEIHUA_KING_WEN[7] = <<33, 31, 56, 62, 53, 39, 52, 15>>
      /\ MEIHUA_KING_WEN[8] = <<12, 45, 35, 16, 20, 8, 23, 2>>
  BY DEF MEIHUA_KING_WEN
<1>2. /\ a \in {1, 2, 3, 4, 5, 6, 7, 8} /\ b \in {1, 2, 3, 4, 5, 6, 7, 8}
      /\ c \in {1, 2, 3, 4, 5, 6, 7, 8}
  OBVIOUS
<1>3. CASE a = 1
  BY <1>1, <1>2, <1>3
<1>4. CASE a = 2
  BY <1>1, <1>2, <1>4
<1>5. CASE a = 3
  BY <1>1, <1>2, <1>5
<1>6. CASE a = 4
  BY <1>1, <1>2, <1>6
<1>7. CASE a = 5
  BY <1>1, <1>2, <1>7
<1>8. CASE a = 6
  BY <1>1, <1>2, <1>8
<1>9. CASE a = 7
  BY <1>1, <1>2, <1>9
<1>10. CASE a = 8
  BY <1>1, <1>2, <1>10
<1> QED BY <1>2, <1>3, <1>4, <1>5, <1>6, <1>7, <1>8, <1>9, <1>10

\* Two triples in one list, and the two halves of a list of six.
LEMMA TriplesJoined ==
  \A a1, a2, a3, b1, b2, b3 \in {0, 1} :
    <<a1, a2, a3>> \o <<b1, b2, b3>> = <<a1, a2, a3, b1, b2, b3>>
<1> TAKE a1, a2, a3, b1, b2, b3 \in {0, 1}
<1> DEFINE j == <<a1, a2, a3>> \o <<b1, b2, b3>>
           six == <<a1, a2, a3, b1, b2, b3>>
<1>1. <<a1, a2, a3>> \in Seq({0, 1}) /\ <<b1, b2, b3>> \in Seq({0, 1}) /\ six \in Seq({0, 1}) /\ Len(six) = 6
  OBVIOUS
<1>2. j \in Seq({0, 1}) /\ Len(j) = 6
  BY <1>1
<1>3. j[1] = a1 /\ j[2] = a2 /\ j[3] = a3 /\ j[4] = b1 /\ j[5] = b2 /\ j[6] = b3
  BY <1>1
<1> HIDE DEF j
<1>4. \A i \in 1 .. 6 : j[i] = six[i]
  BY <1>3
<1> HIDE DEF six
<1>5. j = six
  BY <1>1, <1>2, <1>4, SeqEqual
<1> QED BY <1>5 DEF j, six

LEMMA HalvesOfSix ==
  ASSUME NEW S, NEW s \in Seq(S), Len(s) = 6
  PROVE  SubSeq(s, 1, 3) = <<s[1], s[2], s[3]>> /\ SubSeq(s, 4, 6) = <<s[4], s[5], s[6]>>
<1> DEFINE a == SubSeq(s, 1, 3)
           b == SubSeq(s, 4, 6)
<1>1. \A i \in 1 .. 6 : s[i] \in S
  BY ElementOfSeq
<1>2. a \in Seq(S) /\ Len(a) = 3 /\ \A i \in 1 .. 3 : a[i] = s[i]
  <2>1. \A i \in 1 .. 3 : s[i] \in S
    BY <1>1
  <2> QED BY <2>1, SubSeqProperties
<1>3. b \in Seq(S) /\ Len(b) = 3 /\ \A i \in 1 .. 3 : b[i] = s[i + 3]
  <2>1. \A i \in 4 .. 6 : s[i] \in S
    BY <1>1
  <2> QED BY <2>1, SubSeqProperties
<1> HIDE DEF a, b
<1>4. ASSUME NEW t \in Seq(S), Len(t) = 3
      PROVE  t = <<t[1], t[2], t[3]>>
  <2>1. \A i \in 1 .. 3 : t[i] \in S
    BY <1>4, ElementOfSeq
  <2>2. t[1] \in S /\ t[2] \in S /\ t[3] \in S
    BY <2>1
  <2>3. <<t[1], t[2], t[3]>> \in Seq(S) /\ Len(<<t[1], t[2], t[3]>>) = 3
    BY <2>2
  <2>4. \A i \in 1 .. 3 : t[i] = <<t[1], t[2], t[3]>>[i]
    OBVIOUS
  <2> QED BY <1>4, <2>3, <2>4, SeqEqual
<1>5. a = <<a[1], a[2], a[3]>> /\ b = <<b[1], b[2], b[3]>>
  BY <1>2, <1>3, <1>4
<1>6. a[1] = s[1] /\ a[2] = s[2] /\ a[3] = s[3] /\ b[1] = s[4] /\ b[2] = s[5] /\ b[3] = s[6]
  BY <1>2, <1>3
<1>7. a = <<s[1], s[2], s[3]>> /\ b = <<s[4], s[5], s[6]>>
  BY <1>5, <1>6
<1> QED BY <1>7 DEF a, b

\* Turning one line of a hexagram turns one of its trigrams into another and leaves the other.
LEMMA LineMoves ==
  ASSUME NEW lower \in 1 .. 8, NEW upper \in 1 .. 8, NEW moving \in 1 .. 6
  PROVE  LET turned == [MEIHUA_LINES[lower] \o MEIHUA_LINES[upper] EXCEPT ![moving] = 1 - @]
             trigramOf(three) == CHOOSE i \in 1 .. 8 : MEIHUA_LINES[i] = three
             first  == trigramOf(SubSeq(turned, 1, 3))
             second == trigramOf(SubSeq(turned, 4, 6))
         IN  /\ first \in 1 .. 8 /\ second \in 1 .. 8
             /\ \/ first # lower /\ second = upper
                \/ first = lower /\ second # upper
<1>1. PICK a1, a2, a3 \in {0, 1} : MEIHUA_LINES[lower] = <<a1, a2, a3>>
  BY TrigramsAre
<1>2. PICK b1, b2, b3 \in {0, 1} : MEIHUA_LINES[upper] = <<b1, b2, b3>>
  BY TrigramsAre
<1> DEFINE turned == [MEIHUA_LINES[lower] \o MEIHUA_LINES[upper] EXCEPT ![moving] = 1 - @]
           three == SubSeq(turned, 1, 3)
           rest == SubSeq(turned, 4, 6)
<1>3. turned = [<<a1, a2, a3, b1, b2, b3>> EXCEPT ![moving] = 1 - @]
  <2>1. MEIHUA_LINES[lower] \o MEIHUA_LINES[upper] = <<a1, a2, a3, b1, b2, b3>>
    <3>1. <<a1, a2, a3>> \o <<b1, b2, b3>> = <<a1, a2, a3, b1, b2, b3>>
      BY TriplesJoined
    <3> QED BY <1>1, <1>2, <3>1
  <2> QED BY <2>1
<1> HIDE DEF turned
<1> DEFINE Turn(line, n) == IF moving = n THEN 1 - line ELSE line
           c1 == Turn(a1, 1)
           c2 == Turn(a2, 2)
           c3 == Turn(a3, 3)
           d1 == Turn(b1, 4)
           d2 == Turn(b2, 5)
           d3 == Turn(b3, 6)
<1>4. /\ turned = <<c1, c2, c3, d1, d2, d3>>
      /\ c1 \in {0, 1} /\ c2 \in {0, 1} /\ c3 \in {0, 1} /\ d1 \in {0, 1} /\ d2 \in {0, 1} /\ d3 \in {0, 1}
  BY <1>3
<1>a. /\ moving \in 1 .. 3 => <<c1, c2, c3>> # <<a1, a2, a3>> /\ d1 = b1 /\ d2 = b2 /\ d3 = b3
      /\ moving \in 4 .. 6 => <<d1, d2, d3>> # <<b1, b2, b3>> /\ c1 = a1 /\ c2 = a2 /\ c3 = a3
  <2>1. \A line \in {0, 1} : 1 - line # line
    OBVIOUS
  <2>2. moving \in 1 .. 3 => moving \in {1, 2, 3}
    OBVIOUS
  <2>3. moving \in 4 .. 6 => moving \in {4, 5, 6}
    OBVIOUS
  <2> QED BY <2>1, <2>2, <2>3
<1> HIDE DEF Turn, c1, c2, c3, d1, d2, d3
<1>5. three = <<c1, c2, c3>> /\ rest = <<d1, d2, d3>>
  <2>1. turned \in Seq({0, 1}) /\ Len(turned) = 6
    BY <1>4
  <2>2. /\ turned[1] = c1 /\ turned[2] = c2 /\ turned[3] = c3
        /\ turned[4] = d1 /\ turned[5] = d2 /\ turned[6] = d3
    BY <1>4
  <2>3. SubSeq(turned, 1, 3) = <<turned[1], turned[2], turned[3]>>
    BY <2>1, HalvesOfSix
  <2>4. SubSeq(turned, 4, 6) = <<turned[4], turned[5], turned[6]>>
    BY <2>1, HalvesOfSix
  <2> QED BY <2>2, <2>3, <2>4
<1> HIDE DEF three, rest
<1>6. PICK i \in 1 .. 8 : MEIHUA_LINES[i] = three
  BY <1>4, <1>5, TrigramsAre
<1>7. PICK j \in 1 .. 8 : MEIHUA_LINES[j] = rest
  BY <1>4, <1>5, TrigramsAre
<1>8. /\ (CHOOSE x \in 1 .. 8 : MEIHUA_LINES[x] = three) = i
      /\ (CHOOSE x \in 1 .. 8 : MEIHUA_LINES[x] = rest) = j
  BY <1>6, <1>7, TrigramsAre
<1>b. \A x, y \in 1 .. 8 : MEIHUA_LINES[x] = MEIHUA_LINES[y] => x = y
  BY TrigramsAre
<1>9. (i # lower /\ j = upper) \/ (i = lower /\ j # upper)
  <2>1. CASE moving \in 1 .. 3
    <3>1. three # MEIHUA_LINES[lower] /\ rest = MEIHUA_LINES[upper]
      BY <1>1, <1>2, <1>5, <1>a, <2>1
    <3> QED BY <1>6, <1>7, <1>b, <3>1
  <2>2. CASE moving \in 4 .. 6
    <3>1. three = MEIHUA_LINES[lower] /\ rest # MEIHUA_LINES[upper]
      BY <1>1, <1>2, <1>5, <1>a, <2>2
    <3> QED BY <1>6, <1>7, <1>b, <3>1
  <2> QED BY <2>1, <2>2
<1>10. /\ (CHOOSE x \in 1 .. 8 : MEIHUA_LINES[x] = three) \in 1 .. 8
       /\ (CHOOSE x \in 1 .. 8 : MEIHUA_LINES[x] = rest) \in 1 .. 8
  BY <1>8
<1> QED BY <1>8, <1>9, <1>10, Zenon DEF three, rest, turned

\* The hexagram of a day always changes.
LEMMA HexagramChanges ==
  ASSUME NEW date, CivilDate(date)
  PROVE  meihuaDivine(date).hexagram # meihuaDivine(date).changed
<1> DEFINE sum    == date.year + date.month + date.day
           upper  == meihuaModIndex(sum, 8)
           lower  == meihuaModIndex(sum + dayOfYearUtc(date), 8)
           moving == meihuaModIndex(sum + dayOfYearUtc(date), 6)
           turned == [MEIHUA_LINES[lower] \o MEIHUA_LINES[upper] EXCEPT ![moving] = 1 - @]
           trigramOf(three) == CHOOSE i \in 1 .. 8 : MEIHUA_LINES[i] = three
           first  == trigramOf(SubSeq(turned, 1, 3))
           second == trigramOf(SubSeq(turned, 4, 6))
<1>1. sum \in Int /\ date.year \in Nat
  BY DEF CivilDate
<1>2. dayOfYearUtc(date) \in Int
  <2>1. CivilDate(Date(date.year, 1, 1))
    <3>1. 1 <= DaysOfMonth(date.year, 1)
      BY <1>1, MonthsAreLong
    <3> QED BY <1>1, <3>1, DateIsCivil
  <2>2. julianDayNumber(date) \in Int /\ julianDayNumber(Date(date.year, 1, 1)) \in Int
    BY <2>1, JulianCountsDays
  <2> QED BY <2>2 DEF dayOfYearUtc
<1>3. \A x \in Int : meihuaModIndex(x, 8) \in 1 .. 8 /\ meihuaModIndex(x, 6) \in 1 .. 6
  BY DEF meihuaModIndex
<1>4. upper \in 1 .. 8 /\ lower \in 1 .. 8 /\ moving \in 1 .. 6
  BY <1>1, <1>2, <1>3
<1>5. /\ meihuaDivine(date).hexagram = MEIHUA_KING_WEN[lower][upper]
      /\ meihuaDivine(date).changed = MEIHUA_KING_WEN[first][second]
  BY Zenon DEF meihuaDivine
<1> HIDE DEF upper, lower, moving
<1>6. /\ first \in 1 .. 8 /\ second \in 1 .. 8
      /\ \/ first # lower /\ second = upper
         \/ first = lower /\ second # upper
  BY <1>4, LineMoves
<1> HIDE DEF first, second
<1> QED BY <1>4, <1>5, <1>6, HexagramsDiffer

\* The types of the calendars.
LEMMA CalendarTypeHolds == CalendarSpec => []CalendarTypeOK
<1> DEFINE Walked == anchor \in Anchors /\ CivilDate(today) /\ days \in 0 .. LastDays
<1>1. CalendarInit => Walked
  BY CalendarAssumption DEF CalendarInit
<1>2. Walked /\ [NextDay]_calendarVars => Walked'
  BY CalendarAssumption, DayAfterIsCivil DEF NextDay, calendarVars
<1>3. Walked => CalendarTypeOK
  <2>1. \A analyst : holdsOn(analyst, anchor, today) \in BOOLEAN
    BY DEF holdsOn
  <2> QED BY <2>1, HexagramChanges DEF CalendarTypeOK
<1> QED BY <1>1, <1>2, <1>3, PTL DEF CalendarSpec

--------------------------------------------------------------------------------
(* The weights of a portfolio.                                             *)

\* Shares of n names that are a record of the code are a list of weights.
LEMMA SharesAreLists ==
  ASSUME NEW n, NEW w, AreShares(w, n), NEW nums, NEW den, w = Weighted(nums, den)
  PROVE  w \in WeightLists(n)
  BY DEF AreShares, Weighted, WeightLists

\* What the methods start from, and the cap makes of it, are records.
LEMMA WeightsAreRecords ==
  /\ \A method \in {"equal_weight", "inverse_vol", "signal_proportional", "risk_parity"} :
       \A longs : \A raw \in RawWeights(method, longs) : \E nums, den : raw = Weighted(nums, den)
  /\ \A raw, cap : \E nums, den : ApplyMaxWeight(raw, cap) = Weighted(nums, den)
<1>1. \A n : \E nums, den : EqualWeights(n) = Weighted(nums, den)
  BY DEF EqualWeights
<1>2. \A of : \E nums, den : NormaliseWeights(of) = Weighted(nums, den)
  BY <1>1 DEF NormaliseWeights
<1>3. \A vols : \E nums, den : InverseVolWeights(vols) = Weighted(nums, den)
  BY <1>2 DEF InverseVolWeights
<1>4. ASSUME NEW method \in {"equal_weight", "inverse_vol", "signal_proportional", "risk_parity"},
             NEW longs, NEW raw \in RawWeights(method, longs)
      PROVE  \E nums, den : raw = Weighted(nums, den)
  <2>1. CASE method = "equal_weight"
    BY <1>1, <1>4, <2>1 DEF RawWeights
  <2>2. CASE method = "inverse_vol"
    BY <1>3, <1>4, <2>2 DEF RawWeights
  <2>3. CASE method = "signal_proportional"
    BY <1>2, <1>4, <2>3 DEF RawWeights
  <2>4. CASE method = "risk_parity"
    BY <1>2, <1>4, <2>4 DEF RawWeights
  <2> QED BY <1>4, <2>1, <2>2, <2>3, <2>4
<1>5. ASSUME NEW raw, NEW cap
      PROVE  \E nums, den : ApplyMaxWeight(raw, cap) = Weighted(nums, den)
  BY <1>1, Zenon DEF ApplyMaxWeight
<1> QED BY <1>4, <1>5

\* What a name is scaled to is a weight.
LEMMA ScaledIsList ==
  ASSUME NEW n \in Nat \ {0}, NEW w, AreShares(w, n), NEW gross \in 0 .. CapUnit
  PROVE  ScaleGross(w, gross) \in WeightLists(n)
<1>1. /\ w.of \in [1 .. n -> Nat] /\ w.den \in Nat \ {0} /\ DOMAIN w.of = 1 .. n
      /\ gross \in Nat /\ CapUnit \in Nat \ {0}
  BY WeightsAssumption DEF AreShares
<1>2. \A i \in 1 .. n : w.of[i] * gross \in Nat
  BY <1>1, ProductsOfNats
<1>3. w.den * CapUnit \in Nat \ {0}
  BY <1>1, ProductsOfNats
<1>4. [i \in DOMAIN w.of |-> w.of[i] * gross] \in [1 .. n -> Nat]
  BY <1>1, <1>2
<1> QED BY <1>3, <1>4 DEF ScaleGross, Weighted, WeightLists

\* The types of the weights.
LEMMA WeightsTypeHolds == WeightsSpec => []WeightsTypeOK
<1>1. WeightsInit => WeightsTypeOK
  <2>1. <<>> \in LongReadings
    <3>1. 0 \in 0 .. SizedNames /\ <<>> \in [1 .. 0 -> [vol : Vols, score : Scores]]
      BY WeightsAssumption
    <3> QED BY <3>1 DEF LongReadings
  <2> QED BY <2>1 DEF WeightsInit, WeightsTypeOK
<1>2. ASSUME WeightsTypeOK, [WeightsNext]_weightVars PROVE WeightsTypeOK'
  <2>1. CASE UNCHANGED weightVars
    BY <1>2, <2>1 DEF WeightsTypeOK, weightVars
  <2>2. CASE Rebalance
    <3>1. PICK r : r = readingsNow'
      OBVIOUS
    <3>2. PICK n \in 0 .. SizedNames : r \in [1 .. n -> [vol : Vols, score : Scores]]
      BY <2>2, <3>1 DEF Rebalance, LongReadings
    <3>3. r \in LongReadings
      BY <2>2, <3>1 DEF Rebalance
    <3>4. CASE r = <<>>
      <4>1. sized' = NOTHING
        BY <2>2, <3>1, <3>4 DEF Rebalance
      <4> QED BY <3>1, <3>3, <3>4, <4>1 DEF WeightsTypeOK
    <3>5. CASE r # <<>>
      <4>1. n \in Nat \ {0} /\ n \in 1 .. SizedNames /\ Len(r) = n
        <5>1. n \in Nat /\ Len(r) = n
          BY <3>2, WeightsAssumption
        <5>2. n # 0
          BY <3>2, <3>5
        <5> QED BY <5>1, <5>2, WeightsAssumption
      <4>2. PICK method \in {"equal_weight", "inverse_vol", "signal_proportional", "risk_parity"},
                 gross \in GrossChoices(r) : \E raw \in RawWeights(method, r) :
              sized' = [raw |-> raw, capped |-> ApplyMaxWeight(raw, LargestWeight(r)),
                        weights |-> ScaleGross(ApplyMaxWeight(raw, LargestWeight(r)), gross)]
        BY <2>2, <3>1, <3>5, Zenon DEF Rebalance
      <4>3. PICK raw \in RawWeights(method, r) :
              sized' = [raw |-> raw, capped |-> ApplyMaxWeight(raw, LargestWeight(r)),
                        weights |-> ScaleGross(ApplyMaxWeight(raw, LargestWeight(r)), gross)]
        BY <4>2, Zenon
      <4>4. PICK w : w = ApplyMaxWeight(raw, LargestWeight(r))
        OBVIOUS
      <4>5. sized' = [raw |-> raw, capped |-> w, weights |-> ScaleGross(w, gross)]
        BY <4>3, <4>4, Zenon
      <4>6. PICK cap \in Nat : cap = LargestWeight(r)
        BY LargestWeightIsNat
      <4>7. AreWhole(raw, n) /\ AreShares(raw, n)
        BY <3>2, <4>1, RawAreWhole DEF AreWhole
      <4>8. AreShares(w, n)
        BY <4>1, <4>4, <4>6, <4>7, CappedKeeps
      <4>9. raw \in WeightLists(n)
        <5>1. PICK nums, den : raw = Weighted(nums, den)
          BY WeightsAreRecords
        <5> QED BY <4>7, <5>1, SharesAreLists
      <4>10. w \in WeightLists(n)
        <5>1. PICK nums, den : w = Weighted(nums, den)
          BY <4>4, WeightsAreRecords
        <5> QED BY <4>8, <5>1, SharesAreLists
      <4>11. ScaleGross(w, gross) \in WeightLists(n)
        <5>1. gross \in 0 .. CapUnit
          BY GrossOfTheWhole
        <5> QED BY <4>1, <4>8, <5>1, ScaledIsList
      <4>12. sized' \in Sizings(n)
        BY <4>5, <4>9, <4>10, <4>11 DEF Sizings
      <4>13. sized' # NOTHING
        BY <4>1, <4>12, WeightsAssumption
      <4> QED BY <3>1, <3>3, <3>5, <4>1, <4>12, <4>13 DEF WeightsTypeOK
    <3> QED BY <3>4, <3>5
  <2> QED BY <1>2, <2>1, <2>2 DEF WeightsNext
<1> QED BY <1>1, <1>2, PTL DEF WeightsSpec

--------------------------------------------------------------------------------
(* The run of all the components.                                          *)

\* A step of the run is, for each component, a step of its own or none: of the first
\* half of them,
LEMMA FirstHalfSteps ==
  ASSUME [ComponentsNext]_components
  PROVE  /\ [MonitorNext]_monitorVars
         /\ [SignalNext]_signalVars
         /\ [GrillNext]_grillVars
         /\ [WithdrawNext]_withdrawVars
         /\ [SalesNext]_saleVars
         /\ [NextDay]_calendarVars
         /\ [BacktestNext]_bars
<1>1. CASE UNCHANGED components
  BY <1>1 DEF components
<1>2. CASE UNCHANGED secondHalf /\ ~ UNCHANGED firstHalf
  BY <1>2 DEF ComponentsNext, components, firstHalf
<1>3. CASE UNCHANGED firstHalf
  BY <1>3 DEF firstHalf
<1> QED BY <1>1, <1>2, <1>3 DEF ComponentsNext

\* and of the second.
LEMMA SecondHalfSteps ==
  ASSUME [ComponentsNext]_components
  PROVE  /\ [AgentNext]_agentVars
         /\ [PageNext]_positionPageVars
         /\ [TabNext]_tabVars
         /\ [PriceHistoryNext]_historyVars
         /\ [TermsNext]_termsVars
         /\ [QuotesNext]_quoteVars
         /\ [WeightsNext]_weightVars
         /\ [DevNext]_devVars
         /\ [GateNext]_gateVars
         /\ [ThesisNext]_thesisVars
         /\ [DevSwapNext]_devSwapVars
<1>1. CASE UNCHANGED components
  BY <1>1 DEF components
<1>2. CASE UNCHANGED firstHalf /\ ~ UNCHANGED secondHalf
  BY <1>2 DEF ComponentsNext, components, secondHalf, otherVars
<1>3. CASE UNCHANGED secondHalf
  BY <1>3 DEF secondHalf, otherVars
<1> QED BY <1>1, <1>2, <1>3 DEF ComponentsNext

\* A behaviour of the run is one of each component (of the monitor without its fairness):
\* no component reads or writes what another has, so that what holds of each by itself
\* holds in the run.
THEOREM EachComponentRuns ==
  ComponentsSpec =>
    /\ MonitorInit /\ [][MonitorNext]_monitorVars
    /\ SignalSpec
    /\ GrillSpec
    /\ WithdrawSpec
    /\ SalesSpec
    /\ CalendarSpec
    /\ BacktestSpec
    /\ AgentSpec
    /\ PageSpec
    /\ TabSpec
    /\ PriceHistorySpec
    /\ TermsSpec
    /\ QuotesSpec
    /\ WeightsSpec
    /\ DevSpec
    /\ GateSpec
    /\ ThesisSpec
    /\ DevSwapSpec
<1>1. ComponentsInit =>
        /\ MonitorInit
        /\ SignalInit
        /\ GrillInit
        /\ WithdrawInit
        /\ SalesInit
        /\ CalendarInit
        /\ BacktestInit
        /\ AgentInit
        /\ PageInit
        /\ TabInit
        /\ PriceHistoryInit
        /\ TermsInit
        /\ QuotesInit
        /\ WeightsInit
        /\ DevInit
        /\ GateInit
        /\ ThesisInit
        /\ DevSwapInit
  BY DEF ComponentsInit
<1>2. [ComponentsNext]_components =>
        /\ [MonitorNext]_monitorVars
        /\ [SignalNext]_signalVars
        /\ [GrillNext]_grillVars
        /\ [WithdrawNext]_withdrawVars
        /\ [SalesNext]_saleVars
        /\ [NextDay]_calendarVars
        /\ [BacktestNext]_bars
  BY FirstHalfSteps
<1>3. [ComponentsNext]_components =>
        /\ [AgentNext]_agentVars
        /\ [PageNext]_positionPageVars
        /\ [TabNext]_tabVars
        /\ [PriceHistoryNext]_historyVars
        /\ [TermsNext]_termsVars
        /\ [QuotesNext]_quoteVars
        /\ [WeightsNext]_weightVars
        /\ [DevNext]_devVars
        /\ [GateNext]_gateVars
        /\ [ThesisNext]_thesisVars
        /\ [DevSwapNext]_devSwapVars
  BY SecondHalfSteps
<1> QED
  BY <1>1, <1>2, <1>3, PTL
  DEF ComponentsSpec, SignalSpec, GrillSpec, WithdrawSpec, SalesSpec, CalendarSpec, BacktestSpec, AgentSpec, PageSpec, TabSpec, PriceHistorySpec, TermsSpec, QuotesSpec, WeightsSpec, DevSpec, GateSpec, ThesisSpec, DevSwapSpec

\* Each component keeps its types: a claim, a lease, a draft, a quote, a date, a list of
\* weights is what the code takes it for, for any of the constants.
THEOREM ComponentsTyped == ComponentsSpec => []ComponentsTypeOK
<1>1. /\ MonitorTypeOK
      /\ SignalTypeOK
      /\ GrillTypeOK
      /\ WithdrawTypeOK
      /\ SalesTypeOK
      /\ CalendarTypeOK
      /\ BacktestTypeOK
      /\ AgentTypeOK
      /\ PageTypeOK
      /\ TabTypeOK
      /\ PriceHistoryTypeOK
      /\ TermsTypeOK
      /\ QuotesTypeOK
      /\ WeightsTypeOK
      /\ DevTypeOK
      /\ GateTypeOK
      /\ ThesisTypeOK
      /\ DevSwapTypeOK
      => ComponentsTypeOK
  BY DEF ComponentsTypeOK
<1> QED
  BY <1>1, EachComponentRuns, MonitorTypeHolds, SignalTypeHolds, GrillTypeHolds, TransfersLandAsReviewed,
     SalesTypeHolds, CalendarTypeHolds, BacktestTypeHolds, AgentPagesCorrect, PageTypeHolds, TabCorrect,
     HistoryCorrect, TermsCorrect, QuotesCorrect, WeightsTypeHolds, DevToolsCorrect, RedirectsEnd,
     ThesisCorrect, DevSwapCorrect, PTL

\* ... and what is proved of each holds beside the others.
THEOREM ComponentsCorrect ==
  ComponentsSpec =>
    /\ [](/\ ClaimIsAccountedFor /\ EditExpiresOldProposals /\ AnalysisBuysOnce /\ LandsAsReviewed
          /\ SaleIsScoped /\ PositionsPrecedeTheirBar /\ OneJobAtATime /\ ExitsStayArmed
          /\ ToastsTellTheOrder /\ HistoryIsPacedAndCurrent /\ ExitsBracketTheTrigger
          /\ BandCoversExecutableQuotes /\ CapIsKept /\ SecondProposalOverlapped /\ NoRedirectLoop
          /\ SellHasCause /\ TestTellsTheClaim)
    /\ CyclesAdvance
  BY EachComponentRuns, MonitorAccounts, SignalCorrect, AnalysesBuyOnce, TransfersLandAsReviewed,
     SalesCorrect, BacktestsPrecede, AgentPagesCorrect, ExitsAlwaysArmed, TabCorrect, HistoryCorrect,
     TermsCorrect, QuotesCorrect, CapKept, DevToolsCorrect, RedirectsEnd, ThesisCorrect, DevSwapCorrect,
     CalendarsAdvance, PTL

================================================================================
