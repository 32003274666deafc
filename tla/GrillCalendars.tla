------------------------------ MODULE GrillCalendars ------------------------------
(***************************************************************************)
(* The null-control analysts of a Grill (lib/grill/analysis.ts): each      *)
(* turns the date of a bar, and that of the first bar, its anchor, into a  *)
(* rule that holds or stays flat, by a calendar of its own.  The pillars   *)
(* of the Bazi calendar are pairs of a stem (of 10) and a branch (of 12),  *)
(* by their indices; an element is its place in the circle of generation,  *)
(* wood, fire, earth, metal, water, and controls the one after the next.   *)
(*                                                                         *)
(* The specification walks through the civil days; the calendars of the    *)
(* code compute everything from the three numbers of a date.               *)
(***************************************************************************)
EXTENDS Integers, Sequences, FiniteSets

CONSTANTS
  Anchors,      \* days at which a series of bars may begin
  LastDays      \* bound on the days of a series

VARIABLES
  anchor,       \* the date of the first bar
  today,        \* the date of the last bar
  days

calendarVars == <<anchor, today, days>>

isLeap(year) == year % 4 = 0 /\ (year % 100 # 0 \/ year % 400 = 0)

DaysOfMonth(year, month) ==
  IF month = 2 THEN IF isLeap(year) THEN 29 ELSE 28
  ELSE IF month \in {4, 6, 9, 11} THEN 30 ELSE 31

Date(year, month, day) == [year |-> year, month |-> month, day |-> day]

CivilDate(date) ==
  /\ date \in [year : Nat, month : 1 .. 12, day : 1 .. 31]
  /\ date.day <= DaysOfMonth(date.year, date.month)

DayAfter(date) ==
  IF date.day < DaysOfMonth(date.year, date.month) THEN Date(date.year, date.month, date.day + 1)
  ELSE IF date.month < 12 THEN Date(date.year, date.month + 1, 1)
  ELSE Date(date.year + 1, 1, 1)

ASSUME CalendarAssumption == LastDays \in Nat /\ \A date \in Anchors : CivilDate(date)

--------------------------------------------------------------------------------
(* Days.                                                                   *)

\* The terms of a year up to a date, as the two tables of the code have them.
OnOrAfter(date, month, day) == date.month > month \/ (date.month = month /\ date.day >= day)

julianDayNumber(date) ==
  LET a  == (14 - date.month) \div 12
      yy == date.year + 4800 - a
      mm == date.month + 12 * a - 3
  IN  date.day + (153 * mm + 2) \div 5 + 365 * yy
        + yy \div 4 - yy \div 100 + yy \div 400 - 32045

dayOfYearUtc(date) ==
  julianDayNumber(date) - julianDayNumber(Date(date.year, 1, 1)) + 1

--------------------------------------------------------------------------------
(* Bazi: the four pillars, and the elements that favour the day master.    *)

BAZI_STEM_ELEMENTS(stem)  == stem \div 2
BAZI_BRANCH_ELEMENTS == <<4, 2, 0, 0, 2, 1, 1, 2, 3, 3, 2, 4>>
BAZI_GENERATES(element)   == (element + 1) % 5
BAZI_CONTROLS(element)    == (element + 2) % 5

\* The day each month branch begins.
BAZI_MONTH_TERMS ==
  <<<<1, 6, 1>>, <<2, 4, 2>>, <<3, 6, 3>>, <<4, 5, 4>>, <<5, 6, 5>>, <<6, 6, 6>>,
    <<7, 7, 7>>, <<8, 8, 8>>, <<9, 8, 9>>, <<10, 8, 10>>, <<11, 7, 11>>, <<12, 7, 0>>>>

\* The year rolls with the civil year.
MutantBaziSolarYear(date) == date.year

baziSolarYear(date) == IF OnOrAfter(date, 2, 4) THEN date.year ELSE date.year - 1

Pillar(stem, branch) == [stem |-> stem, branch |-> branch]

baziYearPillar(date) ==
  Pillar((baziSolarYear(date) - 4) % 10, (baziSolarYear(date) - 4) % 12)

baziMonthBranch(date) ==
  LET passed == {i \in DOMAIN BAZI_MONTH_TERMS :
                   OnOrAfter(date, BAZI_MONTH_TERMS[i][1], BAZI_MONTH_TERMS[i][2])}
  IN  IF passed = {} THEN 0 ELSE BAZI_MONTH_TERMS[CHOOSE i \in passed : \A j \in passed : j <= i][3]

baziMonthPillar(date) ==
  LET baseYin == (2 + 2 * (baziYearPillar(date).stem % 5)) % 10
      branch  == baziMonthBranch(date)
      offset  == (branch - 2 + 12) % 12
  IN  Pillar((baseYin + offset) % 10, branch)

baziDayPillar(date) ==
  LET index == (julianDayNumber(date) + 49) % 60 IN Pillar(index % 10, index % 12)

\* Hour 9, whatever the bar is.
baziHourPillar(dayStem) == Pillar((2 * (dayStem % 5) + 5) % 10, 5)

baziFourPillars(date) ==
  [year |-> baziYearPillar(date), month |-> baziMonthPillar(date),
   day  |-> baziDayPillar(date),  hour  |-> baziHourPillar(baziDayPillar(date).stem)]

\* The elements a chart favours: those that drain a strong day master, or support a
\* weak one.  The branch of the month counts twice.
baziStrengthAndFavorable(pillars) ==
  LET master == BAZI_STEM_ELEMENTS(pillars.day.stem)
      supports(element) == element = master \/ BAZI_GENERATES(element) = master
      weight(key) ==
        (IF supports(BAZI_STEM_ELEMENTS(pillars[key].stem)) THEN 1 ELSE 0)
        + (IF supports(BAZI_BRANCH_ELEMENTS[pillars[key].branch + 1])
           THEN IF key = "month" THEN 2 ELSE 1 ELSE 0)
      support == weight("year") + weight("month") + weight("day") + weight("hour")
  IN  IF 2 * support >= 9
      THEN {e \in 0 .. 4 : \/ e \in {BAZI_GENERATES(master), BAZI_CONTROLS(master)}
                           \/ BAZI_CONTROLS(e) = master}
      ELSE {e \in 0 .. 4 : supports(e)}

baziHolds(first, date) ==
  BAZI_STEM_ELEMENTS(baziYearPillar(date).stem)
    \in baziStrengthAndFavorable(baziFourPillars(first))

--------------------------------------------------------------------------------
(* Suimei and Tieban, from the pillars.                                    *)

Sexagenary(pillar) == {index \in 0 .. 59 : index % 10 = pillar.stem /\ index % 12 = pillar.branch}

\* baziSexagenaryIndex throws for a pair that the cycle does not have.
baziSexagenaryIndex(pillar) == CHOOSE index \in Sexagenary(pillar) : TRUE

suimeiTenchusatsu(pillar) ==
  LET first == (10 - 2 * (baziSexagenaryIndex(pillar) \div 10) + 12) % 12
  IN  {first, (first + 1) % 12}

suimeiHolds(first, date) ==
  baziYearPillar(date).branch \notin suimeiTenchusatsu(baziDayPillar(first))

\* tiebanGzNumber: both Taixuan tables count down from 9.
tiebanGzNumber(pillar) == (9 - (pillar.stem % 5)) + (9 - (pillar.branch % 6))

tiebanMingNumber(pillars) ==
  tiebanGzNumber(pillars.year) + tiebanGzNumber(pillars.month)
    + tiebanGzNumber(pillars.day) + tiebanGzNumber(pillars.hour)

tiebanHolds(first, date) ==
  (tiebanMingNumber(baziFourPillars(first)) + tiebanGzNumber(baziYearPillar(date))) % 3 # 2

--------------------------------------------------------------------------------
(* Meihua: two trigrams and the line that moves.                           *)

\* In MEIHUA_ORDER: heaven, lake, fire, thunder, wind, water, mountain, earth.
MEIHUA_LINES ==
  <<<<1, 1, 1>>, <<1, 1, 0>>, <<1, 0, 1>>, <<1, 0, 0>>,
    <<0, 1, 1>>, <<0, 1, 0>>, <<0, 0, 1>>, <<0, 0, 0>>>>
MEIHUA_ELEMENT == <<3, 3, 1, 0, 0, 4, 2, 2>>

\* MEIHUA_KING_WEN, by the lower trigram and then the upper.
MEIHUA_KING_WEN ==
  <<<<1, 43, 14, 34, 9, 5, 26, 11>>,   <<10, 58, 38, 54, 61, 60, 41, 19>>,
    <<13, 49, 30, 21, 37, 63, 22, 36>>, <<25, 17, 55, 51, 42, 3, 27, 24>>,
    <<44, 28, 50, 32, 57, 48, 18, 46>>, <<6, 47, 64, 40, 59, 29, 4, 7>>,
    <<33, 31, 56, 62, 53, 39, 52, 15>>, <<12, 45, 35, 16, 20, 8, 23, 2>>>>

meihuaModIndex(value, size) == IF value % size = 0 THEN size ELSE value % size

\* meihuaRelation: the five cases, of which three are auspicious.
meihuaAuspicious(ti, yong) ==
  \/ ti = yong
  \/ BAZI_GENERATES(yong) = ti
  \/ BAZI_CONTROLS(ti) = yong

meihuaDivine(date) ==
  LET sum    == date.year + date.month + date.day
      upper  == meihuaModIndex(sum, 8)
      lower  == meihuaModIndex(sum + dayOfYearUtc(date), 8)
      moving == meihuaModIndex(sum + dayOfYearUtc(date), 6)
      lines  == MEIHUA_LINES[lower] \o MEIHUA_LINES[upper]
      turned == [lines EXCEPT ![moving] = 1 - @]
      trigramOf(three) == CHOOSE i \in 1 .. 8 : MEIHUA_LINES[i] = three
      ti   == IF moving <= 3 THEN upper ELSE lower
      yong == IF moving <= 3 THEN lower ELSE upper
  IN  [hexagram   |-> MEIHUA_KING_WEN[lower][upper],
       changed    |-> MEIHUA_KING_WEN[trigramOf(SubSeq(turned, 1, 3))][trigramOf(SubSeq(turned, 4, 6))],
       auspicious |-> meihuaAuspicious(MEIHUA_ELEMENT[ti], MEIHUA_ELEMENT[yong])]

--------------------------------------------------------------------------------
(* Qimen, Liuren and Taiyi.                                                *)

qimenActiveGate(date) ==
  LET doy == dayOfYearUtc(date)
      ju  == (doy % 9) + 1
  IN  (julianDayNumber(date) + (IF doy >= 356 \/ doy < 172 THEN ju ELSE -ju)) % 8

QIMEN_AUSPICIOUS == {0, 1, 7}

TropicalBoundaries ==
  <<<<1, 20, 10>>, <<2, 19, 11>>, <<3, 21, 0>>, <<4, 20, 1>>, <<5, 21, 2>>, <<6, 21, 3>>,
    <<7, 23, 4>>, <<8, 23, 5>>, <<9, 23, 6>>, <<10, 23, 7>>, <<11, 22, 8>>, <<12, 22, 9>>>>

tropicalSignApprox(date) ==
  LET passed == {i \in DOMAIN TropicalBoundaries :
                   OnOrAfter(date, TropicalBoundaries[i][1], TropicalBoundaries[i][2])}
  IN  IF passed = {} THEN 9 ELSE TropicalBoundaries[CHOOSE i \in passed : \A j \in passed : j <= i][3]

liurenYongBranch(date) ==
  (((tropicalSignApprox(date) + 2) % 12) + baziDayPillar(date).branch - 5 + 12) % 12

\* liurenRelation has the cases of meihuaRelation.
liurenHolds(first, date) ==
  meihuaAuspicious(BAZI_STEM_ELEMENTS(baziDayPillar(first).stem),
                   BAZI_BRANCH_ELEMENTS[liurenYongBranch(date) + 1])

taiyiHostWins(date) ==
  LET year == baziSolarYear(date)
      accumulated == 1936557 + year
  IN  (accumulated + year) % 360 >= (accumulated * 3 + year * 2 + 30) % 360

\* The rules of the seven analysts: hold, or stay flat.
NullControls == {"meihua", "bazi", "suimei", "tieban", "qimen", "liuren", "taiyi"}

holdsOn(analyst, first, date) ==
  \/ analyst = "meihua" /\ meihuaDivine(date).auspicious
  \/ analyst = "bazi"   /\ baziHolds(first, date)
  \/ analyst = "suimei" /\ suimeiHolds(first, date)
  \/ analyst = "tieban" /\ tiebanHolds(first, date)
  \/ analyst = "qimen"  /\ qimenActiveGate(date) \in QIMEN_AUSPICIOUS
  \/ analyst = "liuren" /\ liurenHolds(first, date)
  \/ analyst = "taiyi"  /\ taiyiHostWins(date)

--------------------------------------------------------------------------------

\* ... and every rule can be evaluated on every day: a line always moves to another of
\* the 64 hexagrams.
CalendarTypeOK ==
  /\ anchor \in Anchors
  /\ CivilDate(today)
  /\ days \in 0 .. LastDays
  /\ \A analyst \in NullControls : holdsOn(analyst, anchor, today) \in BOOLEAN
  /\ meihuaDivine(today).hexagram # meihuaDivine(today).changed

CalendarInit == anchor \in Anchors /\ today = anchor /\ days = 0

\* The next bar is of the next civil day.
NextDay ==
  /\ days < LastDays /\ days' = days + 1
  /\ today' = DayAfter(today)
  /\ UNCHANGED anchor

CalendarSpec == CalendarInit /\ [][NextDay]_calendarVars

--------------------------------------------------------------------------------
(* Properties.                                                             *)

After(pillar) == Pillar((pillar.stem + 1) % 10, (pillar.branch + 1) % 12)

\* From one day to the next, across months, leap days, new years and Lichun, the day
\* pillar is the next of the sixty; the month pillar stays or is the next; the year
\* pillar stays, or is the next on the day the month becomes Yin; no pair is one
\* that the cycle does not have (the code throws); and the day of the year counts
\* the days.
CyclesAdvance ==
  [][today' # today =>
     LET now == baziFourPillars(today)
         next == baziFourPillars(today')
     IN  /\ \A key \in DOMAIN next : Sexagenary(next[key]) # {}
         /\ next.day = After(now.day)
         /\ next.month \in {now.month, After(now.month)}
         /\ next.year = IF next.month # now.month /\ next.month.branch = 2
                        THEN After(now.year) ELSE now.year
         /\ dayOfYearUtc(today') = IF today'.year = today.year THEN dayOfYearUtc(today) + 1 ELSE 1
    ]_calendarVars

================================================================================
