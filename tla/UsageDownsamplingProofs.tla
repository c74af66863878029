----------------------- MODULE UsageDownsamplingProofs -----------------------
(***************************************************************************)
(* Whatever jobs overlap or are cut off, no day that has been recorded is  *)
(* lost but where an aggregate took the row of another; and jobs that come *)
(* often enough miss nothing and make no period twice.  For any calendar,  *)
(* any days, any number of jobs.                                           *)
(***************************************************************************)
EXTENDS UsageDownsampling, FiniteSetTheorems, WellFoundedInduction, TLAPS

-----------------------------------------------------------------------------
(* The inductive invariant.                                                *)

Row ==
  [id : Nat, project : {d.project : d \in Daily}, source : {d.source : d \in Daily},
   slug : {d.slug : d \in Daily}, start : Int, length : Nat, peak : Nat, of : SUBSET Daily]

JobRow ==
  [phase : 0..EventsPhase, now : Int, groups : SUBSET SUBSET Row, group : SUBSET Row,
   existing : Nat \cup {NoRow}, sources : SUBSET Nat]

\* Rows are of level 3 (a day), 2 (a week), 1 (a fortnight) or 0 (a month); phase
\* n takes rows of level n and makes rows of level n - 1.
Lasts(n, r) ==
  CASE n = 3 -> r.length = 1
    [] n = 2 -> r.length = 7
    [] n = 1 -> r.length = 14
    [] n = 0 -> r.length = NextMonth(r.start) - r.start

\* Where the row of a level that holds a day starts.
PartStart(n, day) ==
  CASE n = 3 -> day
    [] n = 2 -> WeekStart(day)
    [] n = 1 -> BiweekStart(day)
    [] n = 0 -> MonthFirst(BiweekStart(day))

OfLevel(n, r) == Lasts(n, r) /\ \A d \in r.of : PartStart(n, d.day) = r.start

\* A row covers days in their place, and its value is no less than theirs.
Sound(r) ==
  /\ r \in Row /\ r.of # {}
  /\ \E n \in 0..3 : OfLevel(n, r)
  /\ \A d \in r.of : d.peak <= r.peak /\ d.project = r.project /\ d.source = r.source

RowHolds(r) == Sound(r) /\ r.id < nextId /\ r.of \subseteq recorded

RowsHold ==
  /\ IsFiniteSet(rows) /\ nextId \in Nat
  /\ \A r \in rows : RowHolds(r)
  /\ \A r, s \in rows : r.id = s.id => r = s

\* When phase n may take a row.
StartIn(n, start) == Window(Tiers[n], start).start
DueOn(n, start) == StartIn(n, start) + Window(Tiers[n], start).length + Threshold(Tiers[n])

Key(n, r) == <<r.project, r.source, Period(Tiers[n], r.start)>>

\* No group has the key.
Unkeyed(j, n, r) == \A g \in job[j].groups : \A s \in g : Key(n, s) # Key(n, r)

GroupHolds(n, g) ==
  /\ g # {} /\ IsFiniteSet(g)
  /\ \A r \in g : RowHolds(r) /\ OfLevel(n, r) /\ DueOn(n, r.start) <= today
  /\ \A r, s \in g : Key(n, r) = Key(n, s)

\* What a job remembers; a row it has read is as it was, or all of it counts as displaced.
JobHolds(j) ==
  /\ job[j].phase = 0 => job[j] = NoJob
  /\ job[j].phase # 0 => job[j].now = today
  /\ job[j].groups # {} => job[j].phase \in 1..3
  /\ job[j].group \in job[j].groups \cup {{}}
  /\ job[j].phase = EventsPhase => job[j].sources = {}
  /\ job[j].existing < nextId /\ \A i \in job[j].sources : i < nextId
  /\ \A g \in job[j].groups : GroupHolds(job[j].phase, g)
  /\ \A g, h \in job[j].groups : \A r \in g, s \in h :
       r.id = s.id \/ Key(job[j].phase, r) = Key(job[j].phase, s) => g = h
  /\ \A g \in job[j].groups : \A c \in g :
       c.id \notin job[j].sources /\ \A r \in rows : r.id = c.id => r = c \/ r.of \subseteq displaced

Shapes ==
  /\ FirstDay <= lastDone /\ lastDone <= today /\ today <= LastDay
  /\ today \in Int /\ lastDone \in Int
  /\ recorded \subseteq Daily /\ displaced \subseteq recorded /\ events \subseteq Event
  /\ jobs \in 0..MaxJobs
  /\ late \in BOOLEAN /\ apart \in BOOLEAN /\ overlapped \in BOOLEAN /\ crashed \in BOOLEAN
  /\ job \in [Job -> JobRow]

\* A row that no job is about to delete.
Stays(r) == \A j \in Job : r.id \notin job[j].sources

\* Every day is in a row that stays.
DaysAreKept == \A d \in recorded \ displaced : \E r \in rows : d \in r.of /\ Stays(r)

\* One job at a time, each to its end: no day is in two rows that stay.
Alone == ~overlapped /\ ~crashed

DaysAreOnce ==
  Alone =>
    /\ \A i, j \in Job : Busy(i) /\ Busy(j) => i = j
    /\ \A r, s \in rows : \A d \in (r.of \cap s.of) \ displaced : Stays(r) /\ Stays(s) => r = s
    /\ \A j \in Job : \A g \in job[j].groups : \A c \in g : c \in rows \/ c.of \subseteq displaced

\* Jobs often enough: what is due was not due at the last job, and the phase that
\* takes it has it.
OnTime == ~late /\ ~apart

NothingIsMissed ==
  OnTime =>
    /\ today - lastDone <= OneGap
    /\ \A n \in 1..3 : \A r \in rows : OfLevel(n, r) =>
         /\ DueOn(n, r.start) > lastDone
         /\ DueOn(n, r.start) <= today =>
              \A j \in Job :
                /\ job[j].phase <= n
                /\ job[j].phase = n => \/ \E g \in job[j].groups : r \in g
                                       \/ r.id \in job[j].sources /\ Unkeyed(j, n, r)
    /\ \A j \in Job : \A g \in job[j].groups : \A r \in g : DueOn(job[j].phase, r.start) > today - OneGap

\* A period that has a row was over at the last job, or this job has made it.
IsMade(n, r) ==
  \/ DueOn(n, r.start) <= lastDone
  \/ /\ DueOn(n, r.start) <= today
     /\ \E j \in Job : job[j].phase >= n /\ (job[j].phase = n => Unkeyed(j, n, r))

FoundStarts(j) ==
  \E r \in rows : /\ r.id = job[j].existing
                  /\ r.project = First(job[j].group).project /\ r.source = First(job[j].group).source
                  /\ r.start = StartIn(job[j].phase, First(job[j].group).start)

PeriodsAreMadeOnce ==
  OnTime /\ Alone =>
    /\ \A j \in Job : \A g \in job[j].groups : \A r \in g : DueOn(job[j].phase, r.start) > lastDone
    /\ \A n \in 1..3 : \A r \in rows : OfLevel(n - 1, r) => IsMade(n, r)
    /\ \A j \in Job : job[j].group # {} /\ job[j].existing # NoRow => FoundStarts(j)
    /\ \A d \in displaced : Anchors[d] \cap recorded # {}

DownsamplingInStep ==
  /\ Shapes /\ RowsHold /\ \A j \in Job : JobHolds(j)
  /\ DaysAreKept /\ DaysAreOnce
  /\ NothingIsMissed /\ PeriodsAreMadeOnce

-----------------------------------------------------------------------------
(* Least and greatest elements.                                            *)

\* Numbers that are no less than one of them have a least.
LEMMA LeastExists ==
  ASSUME NEW S \in SUBSET Int, S # {}, NEW b \in Int, \A x \in S : b <= x
  PROVE  Min(S) \in S /\ \A x \in S : Min(S) <= x
<1> DEFINE T == {y \in Nat : y + b \in S}
<1>0. \A x \in S : x \in Int /\ x - b \in Nat
  OBVIOUS
<1>1. T \in SUBSET Nat /\ T # {}
  <2>1. PICK x : x \in S
    OBVIOUS
  <2>2. x - b \in T
    BY <1>0, <2>1
  <2> QED BY <2>2
<1>2. PICK k \in T : \A j \in T : <<j, k>> \notin OpToRel(<, Nat)
  BY <1>1, NatLessThanWellFounded, WFMin
<1>3. \A j \in T : ~(j < k)
  <2> SUFFICES ASSUME NEW j \in T, j < k PROVE FALSE
    OBVIOUS
  <2>1. <<j, k>> \in Nat \X Nat /\ <<j, k>>[1] < <<j, k>>[2]
    BY <1>1
  <2> QED BY <1>2, <2>1, Zenon DEF OpToRel
<1>4. PICK x \in S : k = x - b
  BY <1>0
<1>5. \A y \in S : x <= y
  <2> SUFFICES ASSUME NEW y \in S PROVE x <= y
    OBVIOUS
  <2>1. y - b \in T
    BY <1>0
  <2> QED BY <1>0, <1>3, <1>4, <2>1
<1> QED BY <1>5 DEF Min

\* Numbers that are no greater than one bound have a greatest.
LEMMA GreatestExists ==
  ASSUME NEW S \in SUBSET Int, S # {}, NEW b \in Int, \A x \in S : x <= b
  PROVE  Max(S) \in S /\ \A x \in S : x <= Max(S)
<1> DEFINE T == {y \in Nat : b - y \in S}
<1>0. \A x \in S : x \in Int /\ b - x \in Nat
  OBVIOUS
<1>1. T \in SUBSET Int /\ T # {} /\ \A y \in T : 0 <= y
  <2>1. PICK x : x \in S
    OBVIOUS
  <2>2. b - x \in T
    BY <1>0, <2>1
  <2> QED BY <2>2
<1>2. Min(T) \in T /\ \A y \in T : Min(T) <= y
  <2> HIDE DEF T
  <2> QED BY <1>1, LeastExists
<1>3. PICK x \in S, k \in Nat : k = Min(T) /\ k = b - x
  <2>1. PICK k : k = Min(T)
    OBVIOUS
  <2>2. k \in Nat /\ b - k \in S
    BY <1>2, <2>1
  <2>3. k = b - (b - k)
    BY <2>2
  <2> QED BY <2>1, <2>2, <2>3
<1>4. \A y \in S : y <= x
  <2> SUFFICES ASSUME NEW y \in S PROVE y <= x
    OBVIOUS
  <2>1. b - y \in T
    BY <1>0
  <2>2. k <= b - y /\ x \in Int /\ y \in Int
    BY <1>0, <1>2, <1>3, <2>1
  <2> QED BY <1>3, <2>2
<1> QED BY <1>4 DEF Max

-----------------------------------------------------------------------------
(* The calendar.                                                           *)

\* Where the calendar reaches: the days with summaries, their weeks and their fortnights.
Dated(x) == x \in Int /\ \E d \in Daily : x <= d.day /\ d.day - 13 <= WeekStart(x)

\* A day is in the week of its Monday.
LEMMA Weeks ==
  ASSUME NEW x \in Int
  PROVE  /\ WeekStart(x) \in Int /\ WeekStart(x) % 7 = 0
         /\ x - 6 <= WeekStart(x) /\ WeekStart(x) <= x
         /\ WeekStart(WeekStart(x)) = WeekStart(x)
BY DEF WeekStart

\* Weeks do not overlap.
LEMMA WeeksApart ==
  ASSUME NEW x \in Int, NEW y \in Int, WeekStart(x) < WeekStart(y) + 7, WeekStart(y) < WeekStart(x) + 7
  PROVE  WeekStart(x) = WeekStart(y)
BY DEF WeekStart

\* A Monday, and the one before.
LEMMA WeekBefore ==
  ASSUME NEW x \in Int, x % 7 = 0
  PROVE  WeekStart(x) = x /\ WeekStart(x - 7) = x - 7 /\ (x - 7) % 7 = 0
BY DEF WeekStart

\* The year is the last to begin by the Thursday.
LEMMA IsoYear ==
  ASSUME NEW x, Dated(x)
  PROVE  \E year \in YearStart :
           /\ year \in Int /\ year <= WeekStart(x) + 3
           /\ \A y \in YearStart : y <= WeekStart(x) + 3 => y <= year
           /\ IsoWeek(x) = [year |-> year, week |-> ((WeekStart(x) + 3) - year) \div 7 + 1]
<1> DEFINE S == {y \in YearStart : y <= WeekStart(x) + 3}
<1>1. x \in Int /\ WeekStart(x) \in Int
  BY Weeks DEF Dated
<1>2. PICK d \in Daily : d.day - 13 <= WeekStart(x) /\ d.day \in Int
  BY DownsamplingAssumption DEF Dated
<1>3. S \in SUBSET Int /\ S # {}
  <2>1. PICK y \in YearStart : y <= d.day - 10
    BY CalendarAssumption
  <2>2. y \in Int /\ y <= WeekStart(x) + 3
    BY <1>1, <1>2, <2>1, CalendarAssumption
  <2> QED BY <2>1, <2>2, CalendarAssumption
<1>4. Max(S) \in S /\ \A y \in S : y <= Max(S)
  <2>1. WeekStart(x) + 3 \in Int /\ \A y \in S : y <= WeekStart(x) + 3
    BY <1>1
  <2> HIDE DEF S
  <2> QED BY <1>3, <2>1, GreatestExists
<1>5. IsoWeek(x) = [year |-> Max(S), week |-> ((WeekStart(x) + 3) - Max(S)) \div 7 + 1]
  BY DEF IsoWeek
<1>6. PICK year : year = Max(S)
  OBVIOUS
<1>7. year \in YearStart /\ year \in Int /\ year <= WeekStart(x) + 3
  BY <1>3, <1>4, <1>6
<1>8. \A y \in YearStart : y <= WeekStart(x) + 3 => y <= year
  BY <1>4, <1>6
<1>9. IsoWeek(x) = [year |-> year, week |-> ((WeekStart(x) + 3) - year) \div 7 + 1]
  BY <1>5, <1>6
<1> QED BY <1>7, <1>8, <1>9

\* There is no week before an even one but in the same year.
LEMMA EvenWeek ==
  ASSUME NEW x, Dated(x), IsoWeek(x).week % 2 = 0
  PROVE  IsoWeek(WeekStart(x) - 7) = [year |-> IsoWeek(x).year, week |-> IsoWeek(x).week - 1]
<1>1. PICK year \in YearStart :
        /\ year \in Int /\ year <= WeekStart(x) + 3
        /\ \A y \in YearStart : y <= WeekStart(x) + 3 => y <= year
        /\ IsoWeek(x) = [year |-> year, week |-> ((WeekStart(x) + 3) - year) \div 7 + 1]
  BY IsoYear
<1>2. WeekStart(x) \in Int /\ WeekStart(x) % 7 = 0
  BY Weeks DEF Dated
<1>3. PICK w : w = WeekStart(x)
  OBVIOUS
<1>4. year <= (w - 7) + 3 /\ (((w - 7) + 3) - year) \div 7 + 1 = (((w + 3) - year) \div 7 + 1) - 1
  <2>1. (((w + 3) - year) \div 7 + 1) % 2 = 0 /\ year \in Int /\ w \in Int /\ year <= w + 3
    BY <1>1, <1>2, <1>3
  <2>2. PICK a \in Int : a = (w + 3) - year /\ 0 <= a
    BY <2>1
  <2>3. (a \div 7 + 1) % 2 = 0 => 7 <= a /\ (a - 7) \div 7 + 1 = a \div 7
    BY <2>2
  <2>4. ((w - 7) + 3) - year = a - 7 /\ (a \div 7 + 1) - 1 = a \div 7
    BY <2>1, <2>2
  <2> QED BY <2>1, <2>2, <2>3, <2>4
<1>5. WeekStart(w - 7) = w - 7
  BY <1>2, <1>3, WeekBefore
<1> DEFINE S == {y \in YearStart : y <= WeekStart(w - 7) + 3}
<1>6. Max(S) = year
  <2>1. S \in SUBSET Int /\ year \in S /\ \A y \in S : y <= year
    <3>1. \A y \in YearStart : y \in Int
      BY CalendarAssumption
    <3>2. \A y \in YearStart : y <= (w - 7) + 3 => y <= w + 3
      BY <1>2, <1>3, <3>1
    <3>3. WeekStart(w - 7) + 3 = (w - 7) + 3
      BY <1>5
    <3>4. \A y \in S : y \in Int /\ y <= year
      BY <1>1, <1>3, <3>1, <3>2, <3>3
    <3>5. year \in S
      BY <1>1, <1>4, <3>3
    <3> QED BY <3>4, <3>5
  <2>2. Max(S) \in S /\ \A y \in S : y <= Max(S)
    <3> HIDE DEF S
    <3> QED BY <1>1, <2>1, GreatestExists
  <2> HIDE DEF S
  <2>3. PICK m : m = Max(S)
    OBVIOUS
  <2>4. m \in Int /\ m <= year /\ year <= m
    BY <2>1, <2>2, <2>3
  <2> QED BY <1>1, <2>3, <2>4
<1>7. IsoWeek(w - 7) = [year |-> Max(S), week |-> ((WeekStart(w - 7) + 3) - Max(S)) \div 7 + 1]
  BY DEF IsoWeek
<1>8. IsoWeek(w - 7) = [year |-> year, week |-> (((w + 3) - year) \div 7 + 1) - 1]
  BY <1>4, <1>5, <1>6, <1>7
<1> QED BY <1>1, <1>3, <1>8

\* A day has the ISO week of its Monday.
LEMMA WeekOfItsMonday ==
  ASSUME NEW x \in Int
  PROVE  IsoWeek(WeekStart(x)) = IsoWeek(x)
<1>1. WeekStart(WeekStart(x)) = WeekStart(x)
  BY Weeks
<1>2. PICK w : w = WeekStart(x)
  OBVIOUS
<1>3. WeekStart(w) = w
  BY <1>1, <1>2
<1>4. \A z : WeekStart(z) = w => IsoWeek(z) = IsoWeek(x)
  BY <1>2 DEF IsoWeek
<1> QED BY <1>2, <1>3, <1>4

\* A fortnight is a pair of weeks of one year.
LEMMA FortnightInNumbers ==
  ASSUME NEW x, NEW a, NEW m, IsoWeek(x) = [year |-> a, week |-> m]
  PROVE  BiweekOf(x) = [year |-> a, week |-> (m + 1) \div 2]
BY DEF BiweekOf

\* A fortnight begins with the Monday of an odd week.
LEMMA Fortnights ==
  ASSUME NEW x, Dated(x)
  PROVE  /\ BiweekStart(x) \in Int /\ BiweekStart(x) % 7 = 0
         /\ BiweekStart(x) = WeekStart(x) \/ BiweekStart(x) = WeekStart(x) - 7
         /\ IsoWeek(BiweekStart(x)).week % 2 = 1
         /\ BiweekStart(BiweekStart(x)) = BiweekStart(x) /\ BiweekStart(WeekStart(x)) = BiweekStart(x)
         /\ BiweekOf(BiweekStart(x)) = BiweekOf(x)
<1>1. WeekStart(x) \in Int /\ WeekStart(x) % 7 = 0 /\ WeekStart(WeekStart(x)) = WeekStart(x)
  BY Weeks DEF Dated
<1>2. IsoWeek(WeekStart(x)) = IsoWeek(x)
  BY WeekOfItsMonday DEF Dated
<1>3. PICK y, n : n \in Int /\ IsoWeek(x) = [year |-> y, week |-> n]
  BY <1>1, IsoYear
<1>4. PICK w \in Int : w = WeekStart(x)
  BY <1>1
<1>5. WeekStart(w - 7) = w - 7 /\ WeekStart(w) = w /\ (w - 7) % 7 = 0 /\ w % 7 = 0
  BY <1>1, <1>4, WeekBefore
<1>6. CASE n % 2 = 0
  <2>1. IsoWeek(w - 7) = [year |-> y, week |-> n - 1] /\ IsoWeek(w) = [year |-> y, week |-> n]
    BY <1>2, <1>3, <1>4, <1>6, EvenWeek
  <2>2. BiweekStart(x) = w - 7
    BY <1>3, <1>4, <1>6 DEF BiweekStart
  <2>3. (n - 1) % 2 = 1 /\ (n - 1) % 2 # 0 /\ ((n - 1) + 1) \div 2 = (n + 1) \div 2
    BY <1>3, <1>6
  <2>4. BiweekStart(w - 7) = w - 7
    BY <1>5, <2>1, <2>3 DEF BiweekStart
  <2>5. BiweekStart(w) = w - 7
    BY <1>5, <1>6, <2>1 DEF BiweekStart
  <2>6. BiweekOf(w - 7) = BiweekOf(x)
    <3>1. BiweekOf(x) = [year |-> y, week |-> (n + 1) \div 2]
      BY <1>3, FortnightInNumbers
    <3>2. BiweekOf(w - 7) = [year |-> y, week |-> ((n - 1) + 1) \div 2]
      BY <2>1, FortnightInNumbers
    <3> QED BY <2>3, <3>1, <3>2
  <2>7. PICK b \in Int : b = w - 7
    OBVIOUS
  <2>8. IsoWeek(b).week % 2 = 1
    BY <2>1, <2>3, <2>7
  <2> QED BY <1>4, <1>5, <2>2, <2>4, <2>5, <2>6, <2>7, <2>8
<1>7. CASE n % 2 # 0
  <2>1. IsoWeek(w) = [year |-> y, week |-> n]
    BY <1>2, <1>3, <1>4
  <2>2. BiweekStart(x) = w /\ BiweekStart(w) = w
    BY <1>3, <1>4, <1>5, <1>7, <2>1 DEF BiweekStart
  <2>3. n % 2 = 1
    BY <1>3, <1>7
  <2>4. BiweekOf(w) = BiweekOf(x)
    BY <1>3, <2>1, FortnightInNumbers
  <2> QED BY <1>4, <1>5, <2>1, <2>2, <2>3, <2>4
<1> QED BY <1>6, <1>7

\* The Monday, the year and the number of a week.
LEMMA WeekInNumbers ==
  ASSUME NEW x, Dated(x)
  PROVE  \E u \in Int, a \in Int, m \in Int :
           /\ u = WeekStart(x) /\ u % 7 = 0
           /\ IsoWeek(x) = [year |-> a, week |-> m]
           /\ 7 * (m - 1) <= (u + 3) - a /\ (u + 3) - a < 7 * m
<1>1. PICK a \in YearStart :
        /\ a \in Int /\ a <= WeekStart(x) + 3
        /\ IsoWeek(x) = [year |-> a, week |-> ((WeekStart(x) + 3) - a) \div 7 + 1]
  BY IsoYear
<1>2. PICK u \in Int : u = WeekStart(x) /\ u % 7 = 0
  BY Weeks DEF Dated
<1>3. PICK m \in Int : m = ((u + 3) - a) \div 7 + 1
  BY <1>1, <1>2
<1>4. 7 * (m - 1) <= (u + 3) - a /\ (u + 3) - a < 7 * m
  BY <1>1, <1>2, <1>3
<1>5. IsoWeek(x) = [year |-> a, week |-> m]
  BY <1>1, <1>2, <1>3
<1> QED BY <1>1, <1>2, <1>4, <1>5

\* Dates of one week, or of one fortnight, have its first day in common.
LEMMA SameWeek ==
  ASSUME NEW x, NEW y, Dated(x), Dated(y), IsoWeek(x) = IsoWeek(y)
  PROVE  WeekStart(x) = WeekStart(y)
<1>1. PICK u \in Int, a \in Int, m \in Int :
        /\ u = WeekStart(x) /\ u % 7 = 0 /\ IsoWeek(x) = [year |-> a, week |-> m]
        /\ 7 * (m - 1) <= (u + 3) - a /\ (u + 3) - a < 7 * m
  BY WeekInNumbers
<1>2. PICK v \in Int, b \in Int, n \in Int :
        /\ v = WeekStart(y) /\ v % 7 = 0 /\ IsoWeek(y) = [year |-> b, week |-> n]
        /\ 7 * (n - 1) <= (v + 3) - b /\ (v + 3) - b < 7 * n
  BY WeekInNumbers
<1>3. a = b /\ m = n
  <2>1. IsoWeek(x).year = a /\ IsoWeek(x).week = m
    BY <1>1
  <2>2. IsoWeek(y).year = b /\ IsoWeek(y).week = n
    BY <1>2
  <2> QED BY <2>1, <2>2
<1>4. u < v + 7 /\ v < u + 7
  BY <1>1, <1>2, <1>3
<1>5. x \in Int /\ y \in Int
  BY DEF Dated
<1> QED BY <1>1, <1>2, <1>4, <1>5, WeeksApart

\* Days of one pair of weeks have the first day of their fortnight in common.
LEMMA SameFortnight ==
  ASSUME NEW x, NEW y, Dated(x), Dated(y), BiweekOf(x) = BiweekOf(y)
  PROVE  BiweekStart(x) = BiweekStart(y)
<1>1. PICK u \in Int, a \in Int, m \in Int :
        /\ u = WeekStart(x) /\ u % 7 = 0 /\ IsoWeek(x) = [year |-> a, week |-> m]
        /\ 7 * (m - 1) <= (u + 3) - a /\ (u + 3) - a < 7 * m
  BY WeekInNumbers
<1>2. PICK v \in Int, b \in Int, n \in Int :
        /\ v = WeekStart(y) /\ v % 7 = 0 /\ IsoWeek(y) = [year |-> b, week |-> n]
        /\ 7 * (n - 1) <= (v + 3) - b /\ (v + 3) - b < 7 * n
  BY WeekInNumbers
<1>3. BiweekOf(x) = [year |-> a, week |-> (m + 1) \div 2] /\ BiweekOf(y) = [year |-> b, week |-> (n + 1) \div 2]
  BY <1>1, <1>2, FortnightInNumbers
<1>4. a = b /\ (m + 1) \div 2 = (n + 1) \div 2
  <2>1. \A i, j, k, l : [year |-> i, week |-> k] = [year |-> j, week |-> l] => i = j /\ k = l
    <3> SUFFICES ASSUME NEW i, NEW j, NEW k, NEW l, [year |-> i, week |-> k] = [year |-> j, week |-> l]
                 PROVE  i = j /\ k = l
      OBVIOUS
    <3>1. [year |-> i, week |-> k].year = [year |-> j, week |-> l].year
      OBVIOUS
    <3>2. [year |-> i, week |-> k].week = [year |-> j, week |-> l].week
      OBVIOUS
    <3> QED BY <3>1, <3>2
  <2>2. PICK q, o : q = (m + 1) \div 2 /\ o = (n + 1) \div 2
    OBVIOUS
  <2>3. [year |-> a, week |-> q] = [year |-> b, week |-> o]
    BY <1>3, <2>2
  <2>4. a = b /\ q = o
    BY <2>1, <2>3, Zenon
  <2> QED BY <2>2, <2>4
<1>5. \/ m = n
      \/ m = n + 1 /\ m % 2 = 0 /\ n % 2 # 0
      \/ n = m + 1 /\ n % 2 = 0 /\ m % 2 # 0
  <2>1. PICK q \in Int : q = (m + 1) \div 2
    OBVIOUS
  <2>2. m + 1 = 2 * q \/ m + 1 = 2 * q + 1
    BY <2>1
  <2>3. n + 1 = 2 * q \/ n + 1 = 2 * q + 1
    BY <1>4, <2>1
  <2>4. m = n \/ (m = n + 1 /\ m = 2 * q) \/ (n = m + 1 /\ n = 2 * q)
    BY <2>2, <2>3
  <2>5. \A i \in Int : i = 2 * q => i % 2 = 0 /\ (i - 1) % 2 # 0
    OBVIOUS
  <2>6. (m = n + 1 => n = m - 1) /\ (n = m + 1 => m = n - 1)
    OBVIOUS
  <2> QED BY <2>4, <2>5, <2>6
<1>8. CASE m = n
  BY <1>1, <1>2, <1>4, <1>8, SameWeek DEF BiweekStart
<1>9. CASE m = n + 1 /\ m % 2 = 0 /\ n % 2 # 0
  <2>1. u - v < 14 /\ 0 < u - v
    BY <1>1, <1>2, <1>4, <1>9
  <2>2. u - 7 = v
    BY <1>1, <1>2, <2>1
  <2> QED BY <1>1, <1>2, <1>9, <2>2 DEF BiweekStart
<1>10. CASE n = m + 1 /\ n % 2 = 0 /\ m % 2 # 0
  <2>1. v - u < 14 /\ 0 < v - u
    BY <1>1, <1>2, <1>4, <1>10
  <2>2. v - 7 = u
    BY <1>1, <1>2, <2>1
  <2> QED BY <1>1, <1>2, <1>10, <2>2 DEF BiweekStart
<1> QED BY <1>5, <1>8, <1>9, <1>10

\* A day is in one month, of at least four weeks.
LEMMA Months ==
  ASSUME NEW x, Dated(x)
  PROVE  /\ MonthFirst(x) \in MonthStart /\ MonthFirst(x) \in Int /\ NextMonth(x) \in Int
         /\ MonthFirst(x) <= x /\ x < NextMonth(x) /\ NextMonth(x) - MonthFirst(x) >= 28
         /\ MonthFirst(MonthFirst(x)) = MonthFirst(x) /\ NextMonth(MonthFirst(x)) = NextMonth(x)
<1>0. x \in Int /\ \A m \in MonthStart : m \in Int
  BY CalendarAssumption DEF Dated
<1>1. PICK d \in Daily : d.day \in Int /\ x <= d.day /\ d.day - 13 <= x
  BY DownsamplingAssumption, Weeks DEF Dated
<1>2. \E m \in MonthStart : m <= x
  <2>1. PICK m \in MonthStart : m <= d.day - 13
    BY CalendarAssumption
  <2> QED BY <1>0, <1>1, <2>1
<1>3. \E n \in MonthStart : x < n
  <2>1. PICK n \in MonthStart : d.day < n
    BY CalendarAssumption
  <2> QED BY <1>0, <1>1, <2>1
<1>4. PICK m : m = MonthFirst(x)
  OBVIOUS
<1>5. PICK n : n = NextMonth(x)
  OBVIOUS
<1>6. m \in MonthStart /\ m \in Int /\ m <= x /\ \A k \in MonthStart : k <= x => k <= m
  <2> DEFINE S == {k \in MonthStart : k <= x}
  <2>1. S \in SUBSET Int /\ S # {} /\ \A k \in S : k <= x
    BY <1>0, <1>2
  <2>2. Max(S) \in S /\ \A k \in S : k <= Max(S)
    <3> HIDE DEF S
    <3> QED BY <1>0, <2>1, GreatestExists
  <2>3. m = Max(S)
    BY <1>4 DEF MonthFirst
  <2> QED BY <1>0, <2>2, <2>3
<1>7. n \in MonthStart /\ n \in Int /\ x < n /\ \A k \in MonthStart : x < k => n <= k
  <2> DEFINE S == {k \in MonthStart : k > x}
  <2>1. S \in SUBSET Int /\ S # {} /\ \A k \in S : x <= k
    BY <1>0, <1>3
  <2>2. Min(S) \in S /\ \A k \in S : Min(S) <= k
    <3> HIDE DEF S
    <3> QED BY <1>0, <2>1, LeastExists
  <2>3. n = Min(S)
    BY <1>5 DEF NextMonth
  <2> QED BY <1>0, <2>2, <2>3
<1>8. n - m >= 28
  BY <1>0, <1>6, <1>7, CalendarAssumption
<1>9. MonthFirst(m) = m
  <2> DEFINE S == {k \in MonthStart : k <= m}
  <2>1. S \in SUBSET Int /\ m \in S /\ \A k \in S : k <= m
    BY <1>0, <1>6
  <2>2. PICK e : e = Max(S)
    OBVIOUS
  <2>3. e \in S /\ \A k \in S : k <= e
    <3> HIDE DEF S
    <3> QED BY <1>6, <2>1, <2>2, GreatestExists
  <2>4. e \in Int /\ e <= m /\ m <= e
    BY <2>1, <2>3
  <2>5. MonthFirst(m) = e
    BY <2>2 DEF MonthFirst
  <2> QED BY <1>6, <2>4, <2>5
<1>10. NextMonth(m) = n
  <2> DEFINE S == {k \in MonthStart : k > m}
  <2>1. S \in SUBSET Int /\ n \in S /\ \A k \in S : n <= k
    <3>1. n > m
      BY <1>0, <1>6, <1>7
    <3>2. \A k \in MonthStart : k > m => x < k
      BY <1>0, <1>6
    <3>3. \A k \in S : k \in Int /\ n <= k
      BY <1>0, <1>7, <3>2
    <3>4. n \in S
      BY <1>7, <3>1
    <3> QED BY <3>3, <3>4
  <2>2. PICK e : e = Min(S)
    OBVIOUS
  <2>3. e \in S /\ \A k \in S : e <= k
    <3> HIDE DEF S
    <3> QED BY <1>7, <2>1, <2>2, LeastExists
  <2>4. e \in Int /\ e <= n /\ n <= e
    BY <2>1, <2>3
  <2>5. NextMonth(m) = e
    BY <2>2 DEF NextMonth
  <2> QED BY <1>7, <2>4, <2>5
<1> QED BY <1>4, <1>5, <1>6, <1>7, <1>8, <1>9, <1>10

-----------------------------------------------------------------------------
(* What the three phases have in common.                                   *)

\* The three phases, written out.
LEMMA PhasesAre ==
  ASSUME NEW x
  PROVE  /\ StartIn(3, x) = WeekStart(x) /\ DueOn(3, x) = (WeekStart(x) + 7) + 30
         /\ StartIn(2, x) = BiweekStart(x) /\ DueOn(2, x) = (BiweekStart(x) + 14) + 90
         /\ StartIn(1, x) = MonthFirst(x) /\ DueOn(1, x) = (MonthFirst(x) + (NextMonth(x) - MonthFirst(x))) + 180
         /\ Period(Tiers[3], x) = IsoWeek(x)
         /\ Period(Tiers[2], x) = BiweekOf(x)
         /\ Period(Tiers[1], x) = MonthFirst(x)
<1>1. Tiers[1] = "monthly" /\ Tiers[2] = "biweekly" /\ Tiers[3] = "weekly"
  BY DEF Tiers
<1>2. Window("weekly", x) = [start |-> WeekStart(x), length |-> 7] /\ Threshold("weekly") = 30
  BY DEF Window, Threshold, DailyToWeekly
<1>3. Window("biweekly", x) = [start |-> BiweekStart(x), length |-> 14] /\ Threshold("biweekly") = 90
  BY DEF Window, Threshold, WeeklyToBiweekly
<1>4. Window("monthly", x) = [start |-> MonthFirst(x), length |-> NextMonth(x) - MonthFirst(x)] /\ Threshold("monthly") = 180
  BY DEF Window, Threshold, BiweeklyToMonthly
<1>5. Period("weekly", x) = IsoWeek(x) /\ Period("biweekly", x) = BiweekOf(x) /\ Period("monthly", x) = MonthFirst(x)
  BY DEF Period, WeekOf, MonthOf
<1> QED BY <1>1, <1>2, <1>3, <1>4, <1>5 DEF StartIn, DueOn

\* The calendar reaches the days that may be recorded and the starts of their weeks and fortnights.
LEMMA DaysAreDated ==
  ASSUME NEW d \in Daily
  PROVE  /\ d.day \in Int /\ Dated(d.day)
         /\ WeekStart(d.day) \in Int /\ Dated(WeekStart(d.day)) /\ WeekStart(d.day) % 7 = 0
         /\ WeekStart(WeekStart(d.day)) = WeekStart(d.day)
         /\ BiweekStart(d.day) \in Int /\ Dated(BiweekStart(d.day)) /\ BiweekStart(d.day) % 7 = 0
         /\ BiweekStart(WeekStart(d.day)) = BiweekStart(d.day)
         /\ BiweekStart(BiweekStart(d.day)) = BiweekStart(d.day)
         /\ IsoWeek(BiweekStart(d.day)).week % 2 = 1
<1>1. d.day \in Int
  BY DownsamplingAssumption
<1>2. PICK x \in Int, w \in Int : x = d.day /\ w = WeekStart(x)
  BY <1>1, Weeks
<1>3. x - 6 <= w /\ w <= x /\ w % 7 = 0 /\ WeekStart(w) = w
  BY <1>2, Weeks
<1>4. Dated(x) /\ Dated(w)
  <2>1. x <= d.day /\ d.day - 13 <= w /\ w <= d.day
    BY <1>2, <1>3
  <2> QED BY <1>2, <1>3, <2>1 DEF Dated
<1>5. PICK b : b = BiweekStart(x)
  OBVIOUS
<1>6. /\ b \in Int /\ b % 7 = 0 /\ (b = w \/ b = w - 7)
      /\ IsoWeek(b).week % 2 = 1 /\ BiweekStart(b) = b /\ BiweekStart(w) = b
  BY <1>2, <1>4, <1>5, Fortnights
<1>7. Dated(b)
  <2>1. WeekStart(b) = b
    BY <1>6, WeekBefore
  <2>2. b <= d.day /\ d.day - 13 <= b
    BY <1>2, <1>3, <1>6
  <2> QED BY <1>6, <2>1, <2>2 DEF Dated
<1> QED BY <1>1, <1>2, <1>3, <1>4, <1>5, <1>6, <1>7

\* Where rows of each level start.
LEMMA LevelStarts ==
  ASSUME NEW r, Sound(r), NEW n \in 0..3, OfLevel(n, r)
  PROVE  /\ r.start \in Int
         /\ n # 0 => Dated(r.start)
         /\ n = 2 => r.start % 7 = 0 /\ WeekStart(r.start) = r.start
         /\ n = 1 => r.start % 7 = 0 /\ BiweekStart(r.start) = r.start /\ IsoWeek(r.start).week % 2 = 1
         /\ n = 0 => /\ r.start \in MonthStart /\ MonthFirst(r.start) = r.start
                     /\ NextMonth(r.start) \in Int /\ NextMonth(r.start) - r.start >= 28
<1>1. PICK d \in Daily : d \in r.of
  BY DEF Sound, Row
<1>2. PartStart(n, d.day) = r.start
  BY <1>1 DEF OfLevel
<1>3. PICK s : s = r.start
  OBVIOUS
<1>4. CASE n = 3
  BY <1>2, <1>3, <1>4, DaysAreDated DEF PartStart
<1>5. CASE n = 2
  <2>1. s = WeekStart(d.day)
    BY <1>2, <1>3, <1>5 DEF PartStart
  <2> QED BY <1>3, <1>5, <2>1, DaysAreDated
<1>6. CASE n = 1
  <2>1. s = BiweekStart(d.day)
    BY <1>2, <1>3, <1>6 DEF PartStart
  <2> QED BY <1>3, <1>6, <2>1, DaysAreDated
<1>7. CASE n = 0
  <2>1. s = MonthFirst(BiweekStart(d.day)) /\ Dated(BiweekStart(d.day))
    BY <1>2, <1>3, <1>7, DaysAreDated DEF PartStart
  <2>2. PICK b : b = BiweekStart(d.day)
    OBVIOUS
  <2>3. Dated(b) /\ s = MonthFirst(b)
    BY <2>1, <2>2
  <2>4. /\ s \in MonthStart /\ s \in Int /\ NextMonth(b) \in Int /\ NextMonth(b) - s >= 28
        /\ MonthFirst(s) = s /\ NextMonth(s) = NextMonth(b)
    BY <2>3, Months
  <2> QED BY <1>3, <1>7, <2>4
<1> QED BY <1>4, <1>5, <1>6, <1>7

\* How many days rows of each level cover.
LEMMA LevelsLast ==
  ASSUME NEW r, NEW n, OfLevel(n, r)
  PROVE  /\ n = 3 => r.length = 1
         /\ n = 2 => r.length = 7
         /\ n = 1 => r.length = 14
         /\ n = 0 => r.length = NextMonth(r.start) - r.start
<1>1. CASE n = 3
  BY <1>1 DEF OfLevel, Lasts
<1>2. CASE n = 2
  BY <1>2 DEF OfLevel, Lasts
<1>3. CASE n = 1
  BY <1>3 DEF OfLevel, Lasts
<1>4. CASE n = 0
  BY <1>4 DEF OfLevel, Lasts
<1> QED BY <1>1, <1>2, <1>3, <1>4

\* A row is of one level.
LEMMA LevelIsOne ==
  ASSUME NEW r, Sound(r), NEW m \in 0..3, NEW n \in 0..3, OfLevel(m, r), OfLevel(n, r)
  PROVE  m = n
<1>1. r.length \in Nat
  BY DEF Sound, Row
<1>2. /\ OfLevel(0, r) => r.length >= 28
      /\ OfLevel(1, r) => r.length = 14
      /\ OfLevel(2, r) => r.length = 7
      /\ OfLevel(3, r) => r.length = 1
  BY LevelStarts, LevelsLast
<1> QED BY <1>1, <1>2

\* A phase takes rows of its level only.
LEMMA TakenIsOfLevel ==
  ASSUME NEW r, Sound(r), NEW n \in 1..3, NEW now \in Int, Takes(Tiers[n], r, now)
  PROVE  OfLevel(n, r)
<1>1. r.length \in Nat
  BY DEF Sound, Row
<1>2. /\ OfLevel(0, r) => r.length >= 28
      /\ OfLevel(1, r) => r.length = 14
      /\ OfLevel(2, r) => r.length = 7
      /\ OfLevel(3, r) => r.length = 1
  BY LevelStarts, LevelsLast
<1>3. OfLevel(0, r) \/ OfLevel(1, r) \/ OfLevel(2, r) \/ OfLevel(3, r)
  BY DEF Sound
<1>5. CASE n = 3
  <2>1. IsDaily(r)
    BY <1>5 DEF Takes, Tiers, TakesDaily
  <2> QED BY <1>1, <1>2, <1>3, <1>5, <2>1 DEF IsDaily
<1>6. CASE n = 2
  <2>1. IsWeekly(r)
    BY <1>6 DEF Takes, Tiers, TakesWeekly
  <2> QED BY <1>1, <1>2, <1>3, <1>6, <2>1 DEF IsWeekly
<1>7. CASE n = 1
  <2>1. IsBiweekly(r)
    BY <1>7 DEF Takes, Tiers, TakesBiweekly
  <2> QED BY <1>1, <1>2, <1>3, <1>7, <2>1 DEF IsBiweekly
<1> QED BY <1>5, <1>6, <1>7

\* The calendar of a phase, in numbers.
LEMMA PhaseNumbers ==
  ASSUME NEW r, Sound(r), NEW n \in 1..3, OfLevel(n, r)
  PROVE  \E x \in Int, s \in Int, e \in Int :
           /\ x = r.start /\ s = StartIn(n, x) /\ e = DueOn(n, x) /\ s <= x
           /\ n = 3 => x <= s + 6 /\ e = s + 37
           /\ n = 2 => x <= s + 7 /\ e = s + 104
           /\ n = 1 => x + 180 < e /\ s + 208 <= e
<1>1. r.start \in Int /\ Dated(r.start)
  BY LevelStarts
<1>2. PICK x \in Int : x = r.start
  BY <1>1
<1>3. Dated(x)
  BY <1>1, <1>2
<1>4. CASE n = 3
  <2>1. PICK w \in Int : w = WeekStart(x) /\ w <= x /\ x <= w + 6
    BY Weeks
  <2>2. StartIn(n, x) = w /\ DueOn(n, x) = w + 37
    BY <1>4, <2>1, PhasesAre
  <2> QED BY <1>2, <1>4, <2>1, <2>2
<1>5. CASE n = 2
  <2>1. WeekStart(x) = x
    BY <1>2, <1>5, LevelStarts
  <2>2. PICK b \in Int : b = BiweekStart(x) /\ (b = x \/ b = x - 7)
    BY <1>3, <2>1, Fortnights
  <2>3. StartIn(n, x) = b /\ DueOn(n, x) = b + 104
    BY <1>5, <2>2, PhasesAre
  <2> QED BY <1>2, <1>5, <2>2, <2>3
<1>6. CASE n = 1
  <2>1. PICK m \in Int, l \in Int : m = MonthFirst(x) /\ l = NextMonth(x) /\ m <= x /\ x < l /\ l - m >= 28
    BY <1>3, Months
  <2>2. StartIn(n, x) = m /\ DueOn(n, x) = (m + (l - m)) + 180
    BY <1>6, <2>1, PhasesAre
  <2>3. PICK e \in Int : e = DueOn(n, x) /\ e = l + 180
    BY <2>1, <2>2
  <2> QED BY <1>2, <1>6, <2>1, <2>2, <2>3
<1> QED BY <1>4, <1>5, <1>6

\* A phase takes what is due, if it has been for seven weeks at most.
LEMMA DueIsTaken ==
  ASSUME NEW r, Sound(r), NEW n \in 1..3, OfLevel(n, r), NEW now \in Int,
         DueOn(n, r.start) <= now, DueOn(n, r.start) > now - 49
  PROVE  Takes(Tiers[n], r, now)
<1>1. PICK x \in Int, s \in Int, e \in Int :
        /\ x = r.start /\ s = StartIn(n, x) /\ e = DueOn(n, x) /\ s <= x
        /\ n = 3 => x <= s + 6 /\ e = s + 37
        /\ n = 2 => x <= s + 7 /\ e = s + 104
        /\ n = 1 => x + 180 < e /\ s + 208 <= e
  BY PhaseNumbers
<1>2. e <= now /\ now - 49 < e
  BY <1>1
<1>3. CASE n = 3
  <2>1. IsDaily(r)
    BY <1>3, LevelsLast DEF IsDaily
  <2>2. now - 90 < x /\ x <= now - 30
    BY <1>1, <1>2, <1>3
  <2> QED BY <1>1, <1>3, <2>1, <2>2 DEF Takes, Tiers, TakesDaily, WeeklyToBiweekly, DailyToWeekly
<1>4. CASE n = 2
  <2>1. IsWeekly(r)
    BY <1>4, LevelsLast DEF IsWeekly
  <2>2. now - 180 < x /\ x <= now - 90
    BY <1>1, <1>2, <1>4
  <2> QED BY <1>1, <1>4, <2>1, <2>2 DEF Takes, Tiers, TakesWeekly, WeeklyToBiweekly, BiweeklyToMonthly
<1>5. CASE n = 1
  <2>1. IsBiweekly(r)
    BY <1>5, LevelsLast DEF IsBiweekly
  <2>2. x <= now - 180
    BY <1>1, <1>2, <1>5
  <2> QED BY <1>1, <1>5, <2>1, <2>2 DEF Takes, Tiers, TakesBiweekly, BiweeklyToMonthly
<1> QED BY <1>3, <1>4, <1>5

\* Rows of one period make one row, on one day.
LEMMA SamePeriod ==
  ASSUME NEW r, NEW s, Sound(r), Sound(s), NEW n \in 1..3, OfLevel(n, r), OfLevel(n, s),
         Period(Tiers[n], r.start) = Period(Tiers[n], s.start)
  PROVE  StartIn(n, r.start) = StartIn(n, s.start) /\ DueOn(n, r.start) = DueOn(n, s.start)
<1>1. PICK x, y : x = r.start /\ y = s.start
  OBVIOUS
<1>2. Dated(x) /\ Dated(y) /\ x \in Int /\ y \in Int
  BY <1>1, LevelStarts
<1>3. CASE n = 3
  <2>1. IsoWeek(x) = IsoWeek(y)
    BY <1>1, <1>3, PhasesAre
  <2>2. WeekStart(x) = WeekStart(y)
    BY <1>2, <2>1, SameWeek
  <2> QED BY <1>1, <1>3, <2>2, PhasesAre
<1>4. CASE n = 2
  <2>1. BiweekOf(x) = BiweekOf(y)
    BY <1>1, <1>4, PhasesAre
  <2>2. BiweekStart(x) = BiweekStart(y)
    BY <1>2, <2>1, SameFortnight
  <2> QED BY <1>1, <1>4, <2>2, PhasesAre
<1>5. CASE n = 1
  <2>1. MonthFirst(x) = MonthFirst(y)
    BY <1>1, <1>5, PhasesAre
  <2>2. NextMonth(x) = NextMonth(y)
    BY <1>2, <2>1, Months
  <2> QED BY <1>1, <1>5, <2>1, <2>2, PhasesAre
<1> QED BY <1>3, <1>4, <1>5

\* The day a period starts is in it.
LEMMA StartOfPeriod ==
  ASSUME NEW r, Sound(r), NEW n \in 1..3, OfLevel(n, r)
  PROVE  LET s == StartIn(n, r.start)
         IN  /\ StartIn(n, s) = s /\ DueOn(n, s) = DueOn(n, r.start)
             /\ Period(Tiers[n], s) = Period(Tiers[n], r.start)
<1>1. PICK x : x = r.start
  OBVIOUS
<1>2. Dated(x) /\ x \in Int
  BY <1>1, LevelStarts
<1>3. PICK s : s = StartIn(n, x)
  OBVIOUS
<1>4. CASE n = 3
  <2>1. s = WeekStart(x)
    BY <1>3, <1>4, PhasesAre
  <2>2. WeekStart(s) = s /\ IsoWeek(s) = IsoWeek(x)
    BY <1>2, <2>1, Weeks, WeekOfItsMonday
  <2> QED BY <1>1, <1>3, <1>4, <2>1, <2>2, PhasesAre
<1>5. CASE n = 2
  <2>1. s = BiweekStart(x)
    BY <1>3, <1>5, PhasesAre
  <2>2. BiweekStart(s) = s /\ BiweekOf(s) = BiweekOf(x)
    BY <1>2, <2>1, Fortnights
  <2> QED BY <1>1, <1>3, <1>5, <2>1, <2>2, PhasesAre
<1>6. CASE n = 1
  <2>1. s = MonthFirst(x)
    BY <1>3, <1>6, PhasesAre
  <2>2. MonthFirst(s) = s /\ NextMonth(s) = NextMonth(x)
    BY <1>2, <2>1, Months
  <2> QED BY <1>1, <1>3, <1>6, <2>1, <2>2, PhasesAre
<1> QED BY <1>4, <1>5, <1>6

\* The days of a row start the row a phase makes of it.
LEMMA PartsStart ==
  ASSUME NEW r, Sound(r), NEW n \in 1..3, OfLevel(n, r), NEW d \in r.of
  PROVE  PartStart(n - 1, d.day) = StartIn(n, r.start)
<1>1. d \in Daily /\ PartStart(n, d.day) = r.start
  BY DEF Sound, Row, OfLevel
<1>2. PICK x : x = r.start
  OBVIOUS
<1>3. CASE n = 3
  <2>1. PartStart(2, d.day) = WeekStart(d.day) /\ d.day = x
    BY <1>1, <1>2, <1>3 DEF PartStart
  <2> QED BY <1>2, <1>3, <2>1, PhasesAre
<1>4. CASE n = 2
  <2>1. PartStart(1, d.day) = BiweekStart(d.day) /\ WeekStart(d.day) = x
    BY <1>1, <1>2, <1>4 DEF PartStart
  <2>2. BiweekStart(x) = BiweekStart(d.day)
    BY <1>1, <2>1, DaysAreDated
  <2> QED BY <1>2, <1>4, <2>1, <2>2, PhasesAre
<1>5. CASE n = 1
  <2>1. PartStart(0, d.day) = MonthFirst(BiweekStart(d.day)) /\ BiweekStart(d.day) = x
    BY <1>1, <1>2, <1>5 DEF PartStart
  <2> QED BY <1>2, <1>5, <2>1, PhasesAre
<1> QED BY <1>3, <1>4, <1>5

\* A row is not due for the next phase when it is made.
LEMMA MadeIsNotDue ==
  ASSUME NEW r, Sound(r), NEW n \in 2..3, OfLevel(n, r), NEW a, Sound(a), OfLevel(n - 1, a),
         a.start = StartIn(n, r.start), NEW t \in Int, DueOn(n, r.start) > t - 49
  PROVE  DueOn(n - 1, a.start) > t
<1>1. PICK x \in Int, s \in Int, e \in Int :
        /\ x = r.start /\ s = StartIn(n, x) /\ e = DueOn(n, x) /\ s <= x
        /\ n = 3 => x <= s + 6 /\ e = s + 37
        /\ n = 2 => x <= s + 7 /\ e = s + 104
        /\ n = 1 => x + 180 < e /\ s + 208 <= e
  BY PhaseNumbers
<1>2. PICK m \in 1..2 : m = n - 1
  OBVIOUS
<1>3. PICK y \in Int, z \in Int, f \in Int :
        /\ y = a.start /\ z = StartIn(m, y) /\ f = DueOn(m, y) /\ z <= y
        /\ m = 3 => y <= z + 6 /\ f = z + 37
        /\ m = 2 => y <= z + 7 /\ f = z + 104
        /\ m = 1 => y + 180 < f /\ z + 208 <= f
  BY <1>2, PhaseNumbers
<1>4. a.start = s /\ e > t - 49
  BY <1>1
<1>5. f > t
  BY <1>1, <1>2, <1>3, <1>4
<1> QED BY <1>2, <1>3, <1>5

\* A finer row that starts where a period starts is past its time when the
\* period is due.
LEMMA FoundIsPast ==
  ASSUME NEW r, Sound(r), NEW n \in 1..3, OfLevel(n, r), NEW k, Sound(k), NEW m \in 1..3, OfLevel(m, k),
         k.start = StartIn(n, r.start), NEW t \in Int, DueOn(n, r.start) <= t, m > n
  PROVE  DueOn(m, k.start) <= t - 49
<1>1. PICK x \in Int, s \in Int, e \in Int :
        /\ x = r.start /\ s = StartIn(n, x) /\ e = DueOn(n, x) /\ s <= x
        /\ n = 3 => x <= s + 6 /\ e = s + 37
        /\ n = 2 => x <= s + 7 /\ e = s + 104
        /\ n = 1 => x + 180 < e /\ s + 208 <= e
  BY PhaseNumbers
<1>2. PICK y \in Int, z \in Int, f \in Int :
        /\ y = k.start /\ z = StartIn(m, y) /\ f = DueOn(m, y) /\ z <= y
        /\ m = 3 => y <= z + 6 /\ f = z + 37
        /\ m = 2 => y <= z + 7 /\ f = z + 104
        /\ m = 1 => y + 180 < f /\ z + 208 <= f
  BY PhaseNumbers
<1>3. k.start = s /\ e <= t
  BY <1>1
<1>4. f <= t - 49
  BY <1>1, <1>2, <1>3
<1> QED BY <1>2, <1>4

\* A coarser row that starts there is not due yet, if the period has not been
\* due for long.
LEMMA FoundIsNotDue ==
  ASSUME NEW r, Sound(r), NEW n \in 1..3, OfLevel(n, r), NEW k, Sound(k), NEW m \in 0..3, OfLevel(m, k),
         k.start = StartIn(n, r.start), NEW t \in Int, DueOn(n, r.start) > t - 49, m < n - 1
  PROVE  DueOn(m + 1, k.start) > t
<1>1. PICK x \in Int, s \in Int, e \in Int :
        /\ x = r.start /\ s = StartIn(n, x) /\ e = DueOn(n, x) /\ s <= x
        /\ n = 3 => x <= s + 6 /\ e = s + 37
        /\ n = 2 => x <= s + 7 /\ e = s + 104
        /\ n = 1 => x + 180 < e /\ s + 208 <= e
  BY PhaseNumbers
<1>2. PICK y : y = k.start
  OBVIOUS
<1>3. y = s /\ e > t - 49
  BY <1>1, <1>2
<1>4. CASE m = 1
  <2>1. BiweekStart(y) = y
    BY <1>2, <1>4, LevelStarts
  <2>2. DueOn(2, y) = (y + 14) + 90
    BY <2>1, PhasesAre
  <2> QED BY <1>1, <1>2, <1>3, <1>4, <2>2
<1>5. CASE m = 0
  <2>1. MonthFirst(y) = y /\ NextMonth(y) \in Int /\ NextMonth(y) - y >= 28
    BY <1>2, <1>5, LevelStarts
  <2>2. PICK l \in Int : l = NextMonth(y) /\ l - y >= 28
    BY <2>1
  <2>3. DueOn(1, y) = (y + (l - y)) + 180
    BY <2>1, <2>2, PhasesAre
  <2>4. DueOn(1, y) > t
    BY <1>1, <1>3, <1>5, <2>2, <2>3
  <2> QED BY <1>2, <1>5, <2>4
<1> QED BY <1>4, <1>5

\* Days of the finer tier whose row an aggregate takes are its anchors.
LEMMA DaysAreAnchors ==
  ASSUME NEW n \in 1..3, NEW k, Sound(k), OfLevel(n, k), NEW m \in k.of, NEW d \in Daily,
         d.project = k.project, d.source = k.source, PartStart(n - 1, d.day) = k.start
  PROVE  m \in Anchors[d]
<1>1. m \in Daily /\ m.project = d.project /\ m.source = d.source /\ PartStart(n, m.day) = k.start
  BY DEF Sound, Row, OfLevel
<1>2. \/ m.day = WeekStart(d.day)
      \/ WeekStart(m.day) = BiweekStart(d.day)
      \/ BiweekStart(m.day) = MonthFirst(BiweekStart(d.day))
  <2>1. CASE n = 3
    BY <1>1, <2>1 DEF PartStart
  <2>2. CASE n = 2
    BY <1>1, <2>2 DEF PartStart
  <2>3. CASE n = 1
    BY <1>1, <2>3 DEF PartStart
  <2> QED BY <2>1, <2>2, <2>3
<1> QED BY <1>1, <1>2 DEF Anchors

-----------------------------------------------------------------------------
(* An aggregate.                                                           *)

\* A finite set has a least element in any total order.
LEMMA LeastOfMany ==
  ASSUME NEW g, IsFiniteSet(g), g # {}, NEW le,
         \A a, b \in g : <<a, b>> \in le \/ <<b, a>> \in le,
         \A a, b, c \in g : <<a, b>> \in le /\ <<b, c>> \in le => <<a, c>> \in le
  PROVE  \E a \in g : \A b \in g : <<a, b>> \in le
<1> DEFINE Has(T) == \E a \in T : \A b \in T : <<a, b>> \in le
           N == {n \in Nat : \E T \in SUBSET g : T # {} /\ Cardinality(T) = n /\ ~Has(T)}
<1>1. \A T \in SUBSET g : IsFiniteSet(T) /\ Cardinality(T) \in Nat
  BY FS_Subset, FS_CardinalityType
<1>2. ASSUME N # {} PROVE FALSE
  <2>1. PICK n \in N : \A m \in N : <<m, n>> \notin OpToRel(<, Nat)
    <3>1. N \subseteq Nat
      OBVIOUS
    <3> HIDE DEF N
    <3> QED BY <1>2, <3>1, NatLessThanWellFounded, WFMin
  <2>2. PICK T \in SUBSET g : T # {} /\ Cardinality(T) = n /\ ~Has(T)
    BY <2>1
  <2>3. PICK x : x \in T
    BY <2>2
  <2>4. PICK U : U = T \ {x}
    OBVIOUS
  <2>5. U \in SUBSET g /\ Cardinality(U) = n - 1 /\ Cardinality(U) \in Nat
    BY <1>1, <2>2, <2>3, <2>4, FS_RemoveElement
  <2>6. U = {} \/ Has(U)
    <3> SUFFICES ASSUME U # {}, ~Has(U) PROVE FALSE
      OBVIOUS
    <3>1. n - 1 \in N
      BY <2>5
    <3>2. <<n - 1, n>> \in Nat \X Nat /\ <<n - 1, n>>[1] < <<n - 1, n>>[2]
      BY <3>1
    <3> QED BY <2>1, <3>1, <3>2, Zenon DEF OpToRel
  <2>7. <<x, x>> \in le
    BY <2>2, <2>3
  <2>8. CASE U = {}
    <3>1. \A b \in T : b = x
      BY <2>4, <2>8
    <3> QED BY <2>2, <2>3, <2>7, <3>1
  <2>9. CASE Has(U)
    <3>1. PICK a \in U : \A b \in U : <<a, b>> \in le
      BY <2>9
    <3>2. \A b \in T : b = x \/ b \in U
      BY <2>4
    <3>3. a \in T /\ a \in g /\ x \in g
      BY <2>2, <2>3, <2>4, <3>1
    <3>4. CASE <<a, x>> \in le
      BY <2>2, <3>1, <3>2, <3>3, <3>4
    <3>5. CASE <<x, a>> \in le
      <4>1. \A b \in T : <<x, b>> \in le
        BY <2>2, <2>7, <3>1, <3>2, <3>3, <3>5
      <4> QED BY <2>2, <2>3, <4>1
    <3> QED BY <3>3, <3>4, <3>5
  <2> QED BY <2>6, <2>8, <2>9
<1> QED BY <1>1, <1>2

\* A group has a first row.
LEMMA FirstIsIn ==
  ASSUME NEW g, IsFiniteSet(g), g # {}, \A r \in g : r.start \in Int /\ r.id \in Int
  PROVE  First(g) \in g
<1> DEFINE Le(a, b) == a.start < b.start \/ (a.start = b.start /\ a.id <= b.id)
           R == {p \in g \X g : Le(p[1], p[2])}
<1>1. \A a, b \in g : <<a, b>> \in R <=> Le(a, b)
  OBVIOUS
<1>2. \A a, b \in g : Le(a, b) \/ Le(b, a)
  OBVIOUS
<1>3. \A a, b, c \in g : Le(a, b) /\ Le(b, c) => Le(a, c)
  OBVIOUS
<1> HIDE DEF R
<1>4. \A a, b \in g : <<a, b>> \in R \/ <<b, a>> \in R
  BY <1>1, <1>2
<1>5. \A a, b, c \in g : <<a, b>> \in R /\ <<b, c>> \in R => <<a, c>> \in R
  BY <1>1, <1>3
<1>6. \E a \in g : \A b \in g : <<a, b>> \in R
  BY <1>4, <1>5, LeastOfMany
<1>7. \E a \in g : \A b \in g : Le(a, b)
  BY <1>1, <1>6
<1> QED BY <1>7 DEF First

\* A group has a largest peak.
LEMMA PeakOfMany ==
  ASSUME NEW g, IsFiniteSet(g), g # {}, \A r \in g : r.peak \in Nat
  PROVE  /\ Max({r.peak : r \in g}) \in Nat
         /\ \A r \in g : r.peak <= Max({s.peak : s \in g})
<1> DEFINE R == {p \in g \X g : p[1].peak >= p[2].peak}
<1>1. \A a, b \in g : <<a, b>> \in R <=> a.peak >= b.peak
  OBVIOUS
<1>0. /\ \A a, b \in g : a.peak >= b.peak \/ b.peak >= a.peak
      /\ \A a, b, c \in g : a.peak >= b.peak /\ b.peak >= c.peak => a.peak >= c.peak
  OBVIOUS
<1> HIDE DEF R
<1>2. \A a, b \in g : <<a, b>> \in R \/ <<b, a>> \in R
  BY <1>0, <1>1, Zenon
<1>3. \A a, b, c \in g : <<a, b>> \in R /\ <<b, c>> \in R => <<a, c>> \in R
  BY <1>0, <1>1, Zenon
<1>4. \E a \in g : \A b \in g : <<a, b>> \in R
  BY <1>2, <1>3, LeastOfMany
<1>5. PICK a \in g : \A b \in g : a.peak >= b.peak
  BY <1>1, <1>4
<1> DEFINE S == {r.peak : r \in g}
<1>6. a.peak \in S /\ \A y \in S : a.peak >= y
  BY <1>5
<1>7. Max(S) \in S /\ \A y \in S : Max(S) >= y
  <2> HIDE DEF S
  <2> QED BY <1>6 DEF Max
<1>8. PICK b \in g : Max(S) = b.peak
  BY <1>7
<1>9. \A r \in g : r.peak \in S
  OBVIOUS
<1> HIDE DEF S
<1>10. \A r \in g : r.peak <= Max(S)
  BY <1>7, <1>8, <1>9
<1> QED BY <1>8, <1>10 DEF S

\* Whatever a phase makes of rows of its level and of one period is a row of the
\* next level that covers their days.
LEMMA AggregateIsSound ==
  ASSUME NEW n \in 1..3, NEW g, IsFiniteSet(g), g # {},
         \A r \in g : Sound(r) /\ OfLevel(n, r),
         \A r, s \in g : Key(n, r) = Key(n, s),
         NEW id \in Nat
  PROVE  LET a == Aggregate(Tiers[n], g, id)
         IN  /\ Sound(a) /\ OfLevel(n - 1, a) /\ a.id = id
             /\ \A d : d \in a.of <=> \E r \in g : d \in r.of
             /\ First(g) \in g
             /\ \A r \in g : /\ r.project = a.project /\ r.source = a.source
                             /\ StartIn(n, r.start) = a.start /\ DueOn(n, r.start) = DueOn(n, a.start)
                             /\ Key(n, r) = Key(n, a)
<1>1. PICK f : f = First(g)
  OBVIOUS
<1>2. \A r \in g : r \in Row /\ r.start \in Int /\ r.id \in Int /\ r.peak \in Nat
  BY DEF Sound, Row
<1>3. f \in g /\ f \in Row
  BY <1>1, <1>2, FirstIsIn
<1>4. PICK p : p = Max({r.peak : r \in g})
  OBVIOUS
<1>5. p \in Nat /\ \A r \in g : r.peak <= p
  BY <1>2, <1>4, PeakOfMany
<1>6. PICK w : w = Window(Tiers[n], f.start)
  OBVIOUS
<1>7. PICK c : c = UNION {r.of : r \in g}
  OBVIOUS
<1>8. PICK a : a = [f EXCEPT !.id = id, !.start = w.start, !.length = w.length, !.peak = p, !.of = c]
  OBVIOUS
<1>9. a = Aggregate(Tiers[n], g, id)
  BY <1>1, <1>4, <1>6, <1>7, <1>8 DEF Aggregate
<1>10. \A d : d \in c <=> \E r \in g : d \in r.of
  BY <1>7
<1>11. w.start = StartIn(n, f.start) /\ w.start \in Int
  <2>1. w.start = StartIn(n, f.start)
    BY <1>6 DEF StartIn
  <2>2. StartIn(n, f.start) \in Int
    BY <1>3, PhaseNumbers
  <2> QED BY <2>1, <2>2
<1>12. \A r, s \in g : /\ r.project = s.project /\ r.source = s.source
                       /\ Period(Tiers[n], r.start) = Period(Tiers[n], s.start)
  BY DEF Key
<1>13. \A r \in g : StartIn(n, r.start) = w.start /\ DueOn(n, r.start) = DueOn(n, f.start)
  BY <1>3, <1>11, <1>12, SamePeriod
<1>14. w.length \in Nat /\ (n = 3 => w.length = 7) /\ (n = 2 => w.length = 14)
       /\ (n = 1 => w.length = NextMonth(w.start) - w.start)
  <2>1. PICK x : x = f.start
    OBVIOUS
  <2>2. Dated(x)
    BY <1>3, <2>1, LevelStarts
  <2>3. CASE n = 3
    BY <1>6, <2>3 DEF Window, Tiers
  <2>4. CASE n = 2
    BY <1>6, <2>4 DEF Window, Tiers
  <2>5. CASE n = 1
    <3>1. w = [start |-> MonthFirst(x), length |-> NextMonth(x) - MonthFirst(x)]
      BY <1>6, <2>1, <2>5 DEF Window, Tiers
    <3>2. PICK m \in Int, l \in Int : m = MonthFirst(x) /\ l = NextMonth(x) /\ l - m >= 28 /\ NextMonth(m) = l
      BY <2>2, Months
    <3>3. w.start = m /\ w.length = l - m /\ l - m \in Nat
      BY <3>1, <3>2
    <3> QED BY <2>5, <3>2, <3>3
  <2> QED BY <2>3, <2>4, <2>5
<1>15. a.id = id /\ a.start = w.start /\ a.length = w.length /\ a.peak = p /\ a.of = c
       /\ a.project = f.project /\ a.source = f.source /\ a.slug = f.slug
  BY <1>3, <1>8 DEF Row
<1>16. a \in Row
  <2>1. c \in SUBSET Daily
    BY <1>2, <1>10 DEF Row
  <2> QED BY <1>3, <1>5, <1>8, <1>11, <1>14, <2>1 DEF Row
<1>17. OfLevel(n - 1, a)
  <2>1. Lasts(n - 1, a)
    <3>1. CASE n = 3
      BY <1>14, <1>15, <3>1 DEF Lasts
    <3>2. CASE n = 2
      BY <1>14, <1>15, <3>2 DEF Lasts
    <3>3. CASE n = 1
      BY <1>14, <1>15, <3>3 DEF Lasts
    <3> QED BY <3>1, <3>2, <3>3
  <2>2. ASSUME NEW d \in a.of PROVE PartStart(n - 1, d.day) = a.start
    <3>1. PICK r \in g : d \in r.of
      BY <1>10, <1>15
    <3>2. PartStart(n - 1, d.day) = StartIn(n, r.start)
      BY <3>1, PartsStart
    <3> QED BY <1>13, <1>15, <3>1, <3>2
  <2> QED BY <2>1, <2>2 DEF OfLevel
<1>18. Sound(a)
  <2>1. a.of # {}
    BY <1>3, <1>10, <1>15 DEF Sound
  <2>2. ASSUME NEW d \in a.of PROVE d.peak <= a.peak /\ d.project = a.project /\ d.source = a.source
    <3>1. PICK r \in g : d \in r.of
      BY <1>10, <1>15
    <3>2. d.peak <= r.peak /\ d.project = r.project /\ d.source = r.source /\ d \in Daily
      BY <3>1 DEF Sound, Row
    <3>3. d.peak \in Nat /\ r.peak \in Nat /\ r.peak <= p
      BY <1>2, <1>5, <3>1, <3>2, DownsamplingAssumption
    <3>4. d.peak <= a.peak
      BY <1>5, <1>15, <3>2, <3>3
    <3> QED BY <1>3, <1>12, <1>15, <3>1, <3>2, <3>4
  <2>3. n - 1 \in 0..3
    OBVIOUS
  <2> QED BY <1>16, <1>17, <2>1, <2>2, <2>3 DEF Sound
<1>19. DueOn(n, f.start) = DueOn(n, a.start) /\ Period(Tiers[n], f.start) = Period(Tiers[n], a.start)
  <2>1. Sound(f) /\ OfLevel(n, f) /\ a.start = StartIn(n, f.start)
    BY <1>3, <1>11, <1>15
  <2> QED BY <2>1, StartOfPeriod
<1>20. \A r \in g : /\ r.project = a.project /\ r.source = a.source
                    /\ StartIn(n, r.start) = a.start /\ DueOn(n, r.start) = DueOn(n, a.start)
                    /\ Period(Tiers[n], r.start) = Period(Tiers[n], a.start)
  BY <1>3, <1>12, <1>13, <1>15, <1>19
<1>21. \A r \in g : Key(n, r) = Key(n, a)
  BY <1>20 DEF Key
<1> QED BY <1>1, <1>3, <1>9, <1>10, <1>15, <1>17, <1>18, <1>20, <1>21

-----------------------------------------------------------------------------
(* A query.                                                                *)

\* The groups of a phase are the rows it takes of each period that is over.
LEMMA GroupsAreRows ==
  ASSUME NEW n \in 1..3, NEW table, IsFiniteSet(table), \A r \in table : Sound(r), NEW now \in Int
  PROVE  /\ \A g \in Groups(Tiers[n], table, now) :
              /\ g # {} /\ g \subseteq table /\ IsFiniteSet(g)
              /\ \A r \in g : OfLevel(n, r) /\ DueOn(n, r.start) <= now
              /\ \A r, s \in g : Key(n, r) = Key(n, s)
         /\ \A g, h \in Groups(Tiers[n], table, now) : \A r \in g, s \in h : Key(n, r) = Key(n, s) => g = h
         /\ \A r \in table : OfLevel(n, r) /\ DueOn(n, r.start) <= now /\ DueOn(n, r.start) > now - 49 =>
              \E g \in Groups(Tiers[n], table, now) : r \in g
<1> DEFINE taken == {r \in table : Takes(Tiers[n], r, now)}
           Of(r) == {s \in taken : Key(n, s) = Key(n, r)}
           Over(g) == DueOn(n, First(g).start) <= now
<1>1. \A r, s : Key(n, s) = Key(n, r) <=> /\ s.project = r.project /\ s.source = r.source
                                          /\ Period(Tiers[n], s.start) = Period(Tiers[n], r.start)
  BY DEF Key
<1>2. \A r : Group(Tiers[n], taken, r) = Of(r)
  BY <1>1 DEF Group
<1>3. \A r \in taken : r \in table /\ Sound(r) /\ OfLevel(n, r)
  BY TakenIsOfLevel
<1>4. \A r \in taken : r.start \in Int /\ r.id \in Int
  BY <1>3 DEF Sound, Row
<1>5. ASSUME NEW r \in taken
      PROVE  /\ r \in Of(r) /\ Of(r) \subseteq taken /\ IsFiniteSet(Of(r)) /\ First(Of(r)) \in Of(r)
             /\ \A s \in Of(r) : DueOn(n, s.start) = DueOn(n, First(Of(r)).start)
  <2>1. r \in Of(r) /\ Of(r) \subseteq taken /\ Of(r) \subseteq table
    OBVIOUS
  <2>2. PICK g : g = Of(r)
    OBVIOUS
  <2>3. IsFiniteSet(g)
    BY <2>1, <2>2, FS_Subset
  <2>4. First(g) \in g
    BY <1>4, <2>1, <2>2, <2>3, FirstIsIn
  <2>5. \A s \in g : s \in taken /\ Key(n, s) = Key(n, r)
    BY <2>2
  <2>6. \A s \in g : DueOn(n, s.start) = DueOn(n, First(g).start)
    <3>1. PICK f \in g : f = First(g)
      BY <2>4
    <3>2. \A s \in g : Period(Tiers[n], s.start) = Period(Tiers[n], f.start)
      BY <1>1, <2>5, <3>1
    <3>3. \A s \in g : DueOn(n, s.start) = DueOn(n, f.start)
      BY <1>3, <2>5, <3>1, <3>2, SamePeriod
    <3> QED BY <3>1, <3>3
  <2> QED BY <2>1, <2>2, <2>3, <2>4, <2>6
<1>6. ASSUME NEW r \in taken
      PROVE  LET g == Of(r)
                 w == Window(Tiers[n], First(g).start)
             IN  w.start + w.length <= now - Threshold(Tiers[n]) <=> Over(g)
  <2>1. PICK f : f = First(Of(r)) /\ f \in taken
    BY <1>5
  <2>2. PICK w : w = Window(Tiers[n], f.start)
    OBVIOUS
  <2>3. PICK th \in Int : th = Threshold(Tiers[n])
    BY DEF Threshold, Tiers, DailyToWeekly, WeeklyToBiweekly, BiweeklyToMonthly
  <2>4. DueOn(n, f.start) = (w.start + w.length) + th /\ w.start = StartIn(n, f.start)
    BY <2>2, <2>3 DEF DueOn, StartIn
  <2>5. w.start \in Int /\ w.length \in Int
    <3>1. w.start \in Int
      BY <1>3, <2>1, <2>4, PhaseNumbers
    <3>2. PICK x : x = f.start
      OBVIOUS
    <3>3. (MonthFirst(x) \in Int /\ NextMonth(x) \in Int) \/ n # 1
      BY <1>3, <2>1, <3>2, LevelStarts, Months
    <3>4. PICK l : l = NextMonth(x) - MonthFirst(x)
      OBVIOUS
    <3>5. l \in Int \/ n # 1
      BY <3>3, <3>4
    <3>6. w.length = 7 \/ w.length = 14 \/ (n = 1 /\ w.length = l)
      BY <2>2, <3>2, <3>4 DEF Window, Tiers
    <3> QED BY <3>1, <3>5, <3>6
  <2>6. w.start + w.length <= now - th <=> (w.start + w.length) + th <= now
    BY <2>3, <2>5
  <2> QED BY <2>1, <2>2, <2>3, <2>4, <2>6
<1>7. \A g : g \in Groups(Tiers[n], table, now) <=> \E r \in taken : g = Of(r) /\ Over(g)
  <2>1. GroupsEarly(Tiers[n], table, now) = {Group(Tiers[n], taken, r) : r \in taken}
    BY DEF GroupsEarly
  <2>2. \A g : g \in GroupsEarly(Tiers[n], table, now) <=> \E r \in taken : g = Of(r)
    BY <1>2, <2>1
  <2> HIDE DEF taken, Of, Over
  <2>3. \A g : g \in Groups(Tiers[n], table, now) <=>
               /\ g \in GroupsEarly(Tiers[n], table, now)
               /\ LET w == Window(Tiers[n], First(g).start) IN w.start + w.length <= now - Threshold(Tiers[n])
    BY DEF Groups
  <2> QED BY <1>6, <2>2, <2>3
<1>8. \A r, s : s \in Of(r) <=> s \in taken /\ Key(n, s) = Key(n, r)
  OBVIOUS
<1>9. \A r \in table : Takes(Tiers[n], r, now) => r \in taken
  OBVIOUS
<1> HIDE DEF taken, Of
<1>10. ASSUME NEW g \in Groups(Tiers[n], table, now)
       PROVE  /\ g # {} /\ g \subseteq table /\ IsFiniteSet(g)
              /\ \A r \in g : OfLevel(n, r) /\ DueOn(n, r.start) <= now
              /\ \A r, s \in g : Key(n, r) = Key(n, s)
  <2>1. PICK r \in taken : g = Of(r) /\ Over(g)
    BY <1>7
  <2>2. /\ r \in g /\ g \subseteq taken /\ IsFiniteSet(g)
        /\ \A s \in g : DueOn(n, s.start) = DueOn(n, First(g).start)
    BY <1>5, <2>1
  <2> QED BY <1>3, <1>8, <2>1, <2>2
<1>11. ASSUME NEW g \in Groups(Tiers[n], table, now), NEW h \in Groups(Tiers[n], table, now),
              NEW r \in g, NEW s \in h, Key(n, r) = Key(n, s)
       PROVE  g = h
  <2>1. PICK a \in taken, b \in taken : g = Of(a) /\ h = Of(b)
    BY <1>7
  <2>2. Key(n, a) = Key(n, b)
    BY <1>8, <1>11, <2>1
  <2> QED BY <1>8, <2>1, <2>2
<1>12. ASSUME NEW r \in table, OfLevel(n, r), DueOn(n, r.start) <= now, DueOn(n, r.start) > now - 49
       PROVE  \E g \in Groups(Tiers[n], table, now) : r \in g
  <2>1. r \in taken
    BY <1>9, <1>12, DueIsTaken
  <2>2. r \in Of(r) /\ Over(Of(r))
    BY <1>5, <1>12, <2>1
  <2> QED BY <1>7, <2>1, <2>2
<1> QED BY <1>10, <1>11, <1>12

\* A job that enters a phase has what the phase takes.
LEMMA EnterHolds ==
  ASSUME RowsHold, today \in Int, NEW table \in SUBSET rows, NEW n \in 1..4, NEW e, e = Enter(n, today, table)
  PROVE  /\ e \in JobRow /\ e.phase = n /\ e.now = today
         /\ e.group = {} /\ e.existing = NoRow /\ e.sources = {}
         /\ e.groups # {} => n \in 1..3
         /\ \A g \in e.groups : GroupHolds(n, g) /\ g \subseteq table
         /\ \A g, h \in e.groups : \A r \in g, s \in h : r.id = s.id \/ Key(n, r) = Key(n, s) => g = h
         /\ n \in 1..3 => \A r \in table :
              OfLevel(n, r) /\ DueOn(n, r.start) <= today /\ DueOn(n, r.start) > today - 49 =>
                \E g \in e.groups : r \in g
<1>1. IsFiniteSet(table) /\ \A r \in table : RowHolds(r) /\ Sound(r) /\ r \in Row
  BY FS_Subset DEF RowsHold, RowHolds, Sound
<1>2. PICK q : q = (IF n = 4 THEN {} ELSE Groups(Tiers[n], table, today))
  OBVIOUS
<1>3. /\ e.phase = n /\ e.now = today /\ e.groups = q
      /\ e.group = {} /\ e.existing = NoRow /\ e.sources = {}
      /\ e = [phase |-> n, now |-> today, groups |-> q, group |-> {}, existing |-> NoRow, sources |-> {}]
  BY <1>2 DEF Enter, NoJob, EventsPhase
<1>4. CASE n = 4
  <2>1. q = {}
    BY <1>2, <1>4
  <2>2. e \in JobRow
    BY <1>3, <2>1 DEF JobRow, EventsPhase, NoRow
  <2> QED BY <1>3, <1>4, <2>1, <2>2
<1>5. CASE n \in 1..3
  <2>1. q = Groups(Tiers[n], table, today)
    BY <1>2, <1>5
  <2>2. /\ \A g \in q : /\ g # {} /\ g \subseteq table /\ IsFiniteSet(g)
                        /\ \A r \in g : OfLevel(n, r) /\ DueOn(n, r.start) <= today
                        /\ \A r, s \in g : Key(n, r) = Key(n, s)
        /\ \A g, h \in q : \A r \in g, s \in h : Key(n, r) = Key(n, s) => g = h
        /\ \A r \in table : OfLevel(n, r) /\ DueOn(n, r.start) <= today /\ DueOn(n, r.start) > today - 49 =>
              \E g \in q : r \in g
    BY <1>1, <1>5, <2>1, GroupsAreRows
  <2>3. \A g \in q : GroupHolds(n, g)
    BY <1>1, <2>2 DEF GroupHolds
  <2>4. \A g, h \in q : \A r \in g, s \in h : r.id = s.id => g = h
    <3> SUFFICES ASSUME NEW g \in q, NEW h \in q, NEW r \in g, NEW s \in h, r.id = s.id PROVE g = h
      OBVIOUS
    <3>1. r \in rows /\ s \in rows
      BY <2>2
    <3>2. r = s
      BY <3>1 DEF RowsHold
    <3> QED BY <2>2, <3>2
  <2>5. e \in JobRow
    <3>1. q \in SUBSET SUBSET Row
      BY <1>1, <2>2
    <3> QED BY <1>3, <1>5, <3>1 DEF JobRow, EventsPhase, NoRow
  <2> QED BY <1>3, <1>5, <2>2, <2>3, <2>4, <2>5
<1> QED BY <1>4, <1>5

\* What rows, groups and jobs hold does not go away.
LEMMA RowsStillHold ==
  ASSUME nextId \in Int, nextId' \in Int, nextId <= nextId', recorded \subseteq recorded',
         today \in Int, today' \in Int, today <= today'
  PROVE  /\ \A r : RowHolds(r) => RowHolds(r)'
         /\ \A g : \A n \in 1..3 : GroupHolds(n, g) => GroupHolds(n, g)'
<1>1. ASSUME NEW r, RowHolds(r) PROVE RowHolds(r)'
  <2>1. r.id \in Int
    BY <1>1 DEF RowHolds, Sound, Row
  <2> QED BY <1>1, <2>1 DEF RowHolds
<1>2. ASSUME NEW g, NEW n \in 1..3, GroupHolds(n, g) PROVE GroupHolds(n, g)'
  <2>1. ASSUME NEW r \in g PROVE RowHolds(r)' /\ OfLevel(n, r) /\ DueOn(n, r.start) <= today'
    <3>1. RowHolds(r) /\ Sound(r) /\ OfLevel(n, r) /\ DueOn(n, r.start) <= today
      BY <1>2 DEF GroupHolds, RowHolds
    <3>2. DueOn(n, r.start) \in Int
      BY <3>1, PhaseNumbers
    <3> QED BY <1>1, <3>1, <3>2
  <2> QED BY <1>2, <2>1 DEF GroupHolds
<1> QED BY <1>1, <1>2

\* A job that takes no step still holds what it held.
LEMMA JobStillHolds ==
  ASSUME nextId \in Int, nextId' \in Int, nextId <= nextId', recorded \subseteq recorded',
         today \in Int, today' = today, displaced \subseteq displaced',
         NEW i \in Job, job[i] \in JobRow, job'[i] = job[i], JobHolds(i),
         \A g \in job[i].groups : \A c \in g : \A r \in rows' :
           r.id = c.id => r \in rows \/ r.of \subseteq displaced'
  PROVE  JobHolds(i)'
<1>1. job[i].phase = 0 => job[i] = NoJob
  BY DEF JobHolds
<1>2. job[i].phase # 0 => job[i].now = today'
  BY DEF JobHolds
<1>3. /\ job[i].groups # {} => job[i].phase \in 1..3
      /\ job[i].group \in job[i].groups \cup {{}}
      /\ job[i].phase = EventsPhase => job[i].sources = {}
  BY DEF JobHolds
<1>4. job[i].existing < nextId' /\ \A k \in job[i].sources : k < nextId'
  BY DEF JobHolds, JobRow, NoRow
<1>5. \A g \in job[i].groups : GroupHolds(job[i].phase, g)'
  BY <1>3, RowsStillHold DEF JobHolds
<1>6. \A g, h \in job[i].groups : \A r \in g, s \in h :
        r.id = s.id \/ Key(job[i].phase, r) = Key(job[i].phase, s) => g = h
  BY DEF JobHolds
<1>7. \A g \in job[i].groups : \A c \in g :
        c.id \notin job[i].sources /\ \A r \in rows' : r.id = c.id => r = c \/ r.of \subseteq displaced'
  BY DEF JobHolds
<1> QED BY <1>1, <1>2, <1>3, <1>4, <1>5, <1>6, <1>7 DEF JobHolds

\* An idle job remembers nothing.
LEMMA IdleJobs ==
  ASSUME NEW i \in Job, JobHolds(i), ~Busy(i)
  PROVE  /\ job[i] = NoJob /\ job[i].phase = 0 /\ job[i].groups = {} /\ job[i].group = {}
         /\ job[i].existing = NoRow /\ job[i].sources = {}
BY DEF JobHolds, Busy, NoJob

\* What is a number in rows and jobs.
LEMMA Numbers ==
  ASSUME Shapes, RowsHold
  PROVE  /\ today \in Int /\ lastDone \in Int /\ nextId \in Int /\ lastDone <= today
         /\ \A i \in Job : /\ job[i] \in JobRow /\ job[i].groups \in SUBSET SUBSET Row /\ job[i].sources \in SUBSET Nat
                           /\ job[i].phase \in 0..4 /\ job[i].existing \in Nat \cup {NoRow}
         /\ \A r \in rows : r \in Row /\ r.id \in Nat /\ Sound(r) /\ RowHolds(r)
BY DEF Shapes, RowsHold, RowHolds, Sound, Row, JobRow, EventsPhase

\* A row is due on some day.
LEMMA DueIsInt ==
  ASSUME NEW r, Sound(r), NEW n \in 1..3, OfLevel(n, r)
  PROVE  DueOn(n, r.start) \in Int
BY PhaseNumbers

LEMMA MadeDueIsInt ==
  ASSUME NEW r, Sound(r), NEW n \in 1..3, OfLevel(n - 1, r)
  PROVE  DueOn(n, r.start) \in Int
<1>1. PICK s : s = r.start
  OBVIOUS
<1>2. s \in Int
  BY <1>1 DEF Sound, Row
<1>3. CASE n = 3
  <2>1. WeekStart(s) \in Int
    BY <1>2, Weeks
  <2> QED BY <1>1, <1>3, <2>1, PhasesAre
<1>4. CASE n = 2
  <2>1. BiweekStart(s) = s
    BY <1>1, <1>4, LevelStarts
  <2> QED BY <1>1, <1>2, <1>4, <2>1, PhasesAre
<1>5. CASE n = 1
  <2>1. PICK l \in Int : l = NextMonth(s)
    BY <1>1, <1>5, LevelStarts
  <2>2. MonthFirst(s) = s
    BY <1>1, <1>5, LevelStarts
  <2>3. DueOn(1, s) = (s + (l - s)) + 180
    BY <2>1, <2>2, PhasesAre
  <2> QED BY <1>1, <1>2, <1>5, <2>1, <2>3
<1> QED BY <1>3, <1>4, <1>5

-----------------------------------------------------------------------------
(* The steps.                                                              *)

\* Each action in turn.
LEMMA StartKeeps ==
  ASSUME DownsamplingInStep, NEW j \in Job, Start(j)
  PROVE  DownsamplingInStep'
<1> DEFINE e == Enter(1, today, rows)
<1>0. Shapes /\ RowsHold /\ (\A i \in Job : JobHolds(i)) /\ DaysAreKept /\ DaysAreOnce
      /\ NothingIsMissed /\ PeriodsAreMadeOnce
  BY DEF DownsamplingInStep
<1>1. /\ ~Busy(j) /\ jobs < MaxJobs
      /\ job' = [job EXCEPT ![j] = e] /\ jobs' = jobs + 1 /\ overlapped' = (overlapped \/ ~Idle)
      /\ today' = today /\ recorded' = recorded /\ rows' = rows /\ events' = events /\ nextId' = nextId
      /\ displaced' = displaced /\ lastDone' = lastDone /\ late' = late /\ apart' = apart /\ crashed' = crashed
  BY DEF Start, history
<1>2. /\ today \in Int /\ lastDone \in Int /\ nextId \in Int /\ lastDone <= today
      /\ \A i \in Job : job[i] \in JobRow
  BY <1>0, Numbers
<1>3. /\ e \in JobRow /\ e.phase = 1 /\ e.now = today
      /\ e.group = {} /\ e.existing = NoRow /\ e.sources = {}
      /\ \A g \in e.groups : GroupHolds(1, g) /\ g \subseteq rows
      /\ \A g, h \in e.groups : \A r \in g, s \in h : r.id = s.id \/ Key(1, r) = Key(1, s) => g = h
      /\ \A r \in rows :
           OfLevel(1, r) /\ DueOn(1, r.start) <= today /\ DueOn(1, r.start) > today - 49 =>
             \E g \in e.groups : r \in g
  BY <1>0, <1>2, EnterHolds
<1> HIDE DEF e
<1>4. job'[j] = e /\ \A i \in Job : i # j => job'[i] = job[i]
  BY <1>0, <1>1 DEF Shapes
<1>5. job[j].phase = 0 /\ job[j].sources = {}
  BY <1>0, <1>1, IdleJobs
<1>6. Shapes'
  BY <1>0, <1>1, <1>3, DownsamplingAssumption DEF Shapes
<1>7. RowsHold'
  BY <1>0, <1>1 DEF RowsHold, RowHolds
<1>8. ASSUME NEW i \in Job PROVE JobHolds(i)'
  <2>1. CASE i # j
    BY <1>0, <1>1, <1>2, <1>4, <2>1, JobStillHolds
  <2>2. CASE i = j
    <3>1. \A g \in e.groups : GroupHolds(1, g)'
      BY <1>1, <1>2, <1>3, RowsStillHold
    <3>2. \A g \in e.groups : \A c \in g : c.id \notin e.sources /\ \A r \in rows' : r.id = c.id => r = c
      BY <1>0, <1>1, <1>3 DEF RowsHold
    <3>3. e.existing < nextId
      BY <1>0, <1>3 DEF NoRow, RowsHold
    <3> QED BY <1>1, <1>3, <1>4, <2>2, <3>1, <3>2, <3>3 DEF JobHolds, EventsPhase
  <2> QED BY <2>1, <2>2
<1>9. \A r : Stays(r) => Stays(r)'
  BY <1>3, <1>4, <1>5 DEF Stays
<1>10. DaysAreKept'
  BY <1>0, <1>1, <1>9 DEF DaysAreKept
<1>11. \A r : Stays(r)' => Stays(r)
  BY <1>3, <1>4, <1>5 DEF Stays
<1>12. ASSUME Alone' PROVE Alone /\ \A i \in Job : i # j => job'[i].phase = 0 /\ job'[i].groups = {} /\ job'[i].group = {}
  <2>1. Alone /\ Idle
    BY <1>0, <1>1, <1>12 DEF Alone, Shapes
  <2> QED BY <1>0, <1>4, <2>1, IdleJobs DEF Idle
<1>13. DaysAreOnce'
  BY <1>0, <1>1, <1>3, <1>4, <1>11, <1>12 DEF DaysAreOnce, Busy
<1>14. ASSUME OnTime' PROVE \A r \in rows : \A n \in 1..3 : OfLevel(n, r) =>
                                 DueOn(n, r.start) \in Int /\ DueOn(n, r.start) > lastDone /\ DueOn(n, r.start) > today - 49
  BY <1>0, <1>1, <1>2, <1>14, Numbers, DueIsInt DEF NothingIsMissed, OnTime, OneGap
<1>15. NothingIsMissed'
  <2> SUFFICES ASSUME OnTime' PROVE NothingIsMissed'
    BY DEF NothingIsMissed
  <2>1. OnTime
    BY <1>1 DEF OnTime
  <2>2. today' - lastDone' <= OneGap
    BY <1>0, <1>1, <2>1 DEF NothingIsMissed
  <2>3. ASSUME NEW n \in 1..3, NEW r \in rows', OfLevel(n, r)
        PROVE  /\ DueOn(n, r.start) > lastDone'
               /\ DueOn(n, r.start) <= today' =>
                    \A i \in Job :
                      /\ job'[i].phase <= n
                      /\ job'[i].phase = n => \/ \E g \in job'[i].groups : r \in g
                                              \/ r.id \in job'[i].sources /\ Unkeyed(i, n, r)'
    <3>1. DueOn(n, r.start) > lastDone'
      BY <1>1, <1>14, <2>3
    <3>2. ASSUME DueOn(n, r.start) <= today', NEW i \in Job, i # j
          PROVE  /\ job'[i].phase <= n
                 /\ job'[i].phase = n => \/ \E g \in job'[i].groups : r \in g
                                         \/ r.id \in job'[i].sources /\ Unkeyed(i, n, r)'
      BY <1>0, <1>1, <1>4, <2>1, <2>3, <3>2 DEF NothingIsMissed, Unkeyed
    <3>3. ASSUME DueOn(n, r.start) <= today'
          PROVE  job'[j].phase <= n /\ (job'[j].phase = n => \E g \in job'[j].groups : r \in g)
      BY <1>1, <1>3, <1>4, <1>14, <2>3, <3>3
    <3> QED BY <3>1, <3>2, <3>3
  <2>4. ASSUME NEW i \in Job, NEW g \in job'[i].groups, NEW r \in g
        PROVE  DueOn(job'[i].phase, r.start) > today' - OneGap
    <3>1. CASE i # j
      BY <1>0, <1>1, <1>4, <2>1, <2>4, <3>1 DEF NothingIsMissed
    <3>2. CASE i = j
      <4>1. r \in rows /\ OfLevel(1, r)
        BY <1>3, <1>4, <2>4, <3>2 DEF GroupHolds
      <4> QED BY <1>1, <1>3, <1>4, <1>14, <3>2, <4>1 DEF OneGap
    <3> QED BY <3>1, <3>2
  <2> QED BY <2>2, <2>3, <2>4 DEF NothingIsMissed
<1>16. PeriodsAreMadeOnce'
  <2> SUFFICES ASSUME OnTime', Alone' PROVE PeriodsAreMadeOnce'
    BY DEF PeriodsAreMadeOnce
  <2>1. OnTime /\ Alone
    BY <1>1, <1>12 DEF OnTime
  <2>2. ASSUME NEW i \in Job, NEW g \in job'[i].groups, NEW r \in g
        PROVE  DueOn(job'[i].phase, r.start) > lastDone'
    <3>1. i = j
      BY <1>12
    <3>2. r \in rows /\ OfLevel(1, r)
      BY <1>3, <1>4, <2>2, <3>1 DEF GroupHolds
    <3> QED BY <1>1, <1>3, <1>4, <1>14, <3>1, <3>2
  <2>3. ASSUME NEW n \in 1..3, NEW r \in rows', OfLevel(n - 1, r) PROVE IsMade(n, r)'
    <3>1. IsMade(n, r)
      BY <1>0, <1>1, <2>1, <2>3 DEF PeriodsAreMadeOnce
    <3>2. Idle
      BY <1>0, <1>1 DEF Alone, Shapes
    <3>3. DueOn(n, r.start) <= lastDone
      BY <3>1, <3>2 DEF IsMade, Idle, Busy
    <3> QED BY <1>1, <3>3 DEF IsMade
  <2>4. \A i \in Job : job'[i].group = {}
    BY <1>3, <1>4, <1>12
  <2>5. \A d \in displaced' : Anchors[d] \cap recorded' # {}
    BY <1>0, <1>1, <2>1 DEF PeriodsAreMadeOnce
  <2> QED BY <2>2, <2>3, <2>4, <2>5 DEF PeriodsAreMadeOnce
<1> QED BY <1>6, <1>7, <1>8, <1>10, <1>13, <1>15, <1>16 DEF DownsamplingInStep

LEMMA DeleteSourcesKeeps ==
  ASSUME DownsamplingInStep, NEW j \in Job, DeleteSources(j)
  PROVE  DownsamplingInStep'
<1>a. PICK left, n : left = {r \in rows : r.id \notin job[j].sources} /\ n = job[j].phase + 1
  OBVIOUS
<1>b. PICK e : e = Enter(n, job[j].now, left)
  OBVIOUS
<1>0. Shapes /\ RowsHold /\ (\A i \in Job : JobHolds(i)) /\ DaysAreKept /\ DaysAreOnce
      /\ NothingIsMissed /\ PeriodsAreMadeOnce
  BY DEF DownsamplingInStep
<1>1. /\ job[j].phase \in 1..3 /\ job[j].groups = {} /\ rows' = left
      /\ job' = [job EXCEPT ![j] = e] /\ jobs' = jobs /\ overlapped' = overlapped
      /\ today' = today /\ recorded' = recorded /\ events' = events /\ nextId' = nextId
      /\ displaced' = displaced /\ lastDone' = lastDone /\ late' = late /\ apart' = apart /\ crashed' = crashed
  BY <1>a, <1>b DEF DeleteSources, history, Tiers
<1>2. /\ today \in Int /\ lastDone \in Int /\ nextId \in Int /\ lastDone <= today
      /\ \A i \in Job : job[i] \in JobRow
  BY <1>0, Numbers
<1>3. /\ n \in 2..4
      /\ e \in JobRow /\ e.phase = n /\ e.now = today
      /\ e.group = {} /\ e.existing = NoRow /\ e.sources = {}
      /\ e.groups # {} => n \in 1..3
      /\ \A g \in e.groups : GroupHolds(n, g) /\ g \subseteq left
      /\ \A g, h \in e.groups : \A r \in g, s \in h : r.id = s.id \/ Key(n, r) = Key(n, s) => g = h
      /\ n \in 1..3 => \A r \in left :
           OfLevel(n, r) /\ DueOn(n, r.start) <= today /\ DueOn(n, r.start) > today - 49 =>
             \E g \in e.groups : r \in g
  <2>1. n \in 1..4 /\ n \in 2..4 /\ left \in SUBSET rows
    BY <1>1, <1>a
  <2>2. e = Enter(n, today, left)
    BY <1>0, <1>1, <1>b DEF JobHolds
  <2> QED BY <1>0, <1>2, <2>1, <2>2, EnterHolds
<1>4. \A r : r \in left <=> r \in rows /\ r.id \notin job[j].sources
  BY <1>a
<1>5. job[j].phase = n - 1 /\ job[j].phase # 0
  BY <1>1, <1>a
<1>6. job'[j] = e /\ \A i \in Job : i # j => job'[i] = job[i]
  BY <1>0, <1>1 DEF Shapes
<1>7. Shapes'
  BY <1>0, <1>1, <1>3, <1>2 DEF Shapes
<1>8. RowsHold'
  <2>1. IsFiniteSet(left)
    BY <1>0, <1>4, FS_Subset DEF RowsHold
  <2> QED BY <1>0, <1>1, <1>4, <2>1 DEF RowsHold, RowHolds
<1>9. ASSUME NEW i \in Job PROVE JobHolds(i)'
  <2>1. CASE i # j
    BY <1>0, <1>1, <1>2, <1>4, <1>6, <2>1, JobStillHolds
  <2>2. CASE i = j
    <3>1. ASSUME NEW g \in e.groups PROVE GroupHolds(n, g)'
      <4>1. n \in 1..3 /\ GroupHolds(n, g)
        BY <1>3
      <4>2. nextId <= nextId' /\ nextId' \in Int /\ recorded \subseteq recorded' /\ today' \in Int /\ today <= today'
        BY <1>1, <1>2
      <4> QED BY <1>2, <4>1, <4>2, RowsStillHold
    <3>2. \A g \in e.groups : \A c \in g : c.id \notin e.sources /\ \A r \in rows' : r.id = c.id => r = c
      BY <1>0, <1>1, <1>3, <1>4 DEF RowsHold
    <3>3. e.existing < nextId
      BY <1>0, <1>3 DEF NoRow, RowsHold
    <3>4. /\ (e.phase = 0 => e = NoJob) /\ (e.phase # 0 => e.now = today')
          /\ (e.groups # {} => e.phase \in 1..3) /\ e.group \in e.groups \cup {{}}
          /\ (e.phase = EventsPhase => e.sources = {})
          /\ e.existing < nextId' /\ \A k \in e.sources : k < nextId'
      BY <1>1, <1>3, <3>3
    <3>5. \A g \in e.groups : GroupHolds(e.phase, g)'
      BY <1>3, <3>1
    <3>6. \A g, h \in e.groups : \A r \in g, s \in h : r.id = s.id \/ Key(e.phase, r) = Key(e.phase, s) => g = h
      BY <1>3
    <3> QED BY <1>6, <2>2, <3>2, <3>4, <3>5, <3>6 DEF JobHolds
  <2> QED BY <2>1, <2>2
<1>10. \A r : Stays(r) => Stays(r)'
  BY <1>3, <1>6 DEF Stays
<1>11. DaysAreKept'
  <2>1. \A r \in rows : Stays(r) => r \in left
    BY <1>4 DEF Stays
  <2> QED BY <1>0, <1>1, <1>10, <2>1 DEF DaysAreKept
<1>12. \A r \in left : Stays(r)' => Stays(r)
  BY <1>4, <1>6 DEF Stays
<1>13. ASSUME Alone PROVE \A i \in Job : i # j => job'[i].phase = 0 /\ job'[i].groups = {} /\ job'[i].group = {}
  <2>1. \A i \in Job : i # j => ~Busy(i)
    BY <1>0, <1>5, <1>13 DEF DaysAreOnce, Busy
  <2> QED BY <1>0, <1>6, <2>1, IdleJobs
<1>14. DaysAreOnce'
  <2> SUFFICES ASSUME Alone' PROVE DaysAreOnce'
    BY DEF DaysAreOnce
  <2>1. Alone
    BY <1>1 DEF Alone
  <2>2. \A i, k \in Job : Busy(i)' /\ Busy(k)' => i = k
    BY <1>13, <2>1 DEF Busy
  <2>3. \A r, s \in rows' : \A d \in (r.of \cap s.of) \ displaced' : Stays(r)' /\ Stays(s)' => r = s
    BY <1>0, <1>1, <1>4, <1>12, <2>1 DEF DaysAreOnce
  <2>4. \A i \in Job : \A g \in job'[i].groups : \A c \in g : c \in rows' \/ c.of \subseteq displaced'
    BY <1>1, <1>3, <1>6, <1>13, <2>1
  <2> QED BY <2>2, <2>3, <2>4 DEF DaysAreOnce
<1>15. ASSUME OnTime' PROVE \A r \in left : \A m \in 1..3 : OfLevel(m, r) =>
                                 DueOn(m, r.start) \in Int /\ DueOn(m, r.start) > lastDone /\ DueOn(m, r.start) > today - 49
  BY <1>0, <1>1, <1>2, <1>4, <1>15, Numbers, DueIsInt DEF NothingIsMissed, OnTime, OneGap
<1>16. NothingIsMissed'
  <2> SUFFICES ASSUME OnTime' PROVE NothingIsMissed'
    BY DEF NothingIsMissed
  <2>1. OnTime
    BY <1>1 DEF OnTime
  <2>2. today' - lastDone' <= OneGap
    BY <1>0, <1>1, <2>1 DEF NothingIsMissed
  <2>3. ASSUME NEW m \in 1..3, NEW r \in rows', OfLevel(m, r)
        PROVE  /\ DueOn(m, r.start) > lastDone'
               /\ DueOn(m, r.start) <= today' =>
                    \A i \in Job :
                      /\ job'[i].phase <= m
                      /\ job'[i].phase = m => \/ \E g \in job'[i].groups : r \in g
                                              \/ r.id \in job'[i].sources /\ Unkeyed(i, m, r)'
    <3>0. r \in left /\ r \in rows /\ r.id \notin job[j].sources
      BY <1>1, <1>4
    <3>1. DueOn(m, r.start) > lastDone'
      BY <1>1, <1>15, <2>3, <3>0
    <3>2. ASSUME DueOn(m, r.start) <= today', NEW i \in Job, i # j
          PROVE  /\ job'[i].phase <= m
                 /\ job'[i].phase = m => \/ \E g \in job'[i].groups : r \in g
                                         \/ r.id \in job'[i].sources /\ Unkeyed(i, m, r)'
      BY <1>0, <1>1, <1>6, <2>1, <2>3, <3>0, <3>2 DEF NothingIsMissed, Unkeyed
    <3>3. ASSUME DueOn(m, r.start) <= today'
          PROVE  job'[j].phase <= m /\ (job'[j].phase = m => \E g \in job'[j].groups : r \in g)
      <4>1. job[j].phase <= m /\ job[j].phase # m
        BY <1>0, <1>1, <2>1, <2>3, <3>0, <3>3 DEF NothingIsMissed
      <4>2. n <= m
        BY <1>3, <1>5, <4>1
      <4> QED BY <1>1, <1>3, <1>6, <1>15, <2>3, <3>0, <3>3, <4>2
    <3> QED BY <3>1, <3>2, <3>3
  <2>4. ASSUME NEW i \in Job, NEW g \in job'[i].groups, NEW r \in g
        PROVE  DueOn(job'[i].phase, r.start) > today' - OneGap
    <3>1. CASE i # j
      BY <1>0, <1>1, <1>6, <2>1, <2>4, <3>1 DEF NothingIsMissed
    <3>2. CASE i = j
      <4>1. r \in left /\ OfLevel(n, r) /\ n \in 1..3
        BY <1>3, <1>6, <2>4, <3>2 DEF GroupHolds
      <4> QED BY <1>1, <1>3, <1>6, <1>15, <3>2, <4>1 DEF OneGap
    <3> QED BY <3>1, <3>2
  <2> QED BY <2>2, <2>3, <2>4 DEF NothingIsMissed
<1>17. PeriodsAreMadeOnce'
  <2> SUFFICES ASSUME OnTime', Alone' PROVE PeriodsAreMadeOnce'
    BY DEF PeriodsAreMadeOnce
  <2>1. OnTime /\ Alone
    BY <1>1 DEF OnTime, Alone
  <2>2. ASSUME NEW i \in Job, NEW g \in job'[i].groups, NEW r \in g
        PROVE  DueOn(job'[i].phase, r.start) > lastDone'
    <3>1. i = j
      BY <1>13, <2>1
    <3>2. r \in left /\ OfLevel(n, r) /\ n \in 1..3
      BY <1>3, <1>6, <2>2, <3>1 DEF GroupHolds
    <3> QED BY <1>1, <1>3, <1>6, <1>15, <3>1, <3>2
  <2>3. ASSUME NEW m \in 1..3, NEW r \in rows', OfLevel(m - 1, r) PROVE IsMade(m, r)'
    <3>1. IsMade(m, r)
      BY <1>0, <1>1, <1>4, <2>1, <2>3 DEF PeriodsAreMadeOnce
    <3>2. CASE DueOn(m, r.start) <= lastDone
      BY <1>1, <3>2 DEF IsMade
    <3>3. CASE DueOn(m, r.start) <= today /\ \E i \in Job : job[i].phase >= m /\ (job[i].phase = m => Unkeyed(i, m, r))
      <4>1. PICK i \in Job : job[i].phase >= m /\ (job[i].phase = m => Unkeyed(i, m, r))
        BY <3>3
      <4>2. CASE i # j
        BY <1>1, <1>6, <3>3, <4>1, <4>2 DEF IsMade, Unkeyed
      <4>3. CASE i = j
        <5>1. job'[j].phase >= m /\ job'[j].phase # m
          BY <1>3, <1>5, <1>6, <4>1, <4>3
        <5> QED BY <1>1, <3>3, <5>1 DEF IsMade
      <4> QED BY <4>2, <4>3
    <3> QED BY <3>1, <3>2, <3>3 DEF IsMade
  <2>4. \A i \in Job : job'[i].group = {}
    BY <1>3, <1>6, <1>13, <2>1
  <2>5. \A d \in displaced' : Anchors[d] \cap recorded' # {}
    BY <1>0, <1>1, <2>1 DEF PeriodsAreMadeOnce
  <2> QED BY <2>2, <2>3, <2>4, <2>5 DEF PeriodsAreMadeOnce
<1> QED BY <1>7, <1>8, <1>9, <1>11, <1>14, <1>16, <1>17 DEF DownsamplingInStep

LEMMA LookUpKeeps ==
  ASSUME DownsamplingInStep, NEW j \in Job, job[j].phase \in 1..3, NEW g \in job[j].groups, LookUp(j, g)
  PROVE  DownsamplingInStep'
<1>0. Shapes /\ RowsHold /\ (\A i \in Job : JobHolds(i)) /\ DaysAreKept /\ DaysAreOnce
      /\ NothingIsMissed /\ PeriodsAreMadeOnce
  BY DEF DownsamplingInStep
<1>1. /\ today' = today /\ recorded' = recorded /\ rows' = rows /\ events' = events /\ nextId' = nextId /\ jobs' = jobs
      /\ displaced' = displaced /\ lastDone' = lastDone /\ late' = late /\ apart' = apart
      /\ overlapped' = overlapped /\ crashed' = crashed
  BY DEF LookUp, history
<1>2. PICK k : /\ job' = [job EXCEPT ![j].group = g, ![j].existing = k]
               /\ k = NoRow \/ \E r \in rows : /\ r.id = k
                                               /\ r.project = First(g).project /\ r.source = First(g).source
                                               /\ r.start = StartIn(job[j].phase, First(g).start)
  <2>1. TierOf(j) = Tiers[job[j].phase]
    BY DEF TierOf
  <2>2. PICK there : there = {r \in rows : r.project = First(g).project /\ r.source = First(g).source
                                              /\ r.start = Window(TierOf(j), First(g).start).start}
    OBVIOUS
  <2>3. \E k \in IF there = {} THEN {NoRow} ELSE {r.id : r \in there} :
          job' = [job EXCEPT ![j].group = g, ![j].existing = k]
    BY <2>2 DEF LookUp
  <2>4. PICK k \in IF there = {} THEN {NoRow} ELSE {r.id : r \in there} :
          job' = [job EXCEPT ![j].group = g, ![j].existing = k]
    BY <2>3
  <2>5. k = NoRow \/ \E r \in there : r.id = k
    BY <2>4
  <2>6. \A r \in there : /\ r \in rows /\ r.project = First(g).project /\ r.source = First(g).source
                         /\ r.start = StartIn(job[j].phase, First(g).start)
    BY <2>1, <2>2 DEF StartIn
  <2> QED BY <2>4, <2>5, <2>6
<1>3. /\ today \in Int /\ lastDone \in Int /\ nextId \in Int /\ \A i \in Job : job[i] \in JobRow
      /\ \A r \in rows : r.id \in Nat /\ r.id < nextId
  BY <1>0, Numbers DEF RowHolds
<1>4. k \in Nat \cup {NoRow} /\ k < nextId
  BY <1>0, <1>2, <1>3 DEF RowsHold, NoRow
<1>5. /\ \A i \in Job : i # j => job'[i] = job[i]
      /\ job'[j] = [job[j] EXCEPT !.group = g, !.existing = k]
  BY <1>0, <1>2 DEF Shapes
<1>6. /\ job'[j].phase = job[j].phase /\ job'[j].now = job[j].now /\ job'[j].groups = job[j].groups
      /\ job'[j].sources = job[j].sources /\ job'[j].group = g /\ job'[j].existing = k
      /\ job'[j] \in JobRow
  <2>1. g \in SUBSET Row /\ job[j] \in JobRow
    BY <1>3 DEF JobRow
  <2> QED BY <1>4, <1>5, <2>1 DEF JobRow
<1>7. \A i \in Job : /\ job'[i].phase = job[i].phase /\ job'[i].groups = job[i].groups
                     /\ job'[i].sources = job[i].sources /\ job'[i].now = job[i].now
  BY <1>5, <1>6
<1>8. Shapes'
  BY <1>0, <1>1, <1>2, <1>6, <1>5 DEF Shapes
<1>9. RowsHold'
  BY <1>0, <1>1 DEF RowsHold, RowHolds
<1>10. ASSUME NEW i \in Job PROVE JobHolds(i)'
  <2>1. CASE i # j
    BY <1>0, <1>1, <1>3, <1>5, <2>1, JobStillHolds
  <2>2. CASE i = j
    <3>0. JobHolds(j)
      BY <1>0
    <3>1. PICK n : n = job[j].phase
      OBVIOUS
    <3>2. \A h \in job'[j].groups : GroupHolds(n, h)'
      BY <1>1, <1>6, <3>0, <3>1 DEF JobHolds, GroupHolds, RowHolds
    <3>3. /\ job'[j].phase = n /\ n # 0 /\ n # EventsPhase /\ job'[j].now = today' /\ n \in 1..3
          /\ job'[j].group \in job'[j].groups \cup {{}}
          /\ job'[j].existing < nextId' /\ \A q \in job'[j].sources : q < nextId'
      BY <1>1, <1>4, <1>6, <3>0, <3>1 DEF JobHolds, EventsPhase
    <3>4. \A h, l \in job'[j].groups : \A r \in h, s \in l : r.id = s.id \/ Key(n, r) = Key(n, s) => h = l
      BY <1>6, <3>0, <3>1 DEF JobHolds
    <3>5. \A h \in job'[j].groups : \A c \in h :
            c.id \notin job'[j].sources /\ \A r \in rows' : r.id = c.id => r = c \/ r.of \subseteq displaced'
      BY <1>1, <1>6, <3>0 DEF JobHolds
    <3> QED BY <2>2, <3>2, <3>3, <3>4, <3>5 DEF JobHolds
  <2> QED BY <2>1, <2>2
<1>11. \A r : Stays(r)' <=> Stays(r)
  BY <1>7 DEF Stays
<1>12. DaysAreKept'
  BY <1>0, <1>1, <1>11 DEF DaysAreKept
<1>13. DaysAreOnce'
  BY <1>0, <1>1, <1>7, <1>11 DEF DaysAreOnce, Alone, Busy
<1>14. \A n, r : \A i \in Job : Unkeyed(i, n, r)' <=> Unkeyed(i, n, r)
  BY <1>7 DEF Unkeyed
<1>15. NothingIsMissed'
  BY <1>0, <1>1, <1>7, <1>14 DEF NothingIsMissed, OnTime
<1>16. PeriodsAreMadeOnce'
  <2> SUFFICES ASSUME OnTime', Alone' PROVE PeriodsAreMadeOnce'
    BY DEF PeriodsAreMadeOnce
  <2>1. OnTime /\ Alone
    BY <1>1 DEF OnTime, Alone
  <2>2. \A i \in Job : \A h \in job'[i].groups : \A r \in h : DueOn(job'[i].phase, r.start) > lastDone'
    BY <1>0, <1>1, <1>7, <2>1 DEF PeriodsAreMadeOnce
  <2>3. \A n \in 1..3 : \A r \in rows' : OfLevel(n - 1, r) => IsMade(n, r)'
    BY <1>0, <1>1, <1>7, <1>14, <2>1 DEF PeriodsAreMadeOnce, IsMade
  <2>4. ASSUME NEW i \in Job, job'[i].group # {}, job'[i].existing # NoRow PROVE FoundStarts(i)'
    <3>1. CASE i # j
      BY <1>0, <1>1, <1>5, <2>1, <2>4, <3>1 DEF PeriodsAreMadeOnce, FoundStarts
    <3>2. CASE i = j
      BY <1>1, <1>2, <1>6, <2>4, <3>2 DEF FoundStarts
    <3> QED BY <3>1, <3>2
  <2>5. \A d \in displaced' : Anchors[d] \cap recorded' # {}
    BY <1>0, <1>1, <2>1 DEF PeriodsAreMadeOnce
  <2> QED BY <2>2, <2>3, <2>4, <2>5 DEF PeriodsAreMadeOnce
<1> QED BY <1>8, <1>9, <1>10, <1>12, <1>13, <1>15, <1>16 DEF DownsamplingInStep

\* Jobs that rest.
LEMMA RestingKeeps ==
  ASSUME DownsamplingInStep, \A i \in Job : job'[i] = NoJob, job' \in [Job -> JobRow],
         today' \in Int, today <= today', today' <= LastDay,
         late' \in BOOLEAN, apart' \in BOOLEAN, OnTime' => OnTime /\ today' - lastDone <= OneGap,
         overlapped' = overlapped, crashed' \in BOOLEAN, crashed => crashed',
         ~crashed' => \A i \in Job : ~Busy(i),
         UNCHANGED <<recorded, rows, events, nextId, jobs, displaced, lastDone>>
  PROVE  DownsamplingInStep'
<1>0. Shapes /\ RowsHold /\ (\A i \in Job : JobHolds(i)) /\ DaysAreKept /\ DaysAreOnce
      /\ NothingIsMissed /\ PeriodsAreMadeOnce
  BY DEF DownsamplingInStep
<1>1. /\ recorded' = recorded /\ rows' = rows /\ events' = events /\ nextId' = nextId /\ jobs' = jobs
      /\ displaced' = displaced /\ lastDone' = lastDone
  OBVIOUS
<1>2. today \in Int /\ lastDone \in Int /\ nextId \in Int /\ lastDone <= today
  BY <1>0, Numbers
<1>3. \A i \in Job : /\ job'[i].phase = 0 /\ job'[i].groups = {} /\ job'[i].group = {}
                     /\ job'[i].existing = NoRow /\ job'[i].sources = {}
  BY DEF NoJob
<1>4. Shapes'
  BY <1>0, <1>1, <1>2, DownsamplingAssumption DEF Shapes
<1>5. RowsHold'
  BY <1>0, <1>1 DEF RowsHold, RowHolds
<1>6. \A i \in Job : JobHolds(i)'
  <2>1. NoRow < nextId
    BY <1>0 DEF RowsHold, NoRow
  <2> QED BY <1>1, <1>3, <2>1 DEF JobHolds, EventsPhase
<1>7. DaysAreKept'
  BY <1>0, <1>1, <1>3 DEF DaysAreKept, Stays
<1>8. ASSUME Alone' PROVE Alone /\ \A i \in Job : job[i].sources = {} /\ job[i].phase = 0
  BY <1>0, <1>8, IdleJobs DEF Alone, Shapes
<1>9. DaysAreOnce'
  BY <1>0, <1>1, <1>3, <1>8 DEF DaysAreOnce, Stays, Busy
<1>10. NothingIsMissed'
  BY <1>0, <1>1, <1>3 DEF NothingIsMissed, OnTime, Shapes
<1>11. PeriodsAreMadeOnce'
  <2> SUFFICES ASSUME OnTime', Alone' PROVE PeriodsAreMadeOnce'
    BY DEF PeriodsAreMadeOnce
  <2>1. OnTime /\ Alone
    BY <1>0, <1>8 DEF OnTime, Shapes
  <2>2. ASSUME NEW n \in 1..3, NEW r \in rows', OfLevel(n - 1, r) PROVE IsMade(n, r)'
    <3>1. IsMade(n, r)
      BY <1>0, <1>1, <2>1, <2>2 DEF PeriodsAreMadeOnce
    <3>2. DueOn(n, r.start) <= lastDone
      BY <1>8, <3>1 DEF IsMade
    <3> QED BY <1>1, <3>2 DEF IsMade
  <2>3. \A d \in displaced' : Anchors[d] \cap recorded' # {}
    BY <1>0, <1>1, <2>1 DEF PeriodsAreMadeOnce
  <2> QED BY <1>3, <2>2, <2>3 DEF PeriodsAreMadeOnce
<1> QED BY <1>4, <1>5, <1>6, <1>7, <1>9, <1>10, <1>11 DEF DownsamplingInStep

LEMMA NoJobIsOne == NoJob \in JobRow
BY DEF NoJob, JobRow, EventsPhase

LEMMA TickKeeps ==
  ASSUME DownsamplingInStep, NEW n \in Step, Tick(n)
  PROVE  DownsamplingInStep'
<1>0. Shapes /\ RowsHold /\ \A i \in Job : JobHolds(i)
  BY DEF DownsamplingInStep
<1>1. \A i \in Job : job'[i] = NoJob /\ ~Busy(i)
  BY <1>0, IdleJobs DEF Tick, Idle
<1>2. n \in Nat /\ today \in Int /\ lastDone \in Int
  BY <1>0, DownsamplingAssumption DEF Shapes
<1>3. PICK t \in Int : t = today + n
  BY <1>2
<1>4. /\ today' = t /\ today <= t /\ t <= LastDay
      /\ apart' = (apart \/ t - lastDone > OneGap)
  BY <1>0, <1>2, <1>3 DEF Tick, Shapes
<1>7. apart' \in BOOLEAN /\ (OnTime' => OnTime /\ today' - lastDone <= OneGap)
  <2>1. t - lastDone > OneGap \/ t - lastDone <= OneGap
    BY <1>2 DEF OneGap
  <2>2. late' = late
    BY DEF Tick
  <2>3. apart' \in BOOLEAN
    BY <1>0, <1>4 DEF Shapes
  <2> QED BY <1>0, <1>4, <2>1, <2>2, <2>3 DEF OnTime, Shapes
<1>5. /\ job' \in [Job -> JobRow] /\ crashed' = crashed /\ crashed \in BOOLEAN
      /\ late' = late /\ late \in BOOLEAN /\ overlapped' = overlapped
  BY <1>0 DEF Tick, Shapes
<1>6. UNCHANGED <<recorded, rows, events, nextId, jobs, displaced, lastDone>>
  BY DEF Tick
<1> QED BY <1>1, <1>4, <1>5, <1>6, <1>7, RestingKeeps

LEMMA RestartKeeps ==
  ASSUME DownsamplingInStep, Restart
  PROVE  DownsamplingInStep'
<1>0. Shapes /\ NothingIsMissed
  BY DEF DownsamplingInStep
<1>1. \A i \in Job : job'[i] = NoJob
  BY DEF Restart
<1>2. job' \in [Job -> JobRow]
  BY NoJobIsOne DEF Restart
<1>3. /\ today' = today /\ today \in Int /\ today <= LastDay /\ crashed' = TRUE /\ late' = late /\ apart' = apart
      /\ overlapped' = overlapped /\ apart \in BOOLEAN /\ late \in BOOLEAN
      /\ UNCHANGED <<recorded, rows, events, nextId, jobs, displaced, lastDone>>
  BY <1>0 DEF Restart, Shapes
<1>4. OnTime' => OnTime /\ today' - lastDone <= OneGap
  BY <1>0, <1>3 DEF OnTime, NothingIsMissed
<1> QED BY <1>1, <1>2, <1>3, <1>4, RestingKeeps

LEMMA DeleteEventsKeeps ==
  ASSUME DownsamplingInStep, NEW j \in Job, DeleteEvents(j)
  PROVE  DownsamplingInStep'
<1>0. Shapes /\ RowsHold /\ (\A i \in Job : JobHolds(i)) /\ DaysAreKept /\ DaysAreOnce
      /\ NothingIsMissed /\ PeriodsAreMadeOnce
  BY DEF DownsamplingInStep
<1>1. /\ today' = today /\ recorded' = recorded /\ rows' = rows /\ nextId' = nextId /\ jobs' = jobs
      /\ displaced' = displaced /\ lastDone' = today /\ late' = late /\ apart' = apart
      /\ overlapped' = overlapped /\ crashed' = crashed
      /\ job' = [job EXCEPT ![j] = NoJob] /\ job[j].phase = 4
  BY DEF DeleteEvents, history, EventsPhase
<1>2. events' \subseteq events
  BY DEF DeleteEvents
<1>3. /\ today \in Int /\ lastDone \in Int /\ nextId \in Int /\ lastDone <= today
      /\ \A i \in Job : job[i] \in JobRow
  BY <1>0, Numbers
<1>4. /\ \A i \in Job : i # j => job'[i] = job[i]
      /\ job'[j] = NoJob /\ job'[j].phase = 0 /\ job'[j].groups = {} /\ job'[j].group = {}
      /\ job'[j].existing = NoRow /\ job'[j].sources = {}
  BY <1>0, <1>1 DEF Shapes, NoJob
<1>5. job[j].sources = {} /\ job[j].groups = {}
  BY <1>0, <1>1 DEF JobHolds, EventsPhase
<1>6. Shapes'
  <2>1. job' \in [Job -> JobRow]
    BY <1>0, <1>1, NoJobIsOne DEF Shapes
  <2> QED BY <1>0, <1>1, <1>2, <1>3, <2>1, DownsamplingAssumption DEF Shapes
<1>7. RowsHold'
  BY <1>0, <1>1 DEF RowsHold, RowHolds
<1>8. ASSUME NEW i \in Job PROVE JobHolds(i)'
  <2>1. CASE i # j
    BY <1>0, <1>1, <1>3, <1>4, <2>1, JobStillHolds
  <2>2. CASE i = j
    <3>1. NoRow < nextId
      BY <1>0 DEF RowsHold, NoRow
    <3> QED BY <1>1, <1>4, <2>2, <3>1 DEF JobHolds, EventsPhase
  <2> QED BY <2>1, <2>2
<1>9. \A r : Stays(r)' <=> Stays(r)
  BY <1>4, <1>5 DEF Stays
<1>10. DaysAreKept'
  BY <1>0, <1>1, <1>9 DEF DaysAreKept
<1>11. DaysAreOnce'
  BY <1>0, <1>1, <1>4, <1>9 DEF DaysAreOnce, Alone, Busy
<1>12. \A i \in Job : job'[i].groups # {} => i # j
  BY <1>4
<1>13. NothingIsMissed'
  <2> SUFFICES ASSUME OnTime' PROVE NothingIsMissed'
    BY DEF NothingIsMissed
  <2>1. OnTime
    BY <1>1 DEF OnTime
  <2>2. today' - lastDone' <= OneGap
    BY <1>1, <1>3 DEF OneGap
  <2>3. ASSUME NEW n \in 1..3, NEW r \in rows', OfLevel(n, r)
        PROVE  DueOn(n, r.start) > lastDone' /\ ~(DueOn(n, r.start) <= today')
    <3>1. ~(DueOn(n, r.start) <= today)
      <4> SUFFICES ASSUME DueOn(n, r.start) <= today PROVE FALSE
        OBVIOUS
      <4>1. job[j].phase <= n
        BY <1>0, <1>1, <2>1, <2>3 DEF NothingIsMissed
      <4> QED BY <1>1, <4>1
    <3>2. DueOn(n, r.start) \in Int
      BY <1>0, <1>1, <2>3, Numbers, DueIsInt
    <3> QED BY <1>1, <1>3, <3>1, <3>2
  <2>4. ASSUME NEW i \in Job, NEW g \in job'[i].groups, NEW r \in g
        PROVE  DueOn(job'[i].phase, r.start) > today' - OneGap
    BY <1>0, <1>1, <1>4, <1>12, <2>1, <2>4 DEF NothingIsMissed
  <2> QED BY <2>2, <2>3, <2>4 DEF NothingIsMissed
<1>14. PeriodsAreMadeOnce'
  <2> SUFFICES ASSUME OnTime', Alone' PROVE PeriodsAreMadeOnce'
    BY DEF PeriodsAreMadeOnce
  <2>1. OnTime /\ Alone
    BY <1>1 DEF OnTime, Alone
  <2>2. \A i \in Job : job'[i].groups = {} /\ job'[i].group = {}
    <3>1. \A i \in Job : i # j => ~Busy(i)
      BY <1>0, <1>1, <2>1 DEF DaysAreOnce, Busy
    <3> QED BY <1>0, <1>4, <3>1, IdleJobs
  <2>3. ASSUME NEW n \in 1..3, NEW r \in rows', OfLevel(n - 1, r) PROVE IsMade(n, r)'
    <3>1. IsMade(n, r)
      BY <1>0, <1>1, <2>1, <2>3 DEF PeriodsAreMadeOnce
    <3>2. DueOn(n, r.start) <= today
      <4>1. CASE DueOn(n, r.start) <= lastDone
        <5>1. DueOn(n, r.start) \in Int
          <6>1. Sound(r)
            BY <1>0, <1>1, <2>3, Numbers
          <6> QED BY <2>3, <6>1, MadeDueIsInt
        <5> QED BY <1>3, <4>1, <5>1
      <4> QED BY <3>1, <4>1 DEF IsMade
    <3> QED BY <1>1, <3>2 DEF IsMade
  <2>4. \A d \in displaced' : Anchors[d] \cap recorded' # {}
    BY <1>0, <1>1, <2>1 DEF PeriodsAreMadeOnce
  <2> QED BY <2>2, <2>3, <2>4 DEF PeriodsAreMadeOnce
<1> QED BY <1>6, <1>7, <1>8, <1>10, <1>11, <1>13, <1>14 DEF DownsamplingInStep

LEMMA SummariseKeeps ==
  ASSUME DownsamplingInStep, NEW d \in Daily, Summarise(d)
  PROVE  DownsamplingInStep'
<1>0. Shapes /\ RowsHold /\ (\A i \in Job : JobHolds(i)) /\ DaysAreKept /\ DaysAreOnce
      /\ NothingIsMissed /\ PeriodsAreMadeOnce
  BY DEF DownsamplingInStep
<1>1. PICK a : a = [id |-> nextId, project |-> d.project, source |-> d.source, slug |-> d.slug,
                    start |-> d.day, length |-> 1, peak |-> d.peak, of |-> {d}]
  OBVIOUS
<1>2. /\ d \notin recorded
      /\ recorded' = recorded \cup {d} /\ rows' = rows \cup {a} /\ nextId' = nextId + 1
      /\ late' = (late \/ Due(d.day))
      /\ today' = today /\ events' = events /\ job' = job /\ jobs' = jobs /\ displaced' = displaced
      /\ lastDone' = lastDone /\ apart' = apart /\ overlapped' = overlapped /\ crashed' = crashed
  BY <1>1 DEF Summarise
<1>3. /\ today \in Int /\ lastDone \in Int /\ nextId \in Nat /\ lastDone <= today /\ d.day \in Int
      /\ nextId' \in Int /\ nextId <= nextId'
      /\ \A i \in Job : job[i] \in JobRow
      /\ \A r \in rows : Sound(r) /\ RowHolds(r) /\ r.id < nextId /\ r.id \in Nat /\ r.of \subseteq recorded
  BY <1>0, <1>2, Numbers, DownsamplingAssumption DEF RowHolds, RowsHold
<1>4. /\ a.id = nextId /\ a.of = {d} /\ a.start = d.day /\ a.length = 1
      /\ a.project = d.project /\ a.source = d.source /\ a.peak = d.peak
  BY <1>1
<1>5. Sound(a) /\ OfLevel(3, a)
  <2>1. a \in Row
    BY <1>1, <1>3, DownsamplingAssumption DEF Row
  <2>2. OfLevel(3, a)
    BY <1>4 DEF OfLevel, Lasts, PartStart
  <2> QED BY <1>4, <2>1, <2>2, DownsamplingAssumption DEF Sound
<1>6. RowHolds(a)'
  BY <1>2, <1>3, <1>4, <1>5 DEF RowHolds
<1>7. \A r \in rows : RowHolds(r)'
  BY <1>2, <1>3, RowsStillHold
<1>8. Shapes'
  BY <1>0, <1>2, <1>3 DEF Shapes
<1>9. RowsHold'
  <2>1. IsFiniteSet(rows \cup {a})
    BY <1>0, FS_AddElement DEF RowsHold
  <2>2. \A r, s \in rows \cup {a} : r.id = s.id => r = s
    BY <1>0, <1>3, <1>4 DEF RowsHold
  <2> QED BY <1>2, <1>3, <1>6, <1>7, <2>1, <2>2 DEF RowsHold
<1>10. ASSUME NEW i \in Job PROVE JobHolds(i)'
  <2>1. ASSUME NEW g \in job[i].groups, NEW c \in g, NEW r \in rows', r.id = c.id PROVE r \in rows
    <3>1. c.id < nextId
      BY <1>0 DEF JobHolds, GroupHolds, RowHolds
    <3> QED BY <1>2, <1>3, <1>4, <2>1, <3>1
  <2> QED BY <1>0, <1>2, <1>3, <2>1, JobStillHolds
<1>11. \A r : Stays(r)' <=> Stays(r)
  BY <1>2 DEF Stays
<1>12. Stays(a)
  <2>1. \A i \in Job : \A k \in job[i].sources : k < nextId
    BY <1>0 DEF JobHolds
  <2> QED BY <1>3, <1>4, <2>1 DEF Stays
<1>13. DaysAreKept'
  BY <1>0, <1>2, <1>4, <1>11, <1>12 DEF DaysAreKept
<1>14. DaysAreOnce'
  BY <1>0, <1>2, <1>3, <1>4, <1>11 DEF DaysAreOnce, Alone, Busy
<1>15. ASSUME OnTime' PROVE OnTime /\ DueOn(3, a.start) > today
  <2>1. OnTime /\ ~Due(d.day)
    BY <1>0, <1>2, <1>15 DEF OnTime, Shapes
  <2>2. PICK w \in Int : w = WeekStart(d.day)
    BY <1>3, Weeks
  <2>3. ~(w + 7 <= today - 30)
    BY <2>1, <2>2 DEF Due, DailyToWeekly
  <2>4. DueOn(3, a.start) = (w + 7) + 30
    BY <1>4, <2>2, PhasesAre
  <2> QED BY <1>3, <2>1, <2>3, <2>4
<1>16. \A i, n, r : Unkeyed(i, n, r)' <=> Unkeyed(i, n, r)
  BY <1>2 DEF Unkeyed
<1>17. \A n \in 0..3 : OfLevel(n, a) => n = 3
  BY <1>5, LevelIsOne
<1>18. NothingIsMissed'
  <2> SUFFICES ASSUME OnTime' PROVE NothingIsMissed'
    BY DEF NothingIsMissed
  <2>1. DueOn(3, a.start) > lastDone /\ ~(DueOn(3, a.start) <= today) /\ OnTime
    <3>1. DueOn(3, a.start) \in Int
      BY <1>5, DueIsInt
    <3> QED BY <1>3, <1>15, <3>1
  <2>2. ASSUME NEW n \in 1..3, NEW r \in rows', OfLevel(n, r)
        PROVE  /\ DueOn(n, r.start) > lastDone
               /\ DueOn(n, r.start) <= today =>
                    \A i \in Job :
                      /\ job[i].phase <= n
                      /\ job[i].phase = n => \/ \E g \in job[i].groups : r \in g
                                             \/ r.id \in job[i].sources /\ Unkeyed(i, n, r)
    <3>1. CASE r \in rows
      BY <1>0, <2>1, <2>2, <3>1 DEF NothingIsMissed
    <3>2. CASE r = a
      <4>1. n = 3
        BY <1>17, <2>2, <3>2
      <4> QED BY <2>1, <3>2, <4>1
    <3> QED BY <1>2, <3>1, <3>2
  <2> QED BY <1>0, <1>2, <1>16, <2>1, <2>2 DEF NothingIsMissed
<1>19. PeriodsAreMadeOnce'
  <2> SUFFICES ASSUME OnTime', Alone' PROVE PeriodsAreMadeOnce'
    BY DEF PeriodsAreMadeOnce
  <2>1. OnTime /\ Alone
    BY <1>2, <1>15 DEF Alone
  <2>2. ASSUME NEW n \in 1..3, NEW r \in rows', OfLevel(n - 1, r) PROVE IsMade(n, r)'
    <3>1. r \in rows
      <4>1. n - 1 \in 0..3 /\ n - 1 # 3
        OBVIOUS
      <4> QED BY <1>2, <1>17, <2>2, <4>1
    <3>2. IsMade(n, r)
      BY <1>0, <2>1, <2>2, <3>1 DEF PeriodsAreMadeOnce
    <3> QED BY <1>2, <1>16, <3>2 DEF IsMade
  <2>3. \A i \in Job : job'[i].group # {} /\ job'[i].existing # NoRow => FoundStarts(i)'
    BY <1>0, <1>2, <2>1 DEF PeriodsAreMadeOnce, FoundStarts
  <2>4. \A q \in displaced' : Anchors[q] \cap recorded' # {}
    BY <1>0, <1>2, <2>1 DEF PeriodsAreMadeOnce
  <2>5. \A i \in Job : \A g \in job'[i].groups : \A r \in g : DueOn(job'[i].phase, r.start) > lastDone'
    BY <1>0, <1>2, <2>1 DEF PeriodsAreMadeOnce
  <2> QED BY <2>2, <2>3, <2>4, <2>5 DEF PeriodsAreMadeOnce
<1> QED BY <1>8, <1>9, <1>10, <1>13, <1>14, <1>18, <1>19 DEF DownsamplingInStep

\* Every part of Write, with names for what it reads.
LEMMA WriteKeeps ==
  ASSUME DownsamplingInStep, NEW j \in Job, job[j].phase \in 1..3, Write(j)
  PROVE  DownsamplingInStep'
<1>0. Shapes /\ RowsHold /\ (\A i \in Job : JobHolds(i)) /\ DaysAreKept /\ DaysAreOnce
      /\ NothingIsMissed /\ PeriodsAreMadeOnce
  BY DEF DownsamplingInStep
<1>a. PICK g, k, n : g = job[j].group /\ k = job[j].existing /\ n = job[j].phase
  OBVIOUS
<1>b. PICK id : id = (IF k = NoRow THEN nextId ELSE k)
  OBVIOUS
<1>c. PICK a : a = Aggregate(Tiers[n], g, id)
  OBVIOUS
<1>1. /\ g # {}
      /\ IF k = NoRow THEN rows' = rows \cup {a} /\ nextId' = nextId + 1
         ELSE rows' = {IF r.id = k THEN a ELSE r : r \in rows} /\ nextId' = nextId
      /\ displaced' = displaced \cup IF k = NoRow THEN {} ELSE Displaces(k, a)
      /\ job' = [job EXCEPT ![j].group = {}, ![j].existing = NoRow,
                            ![j].groups = @ \ {g}, ![j].sources = @ \cup {r.id : r \in g}]
      /\ today' = today /\ recorded' = recorded /\ events' = events /\ jobs' = jobs
      /\ lastDone' = lastDone /\ late' = late /\ apart' = apart /\ overlapped' = overlapped /\ crashed' = crashed
  BY <1>a, <1>b, <1>c DEF Write, TierOf, history
<1>2. /\ today \in Int /\ lastDone \in Int /\ nextId \in Nat /\ lastDone <= today
      /\ \A i \in Job : job[i] \in JobRow
      /\ \A r \in rows : Sound(r) /\ RowHolds(r) /\ r.id \in Nat /\ r.id < nextId /\ r.of \subseteq recorded
      /\ n \in 1..3 /\ k \in Nat \cup {NoRow} /\ k < nextId /\ g \in job[j].groups
  <2>1. g \in job[j].groups /\ k < nextId
    BY <1>0, <1>1, <1>a DEF JobHolds
  <2>2. k \in Nat \cup {NoRow}
    BY <1>0, <1>a, Numbers
  <2> QED BY <1>0, <1>a, <2>1, <2>2, Numbers DEF RowHolds, RowsHold
<1>3. /\ IsFiniteSet(g)
      /\ \A r \in g : /\ RowHolds(r) /\ Sound(r) /\ OfLevel(n, r) /\ DueOn(n, r.start) <= today
                      /\ r.id < nextId /\ r.id \in Nat /\ r.of \subseteq recorded
      /\ \A r, s \in g : Key(n, r) = Key(n, s)
  BY <1>0, <1>2, <1>a DEF JobHolds, GroupHolds, RowHolds, Sound, Row
<1>4. id \in Nat /\ (k # NoRow => id = k) /\ (k = NoRow => id = nextId) /\ id < nextId' /\ nextId <= nextId' /\ nextId' \in Nat
  BY <1>1, <1>2, <1>b DEF NoRow
<1>5. /\ Sound(a) /\ OfLevel(n - 1, a) /\ a.id = id
      /\ \A d : d \in a.of <=> \E r \in g : d \in r.of
      /\ First(g) \in g
      /\ \A r \in g : /\ r.project = a.project /\ r.source = a.source
                      /\ StartIn(n, r.start) = a.start /\ DueOn(n, r.start) = DueOn(n, a.start)
                      /\ Key(n, r) = Key(n, a)
  BY <1>1, <1>2, <1>3, <1>4, <1>c, AggregateIsSound
\* The table after the write.
<1>6. /\ \A r \in rows' : r = a \/ (r \in rows /\ r.id # id)
      /\ \A r \in rows : r.id # id => r \in rows'
      /\ k = NoRow \/ (\E r \in rows : r.id = k) => a \in rows'
      /\ \A r \in rows : r.id = id => k # NoRow
  <2>1. CASE k = NoRow
    BY <1>1, <1>2, <1>4, <2>1
  <2>2. CASE k # NoRow
    <3>1. rows' = {IF r.id = k THEN a ELSE r : r \in rows}
      BY <1>1, <2>2
    <3>2. \A r \in rows : (IF r.id = k THEN a ELSE r) \in rows'
      BY <3>1
    <3>3. \A r \in rows' : r = a \/ (r \in rows /\ r.id # k)
      BY <3>1
    <3> QED BY <1>4, <2>2, <3>2, <3>3
  <2> QED BY <2>1, <2>2
\* What it displaces.
<1>7. /\ displaced \subseteq displaced'
      /\ k # NoRow => \A d : d \in displaced' <=> \/ d \in displaced
                                                  \/ d \notin a.of /\ \E r \in rows : r.id = k /\ d \in r.of
                                                  \/ d \in a.of /\ Doomed(k)
      /\ k = NoRow => displaced' = displaced
  <2>1. \A d : d \in Displaces(k, a) <=> \/ d \notin a.of /\ \E r \in rows : r.id = k /\ d \in r.of
                                         \/ d \in a.of /\ Doomed(k)
    <3>1. \A d : d \in UNION {r.of : r \in {s \in rows : s.id = k}} <=> \E r \in rows : r.id = k /\ d \in r.of
      OBVIOUS
    <3> QED BY <3>1 DEF Displaces
  <2> QED BY <1>1, <2>1
<1>8. ~Doomed(k) => /\ \E r \in rows : r.id = k
                    /\ \A i \in Job : k \notin job[i].sources /\ \A h \in job[i].groups : \A c \in h : c.id # k
  <2>1. \A i \in Job : \A h \in job[i].groups : \A c \in h : c.id \in {r.id : r \in UNION job[i].groups}
    OBVIOUS
  <2> QED BY <2>1 DEF Doomed
<1>9. \A r \in rows : r.id = id => r.of \subseteq a.of \cup displaced'
  BY <1>4, <1>6, <1>7
<1>10. displaced' \subseteq recorded'
  <2>1. a.of \subseteq recorded
    BY <1>3, <1>5
  <2> QED BY <1>0, <1>1, <1>2, <1>7, <2>1 DEF Shapes
\* The job after it.
<1>11. \A i \in Job : i # j => job'[i] = job[i]
  BY <1>0, <1>1 DEF Shapes
<1>12. /\ job'[j].phase = n /\ job'[j].now = job[j].now /\ job'[j].group = {} /\ job'[j].existing = NoRow
       /\ job'[j].groups = job[j].groups \ {g}
       /\ \A q : q \in job'[j].sources <=> q \in job[j].sources \/ \E r \in g : r.id = q
       /\ job'[j] \in JobRow
  <2>0. PICK ids : ids = {r.id : r \in g}
    OBVIOUS
  <2>1. job'[j] = [job[j] EXCEPT !.group = {}, !.existing = NoRow, !.groups = @ \ {g}, !.sources = @ \cup ids]
    BY <1>0, <1>1, <2>0 DEF Shapes
  <2>2. job[j] \in JobRow /\ ids \in SUBSET Nat /\ \A q : q \in ids <=> \E r \in g : r.id = q
    BY <1>2, <1>3, <2>0
  <2>3. PICK b, gs, ss : b = job[j] /\ gs = job[j].groups \ {g} /\ ss = job[j].sources \cup ids
    OBVIOUS
  <2>4. job'[j] = [b EXCEPT !.group = {}, !.existing = NoRow, !.groups = gs, !.sources = ss]
    BY <2>1, <2>3
  <2>5. b \in JobRow /\ gs \in SUBSET SUBSET Row /\ ss \in SUBSET Nat
    <3>1. b \in JobRow /\ b.groups \in SUBSET SUBSET Row /\ b.sources \in SUBSET Nat
      BY <2>2, <2>3 DEF JobRow
    <3> QED BY <2>2, <2>3, <3>1
  <2>6. /\ job'[j].phase = b.phase /\ job'[j].now = b.now /\ job'[j].group = {} /\ job'[j].existing = NoRow
        /\ job'[j].groups = gs /\ job'[j].sources = ss
    BY <2>4, <2>5 DEF JobRow
  <2>7. job'[j] \in JobRow
    BY <2>4, <2>5 DEF JobRow
  <2>8. \A q : q \in ss <=> q \in job[j].sources \/ \E r \in g : r.id = q
    BY <2>2, <2>3
  <2> QED BY <1>a, <2>3, <2>6, <2>7, <2>8
<1>13. \A i \in Job : /\ job'[i].phase = job[i].phase /\ job'[i].groups \subseteq job[i].groups
                      /\ job[i].sources \subseteq job'[i].sources
  BY <1>11, <1>12, <1>a
<1>14. \A r : Stays(r)' => Stays(r)
  BY <1>13 DEF Stays
<1>15. Shapes'
  <2>1. job' \in [Job -> JobRow]
    <3>1. DOMAIN job' = Job /\ job' = [i \in Job |-> job'[i]]
      BY <1>0, <1>1 DEF Shapes
    <3>2. \A i \in Job : job'[i] \in JobRow
      BY <1>2, <1>11, <1>12
    <3> QED BY <3>1, <3>2
  <2> QED BY <1>0, <1>1, <1>10, <2>1 DEF Shapes
<1>16. RowsHold'
  <2>1. IsFiniteSet(rows')
    <3>1. rows' \in SUBSET (rows \cup {a})
      BY <1>6
    <3>2. IsFiniteSet(rows \cup {a})
      BY <1>0, FS_AddElement DEF RowsHold
    <3> QED BY <3>1, <3>2, FS_Subset
  <2>2. RowHolds(a)'
    BY <1>1, <1>3, <1>4, <1>5 DEF RowHolds
  <2>3. \A r \in rows : RowHolds(r)'
    BY <1>1, <1>2, <1>4, RowsStillHold
  <2>4. \A r, s \in rows' : r.id = s.id => r = s
    BY <1>0, <1>5, <1>6 DEF RowsHold
  <2> QED BY <1>4, <1>6, <2>1, <2>2, <2>3, <2>4 DEF RowsHold
<1>17. ASSUME NEW i \in Job PROVE JobHolds(i)'
  <2>1. ASSUME NEW h \in job[i].groups, NEW c \in h, NEW r \in rows', r.id = c.id
        PROVE  r \in rows \/ r.of \subseteq displaced'
    <3>1. CASE r = a
      <4>1. c.id < nextId
        BY <1>0, <2>1 DEF JobHolds, GroupHolds, RowHolds
      <4>2. k # NoRow /\ c.id = k
        BY <1>2, <1>4, <1>5, <2>1, <3>1, <4>1
      <4>3. Doomed(k)
        BY <1>8, <2>1, <4>2
      <4> QED BY <1>7, <3>1, <4>2, <4>3
    <3> QED BY <1>6, <3>1
  <2>2. nextId \in Int /\ nextId' \in Int /\ today' \in Int /\ recorded \subseteq recorded'
    BY <1>1, <1>2, <1>4
  <2>3. CASE i # j
    BY <1>0, <1>1, <1>2, <1>4, <1>7, <1>11, <2>1, <2>2, <2>3, JobStillHolds
  <2>4. CASE i = j
    <3>0. JobHolds(j)
      BY <1>0
    <3>1. ASSUME NEW h \in job'[j].groups PROVE GroupHolds(n, h)'
      <4>1. GroupHolds(n, h)
        BY <1>12, <1>a, <3>0 DEF JobHolds
      <4> QED BY <1>1, <1>2, <1>4, <2>2, <4>1, RowsStillHold
    <3>2. /\ n # 0 /\ n # EventsPhase /\ job'[j].now = today'
          /\ NoRow < nextId' /\ \A q \in job'[j].sources : q < nextId'
      <4>1. \A q \in job'[j].sources : q < nextId
        BY <1>3, <1>12, <3>0 DEF JobHolds
      <4>2. \A q \in job'[j].sources : q \in Nat
        BY <1>12 DEF JobRow
      <4>3. \A q \in job'[j].sources : q < nextId'
        BY <1>4, <2>2, <4>1, <4>2
      <4>4. n # 0 /\ n # EventsPhase
        BY <1>2 DEF EventsPhase
      <4>5. job'[j].now = today'
        BY <1>1, <1>12, <1>a, <3>0, <4>4 DEF JobHolds
      <4>6. NoRow < nextId'
        BY <1>4 DEF NoRow
      <4> QED BY <4>3, <4>4, <4>5, <4>6
    <3>3. \A h, l \in job'[j].groups : \A r \in h, s \in l : r.id = s.id \/ Key(n, r) = Key(n, s) => h = l
      BY <1>12, <1>a, <3>0 DEF JobHolds
    <3>4. ASSUME NEW h \in job'[j].groups, NEW c \in h
          PROVE  c.id \notin job'[j].sources /\ \A r \in rows' : r.id = c.id => r = c \/ r.of \subseteq displaced'
      <4>1. h \in job[j].groups /\ h # g
        BY <1>12
      <4>2. c.id \notin job[j].sources /\ \A s \in g : s.id # c.id
        BY <1>2, <3>0, <3>4, <4>1 DEF JobHolds
      <4>3. \A r \in rows : r.id = c.id => r = c \/ r.of \subseteq displaced'
        BY <1>7, <3>0, <3>4, <4>1 DEF JobHolds
      <4> QED BY <1>12, <2>1, <2>4, <4>1, <4>2, <4>3
    <3> QED BY <1>2, <1>12, <2>4, <3>1, <3>2, <3>3, <3>4 DEF JobHolds
  <2> QED BY <2>3, <2>4
\* The aggregate stays, or all of it is displaced.
<1>18. \/ a.of \subseteq displaced'
       \/ a \in rows' /\ Stays(a)'
  <2>1. CASE k = NoRow
    <3>1. \A i \in Job : \A q \in job[i].sources : q < nextId
      BY <1>0 DEF JobHolds
    <3>2. a.id \notin job'[j].sources
      BY <1>2, <1>3, <1>4, <1>5, <1>12, <2>1, <3>1
    <3>3. \A i \in Job : i # j => a.id \notin job'[i].sources
      BY <1>2, <1>4, <1>5, <1>11, <2>1, <3>1
    <3> QED BY <1>6, <2>1, <3>2, <3>3 DEF Stays
  <2>2. CASE k # NoRow /\ Doomed(k)
    BY <1>7, <2>2
  <2>3. CASE k # NoRow /\ ~Doomed(k)
    <3>1. a \in rows' /\ a.id = k
      BY <1>4, <1>5, <1>6, <1>8, <2>3
    <3>2. \A i \in Job : k \notin job'[i].sources
      BY <1>2, <1>8, <1>11, <1>12, <2>3
    <3> QED BY <3>1, <3>2 DEF Stays
  <2> QED BY <2>1, <2>2, <2>3
\* The rows of the group are in the table as the group has them.
<1>19. \A c \in g : \A r \in rows : r.id = c.id => r = c \/ r.of \subseteq displaced
  BY <1>0, <1>2 DEF JobHolds
<1>20. DaysAreKept'
  <2> SUFFICES ASSUME NEW d \in recorded' \ displaced' PROVE \E r \in rows' : d \in r.of /\ Stays(r)'
    BY DEF DaysAreKept
  <2>1. PICK r \in rows : d \in r.of /\ Stays(r)
    BY <1>0, <1>1, <1>7 DEF DaysAreKept
  <2>2. CASE d \in a.of
    BY <1>18, <2>2
  <2>3. CASE d \notin a.of
    <3>1. r.id # id
      BY <1>9, <2>1, <2>3
    <3>2. \A c \in g : r.id # c.id
      BY <1>5, <1>7, <1>19, <2>1, <2>3
    <3>3. Stays(r)'
      BY <1>11, <1>12, <2>1, <3>2 DEF Stays
    <3> QED BY <1>6, <2>1, <3>1, <3>3
  <2> QED BY <2>2, <2>3
<1>21. DaysAreOnce'
  <2> SUFFICES ASSUME Alone' PROVE DaysAreOnce'
    BY DEF DaysAreOnce
  <2>1. Alone
    BY <1>1 DEF Alone
  <2>2. \A i \in Job : i # j => job[i].phase = 0 /\ job[i].sources = {} /\ job[i].groups = {}
    <3>1. \A i \in Job : i # j => ~Busy(i)
      BY <1>0, <1>2, <1>a, <2>1 DEF DaysAreOnce, Busy
    <3> QED BY <1>0, <3>1, IdleJobs
  <2>3. \A i, m \in Job : Busy(i)' /\ Busy(m)' => i = m
    BY <1>11, <2>2 DEF Busy
  <2>4. ASSUME NEW s \in rows, s.id # id, NEW d \in s.of, d \in a.of, d \notin displaced', Stays(s)' PROVE FALSE
    <3>1. PICK c \in g : d \in c.of
      BY <1>5, <2>4
    <3>2. c \in rows
      BY <1>0, <1>2, <1>7, <2>1, <2>4, <3>1 DEF DaysAreOnce
    <3>3. Stays(c)
      <4>1. c.id \notin job[j].sources
        BY <1>0, <1>2, <3>1 DEF JobHolds
      <4> QED BY <2>2, <4>1 DEF Stays
    <3>4. c = s
      BY <1>0, <1>7, <1>14, <2>1, <2>4, <3>1, <3>2, <3>3 DEF DaysAreOnce
    <3>5. s.id \in job'[j].sources
      BY <1>12, <3>1, <3>4
    <3> QED BY <2>4, <3>5 DEF Stays
  <2>5. ASSUME NEW r \in rows', NEW s \in rows', NEW d \in (r.of \cap s.of) \ displaced', Stays(r)', Stays(s)'
        PROVE  r = s
    <3>1. CASE r \in rows /\ s \in rows
      BY <1>0, <1>7, <1>14, <2>1, <2>5, <3>1 DEF DaysAreOnce
    <3> QED BY <1>6, <2>4, <2>5, <3>1
  <2>6. ASSUME NEW i \in Job, NEW h \in job'[i].groups, NEW c \in h PROVE c \in rows' \/ c.of \subseteq displaced'
    <3>1. i = j /\ h \in job[j].groups /\ h # g
      BY <1>11, <1>12, <2>2, <2>6
    <3>2. CASE c \in rows /\ c.id # id
      BY <1>6, <3>2
    <3>3. CASE c \in rows /\ c.id = id
      <4>1. k # NoRow /\ k = id
        BY <1>4, <1>6, <3>3
      <4>2. Doomed(k)
        BY <1>8, <2>6, <3>1, <3>3, <4>1
      <4> QED BY <1>7, <1>9, <3>3, <4>1, <4>2
    <3>4. CASE c.of \subseteq displaced
      BY <1>7, <3>4
    <3>5. c \in rows \/ c.of \subseteq displaced
      BY <1>0, <2>1, <2>6, <3>1 DEF DaysAreOnce
    <3> QED BY <3>2, <3>3, <3>4, <3>5
  <2> QED BY <2>3, <2>5, <2>6 DEF DaysAreOnce
<1>22. \A i, m, r : Unkeyed(i, m, r) => Unkeyed(i, m, r)' \/ i \notin Job
  BY <1>13 DEF Unkeyed
\* What the job has written is keyed no more.
<1>23. \A r : (\E s \in g : Key(n, s) = Key(n, r)) => Unkeyed(j, n, r)'
  <2> SUFFICES ASSUME NEW r, NEW s \in g, Key(n, s) = Key(n, r) PROVE Unkeyed(j, n, r)'
    OBVIOUS
  <2>1. ASSUME NEW h \in job'[j].groups, NEW c \in h PROVE Key(n, c) # Key(n, r)
    <3>1. h \in job[j].groups /\ h # g
      BY <1>12
    <3>2. Key(n, s) # Key(n, c)
      BY <1>0, <1>2, <1>a, <2>1, <3>1 DEF JobHolds
    <3> QED BY <3>2
  <2> QED BY <2>1 DEF Unkeyed
<1>24. NothingIsMissed'
  <2> SUFFICES ASSUME OnTime' PROVE NothingIsMissed'
    BY DEF NothingIsMissed
  <2>1. OnTime
    BY <1>1 DEF OnTime
  <2>2. today' - lastDone' <= OneGap
    BY <1>0, <1>1, <2>1 DEF NothingIsMissed
  <2>3. \A i \in Job : \A h \in job[i].groups : \A r \in h : DueOn(job[i].phase, r.start) > today - OneGap
    BY <1>0, <2>1 DEF NothingIsMissed
  <2>4. \A i \in Job : \A h \in job'[i].groups : \A r \in h : DueOn(job'[i].phase, r.start) > today' - OneGap
    BY <1>1, <1>13, <2>3
  <2>5. ASSUME NEW m \in 1..3, NEW r \in rows', OfLevel(m, r)
        PROVE  /\ DueOn(m, r.start) > lastDone'
               /\ DueOn(m, r.start) <= today' =>
                    \A i \in Job :
                      /\ job'[i].phase <= m
                      /\ job'[i].phase = m => \/ \E h \in job'[i].groups : r \in h
                                              \/ r.id \in job'[i].sources /\ Unkeyed(i, m, r)'
    <3>1. CASE r \in rows
      <4>1. DueOn(m, r.start) > lastDone
        BY <1>0, <2>1, <2>5, <3>1 DEF NothingIsMissed
      <4>2. ASSUME DueOn(m, r.start) <= today, NEW i \in Job
            PROVE  /\ job'[i].phase <= m
                   /\ job'[i].phase = m => \/ \E h \in job'[i].groups : r \in h
                                           \/ r.id \in job'[i].sources /\ Unkeyed(i, m, r)'
        <5>1. /\ job[i].phase <= m
              /\ job[i].phase = m => \/ \E h \in job[i].groups : r \in h
                                     \/ r.id \in job[i].sources /\ Unkeyed(i, m, r)
          BY <1>0, <2>1, <2>5, <3>1, <4>2 DEF NothingIsMissed
        <5>2. CASE i = j /\ r \in g /\ job[i].phase = m
          <6>1. r.id \in job'[j].sources /\ Unkeyed(j, n, r)'
            BY <1>12, <1>23, <5>2
          <6> QED BY <1>13, <1>a, <5>1, <5>2, <6>1
        <5>3. CASE ~(i = j /\ r \in g)
          <6>1. \A h \in job[i].groups : r \in h => h \in job'[i].groups
            BY <1>11, <1>12, <5>3
          <6> QED BY <1>13, <1>22, <5>1, <6>1
        <5> QED BY <1>13, <5>1, <5>2, <5>3
      <4> QED BY <1>1, <4>1, <4>2
    <3>2. CASE r = a
      <4>1. m = n - 1 /\ n \in 2..3
        <5>1. n - 1 \in 0..3 /\ m \in 0..3
          BY <1>2
        <5>2. m = n - 1
          BY <1>5, <2>5, <3>2, <5>1, LevelIsOne
        <5> QED BY <1>2, <5>2
      <4>2. PICK f \in g : Sound(f) /\ OfLevel(n, f) /\ a.start = StartIn(n, f.start)
        BY <1>3, <1>5
      <4>3. DueOn(n, f.start) > today - 49
        BY <1>2, <1>a, <2>3 DEF OneGap
      <4>4. DueOn(n - 1, a.start) > today
        BY <1>2, <1>5, <4>1, <4>2, <4>3, MadeIsNotDue
      <4>5. DueOn(m, r.start) \in Int
        BY <1>5, <2>5, <3>2, DueIsInt
      <4>6. DueOn(m, r.start) > today
        BY <3>2, <4>1, <4>4
      <4>7. DueOn(m, r.start) > lastDone /\ ~(DueOn(m, r.start) <= today)
        BY <1>2, <4>5, <4>6
      <4> QED BY <1>1, <4>7
    <3> QED BY <1>6, <3>1, <3>2
  <2> QED BY <2>2, <2>4, <2>5 DEF NothingIsMissed
<1>25. PeriodsAreMadeOnce'
  <2> SUFFICES ASSUME OnTime', Alone' PROVE PeriodsAreMadeOnce'
    BY DEF PeriodsAreMadeOnce
  <2>1. OnTime /\ Alone
    BY <1>1 DEF OnTime, Alone
  <2>2. \A i \in Job : i # j => job[i].phase = 0 /\ job[i].sources = {} /\ job[i].groups = {} /\ job[i].group = {}
    <3>1. \A i \in Job : i # j => ~Busy(i)
      BY <1>0, <1>2, <1>a, <2>1 DEF DaysAreOnce, Busy
    <3> QED BY <1>0, <3>1, IdleJobs
  <2>3. \A i \in Job : job'[i].group = {}
    BY <1>11, <1>12, <2>2
  <2>4. /\ \A r \in g : DueOn(n, r.start) > lastDone
        /\ \A i \in Job : \A h \in job'[i].groups : \A r \in h : DueOn(job'[i].phase, r.start) > lastDone'
    BY <1>0, <1>1, <1>2, <1>13, <1>a, <2>1 DEF PeriodsAreMadeOnce
  <2>5. ASSUME NEW m \in 1..3, NEW r \in rows', OfLevel(m - 1, r) PROVE IsMade(m, r)'
    <3>1. CASE r \in rows
      <4>1. IsMade(m, r)
        BY <1>0, <2>1, <2>5, <3>1 DEF PeriodsAreMadeOnce
      <4>2. CASE DueOn(m, r.start) <= lastDone
        BY <1>1, <4>2 DEF IsMade
      <4>3. CASE DueOn(m, r.start) <= today /\ \E i \in Job : job[i].phase >= m /\ (job[i].phase = m => Unkeyed(i, m, r))
        <5>1. PICK i \in Job : job[i].phase >= m /\ (job[i].phase = m => Unkeyed(i, m, r))
          BY <4>3
        <5>2. job'[i].phase >= m /\ (job'[i].phase = m => Unkeyed(i, m, r)')
          BY <1>13, <1>22, <5>1
        <5> QED BY <1>1, <4>3, <5>2 DEF IsMade
      <4> QED BY <4>1, <4>2, <4>3 DEF IsMade
    <3>2. CASE r = a
      <4>1. m = n
        <5>1. n - 1 \in 0..3 /\ m - 1 \in 0..3
          BY <1>2
        <5>2. m - 1 = n - 1
          BY <1>5, <2>5, <3>2, <5>1, LevelIsOne
        <5> QED BY <1>2, <5>2
      <4>2. DueOn(n, a.start) <= today
        BY <1>1, <1>3, <1>5
      <4>3. Unkeyed(j, n, a)'
        BY <1>5, <1>23
      <4>4. job'[j].phase >= m
        BY <1>12, <4>1
      <4> QED BY <1>1, <3>2, <4>1, <4>2, <4>3, <4>4 DEF IsMade
    <3> QED BY <1>6, <3>1, <3>2
  <2>6. ASSUME NEW d \in displaced' PROVE Anchors[d] \cap recorded' # {}
    <3>1. CASE d \in displaced
      BY <1>0, <1>1, <2>1, <3>1 DEF PeriodsAreMadeOnce
    <3>2. CASE d \notin displaced
      <4>1. k # NoRow
        BY <1>7, <3>2, <2>6
      <4>2. PICK f \in g : f = First(g) /\ Sound(f) /\ OfLevel(n, f) /\ a.start = StartIn(n, f.start)
                           /\ f.project = a.project /\ f.source = a.source
        BY <1>3, <1>5
      <4>3. PICK r \in rows : r.id = k /\ r.project = a.project /\ r.source = a.source /\ r.start = a.start
        BY <1>0, <1>1, <1>a, <2>1, <4>1, <4>2 DEF PeriodsAreMadeOnce, FoundStarts
      <4>4. Sound(r) /\ r.of # {} /\ r.of \subseteq recorded
        BY <1>2, <4>3 DEF Sound
      <4>5. PICK m \in 0..3 : OfLevel(m, r)
        BY <4>4 DEF Sound
      <4>6. DueOn(n, f.start) <= today /\ DueOn(n, f.start) > today - 49 /\ DueOn(n, f.start) > lastDone
            /\ r.start = StartIn(n, f.start)
        <5>1. DueOn(n, f.start) > today - OneGap
          BY <1>0, <1>2, <1>a, <2>1 DEF NothingIsMissed
        <5> QED BY <1>3, <2>4, <4>2, <4>3, <5>1 DEF OneGap
      <4>7. ~(m > n)
        <5> SUFFICES ASSUME m > n PROVE FALSE
          OBVIOUS
        <5>0. m \in 1..3
          BY <1>2
        <5>1. DueOn(m, r.start) <= today - 49
          BY <1>2, <4>2, <4>4, <4>5, <4>6, <5>0, FoundIsPast
        <5>2. DueOn(m, r.start) > lastDone /\ today - lastDone <= 49
          BY <1>0, <2>1, <4>5, <5>0 DEF NothingIsMissed, OneGap
        <5>3. DueOn(m, r.start) \in Int
          BY <4>4, <4>5, <5>0, DueIsInt
        <5> QED BY <1>2, <5>1, <5>2, <5>3
      <4>8. ~(m < n - 1)
        <5> SUFFICES ASSUME m < n - 1 PROVE FALSE
          OBVIOUS
        <5>0. PICK q \in 1..3 : q = m + 1 /\ m = q - 1
          BY <1>2
        <5>1. DueOn(q, r.start) > today
          BY <1>2, <4>2, <4>4, <4>5, <4>6, <5>0, FoundIsNotDue
        <5>2. IsMade(q, r)
          BY <1>0, <2>1, <4>5, <5>0 DEF PeriodsAreMadeOnce
        <5>3. DueOn(q, r.start) \in Int
          BY <4>4, <4>5, <5>0, MadeDueIsInt
        <5> QED BY <1>2, <5>1, <5>2, <5>3 DEF IsMade
      <4>9. m # n - 1
        <5> SUFFICES ASSUME m = n - 1 PROVE FALSE
          OBVIOUS
        <5>1. IsMade(n, r)
          BY <1>0, <1>2, <2>1, <4>5 DEF PeriodsAreMadeOnce
        <5>2. DueOn(n, r.start) = DueOn(n, f.start) /\ Key(n, r) = Key(n, f)
          <6>1. DueOn(n, r.start) = DueOn(n, f.start) /\ Period(Tiers[n], r.start) = Period(Tiers[n], f.start)
            BY <1>2, <4>2, <4>6, StartOfPeriod
          <6> QED BY <4>2, <4>3, <6>1 DEF Key
        <5>3. DueOn(n, f.start) \in Int
          BY <1>2, <4>2, DueIsInt
        <5>4. ~(DueOn(n, r.start) <= lastDone)
          BY <1>2, <4>6, <5>2, <5>3
        <5>5. PICK i \in Job : job[i].phase >= n /\ (job[i].phase = n => Unkeyed(i, n, r))
          BY <5>1, <5>4 DEF IsMade
        <5>6. i = j
          BY <1>2, <2>2, <5>5
        <5>7. Unkeyed(j, n, r)
          BY <1>a, <5>5, <5>6
        <5> QED BY <1>2, <4>2, <5>2, <5>7 DEF Unkeyed
      <4>10. m = n
        BY <1>2, <4>7, <4>8, <4>9
      <4>11. d \in Daily /\ d.project = r.project /\ d.source = r.source /\ PartStart(n - 1, d.day) = r.start
        <5>1. d \in a.of \/ d \in r.of
          <6>1. \A s \in rows : s.id = k => s = r
            BY <1>0, <4>3 DEF RowsHold
          <6> QED BY <1>7, <2>6, <3>2, <4>1, <6>1
        <5>2. CASE d \in a.of
          BY <1>5, <4>3, <5>2 DEF Sound, Row, OfLevel
        <5>3. CASE d \in r.of
          <6>1. PartStart(n - 1, d.day) = StartIn(n, r.start)
            BY <1>2, <4>4, <4>5, <4>10, <5>3, PartsStart
          <6>2. StartIn(n, r.start) = r.start
            BY <1>2, <4>2, <4>6, StartOfPeriod
          <6> QED BY <4>4, <5>3, <6>1, <6>2 DEF Sound, Row
        <5> QED BY <5>1, <5>2, <5>3
      <4>12. PICK q : q \in r.of
        BY <4>4
      <4>13. q \in Anchors[d]
        BY <1>2, <4>4, <4>5, <4>10, <4>11, <4>12, DaysAreAnchors
      <4> QED BY <1>1, <4>4, <4>12, <4>13
    <3> QED BY <3>1, <3>2
  <2> QED BY <1>1, <2>3, <2>4, <2>5, <2>6 DEF PeriodsAreMadeOnce
<1> QED BY <1>15, <1>16, <1>17, <1>20, <1>21, <1>24, <1>25 DEF DownsamplingInStep

LEMMA StutterKeeps ==
  ASSUME DownsamplingInStep, UNCHANGED vars
  PROVE  DownsamplingInStep'
<1>1. /\ today' = today /\ recorded' = recorded /\ rows' = rows /\ events' = events /\ nextId' = nextId
      /\ job' = job /\ jobs' = jobs /\ displaced' = displaced /\ lastDone' = lastDone
      /\ late' = late /\ apart' = apart /\ overlapped' = overlapped /\ crashed' = crashed
  BY DEF vars
<1>2. Shapes' /\ RowsHold' /\ (\A j \in Job : JobHolds(j)')
  BY <1>1 DEF DownsamplingInStep, Shapes, RowsHold, RowHolds, JobHolds, GroupHolds
<1>3. DaysAreKept' /\ DaysAreOnce'
  BY <1>1 DEF DownsamplingInStep, DaysAreKept, DaysAreOnce, Stays, Alone, Busy
<1>4. NothingIsMissed'
  BY <1>1 DEF DownsamplingInStep, NothingIsMissed, OnTime, Unkeyed
<1>5. PeriodsAreMadeOnce'
  BY <1>1 DEF DownsamplingInStep, PeriodsAreMadeOnce, OnTime, Alone, IsMade, Unkeyed, FoundStarts
<1> QED BY <1>2, <1>3, <1>4, <1>5 DEF DownsamplingInStep

LEMMA InitHolds == Init => DownsamplingInStep
<1> SUFFICES ASSUME Init PROVE DownsamplingInStep
  OBVIOUS
<1>1. /\ today = FirstDay /\ lastDone = FirstDay /\ recorded = {} /\ rows = {} /\ displaced = {} /\ events = Event
      /\ nextId = 0 /\ job = [j \in Job |-> NoJob] /\ jobs = 0
      /\ late = FALSE /\ apart = FALSE /\ overlapped = FALSE /\ crashed = FALSE
  BY DEF Init
<1>2. \A j \in Job : /\ job[j] = NoJob /\ job[j].phase = 0 /\ job[j].groups = {} /\ job[j].group = {}
                     /\ job[j].existing = NoRow /\ job[j].sources = {}
  BY <1>1 DEF NoJob
<1>3. FirstDay \in Int /\ FirstDay <= LastDay /\ LastDay \in Int /\ MaxJobs \in Nat
  BY DownsamplingAssumption
<1>4. Shapes
  <2>1. job \in [Job -> JobRow]
    BY <1>1, NoJobIsOne
  <2>2. late \in BOOLEAN /\ apart \in BOOLEAN /\ overlapped \in BOOLEAN /\ crashed \in BOOLEAN
    BY <1>1
  <2>3. FirstDay <= lastDone /\ lastDone <= today /\ today <= LastDay /\ today \in Int /\ lastDone \in Int
    BY <1>1, <1>3
  <2>4. recorded \subseteq Daily /\ displaced \subseteq recorded /\ events \subseteq Event /\ jobs \in 0..MaxJobs
    BY <1>1, <1>3
  <2> QED BY <2>1, <2>2, <2>3, <2>4 DEF Shapes
<1>5. RowsHold
  BY <1>1, FS_EmptySet DEF RowsHold
<1>6. \A j \in Job : JobHolds(j)
  BY <1>1, <1>2 DEF JobHolds, EventsPhase, NoRow
<1>7. DaysAreKept /\ DaysAreOnce
  BY <1>1, <1>2 DEF DaysAreKept, DaysAreOnce, Busy
<1>8. NothingIsMissed
  BY <1>1, <1>2, <1>3 DEF NothingIsMissed, OneGap
<1>9. PeriodsAreMadeOnce
  BY <1>1, <1>2 DEF PeriodsAreMadeOnce
<1> QED BY <1>4, <1>5, <1>6, <1>7, <1>8, <1>9 DEF DownsamplingInStep

-----------------------------------------------------------------------------
(* The theorems.                                                           *)

\* Every step keeps the invariant, whichever jobs run and wherever they stop.
THEOREM DownsamplingStaysInStep == Spec => []DownsamplingInStep
<1>1. DownsamplingInStep /\ [Next]_vars => DownsamplingInStep'
  <2> SUFFICES ASSUME DownsamplingInStep, [Next]_vars PROVE DownsamplingInStep'
    OBVIOUS
  <2>1. ASSUME NEW j \in Job, Start(j) PROVE DownsamplingInStep'
    BY <2>1, StartKeeps
  <2>2. ASSUME NEW j \in Job, AggregateToMonthly(j) \/ AggregateToBiweekly(j) \/ AggregateToWeekly(j)
        PROVE  DownsamplingInStep'
    <3>1. job[j].phase \in 1..3 /\ Phase(j)
      BY <2>2 DEF AggregateToMonthly, AggregateToBiweekly, AggregateToWeekly, InTier, Tiers
    <3> QED BY <3>1, WriteKeeps, DeleteSourcesKeeps, LookUpKeeps DEF Phase
  <2>3. ASSUME NEW j \in Job, DeleteEvents(j) PROVE DownsamplingInStep'
    BY <2>3, DeleteEventsKeeps
  <2>4. ASSUME NEW d \in Daily, Summarise(d) PROVE DownsamplingInStep'
    BY <2>4, SummariseKeeps
  <2>5. ASSUME NEW n \in Step, Tick(n) PROVE DownsamplingInStep'
    BY <2>5, TickKeeps
  <2>6. CASE Restart
    BY <2>6, RestartKeeps
  <2>7. CASE UNCHANGED vars
    BY <2>7, StutterKeeps
  <2> QED BY <2>1, <2>2, <2>3, <2>4, <2>5, <2>6, <2>7 DEF Next
<1> QED BY <1>1, InitHolds, PTL DEF Spec

\* No aggregation loses a day, and undisturbed jobs count none twice.
THEOREM KeptOnceAlways == Spec => []KeptOnce
<1>1. DownsamplingInStep => KeptOnce
  <2> SUFFICES ASSUME DownsamplingInStep, NEW d \in recorded \ displaced
               PROVE  LET of == {r \in rows : d \in r.of}
                      IN  /\ \E r \in of : r.peak >= d.peak /\ r.project = d.project /\ r.source = d.source
                          /\ Idle /\ ~overlapped /\ ~crashed => Cardinality(of) = 1
    BY DEF KeptOnce
  <2>1. PICK of : of = {r \in rows : d \in r.of}
    OBVIOUS
  <2>2. Shapes /\ RowsHold /\ (\A i \in Job : JobHolds(i)) /\ DaysAreKept /\ DaysAreOnce
    BY DEF DownsamplingInStep
  <2>3. PICK r \in rows : d \in r.of /\ Stays(r)
    BY <2>2 DEF DaysAreKept
  <2>4. r.peak >= d.peak /\ r.project = d.project /\ r.source = d.source
    <3>1. d.peak <= r.peak /\ d.project = r.project /\ d.source = r.source
      BY <2>2, <2>3, Numbers DEF Sound
    <3>2. d \in Daily /\ d.peak \in Nat /\ r.peak \in Nat
      BY <2>2, <2>3, Numbers, DownsamplingAssumption DEF Row, Shapes
    <3> QED BY <3>1, <3>2
  <2>5. ASSUME Idle, ~overlapped, ~crashed PROVE Cardinality(of) = 1
    <3>1. \A s : Stays(s)
      BY <2>2, <2>5, IdleJobs DEF Stays, Idle
    <3>2. of = {r}
      BY <2>1, <2>2, <2>3, <2>5, <3>1 DEF DaysAreOnce, Alone
    <3> QED BY <3>2, FS_Singleton
  <2> QED BY <2>1, <2>3, <2>4, <2>5
<1> QED BY <1>1, DownsamplingStaysInStep, PTL

\* Periods are aggregated once, when they are over.
THEOREM TakenOnlyFromAnchorAlways == Spec => []TakenOnlyFromAnchor
<1>1. DownsamplingInStep => TakenOnlyFromAnchor
  BY DEF DownsamplingInStep, PeriodsAreMadeOnce, OnTime, Alone, TakenOnlyFromAnchor
<1> QED BY <1>1, DownsamplingStaysInStep, PTL

\* No summary grows too old for the only phase that would take it.
THEOREM NothingIsStrandedEver == Spec => []NothingIsStranded
<1>1. DownsamplingInStep => NothingIsStranded
  <2> SUFFICES ASSUME DownsamplingInStep, ~late, ~apart, NEW r \in rows
               PROVE  /\ IsDaily(r) => r.start > today - WeeklyToBiweekly
                      /\ IsWeekly(r) => r.start > today - BiweeklyToMonthly
    BY DEF NothingIsStranded
  <2>1. /\ Sound(r) /\ r.length \in Nat /\ today \in Int /\ lastDone \in Int
        /\ today - lastDone <= 49
        /\ \A n \in 1..3 : OfLevel(n, r) => DueOn(n, r.start) > lastDone
    BY Numbers DEF DownsamplingInStep, NothingIsMissed, OnTime, OneGap, Sound, Row
  <2>2. /\ OfLevel(0, r) => r.length >= 28
        /\ OfLevel(1, r) => r.length = 14
        /\ OfLevel(2, r) => r.length = 7
        /\ OfLevel(3, r) => r.length = 1
    BY <2>1, LevelStarts, LevelsLast
  <2>3. OfLevel(0, r) \/ OfLevel(1, r) \/ OfLevel(2, r) \/ OfLevel(3, r)
    BY <2>1 DEF Sound
  <2>4. ASSUME IsDaily(r) PROVE r.start > today - WeeklyToBiweekly
    <3>1. OfLevel(3, r)
      BY <2>1, <2>2, <2>3, <2>4 DEF IsDaily
    <3>2. PICK x \in Int, s \in Int, e \in Int : x = r.start /\ e = DueOn(3, x) /\ s <= x /\ e = s + 37
      BY <2>1, <3>1, PhaseNumbers
    <3>3. e > lastDone
      BY <2>1, <3>1, <3>2
    <3> QED BY <2>1, <3>2, <3>3 DEF WeeklyToBiweekly
  <2>5. ASSUME IsWeekly(r) PROVE r.start > today - BiweeklyToMonthly
    <3>1. OfLevel(2, r)
      BY <2>1, <2>2, <2>3, <2>5 DEF IsWeekly
    <3>2. PICK x \in Int, s \in Int, e \in Int : x = r.start /\ e = DueOn(2, x) /\ s <= x /\ e = s + 104
      BY <2>1, <3>1, PhaseNumbers
    <3>3. e > lastDone
      BY <2>1, <3>1, <3>2
    <3> QED BY <2>1, <3>2, <3>3 DEF BiweeklyToMonthly
  <2> QED BY <2>4, <2>5
<1> QED BY <1>1, DownsamplingStaysInStep, PTL

LEMMA DisjointUnion ==
  ASSUME NEW S, NEW T, IsFiniteSet(S), IsFiniteSet(T), S \cap T = {}
  PROVE  IsFiniteSet(S \cup T) /\ Cardinality(S \cup T) = Cardinality(S) + Cardinality(T)
<1>1. Cardinality(S) \in Nat /\ Cardinality(T) \in Nat /\ Cardinality(S \cap T) = 0
  BY FS_CardinalityType, FS_EmptySet
<1>2. PICK s \in Nat, t \in Nat, i \in Nat : s = Cardinality(S) /\ t = Cardinality(T) /\ i = Cardinality(S \cap T)
  BY <1>1
<1>3. IsFiniteSet(S \cup T) /\ Cardinality(S \cup T) = s + (t - i)
  BY <1>2, FS_Union
<1> QED BY <1>1, <1>2, <1>3

\* Every row is a day, a week, two weeks from an odd one or a month, and the
\* statistics count each once.
THEOREM DownsamplingTypes == Spec => []TypeOK
<1>1. DownsamplingInStep => TypeOK
  <2> SUFFICES ASSUME DownsamplingInStep PROVE TypeOK
    OBVIOUS
  <2>0. Shapes /\ RowsHold /\ (\A i \in Job : JobHolds(i))
    BY DEF DownsamplingInStep
  <2>1. /\ today \in FirstDay..LastDay /\ lastDone \in FirstDay..today
        /\ recorded \subseteq Daily /\ displaced \subseteq recorded /\ events \subseteq Event
        /\ jobs \in 0..MaxJobs /\ {late, apart, overlapped, crashed} \subseteq BOOLEAN
    BY <2>0, DownsamplingAssumption DEF Shapes
  <2>2. \A j \in Job : job[j].phase \in 0..EventsPhase /\ job[j].group \in job[j].groups \cup {{}}
    BY <2>0, Numbers DEF JobHolds, EventsPhase
  <2>3. ASSUME NEW r \in rows
        PROVE  /\ OfLevel(0, r) => r.length >= 28
               /\ OfLevel(1, r) => r.length = 14
               /\ OfLevel(2, r) => r.length = 7
               /\ OfLevel(3, r) => r.length = 1
               /\ OfLevel(0, r) \/ OfLevel(1, r) \/ OfLevel(2, r) \/ OfLevel(3, r)
               /\ Sound(r) /\ r.length \in Nat
    <3>1. Sound(r) /\ r.length \in Nat
      BY <2>0, Numbers DEF Sound, Row
    <3>2. OfLevel(0, r) \/ OfLevel(1, r) \/ OfLevel(2, r) \/ OfLevel(3, r)
      BY <3>1 DEF Sound
    <3> QED BY <3>1, <3>2, LevelStarts, LevelsLast
  <2>4. ASSUME NEW r \in rows
        PROVE  /\ r.id \in 0..(nextId - 1) /\ r.of \in (SUBSET recorded) \ {{}}
               /\ \/ r.length = 1
                  \/ r.length = 7 /\ r.start % 7 = 0
                  \/ r.length = 14 /\ r.start % 7 = 0 /\ IsoWeek(r.start).week % 2 = 1
                  \/ r.start \in MonthStart /\ r.start + r.length = NextMonth(r.start)
    <3>1. r.id \in Nat /\ r.id < nextId /\ nextId \in Nat /\ r.of # {} /\ r.of \subseteq recorded
      BY <2>0, Numbers DEF RowsHold, RowHolds, Sound
    <3>2. OfLevel(0, r) => r.start \in MonthStart /\ r.start + r.length = NextMonth(r.start)
      <4> SUFFICES ASSUME OfLevel(0, r) PROVE r.start \in MonthStart /\ r.start + r.length = NextMonth(r.start)
        OBVIOUS
      <4>1. PICK l \in Int, s \in Int : l = NextMonth(r.start) /\ s = r.start /\ r.start \in MonthStart
        BY <2>3, LevelStarts
      <4>2. r.length = l - s
        BY <4>1, LevelsLast
      <4> QED BY <4>1, <4>2
    <3>3. OfLevel(1, r) => r.length = 14 /\ r.start % 7 = 0 /\ IsoWeek(r.start).week % 2 = 1
      BY <2>3, LevelStarts
    <3>4. OfLevel(2, r) => r.length = 7 /\ r.start % 7 = 0
      BY <2>3, LevelStarts
    <3> QED BY <2>3, <3>1, <3>2, <3>3, <3>4
  <2>5. Cardinality({r.id : r \in rows}) = Cardinality(rows)
    <3>1. PICK ids, f : ids = {r.id : r \in rows} /\ f = [r \in rows |-> r.id]
      OBVIOUS
    <3>2. f \in Bijection(rows, ids)
      BY <2>0, <3>1 DEF Bijection, Injection, Surjection, IsInjective, RowsHold
    <3> QED BY <2>0, <3>1, <3>2, FS_Bijection DEF ExistsBijection, RowsHold
  <2>6. LET stats == RetentionStats
        IN  stats.daily + stats.weekly + stats.biweekly + stats.monthly = Cardinality(rows)
    <3> DEFINE A == {r \in rows : IsDaily(r)}
               B == {r \in rows : IsWeekly(r)}
               C == {r \in rows : IsBiweekly(r)}
               D == {r \in rows : IsMonthly(r)}
    <3>1. /\ IsFiniteSet(A) /\ IsFiniteSet(B) /\ IsFiniteSet(C) /\ IsFiniteSet(D)
          /\ Cardinality(A) \in Nat /\ Cardinality(B) \in Nat /\ Cardinality(C) \in Nat /\ Cardinality(D) \in Nat
      BY <2>0, FS_Subset, FS_CardinalityType DEF RowsHold
    <3>2. /\ RetentionStats.daily = Cardinality(A) /\ RetentionStats.weekly = Cardinality(B)
          /\ RetentionStats.biweekly = Cardinality(C) /\ RetentionStats.monthly = Cardinality(D)
      BY DEF RetentionStats, Quantify
    <3>3. \A r \in rows : /\ IsDaily(r) \/ IsWeekly(r) \/ IsBiweekly(r) \/ IsMonthly(r)
                          /\ ~(IsDaily(r) /\ IsWeekly(r)) /\ ~(IsBiweekly(r) /\ IsMonthly(r))
                          /\ ~((IsDaily(r) \/ IsWeekly(r)) /\ (IsBiweekly(r) \/ IsMonthly(r)))
      <4> SUFFICES ASSUME NEW r \in rows
                   PROVE  /\ IsDaily(r) \/ IsWeekly(r) \/ IsBiweekly(r) \/ IsMonthly(r)
                          /\ ~(IsDaily(r) /\ IsWeekly(r)) /\ ~(IsBiweekly(r) /\ IsMonthly(r))
                          /\ ~((IsDaily(r) \/ IsWeekly(r)) /\ (IsBiweekly(r) \/ IsMonthly(r)))
        OBVIOUS
      <4>1. r.length \in Nat /\ (r.length = 1 \/ r.length = 7 \/ r.length = 14 \/ r.length >= 28)
        BY <2>3
      <4> QED BY <4>1 DEF IsDaily, IsWeekly, IsBiweekly, IsMonthly
    <3>4. A \cap B = {} /\ C \cap D = {} /\ (A \cup B) \cap (C \cup D) = {} /\ (A \cup B) \cup (C \cup D) = rows
      BY <3>3
    <3> HIDE DEF A, B, C, D
    <3>5. IsFiniteSet(A \cup B) /\ Cardinality(A \cup B) = Cardinality(A) + Cardinality(B)
      BY <3>1, <3>4, DisjointUnion
    <3>6. IsFiniteSet(C \cup D) /\ Cardinality(C \cup D) = Cardinality(C) + Cardinality(D)
      BY <3>1, <3>4, DisjointUnion
    <3>7. Cardinality(rows) = Cardinality(A \cup B) + Cardinality(C \cup D)
      BY <3>4, <3>5, <3>6, DisjointUnion
    <3>8. PICK p \in Nat, q \in Nat, u \in Nat, v \in Nat :
            p = Cardinality(A) /\ q = Cardinality(B) /\ u = Cardinality(C) /\ v = Cardinality(D)
      BY <3>1
    <3>9. Cardinality(rows) = (p + q) + (u + v)
      BY <3>5, <3>6, <3>7, <3>8
    <3>10. RetentionStats.daily + RetentionStats.weekly + RetentionStats.biweekly + RetentionStats.monthly
             = ((p + q) + u) + v
      BY <3>2, <3>8
    <3> QED BY <3>8, <3>9, <3>10
  <2> QED BY <2>1, <2>2, <2>4, <2>5, <2>6 DEF TypeOK
<1> QED BY <1>1, DownsamplingStaysInStep, PTL
=============================================================================
