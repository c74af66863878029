-------------------------- MODULE UsageDownsampling --------------------------
(***************************************************************************)
(* How usage summaries grow coarser with age: daily ones become weekly     *)
(* after 30 days, weekly ones cover two weeks after 90, those a month      *)
(* after 180, and mapped events go after 30.                               *)
(*                                                                         *)
(* A day is a number and day 0 a Monday.  A summary covers the days        *)
(* start..start + length - 1; its metrics, of which every tier keeps the   *)
(* largest, are one number, peak.  A job queries a tier, then for each     *)
(* group looks for a summary that starts where the aggregate will and      *)
(* writes, and deletes the sources of all groups at the end.  The cron job *)
(* of each Monday and those an admin starts may overlap, and the server    *)
(* may stop in the middle of one.                                          *)
(***************************************************************************)
EXTENDS Integers, FiniteSets, FiniteSetsExt

CONSTANTS
  Job,
  Daily,         \* daily summaries there may be: [project, source, slug, day, peak]
  Event,         \* raw events there may be: [day, mapped]
  YearStart,     \* first days of years
  MonthStart,    \* first days of months
  Step,          \* numbers of days the clock may move by
  FirstDay, LastDay, MaxJobs,
  Once           \* what happens no more than once: "overlap", "late", "crash"

ASSUME DownsamplingAssumption ==
  /\ Step \subseteq Nat /\ MaxJobs \in Nat
  /\ LastDay \in Nat /\ FirstDay \in 0..LastDay
  /\ \A d \in Daily : d.day \in Int /\ d.peak \in Nat

\* The calendar reaches as far as any period of a summary, and no month is
\* shorter than four weeks.
ASSUME CalendarAssumption ==
  /\ YearStart \subseteq Int /\ MonthStart \subseteq Int
  /\ \A d \in Daily : /\ \E y \in YearStart : y <= d.day - 10
                      /\ \E m \in MonthStart : m <= d.day - 13
                      /\ \E m \in MonthStart : m > d.day
  /\ \A m, n \in MonthStart : m < n => n - m >= 28

VARIABLES
  today,
  recorded,    \* daily summaries written so far
  rows,        \* the table: [id, project, source, slug, start, length, peak, of]
  events,
  nextId,
  job,
  jobs,        \* jobs started so far
  displaced,   \* daily summaries whose row another aggregate has taken or deleted
  lastDone,    \* day of the last job that ended
  late,        \* a summary was recorded when its week was due already
  apart,       \* two jobs ended further apart than OneGap
  overlapped, crashed

vars == <<today, recorded, rows, events, nextId, job, jobs, displaced, lastDone,
          late, apart, overlapped, crashed>>
history == <<late, apart, crashed>>

DailyToWeekly == 30
WeeklyToBiweekly == 90
BiweeklyToMonthly == 180

\* How far apart jobs may be, in days, before a tier is missed.
OneGap == 49

NoRow == -1
NoJob == [phase |-> 0, now |-> 0, groups |-> {}, group |-> {}, existing |-> NoRow, sources |-> {}]

Init ==
  /\ today = FirstDay /\ lastDone = FirstDay
  /\ recorded = {} /\ rows = {} /\ displaced = {}
  /\ events = Event
  /\ nextId = 0
  /\ job = [j \in Job |-> NoJob]
  /\ jobs = 0
  /\ late = FALSE /\ apart = FALSE /\ overlapped = FALSE /\ crashed = FALSE

-----------------------------------------------------------------------------
(* The calendar.                                                           *)

WeekStart(d) == d - (d % 7)

\* The ISO year and week are those of the week's Thursday.
IsoWeek(d) ==
  LET thursday == WeekStart(d) + 3
      year == Max({y \in YearStart : y <= thursday})
  IN  [year |-> year, week |-> (thursday - year) \div 7 + 1]

\* The week itself when it is even.
BiweekStartOfPair(d) == IF IsoWeek(d).week % 2 = 0 THEN WeekStart(d) ELSE WeekStart(d) - 7

\* Weeks 1 and 2 go together, 3 and 4, and so on; a week 53 stays alone.
BiweekStart(d) == IF IsoWeek(d).week % 2 = 0 THEN WeekStart(d) - 7 ELSE WeekStart(d)

MonthFirst(d) == Max({m \in MonthStart : m <= d})
NextMonth(d) == Min({m \in MonthStart : m > d})

-----------------------------------------------------------------------------
(* The tiers: which summaries a phase takes and what it makes of them.  A  *)
(* threshold is some hour of its day, so that what starts with that day is *)
(* older and what ends with it is not.                                     *)

Tiers == <<"monthly", "biweekly", "weekly">>
EventsPhase == 4

\* By how long a summary is.
IsDaily(r) == r.length < 2
IsWeekly(r) == 5 <= r.length /\ r.length < 10
IsBiweekly(r) == 10 <= r.length /\ r.length < 20

IsMonthly(r) == 20 <= r.length

TakesBiweekly(r, now) == IsBiweekly(r) /\ r.start <= now - BiweeklyToMonthly
TakesWeekly(r, now) == IsWeekly(r) /\ now - BiweeklyToMonthly < r.start /\ r.start <= now - WeeklyToBiweekly

\* With the lower bound of the next tier.
TakesRecentDaily(r, now) == IsDaily(r) /\ now - 2 * DailyToWeekly < r.start /\ r.start <= now - DailyToWeekly
TakesDaily(r, now) == IsDaily(r) /\ now - WeeklyToBiweekly < r.start /\ r.start <= now - DailyToWeekly

Takes(tier, r, now) ==
  CASE tier = "monthly"  -> TakesBiweekly(r, now)
    [] tier = "biweekly" -> TakesWeekly(r, now)
    [] tier = "weekly"   -> TakesDaily(r, now)

\* The key of a group, but for project and source.
WeekOf(d) == IsoWeek(d)
BiweekOf(d) == [IsoWeek(d) EXCEPT !.week = (@ + 1) \div 2]
MonthOf(d) == MonthFirst(d)

Period(tier, d) ==
  CASE tier = "monthly"  -> MonthOf(d)
    [] tier = "biweekly" -> BiweekOf(d)
    [] tier = "weekly"   -> WeekOf(d)

Window(tier, d) ==
  CASE tier = "monthly"  -> [start |-> MonthFirst(d), length |-> NextMonth(d) - MonthFirst(d)]
    [] tier = "biweekly" -> [start |-> BiweekStart(d), length |-> 14]
    [] tier = "weekly"   -> [start |-> WeekStart(d), length |-> 7]

Threshold(tier) ==
  CASE tier = "monthly"  -> BiweeklyToMonthly
    [] tier = "biweekly" -> WeeklyToBiweekly
    [] tier = "weekly"   -> DailyToWeekly

\* The slug is not part of a group's key.
Group(tier, taken, r) ==
  {s \in taken : /\ s.project = r.project /\ s.source = r.source
                 /\ Period(tier, s.start) = Period(tier, r.start)}

First(g) == CHOOSE r \in g : \A s \in g : r.start < s.start \/ (r.start = s.start /\ r.id <= s.id)

\* Whether or not the period is over.
GroupsEarly(tier, table, now) ==
  LET taken == {r \in table : Takes(tier, r, now)}
  IN  {Group(tier, taken, r) : r \in taken}

\* Periods that were over before the threshold.
Groups(tier, table, now) ==
  {g \in GroupsEarly(tier, table, now) :
     LET w == Window(tier, First(g).start) IN w.start + w.length <= now - Threshold(tier)}

\* The value of the first day.
AggregateOfFirst(tier, g, id) ==
  LET first == First(g)
      w == Window(tier, first.start)
  IN  [first EXCEPT !.id = id, !.start = w.start, !.length = w.length, !.of = UNION {r.of : r \in g}]

\* The largest value; the project, the source and the slug are those of the first.
Aggregate(tier, g, id) ==
  LET first == First(g)
      w == Window(tier, first.start)
  IN  [first EXCEPT !.id = id, !.start = w.start, !.length = w.length,
                    !.peak = Max({r.peak : r \in g}), !.of = UNION {r.of : r \in g}]

-----------------------------------------------------------------------------
(* A job.                                                                  *)

Busy(j) == job[j].phase # 0
Idle == \A j \in Job : ~Busy(j)
TierOf(j) == Tiers[job[j].phase]

Enter(phase, now, table) ==
  [NoJob EXCEPT !.phase = phase, !.now = now,
                !.groups = IF phase = EventsPhase THEN {} ELSE Groups(Tiers[phase], table, now)]

\* The cron job of a Monday or an admin's, whatever other jobs are at work.
Start(j) ==
  /\ ~Busy(j) /\ jobs < MaxJobs
  /\ "overlap" \in Once => Idle \/ ~overlapped
  /\ job' = [job EXCEPT ![j] = Enter(1, today, rows)]
  /\ jobs' = jobs + 1
  /\ overlapped' = (overlapped \/ ~Idle)
  /\ UNCHANGED <<today, recorded, rows, events, nextId, displaced, lastDone, history>>

\* A summary of that project and source that starts on the day, of whatever
\* length it is.
LookUp(j, g) ==
  LET first == First(g)
      start == Window(TierOf(j), first.start).start
      there == {r \in rows : r.project = first.project /\ r.source = first.source /\ r.start = start}
  IN  /\ job[j].group = {}
      /\ \E k \in IF there = {} THEN {NoRow} ELSE {r.id : r \in there} :
           job' = [job EXCEPT ![j].group = g, ![j].existing = k]
      /\ UNCHANGED <<today, recorded, rows, events, nextId, jobs, displaced, lastDone, overlapped, history>>

\* A row is gone, or a job is going to delete it among its sources.
Doomed(k) ==
  \/ k \notin {r.id : r \in rows}
  \/ \E j \in Job : k \in job[j].sources \cup {r.id : r \in UNION job[j].groups}

\* What is lost if the aggregate overwrites the row: what it stood for, and with
\* a row that does not stay the aggregate, too.
Displaces(k, agg) ==
  ((UNION {r.of : r \in {s \in rows : s.id = k}}) \ agg.of) \cup (IF Doomed(k) THEN agg.of ELSE {})

\* The sources of the group are to be deleted, the summary found among them too.
Write(j) ==
  LET g == job[j].group
      k == job[j].existing
      agg == Aggregate(TierOf(j), g, IF k = NoRow THEN nextId ELSE k)
  IN  /\ g # {}
      /\ IF k = NoRow THEN rows' = rows \cup {agg} /\ nextId' = nextId + 1
         ELSE rows' = {IF r.id = k THEN agg ELSE r : r \in rows} /\ UNCHANGED nextId
      /\ displaced' = displaced \cup IF k = NoRow THEN {} ELSE Displaces(k, agg)
      /\ job' = [job EXCEPT ![j].group = {}, ![j].existing = NoRow,
                            ![j].groups = @ \ {g}, ![j].sources = @ \cup {r.id : r \in g}]
      /\ UNCHANGED <<today, recorded, events, jobs, lastDone, overlapped, history>>

\* Then the query of the next tier.
DeleteSources(j) ==
  LET left == {r \in rows : r.id \notin job[j].sources}
  IN  /\ job[j].phase \in DOMAIN Tiers /\ job[j].groups = {}
      /\ rows' = left
      /\ job' = [job EXCEPT ![j] = Enter(@.phase + 1, @.now, left)]
      /\ UNCHANGED <<today, recorded, events, nextId, jobs, displaced, lastDone, overlapped, history>>

\* The three phases differ in query, key and boundaries only.
Phase(j) == Write(j) \/ DeleteSources(j) \/ \E g \in job[j].groups : LookUp(j, g)

InTier(j, tier) == job[j].phase \in DOMAIN Tiers /\ TierOf(j) = tier

AggregateToMonthly(j) == InTier(j, "monthly") /\ Phase(j)
AggregateToBiweekly(j) == InTier(j, "biweekly") /\ Phase(j)
AggregateToWeekly(j) == InTier(j, "weekly") /\ Phase(j)

\* Of the threshold's own day go those that began before its hour.
DeleteEvents(j) ==
  LET threshold == job[j].now - DailyToWeekly
      old == {e \in events : e.mapped /\ e.day < threshold}
  IN  /\ job[j].phase = EventsPhase
      /\ \E E \in SUBSET {e \in events : e.mapped /\ e.day = threshold} : events' = events \ (old \cup E)
      /\ job' = [job EXCEPT ![j] = NoJob]
      /\ lastDone' = today
      /\ UNCHANGED <<today, recorded, rows, nextId, jobs, displaced, overlapped, history>>

-----------------------------------------------------------------------------
(* What happens around it.                                                 *)

\* Its week may have been dealt with.
Due(day) == WeekStart(day) + 7 <= today - DailyToWeekly

\* The aggregation writes the summary of a past day.
Summarise(d) ==
  /\ d \in Daily \ recorded /\ d.day < today
  /\ "late" \in Once => ~(Due(d.day) /\ late)
  /\ recorded' = recorded \cup {d}
  /\ rows' = rows \cup {[id |-> nextId, project |-> d.project, source |-> d.source, slug |-> d.slug,
                         start |-> d.day, length |-> 1, peak |-> d.peak, of |-> {d}]}
  /\ nextId' = nextId + 1
  /\ late' = (late \/ Due(d.day))
  /\ UNCHANGED <<today, events, job, jobs, displaced, lastDone, apart, overlapped, crashed>>

\* A job ends on the day it starts.
Tick(n) ==
  /\ Idle /\ today + n <= LastDay
  /\ today' = today + n
  /\ apart' = (apart \/ today + n - lastDone > OneGap)
  /\ UNCHANGED <<recorded, rows, events, nextId, job, jobs, displaced, lastDone, late, overlapped, crashed>>

\* The server stops, and every job with it.
Restart ==
  /\ ~Idle /\ ("crash" \in Once => ~crashed)
  /\ job' = [j \in Job |-> NoJob]
  /\ crashed' = TRUE
  /\ UNCHANGED <<today, recorded, rows, events, nextId, jobs, displaced, lastDone, late, apart, overlapped>>

Next ==
  \/ \E j \in Job : Start(j) \/ AggregateToMonthly(j) \/ AggregateToBiweekly(j) \/ AggregateToWeekly(j) \/ DeleteEvents(j)
  \/ \E d \in Daily : Summarise(d)
  \/ \E n \in Step : Tick(n)
  \/ Restart

Spec == Init /\ [][Next]_vars

-----------------------------------------------------------------------------
(* Properties.                                                             *)

\* How many summaries an admin is told there are of each tier.
RetentionStats ==
  [daily |-> Quantify(rows, IsDaily), weekly |-> Quantify(rows, IsWeekly),
   biweekly |-> Quantify(rows, IsBiweekly), monthly |-> Quantify(rows, IsMonthly)]

\* Types; a summary covers one day, an ISO week, the two weeks that begin with
\* an odd one, or a month; and the statistics count each once (the boundaries
\* of the three tiers, getRetentionStats).
TypeOK ==
  /\ today \in FirstDay..LastDay /\ lastDone \in FirstDay..today
  /\ recorded \subseteq Daily /\ displaced \subseteq recorded /\ events \subseteq Event
  /\ \A r \in rows :
       /\ r.id \in 0..(nextId - 1) /\ r.of \in (SUBSET recorded) \ {{}}
       /\ \/ r.length = 1
          \/ r.length = 7 /\ r.start % 7 = 0
          \/ r.length = 14 /\ r.start % 7 = 0 /\ IsoWeek(r.start).week % 2 = 1
          \/ r.start \in MonthStart /\ r.start + r.length = NextMonth(r.start)
  /\ Cardinality({r.id : r \in rows}) = Cardinality(rows)
  /\ LET stats == RetentionStats
     IN  stats.daily + stats.weekly + stats.biweekly + stats.monthly = Cardinality(rows)
  /\ \A j \in Job : job[j].phase \in 0..EventsPhase /\ job[j].group \in job[j].groups \cup {{}}
  /\ jobs \in 0..MaxJobs
  /\ {late, apart, overlapped, crashed} \subseteq BOOLEAN

\* As long as no aggregate took another's row, every recorded day is part of
\* some summary whose value is at least its own, also between write and delete,
\* after a crash and with two jobs at once; and of one summary only, if no job
\* was interrupted or doubled (aggregateSummaries and the order of its uses).
KeptOnce ==
  \A d \in recorded \ displaced :
    LET of == {r \in rows : d \in r.of}
    IN  /\ \E r \in of : r.peak >= d.peak /\ r.project = d.project /\ r.source = d.source
        /\ Idle /\ ~overlapped /\ ~crashed => Cardinality(of) = 1

\* The summaries of the day an aggregate of d starts with.
Anchors ==
  [d \in Daily |->
     {m \in Daily : /\ m.project = d.project /\ m.source = d.source
                    /\ \/ m.day = WeekStart(d.day)
                       \/ WeekStart(m.day) = BiweekStart(d.day)
                       \/ BiweekStart(m.day) = MonthFirst(BiweekStart(d.day))}]

\* Periods are aggregated once, when they are over: with summaries on time and
\* jobs one after the other and no tier missed, an aggregate takes the row of
\* another only if a summary of the finer tier starts on the very day (the early
\* "continue" of the three phases and the boundaries they compare).
TakenOnlyFromAnchor ==
  ~late /\ ~crashed /\ ~overlapped /\ ~apart => \A d \in displaced : Anchors[d] \cap recorded # {}

\* No tier is missed: with summaries on time and at most seven weeks between
\* two jobs, no summary grows too old for the only phase that would take it
\* (the lower bounds of aggregateToWeekly and aggregateToBiweekly).
NothingIsStranded ==
  ~late /\ ~apart /\ Idle =>
    \A r \in rows : /\ IsDaily(r) => r.start > today - WeeklyToBiweekly
                    /\ IsWeekly(r) => r.start > today - BiweeklyToMonthly

\* The claim of the class comment (resource-usage-downsampling.service.ts:28):
\* storage is reduced "while preserving historical trends".
HistoryIsKept ==
  ~late /\ ~overlapped /\ ~crashed =>
    \A d \in recorded : \E r \in rows : d \in r.of
=============================================================================
