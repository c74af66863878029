---------------------------- MODULE ResourceUsage ----------------------------
(***************************************************************************)
(* Usage events from the collectors, the daily summaries made of them and  *)
(* the projects both are mapped to, while projects are requested, decided, *)
(* renamed and users sign in for the first time.                           *)
(*                                                                         *)
(* A request of a collector maps its events before it saves them.  An      *)
(* aggregation queries the rows of one phase after the other, and for each *)
(* row looks up the summaries it needs and then writes one.  A backfill    *)
(* updates events and then summaries.  All of them run on their own, no    *)
(* lock or transaction holds two of these steps together, and nothing is   *)
(* taken up again after a restart.                                         *)
(***************************************************************************)
EXTENDS UsageRows

CONSTANTS
  Collector, Job,
  Batch,         \* what a collector may send: [events, last]
  GroupProject, Slug,
  PersonalId,    \* user -> the id of that user's personal project
  PersonalSlug,  \* user -> the slug of that project
  Day,
  MaxEvents, MaxJobs, MaxReviews, MaxMishaps,
  MaxTotal       \* of events, projects, jobs, reviews and mishaps together

\* Days follow one another, ids are unique, and a slug is not null.
ASSUME UsageAssumption ==
  /\ Day \subseteq Nat /\ Day # {} /\ IsFiniteSet(Day) /\ \A d, e \in Day : d..e \subseteq Day
  /\ GroupProject \subseteq Nat \ {NoProject}
  /\ PersonalId \in [User -> Nat \ (GroupProject \cup {NoProject})]
  /\ \A u, v \in User : PersonalId[u] = PersonalId[v] => u = v
  /\ Slug \subseteq Seq(STRING) \ {NoSlug} /\ PersonalSlug \in [User -> Seq(STRING) \ {NoSlug}]
  /\ Customers \in Seq(Seq(STRING))
  /\ MaxEvents \in Nat /\ MaxJobs \in Nat /\ MaxReviews \in Nat /\ MaxMishaps \in Nat
  /\ MaxTotal \in Nat

Reported == UNION {Range(b.events) : b \in Batch}

\* A request without events changes nothing.
ASSUME ReportAssumption ==
  /\ \A b \in Batch : /\ b = [events |-> b.events, last |-> b.last]
                       /\ b.events \in Seq(Reported) \ {<<>>} /\ b.last \in BOOLEAN
  /\ \A e \in Reported :
       /\ e = [source |-> e.source, slug |-> e.slug, day |-> e.day, instance |-> e.instance, used |-> e.used,
               personal |-> e.personal, ids |-> e.ids, job |-> e.job, project |-> NoProject]
       /\ e.day \in Day /\ e.source \in {"pbs", "pbsAcct", "openstack"} /\ e.personal \in BOOLEAN
       /\ e.used \in Nat /\ e.slug \in Seq(STRING)
       /\ e.ids \in Seq(STRING \X STRING)

\* What the look-ups take for the usage of one person (USER_IDENTITY_SCHEMES;
\* "all events for same project should have same identities").
SamePerson(e, f) ==
  /\ e.personal /\ f.personal /\ e.source = f.source
  /\ IF e.source = "openstack" THEN e.slug = f.slug
     ELSE f.ids # <<>> /\ Primary(f.ids) \in Range(e.ids)

\* And it is: they name the same users.
ASSUME IdentityAssumption ==
  \A e, f \in Reported : SamePerson(e, f) =>
    \A u \in User : Names(e.ids, u) <=> Names(f.ids, u)

\* And they bear the user name by which a day's rows of PBS usage are grouped.
ASSUME UsernameAssumption ==
  \A e, f \in Reported :
    SamePerson(e, f) /\ e.source # "openstack" => Username(e.ids) = Username(f.ids)

VARIABLES
  project,     \* id -> [slug, personal, pi, status]
  users,       \* users who have signed in
  events, summaries,
  incoming,    \* collector -> the batch it has mapped and not saved yet
  job,         \* aggregations under way; what each read for its phase and its row
  backfill,    \* project -> what is left of its backfill
  counts,      \* [jobs, reviews, mishaps] so far
  stale,       \* days with events saved since an aggregation of the day began
  orderly,     \* days came and were aggregated in order, one thing at a time
  overtaken    \* a project got another slug while a mapping was under way

vars == <<project, users, events, summaries, incoming, job, backfill, counts, stale, orderly, overtaken>>
tables == <<project, users, events, summaries>>
ghosts == <<stale, orderly, overtaken>>

NoBatch == [events |-> <<>>, last |-> FALSE]
Unsought == -1
NoJob == [phase |-> 0, days |-> {}, todo |-> {}, looked |-> FALSE,
          row |-> None, before |-> None, existing |-> 0]
NoBackfill == [step |-> "done", of |-> None]

Init ==
  /\ project = <<>> /\ users = {}
  /\ events = <<>> /\ summaries = <<>>
  /\ incoming = [c \in Collector |-> NoBatch]
  /\ job = [j \in Job |-> NoJob]
  /\ backfill = [p \in GroupProject \cup Range(PersonalId) |-> NoBackfill]
  /\ counts = [jobs |-> 0, reviews |-> 0, mishaps |-> 0]
  /\ stale = {} /\ orderly = TRUE /\ overtaken = FALSE

Busy(j) == job[j].days # {}
Idle ==
  /\ \A c \in Collector : incoming[c] = NoBatch
  /\ \A j \in Job : ~Busy(j)
  /\ \A p \in DOMAIN backfill : backfill[p] = NoBackfill

Within(n) ==
  n + Len(events) + Cardinality(DOMAIN project) + counts.jobs + counts.reviews + counts.mishaps
    <= MaxTotal

-----------------------------------------------------------------------------
(* Collectors.                                                             *)

\* The mapping of a batch, read by read, is one step: nothing of it shows
\* before the save.
Receive(c, b) ==
  /\ incoming[c] = NoBatch
  /\ Len(events) + Len(b.events) <= MaxEvents
  /\ Within(Len(b.events) + IF b.last THEN 1 ELSE 0)
  /\ incoming' = [incoming EXCEPT ![c] =
       [b EXCEPT !.events = [i \in DOMAIN b.events |->
          [b.events[i] EXCEPT !.project = MappedProject(project, users, b.events[i])]]]]
  /\ orderly' = (orderly /\ Idle)
  /\ UNCHANGED <<tables, job, backfill, counts, stale, overtaken>>

\* Up to the midnight after the last day, that midnight included.
StartedDayLonger(days) == [NoJob EXCEPT !.days = Min(days)..(Max(days) + 1)]

\* aggregateForDates runs from the first to the last of the days given.
Started(days) == [NoJob EXCEPT !.days = Min(days)..Max(days)]

\* The last batch starts an aggregation of the days of that batch, and does
\* not wait for it.
Save(c) ==
  LET b == incoming[c]
      new == {b.events[i].day : i \in DOMAIN b.events}
      inOrder == \A i \in DOMAIN events, d \in new : events[i].day <= d
  IN  /\ b # NoBatch
      /\ events' = events \o b.events
      /\ incoming' = [incoming EXCEPT ![c] = NoBatch]
      /\ IF b.last
         THEN \E j \in Job :
                /\ ~Busy(j) /\ counts.jobs < MaxJobs
                /\ Within(Len(b.events) + 1)
                /\ job' = [job EXCEPT ![j] = Started(new)]
                /\ counts' = [counts EXCEPT !.jobs = @ + 1]
                /\ stale' = stale \ Started(new).days
                /\ orderly' = (orderly /\ inOrder /\ Cardinality(new) = 1 /\ stale \subseteq new)
         ELSE /\ stale' = stale \cup new
              /\ orderly' = (orderly /\ inOrder)
              /\ UNCHANGED <<job, counts>>
      /\ UNCHANGED <<project, users, summaries, backfill, overtaken>>

-----------------------------------------------------------------------------
(* Aggregations.                                                           *)

\* An admin starts one, of the whole days from a first to a last: those not given
\* are the first and the last there are.
Trigger(j, first, last) ==
  LET started == Started({first, last})
  IN  /\ ~Busy(j) /\ counts.jobs < MaxJobs /\ Within(1)
      /\ first <= last
      /\ job' = [job EXCEPT ![j] = started]
      /\ counts' = [counts EXCEPT !.jobs = @ + 1]
      /\ stale' = stale \ started.days
      /\ orderly' = (orderly /\ Idle /\ stale = {})
      /\ UNCHANGED <<tables, incoming, backfill, overtaken>>

PhaseOf(j) == Phases[job[j].phase]

\* The rows of the next phase, or the summaries without a project and their
\* identities, are read at once; after the last phase the job is over.
NextPhase(j) ==
  /\ Busy(j) /\ job[j].todo = {}
  /\ LET phase == job[j].phase + 1
         days == job[j].days
         unmapped == {i \in DOMAIN summaries : summaries[i].project = NoProject /\ summaries[i].day \in days}
     IN  job' = CASE phase > Len(Phases)     -> [job EXCEPT ![j] = NoJob]
                  [] phase = Len(Phases)     -> [job EXCEPT ![j].phase = phase, ![j].todo = unmapped,
                                                  ![j].before = [i \in unmapped |-> summaries[i].ids]]
                  [] OTHER                   -> [job EXCEPT ![j].phase = phase,
                                                  ![j].todo = Rows(events, Phases[phase], days)]
  /\ UNCHANGED <<tables, incoming, backfill, counts, ghosts>>

\* OpenStack days are taken in order, the rows of a GROUP BY in any order.
IsNext(j, row) ==
  PhaseOf(j) = "openstack" => \A other \in job[j].todo : row.day <= other.day

\* Of several summaries that fit the database returns any.
Found(I) == IF I = {} THEN {0} ELSE I

\* The last summary of earlier days, to add to.  PBS jobs are not added up over
\* days: the summary to replace is looked up at once.
LookUp(j, row) ==
  /\ PhaseOf(j) # "map" /\ ~job[j].looked
  /\ IsNext(j, row)
  /\ LET addsUp == row.source # "pbs"
         before == IF addsUp THEN Latest(summaries, Previous(summaries, row)) ELSE {}
         nothing == [total |-> 0, instances |-> <<>>]
     IN  \E i \in Found(before), k \in IF addsUp THEN {Unsought} ELSE Found(Existing(summaries, row)) :
           job' = [job EXCEPT ![j].looked = TRUE, ![j].row = row, ![j].existing = k,
                     ![j].before = IF i = 0 THEN nothing
                                   ELSE [total |-> summaries[i].total,
                                         instances |-> summaries[i].instances]]
  /\ UNCHANGED <<tables, incoming, backfill, counts, ghosts>>

\* Then the one to replace.
FindExisting(j) ==
  /\ job[j].looked /\ job[j].existing = Unsought
  /\ \E k \in Found(Existing(summaries, job[j].row)) : job' = [job EXCEPT ![j].existing = k]
  /\ UNCHANGED <<tables, incoming, backfill, counts, ghosts>>

\* An update leaves slug and project of the summary as they are.
Put(k, s) ==
  IF k = 0 THEN Append(summaries, s)
  ELSE [summaries EXCEPT ![k].total = s.total, ![k].count = s.count, ![k].ids = s.ids,
                         ![k].instances = s.instances]

\* What was read for the phase stays.
Without(j, x) ==
  [job EXCEPT ![j].looked = FALSE, ![j].row = None, ![j].existing = 0, ![j].todo = @ \ {x},
              ![j].before = IF PhaseOf(j) = "map" THEN @ ELSE None]

Done(j) == Without(j, job[j].row)

Write(j, summary) ==
  /\ job[j].existing # Unsought
  /\ summaries' = Put(job[j].existing, summary)
  /\ job' = Done(j)
  /\ UNCHANGED <<project, users, events, incoming, backfill, counts, ghosts>>

\* Of a user, and in the last phase of a group.
WriteAccounts(j) ==
  /\ job[j].looked /\ PhaseOf(j) \in {"acct", "general"} /\ job[j].row.source = "pbsAcct"
  /\ Write(j, AccountsSummary(job[j].row, job[j].before))

WritePersonal(j) ==
  /\ job[j].looked /\ PhaseOf(j) = "personal"
  /\ Write(j, JobsSummary(job[j].row))

WriteGeneral(j) ==
  /\ job[j].looked /\ PhaseOf(j) = "general" /\ job[j].row.source # "pbsAcct"
  /\ Write(j, JobsSummary(job[j].row))

WriteServers(j) ==
  /\ job[j].looked /\ PhaseOf(j) = "openstack"
  /\ Write(j, ServersSummary(job[j].row, job[j].before))

\* By the identities that were read; slug and source never change.
FindProject(j, i) ==
  /\ PhaseOf(j) = "map" /\ ~job[j].looked
  /\ job' = [job EXCEPT ![j].looked = TRUE, ![j].row = i,
                        ![j].existing = MappedProject(project, users, [summaries[i] EXCEPT !.ids = job[j].before[i]])]
  /\ UNCHANGED <<tables, incoming, backfill, counts, ghosts>>

\* Whatever project the summary has by now.
WriteProject(j) ==
  /\ job[j].looked /\ PhaseOf(j) = "map"
  /\ summaries' = IF job[j].existing = NoProject THEN summaries
                  ELSE [summaries EXCEPT ![job[j].row].project = job[j].existing]
  /\ job' = Done(j)
  /\ UNCHANGED <<project, users, events, incoming, backfill, counts, ghosts>>

-----------------------------------------------------------------------------
(* Projects and users.                                                     *)

Reviewed ==
  /\ counts.reviews < MaxReviews /\ Within(1)
  /\ counts' = [counts EXCEPT !.reviews = @ + 1]

Inserted(p, row) == [q \in DOMAIN project \cup {p} |-> IF q = p THEN row ELSE project[q]]

SlugFree(p, slug) == \A q \in DOMAIN project \ {p} : project[q].slug # slug

\* A first sign-in brings the personal project with it.
SignIn(u) ==
  /\ u \notin users /\ Within(1)
  /\ users' = users \cup {u}
  /\ SlugFree(PersonalId[u], PersonalSlug[u])
  /\ project' = Inserted(PersonalId[u], [slug |-> PersonalSlug[u], personal |-> TRUE, pi |-> u, status |-> "active"])
  /\ orderly' = (orderly /\ Idle)
  /\ UNCHANGED <<events, summaries, incoming, job, backfill, counts, stale, overtaken>>

RequestProject(p, slug) ==
  /\ p \notin DOMAIN project /\ SlugFree(p, slug) /\ Within(1)
  /\ project' = Inserted(p, [slug |-> slug, personal |-> FALSE, pi |-> None, status |-> "new"])
  /\ orderly' = (orderly /\ Idle)
  /\ UNCHANGED <<users, events, summaries, incoming, job, backfill, counts, stale, overtaken>>

\* The backfill is started once the approval is committed, and goes by the
\* project as the approval read it.
Approve(p) ==
  /\ p \in DOMAIN project /\ project[p].status = "new"
  /\ backfill[p] = NoBackfill
  /\ Reviewed
  /\ project' = [project EXCEPT ![p].status = "active"]
  /\ backfill' = [backfill EXCEPT ![p] = [step |-> "events", of |-> project[p]]]
  /\ orderly' = (orderly /\ Idle)
  /\ UNCHANGED <<users, events, summaries, incoming, job, stale, overtaken>>

Reject(p) ==
  /\ p \in DOMAIN project /\ project[p].status = "new"
  /\ Reviewed
  /\ project' = [project EXCEPT ![p].status = "rejected"]
  /\ UNCHANGED <<users, events, summaries, incoming, job, backfill, ghosts>>

Unmapped(table, p) ==
  [i \in DOMAIN table |-> IF table[i].project = p THEN [table[i] EXCEPT !.project = NoProject]
                          ELSE table[i]]

\* Events without their summaries.
ResubmitEvents(p, slug) ==
  /\ p \in DOMAIN project /\ project[p].status = "rejected" /\ SlugFree(p, slug)
  /\ Reviewed
  /\ project' = [project EXCEPT ![p].slug = slug, ![p].status = "new"]
  /\ events' = IF slug = project[p].slug THEN events ELSE Unmapped(events, p)
  /\ overtaken' = (overtaken \/ ~Idle)
  /\ orderly' = (orderly /\ Idle)
  /\ UNCHANGED <<users, summaries, incoming, job, backfill, stale>>

\* A new slug unmaps what was mapped by the old one, in the same transaction.
\* The status is still the one that was read: ProjectProvisioning has the others.
Resubmit(p, slug) ==
  /\ p \in DOMAIN project /\ project[p].status = "rejected" /\ SlugFree(p, slug)
  /\ Reviewed
  /\ project' = [project EXCEPT ![p].slug = slug, ![p].status = "new"]
  /\ IF slug = project[p].slug THEN UNCHANGED <<events, summaries>>
     ELSE events' = Unmapped(events, p) /\ summaries' = Unmapped(summaries, p)
  /\ overtaken' = (overtaken \/ ~Idle)
  /\ orderly' = (orderly /\ Idle)
  /\ UNCHANGED <<users, incoming, job, backfill, stale>>

Filled(table, p) ==
  [i \in DOMAIN table |-> IF BackfillTakes(backfill[p].of, table[i])
                          THEN [table[i] EXCEPT !.project = p] ELSE table[i]]

BackfillEvents(p) ==
  /\ backfill[p].step = "events"
  /\ events' = Filled(events, p)
  /\ backfill' = [backfill EXCEPT ![p].step = "summaries"]
  /\ UNCHANGED <<project, users, summaries, incoming, job, counts, ghosts>>

BackfillSummaries(p) ==
  /\ backfill[p].step = "summaries"
  /\ summaries' = Filled(summaries, p)
  /\ backfill' = [backfill EXCEPT ![p] = NoBackfill]
  /\ UNCHANGED <<project, users, events, incoming, job, counts, ghosts>>

-----------------------------------------------------------------------------
(* A query fails, or the server stops: what was under way is gone.         *)

Mishap ==
  /\ counts.mishaps < MaxMishaps /\ Within(1)
  /\ counts' = [counts EXCEPT !.mishaps = @ + 1]
  /\ orderly' = FALSE

\* Until the summaries are mapped: a query that fails ends the job.
JobFails(j) ==
  /\ Busy(j) /\ job[j].phase < Len(Phases) /\ Mishap
  /\ job' = [job EXCEPT ![j] = NoJob]
  /\ UNCHANGED <<tables, incoming, backfill, stale, overtaken>>

\* The mapping goes on with the next summary.
MappingFails(j, i) ==
  /\ PhaseOf(j) = "map" /\ (job[j].looked => i = job[j].row)
  /\ Mishap
  /\ job' = Without(j, i)
  /\ UNCHANGED <<tables, incoming, backfill, stale, overtaken>>

BackfillFails(p) ==
  /\ backfill[p] # NoBackfill /\ Mishap
  /\ backfill' = [backfill EXCEPT ![p] = NoBackfill]
  /\ UNCHANGED <<tables, incoming, job, stale, overtaken>>

Restart ==
  /\ ~Idle /\ Mishap
  /\ incoming' = [c \in Collector |-> NoBatch]
  /\ job' = [j \in Job |-> NoJob]
  /\ backfill' = [p \in DOMAIN backfill |-> NoBackfill]
  /\ UNCHANGED <<tables, stale, overtaken>>

Aggregation(j) ==
  \/ NextPhase(j) \/ FindExisting(j) \/ WriteProject(j)
  \/ WriteAccounts(j) \/ WritePersonal(j) \/ WriteServers(j) \/ WriteGeneral(j)
  \/ \E row \in job[j].todo : LookUp(j, row)
  \/ \E i \in job[j].todo : FindProject(j, i) \/ MappingFails(j, i)

Next ==
  \/ \E c \in Collector, b \in Batch : Receive(c, b)
  \/ \E c \in Collector : Save(c)
  \/ \E j \in Job : Aggregation(j) \/ JobFails(j) \/ \E first, last \in Day : Trigger(j, first, last)
  \/ \E u \in User : SignIn(u)
  \/ \E p \in GroupProject, slug \in Slug : RequestProject(p, slug)
  \/ \E p \in DOMAIN backfill :
       \/ Approve(p) \/ Reject(p) \/ (\E slug \in Slug : Resubmit(p, slug))
       \/ BackfillEvents(p) \/ BackfillSummaries(p) \/ BackfillFails(p)
  \/ Restart

Spec == Init /\ [][Next]_vars

-----------------------------------------------------------------------------
(* Properties.                                                             *)

IsRow(r) ==
  /\ r.day \in Day /\ r.source \in {"pbs", "pbsAcct", "openstack"}
  /\ r.personal \in BOOLEAN /\ \A i \in DOMAIN r.ids : Len(r.ids[i]) = 2
  /\ r.project \in DOMAIN backfill \cup {NoProject}

IsEvent(e) == IsRow(e) /\ e.used \in Nat

IsSummary(s) ==
  /\ IsRow(s) /\ s.total \in Nat /\ s.count \in Nat \ {0}
  /\ \A v \in DOMAIN s.instances : s.source = "openstack" /\ s.instances[v] \in Nat

\* The shapes of the tables and of what is under way.
TypeOK ==
  /\ users \subseteq User
  /\ \A p \in DOMAIN project :
       /\ p \in DOMAIN backfill /\ project[p].personal \in BOOLEAN
       /\ project[p].status \in {"new", "active", "rejected"}
  /\ \A i \in DOMAIN events : IsEvent(events[i])
  /\ \A i \in DOMAIN summaries : IsSummary(summaries[i])
  /\ \A j \in Job : /\ job[j].phase \in 0..Len(Phases) /\ job[j].days \subseteq Day
                    /\ job[j].existing \in Nat \cup {Unsought}
  /\ \A p \in DOMAIN backfill : backfill[p].step \in {"events", "summaries", "done"}
  /\ stale \subseteq Day /\ {orderly, overtaken} \subseteq BOOLEAN

Owns(p, r) ==
  IF r.personal THEN project[p].personal /\ Names(r.ids, project[p].pi)
  ELSE \/ r.slug # NoSlug /\ r.slug = project[p].slug
       \/ r.source = "openstack" /\ \E i \in DOMAIN Customers : r.slug = Customers[i] \o project[p].slug

\* What is mapped to a project is that project's: of its slug, with a customer
\* before it or not, or of its owner.  Only a renaming that meets a mapping
\* under way can break it (mapEventToProject, unmapProjectUsage).
MappingIsRight ==
  ~overtaken =>
    /\ \A i \in DOMAIN events : events[i].project # NoProject => Owns(events[i].project, events[i])
    /\ \A i \in DOMAIN summaries :
         summaries[i].project # NoProject => Owns(summaries[i].project, summaries[i])

\* Usage of the same person, whatever its slug, or of the same slug: the
\* look-ups ask for no slug of personal PBS usage, and the rows of OpenStack
\* usage are not told apart by whose it is (findSummaryByIdentity,
\* aggregateOpenstackEvents).
IsUse(e, r) ==
  /\ e.source = r.source
  /\ IF r.personal /\ r.source # "openstack" THEN e.personal /\ Username(e.ids) = Username(r.ids)
     ELSE e.slug = r.slug /\ (r.source # "openstack" => ~e.personal)

\* The events a summary is about.
About(s) == {i \in DOMAIN events : IsUse(events[i], s)}

MostPerInstance(I) ==
  LET instances == {events[i].instance : i \in I}
  IN  Total([v \in instances |-> Max({events[i].used : i \in {k \in I : events[k].instance = v}})], instances)

\* No summary claims more than its events used up to its day (for PBS jobs, on
\* its day), whatever runs twice, overlaps or is cut off
\* (aggregatePbsAcctSummary, aggregateOpenstackProjectDay).
NoOverCount ==
  \A k \in DOMAIN summaries :
    LET s == summaries[k]
        soFar == {i \in About(s) : events[i].day <= s.day}
        today == {i \in About(s) : events[i].day = s.day}
    IN  s.total <= CASE s.source = "pbs"     -> Counted(events, today)
                     [] s.source = "pbsAcct" -> Counted(events, soFar)
                     [] OTHER                -> MostPerInstance(soFar)

\* Nobody else's usage is taken for this.  The servers of a slug are added up
\* whether personal or not, and users without a name are taken for one.
IsToldApart(e) ==
  /\ \A k \in DOMAIN events : IsUse(events[k], e) => events[k].personal = e.personal
  /\ e.personal /\ e.source # "openstack" => Username(e.ids) # None

\* Nor is other usage of the same person: of two slugs on one day the summary
\* of the second replaces that of the first.
IsPlain(e) == IsToldApart(e) /\ \A k \in DOMAIN events : IsUse(events[k], e) => events[k].slug = e.slug

\* If days come in order and one thing happens at a time, there is one summary
\* of each day with events, and its total is exact: accounting records add up
\* over the days, and the instances of a group project that were deleted stay
\* in, of usage that is plain (aggregateDailySummaries).
ExactInOrder ==
  orderly /\ Idle =>
    \A i \in DOMAIN events : events[i].slug # NoSlug /\ events[i].day \notin stale /\ IsPlain(events[i]) =>
      LET mine == {k \in DOMAIN summaries :
                     summaries[k].day = events[i].day /\ i \in About(summaries[k])}
      IN  /\ Cardinality(mine) = 1
          /\ \A k \in mine :
               LET s == summaries[k]
                   before == {n \in About(s) : events[n].day <= s.day}
                   today == {n \in About(s) : events[n].day = s.day}
                   kept == IF s.personal THEN today ELSE before
                   last == Instances(events, kept)
               IN  s.total = CASE s.source = "pbs"     -> Counted(events, today)
                               [] s.source = "pbsAcct" -> Counted(events, before)
                               [] OTHER                -> Total(last, DOMAIN last)

\* The mapper finds the slug in every form the backfill does.
IsRecognised(slug) ==
  WithoutCustomer(slug) = slug /\ \A i \in DOMAIN Customers : WithoutCustomer(Customers[i] \o slug) = slug

IsLeft(p, r) == r.project = NoProject /\ r.source # "pbsAcct" /\ ~r.personal /\ Owns(p, r)

\* A project that was approved.  Personal ones are not: a first sign-in makes
\* them, and nothing looks for usage that came before.
IsServed(p) ==
  /\ p \in DOMAIN project /\ project[p].status = "active" /\ ~project[p].personal
  /\ IsRecognised(project[p].slug)

\* Once a project is approved and nothing is under way, no PBS or OpenStack usage
\* of its slug is without a project, events and summaries alike.  That leaves out
\* accounting records (pbsAcct), which no backfill takes, and slugs that start
\* like a customer: later usage of theirs is taken for another project's
\* (backfillProjectMapping, mapRegularProject).
BackfillIsComplete ==
  orderly /\ Idle =>
    \A p \in DOMAIN project : IsServed(p) =>
      /\ \A i \in DOMAIN events : ~IsLeft(p, events[i])
      /\ \A i \in DOMAIN summaries : ~IsLeft(p, summaries[i])

\* Whatever the dashboard offers to choose opens to something: a project, a
\* source of it, a job or an instance.  If days came in order, one thing happened
\* at a time and no other usage was taken for the project's, its totals are no
\* more than the project used, whether they come from events or from summaries,
\* and these from one source or from all (getAvailableScopes, getAvailableAllocations,
\* normalizeAvailableSources, calculateTotals).
OfferedIsShown ==
  \A p \in Scopes(events, summaries) :
    /\ DOMAIN Series(events, summaries, p, None, <<None>>) # {}
    /\ \A s \in Sources(events, summaries, p) :
         DOMAIN Series(events, summaries, p, s, <<None>>) # {}
    /\ \A a \in Allocations(events, p) : DOMAIN Series(events, summaries, p, None, a) # {}
    /\ orderly /\ Idle /\ (\A i \in DOMAIN events : Owns(p, events[i]) => IsToldApart(events[i])) =>
         \A s \in Sources(events, summaries, p) \cup {None}, a \in Allocations(events, p) \cup {<<None>>} :
           \A total \in Totals(events, summaries, p, s, a) :
             total <= Counted(events, {i \in DOMAIN events : Owns(p, events[i])})
=============================================================================
