------------------------------ MODULE UsageRows ------------------------------
(***************************************************************************)
(* Usage as it is reported, mapped to projects, added up by day and shown: *)
(* the mapper, the aggregation and the summary service as functions of the *)
(* tables they read.                                                       *)
(*                                                                         *)
(* An event is [source, slug, personal, ids, instance, job, used, day,     *)
(* project].  All its metrics are one number, used, which stands for those *)
(* that are summed.  A slug is the sequence of words dashes join, ids is a *)
(* sequence of <<scheme, value>>.  A summary is [day, source, slug,        *)
(* personal, total, count, ids, instances, project].                       *)
(***************************************************************************)
EXTENDS Integers, Sequences, FiniteSets, FiniteSetsExt, Functions

CONSTANTS
  User,
  Account,       \* user -> [oidc_sub, perun_username, user_email]
  Customers      \* the customer keys of the OpenStack catalogue, each a slug

NoProject == 0
NoSlug == <<>>
None == "none"

Total(f, I) == MapThenSumSet(LAMBDA i : f[i], I)

Counted(events, I) == Total([i \in I |-> events[i].used], I)

-----------------------------------------------------------------------------
(* Whose usage is it?  projects: id -> [slug, personal, pi, status].       *)

StartsWith(slug, prefix) ==
  Len(prefix) < Len(slug) /\ SubSeq(slug, 1, Len(prefix)) = prefix

\* The first customer of the catalogue that fits is taken off.
WithoutCustomer(slug) ==
  LET fits == {i \in DOMAIN Customers : StartsWith(slug, Customers[i])}
  IN  IF fits = {} THEN slug
      ELSE SubSeq(slug, Len(Customers[Min(fits)]) + 1, Len(slug))

IsUser(u, id) == id[1] \in DOMAIN Account[u] /\ id[2] = Account[u][id[1]] /\ id[2] # None

Names(ids, u) == \E i \in DOMAIN ids : IsUser(u, ids[i])

\* Only the first identity is looked at.
PersonalProject(projects, users, ids) ==
  {p \in DOMAIN projects : /\ projects[p].personal
                           /\ ids # <<>> /\ projects[p].pi \in users
                           /\ IsUser(projects[p].pi, ids[1])}

\* A project in any state, a rejected one included.
RegularProject(projects, slug, source) ==
  LET cleaned == IF source = "openstack" THEN WithoutCustomer(slug) ELSE slug
  IN  {p \in DOMAIN projects : projects[p].slug = cleaned}

MappedProject(projects, users, row) ==
  LET found == IF row.personal THEN PersonalProject(projects, users, row.ids)
               ELSE IF row.slug = NoSlug THEN {}
               ELSE RegularProject(projects, row.slug, row.source)
  IN  IF found = {} THEN NoProject ELSE Min(found)

OfOwner(p, row) == row.personal /\ Names(row.ids, p.pi)

\* Prefixed slugs forgotten.
OfSlugOnly(p, row) ==
  ~row.personal /\ row.source \in {"pbs", "openstack"} /\ row.slug = p.slug

OfSlug(p, row) ==
  /\ ~row.personal
  /\ \/ row.source = "pbs" /\ row.slug = p.slug
     \/ /\ row.source = "openstack"
        /\ row.slug \in {p.slug} \cup {Customers[i] \o p.slug : i \in DOMAIN Customers}

\* What the backfill of a project, as the approval read it, takes.
BackfillTakes(p, row) ==
  /\ row.project = NoProject
  /\ IF p.personal THEN OfOwner(p, row) ELSE OfSlug(p, row)

-----------------------------------------------------------------------------
(* Adding up: the rows of one phase of aggregateDailySummaries.            *)

Phases == <<"acct", "personal", "openstack", "general", "map">>

Username(ids) ==
  LET named == {i \in DOMAIN ids : ids[i][1] = "perun_username"}
  IN  IF named = {} THEN None ELSE ids[Min(named)][2]

Primary(ids) ==
  LET with(scheme) == {i \in DOMAIN ids : ids[i][1] = scheme}
  IN  IF with("perun_username") # {} THEN ids[Min(with("perun_username"))]
      ELSE IF with("oidc_sub") # {} THEN ids[Min(with("oidc_sub"))]
      ELSE IF with("user_email") # {} THEN ids[Min(with("user_email"))]
      ELSE ids[1]

InPhase(phase, e) ==
  LET perUser == e.source \in {"pbs", "pbsAcct"} /\ e.personal
  IN  /\ e.slug # NoSlug
      /\ CASE phase = "acct"      -> perUser /\ e.source = "pbsAcct"
           [] phase = "personal"  -> perUser /\ e.source = "pbs"
           [] phase = "openstack" -> e.source = "openstack"
           [] phase = "general"   -> ~perUser /\ e.source # "openstack"

GroupKey(phase, e) ==
  CASE phase \in {"acct", "personal"} -> <<e.day, e.slug, Username(e.ids)>>
    [] phase = "openstack"            -> <<e.day, e.slug>>
    [] phase = "general"              -> <<e.day, e.slug, e.source, e.personal>>

\* Per server, the last event of those given, which are in order of time.
Instances(events, I) ==
  LET named == {i \in I : events[i].instance # None}
  IN  [v \in {events[i].instance : i \in named} |->
         events[Max({i \in named : events[i].instance = v})].used]

RowOf(events, I) ==
  LET first == events[Min(I)]
  IN  [day |-> first.day, source |-> first.source, slug |-> first.slug,
       personal |-> first.personal, ids |-> first.ids, count |-> Cardinality(I),
       used |-> Counted(events, I),
       instances |-> IF first.source = "openstack" THEN Instances(events, I) ELSE <<>>]

Rows(events, phase, days) ==
  LET I == {i \in DOMAIN events : events[i].day \in days /\ InPhase(phase, events[i])}
      key(i) == GroupKey(phase, events[i])
  IN  {RowOf(events, {i \in I : key(i) = k}) : k \in {key(i) : i \in I}}

SameUser(s, ids) == s.personal /\ ids # <<>> /\ Primary(ids) \in Range(s.ids)

\* Up to the day itself.
PreviousOrSame(summaries, row) ==
  {i \in DOMAIN summaries :
     /\ summaries[i].source = row.source /\ summaries[i].day <= row.day
     /\ IF row.personal THEN row.source # "openstack" /\ SameUser(summaries[i], row.ids)
        ELSE summaries[i].slug = row.slug /\ ~summaries[i].personal}

\* Summaries of earlier days to add to.  Personal OpenStack usage is looked up
\* without its identities, and so never found.
Previous(summaries, row) ==
  {i \in DOMAIN summaries :
     /\ summaries[i].source = row.source /\ summaries[i].day < row.day
     /\ IF row.personal THEN row.source # "openstack" /\ SameUser(summaries[i], row.ids)
        ELSE summaries[i].slug = row.slug /\ ~summaries[i].personal}

Latest(summaries, I) == {i \in I : \A k \in I : summaries[k].day <= summaries[i].day}

Existing(summaries, row) ==
  {i \in DOMAIN summaries :
     /\ summaries[i].source = row.source /\ summaries[i].day = row.day
     /\ IF row.personal /\ row.source \in {"pbs", "pbsAcct"}
        THEN SameUser(summaries[i], row.ids)
        ELSE summaries[i].slug = row.slug /\ summaries[i].personal = row.personal}

Summary(row, total, instances) ==
  [day |-> row.day, source |-> row.source, slug |-> row.slug, personal |-> row.personal,
   ids |-> row.ids, count |-> row.count, project |-> NoProject, total |-> total, instances |-> instances]

\* Accounting records add up over the days.
AccountsSummary(row, before) == Summary(row, before.total + row.used, <<>>)

JobsSummary(row) == Summary(row, row.used, <<>>)

\* Servers that are gone are forgotten.
ServersOfDay(row, before) == row.instances

\* Servers that are gone stay as they were last seen.
WithServers(row, before) ==
  [v \in DOMAIN row.instances \cup DOMAIN before.instances |->
     IF v \in DOMAIN row.instances THEN row.instances[v] ELSE before.instances[v]]

ServersSummary(row, before) ==
  LET instances == WithServers(row, before)
  IN  Summary(row, Total(instances, DOMAIN instances), instances)

-----------------------------------------------------------------------------
(* What the dashboard shows of a project.  source is None if none is       *)
(* chosen, allocation likewise.                                            *)

SourceIs(source, row) == source = None \/ row.source = source

SourceFits(source, row) ==
  \/ source = None \/ row.source = source
  \/ source = "pbs" /\ row.source = "pbsAcct"

AllocationFits(allocation, e) ==
  CASE allocation[1] = "job"      -> e.job = allocation[2]
    [] allocation[1] = "instance" -> e.instance = allocation[2]
    [] OTHER                      -> TRUE

Chosen(table, p, source) ==
  {i \in DOMAIN table : table[i].project = p /\ SourceFits(source, table[i])}

\* Per day, the sum over the rows of that day.
SummarySeries(summaries, I) ==
  [d \in {summaries[i].day : i \in I} |->
     LET today == {i \in I : summaries[i].day = d}
     IN  Total([i \in today |-> summaries[i].total], today)]

EventSeries(events, I) ==
  [d \in {events[i].day : i \in I} |->
     Counted(events, {i \in I : events[i].day = d})]

\* Raw events answer for an allocation, or if there is no summary.
RawEvents(events, p, source, allocation) ==
  {i \in Chosen(events, p, source) : AllocationFits(allocation, events[i])}

ByEvents(summaries, p, source, allocation) ==
  allocation # <<None>> \/ Chosen(summaries, p, source) = {}

Series(events, summaries, p, source, allocation) ==
  IF ByEvents(summaries, p, source, allocation)
  THEN EventSeries(events, RawEvents(events, p, source, allocation))
  ELSE SummarySeries(summaries, Chosen(summaries, p, source))

\* Per moment, not per day: the latest moment of the events I may be that of any
\* of those of their last day.
LatestSums(events, I) ==
  IF I = {} THEN {0}
  ELSE {Counted(events, moment) : moment \in SUBSET Latest(events, I) \ {{}}}

\* The virtual CPUs of the last day of the summaries: by the latest events of one
\* source of that day, whichever comes first, or if these are gone by the
\* summaries.
SummaryTotals(events, summaries, p, I) ==
  LET last == Latest(summaries, I)
      ofSource(s) == {i \in DOMAIN events : events[i].project = p /\ events[i].source = s}
      kept == Total([i \in last |-> summaries[i].total], last)
  IN  {IF now = 0 THEN kept ELSE now :
         now \in UNION {LatestSums(events, ofSource(s)) : s \in {summaries[i].source : i \in last}}}

Totals(events, summaries, p, source, allocation) ==
  IF ByEvents(summaries, p, source, allocation)
  THEN LatestSums(events, RawEvents(events, p, source, allocation))
  ELSE SummaryTotals(events, summaries, p, Chosen(summaries, p, source))

Scopes(events, summaries) ==
  ({summaries[i].project : i \in DOMAIN summaries} \cup
   {events[i].project : i \in DOMAIN events}) \ {NoProject}

\* pbsAcct is shown as pbs.
Sources(events, summaries, p) ==
  LET kept == Chosen(summaries, p, None)
      raw == IF kept # {} THEN {summaries[i].source : i \in kept}
             ELSE {events[i].source : i \in Chosen(events, p, None)}
  IN  {IF s = "pbsAcct" THEN "pbs" ELSE s : s \in raw}

Allocations(events, p) ==
  LET pbs == Chosen(events, p, "pbs")
      openstack == Chosen(events, p, "openstack")
  IN  {<<"job", events[i].job>> : i \in {k \in pbs : events[k].job # None}} \cup
      (IF openstack = {} THEN {} ELSE {<<"project">>}) \cup
      {<<"instance", events[i].instance>> : i \in {k \in openstack : events[k].instance # None}}
=============================================================================
