# Verification of metaproject-zeus

metaproject-zeus is a REST server (NestJS on Node.js, PostgreSQL through TypeORM,
Redis and BullMQ) that manages projects of an HPC centre: their review and their
Perun groups, their members, their allocations of resources, the OpenStack
requests behind cloud allocations, their publications and their resource usage.

This directory holds TLA+ models of its core, the TLC configurations that check
them and theorems that TLAPS proves about them. `PROJECT.json` is the index: which
definition stands for which lines of code (`map`), what each run checks (`runs`),
a bug in the code that would break each property (`mutants`), where the code and
its documentation disagree (`findings`), what is hard to test (`hazards`) and what
is proved (`theorems`).

    tlc -workers 2 -config GroupJobs.cfg MCProjectProvisioning.tla
    tlapm ProjectProvisioningProofs.tla
    tlapm ResourceUsageProofs.tla
    tlapm OpenstackGitProofs.tla
    tlapm WorkspaceProofs.tla
    tlapm UsageDownsamplingProofs.tla

## 1. The system

One Node process serves HTTP, runs the BullMQ workers and the cron jobs. Handlers
interleave at every `await`; what they share is the database, Perun, GitLab, the
queues in Redis and one clone of a git repository on disk. A handler that throws,
or whose process stops, undoes its own database transaction and nothing else.

| Component | State | Operations | Talks to | What is hard | What makes it correct |
|---|---|---|---|---|---|
| Allocations and OpenStack requests (`resource-module`, `openstack-module`) | tables `allocation`, `allocation_openstack_request` | `request`, `setStatus`, `modifyOpenstackAllocation`, `processApprovedAllocation` | GitLab, git clone | several queries without a transaction, stale reads, partial failure | requests are decided before they are proposed, URLs are a request's own, an admin sees what waits for a decision |
| Project review (`project-module`) | `project`, `project_approval`, `project_archival` | `requestProject`, `requestProjectAgain`, `approveProject`, `rejectProject`, `archiveProject` | Perun and the queue `perunGroup` inside a transaction; usage mapping | row lock taken by some handlers only, external effects that survive a roll-back | a decision is one on a project under review; an active project has a group of its own |
| Set-up of Perun groups (`perun-module`) | the group in Perun, queue, `group_failed_stage` | `createGroup`, `synchronize`, the job of `PerunGroupConsumer` | Perun, BullMQ | failures with and without effect, restarts, resuming from a recorded stage | an unfinished group is set up or listed as failed; resuming skips nothing |
| OpenStack git working tree (`openstack-git.service.ts`) | one clone: head, index, files, branches | `commitAndOpenMergeRequest`, `getMergeRequestState` | git, GitLab | shared by all handlers without a lock, left dirty by failures | a branch carries the file of its own request and no other |
| OpenStack request contents (`openstack-*.service.ts`) | a catalogue on disk | validate, build YAML | the working tree it is read from | checked twice, days and deployments apart | what lands on GitLab is what was offered |
| Resource usage: ingestion and mapping | `resource_usage_events` | `createEvents`, `mapEventToProject`, `backfillProjectMapping`, `unmapProjectUsage` | project review, sign-in | look-up before save against backfill, a backfill nobody awaits | an event of an approved project ends up mapped to it, and to no other |
| Resource usage: aggregation | `resource_usage_summaries` | `aggregateForDates` and its branches | ingestion | overlapping runs, check-then-insert, days out of order | one summary for a day, counting each event once |
| Resource usage: summaries shown | — | scopes, sources, allocations, series, totals | both tables | two tables that need not agree | what is offered opens to something |
| Resource usage: downsampling | events and summaries | the weekly cron job | aggregation | replace-then-delete in separate statements, boundaries of weeks | nothing is deleted that no coarser summary counts |
| Sign-in and tokens | `user`, token cache of 5 minutes | `signIn`, `getUserExternalId` | OIDC provider | look-up and save apart, rows made by invitations | one row per login, nobody is locked out |
| Personal projects | `project` rows with `isPersonal` | `ensurePersonalProject` | sign-in | recovery inside an aborted transaction | one per user |
| Members and permissions | `project_user`, `user` | add, delete, accept invitation, `getUserPermissions` | Perun invitations | check before insert, removed members, lost invitations | only people who joined are active, and are shown what they may change |
| Perun invitations | queue `perunInvitations` | the invitation job | Perun | errors swallowed, nothing repeated | a pending member has an invitation |
| Publications | `publication`, `project_publication` | create, assign, update, delete, approve, reject | project permissions, resolvers | check before update, legacy column beside the link table | an approval is of what was approved |
| Resources and attribute types | `resource`, `resource_attribute_type`, `resource_to_attribute_type` | create, update; create and delete a type | — | checks before the transaction that writes | an attribute has one value, of a type that exists |
| Perun webhook | `orcid` | `processPerunData` | Perun | statement by statement, notifications overlap | an ORCID is one Perun named for that person |
| Perun client, users, configuration, errors, mappers, database package, CLI, build | — | look-ups, seeding | — | — | not modelled, section 6 |

How they interact: the allocation handlers call the git working tree (one step that
may fail in `OpenstackAllocation`, every command in `OpenstackGit`); an approval
starts a backfill of usage after it commits, a resubmission under another title
unmaps usage (both in `ResourceUsage`; neither changes anything review reads);
sign-in makes the user rows that invitations, usage mapping and publications refer
to, and rights decide whether a handler runs (`Workspace`). Elsewhere a modelled call is
an authorised one, or one that fails.

## 2. Modules

    OpenstackTables            rows, ids, INSERT
      RequestLedger            abstract: what the requests and GitLab promise
      OpenstackAllocation      the handlers, await by await;  Ledger == INSTANCE RequestLedger
        AllocationMeetings     which handlers meet, and what the others keep
          MCAllocationMeetings TLC instances
          OpenstackAllocationProofs
      RequestLedgerProofs
    ProjectLifecycle           abstract: what project review promises
      ProjectLifecycleProofs
    ProjectProvisioning        review and group set-up;  Lifecycle == INSTANCE ProjectLifecycle
      MCProjectProvisioning    TLC instances
      ProjectProvisioningProofs
    OpenstackDocument          contents of requests, as functions of their inputs
      OpenstackGit             the clone and GitLab, command by command
        MCOpenstackGit
        OpenstackGitProofs
    UsageRows                  mapping, adding up and showing usage, as functions of the tables
      ResourceUsage            collectors, aggregations, backfills, projects that are renamed
        MCResourceUsage
        ResourceUsageProofs
    UsageDownsampling          tiers, and jobs that overlap or stop
      MCUsageDownsampling
      UsageDownsamplingProofs
    UserAccounts               users, token cache, sign-in, personal projects
      ProjectMembers           rights, memberships, invitations
        Publications           publications, links, review
      Catalogue                resources, attribute types, attributes
      Orcids                   notifications of ORCIDs
        Workspace              all five together, one server that restarts
          MCWorkspace
          WorkspaceProofs

### OpenstackAllocation

`setStatus` and `modifyOpenstackAllocation` run outside any transaction, so each
awaited query is an action. `handler[h]` is one HTTP request in flight: its program
counter and what it has read, perhaps stale by now. `request` is a transaction:
`RequestAllocation` stands for its checks, `CommitRequest` for its commit.

| Code | Actions |
|---|---|
| `AllocationService.request` | `RequestAllocation`, `CommitRequest` |
| `AllocationService.setStatus` | `SetStatus`, `ReadLatestRequest`, `ApproveRequest` or `DenyRequest`, `FinishSetStatus` |
| `OpenstackAllocationService.processApprovedAllocation` | `FindApprovedRequest`, `OpenMergeRequest`, `RecordMergeRequest` |
| `AllocationService.modifyOpenstackAllocation` | `Modify`, `CheckLatestRequest`, `CheckMergeRequest`, `FindBaseRequest`, `MoveEndDate`, `InsertModification` |
| an await that rejects, the server stopping | `Fail` |
| maintainers of the OpenStack repository | `Settle` |

Abstracted: payloads (a request keeps its domain, the one field later requests must
repeat), quotas, descriptions and dates (of `MoveEndDate` the await is left), and the
git commands. `RequestLedger` keeps the two tables an auditor can see and forgets
handlers, allocations and why anything happens.

### AllocationMeetings

Nothing in the server keeps two requests about one allocation apart, and some promises
do break when two are in flight together. The module adds a history to
`OpenstackAllocation`: `met` records, for each allocation, that two activations, an
activation and a denial, or two modifications were in flight at once (`Crossing`). It
constrains no step. Each property excepts the allocations with the one kind of meeting
that breaks it, and holds whatever else any number of handlers do to each other; TLC finds
a counterexample as soon as the exception is dropped:

- two modifications each find nothing pending and both insert: the earlier request is
  pending and hidden (`PendingIsShown`);
- an activation and a denial: the denial takes away the only request the activation could
  propose (`ActiveWasProposed`), or read the allocation before the activation was finished
  and makes an active one denied (`DenialKeepsActive`);
- two activations open two merge requests for one request: one URL replaces the other
  (`RecordedUrlStands`), whose merge request no row knows any more
  (`OrphansComeFromFailures`), or a request that was approved is left behind
  (`ApprovedIsProcessed`).

### ProjectProvisioning

`project`, `decisions` and `failedStage` are tables, `group` is what Perun holds,
`queue` and `worker` are BullMQ, `approval[a]` and `resubmission[u]` are calls in
flight. `requestProject`, `rejectProject` and `archiveProject` touch nothing outside
one transaction and, where the status matters, hold the row lock throughout: each is
one action. `approveProject` awaits Perun while it holds the lock; its steps are
separate. `requestProjectAgain` reads without the lock and then updates: two actions.

| Code | Actions |
|---|---|
| `ProjectService.requestProject` | `RequestProject` |
| `ProjectService.requestProjectAgain` | `BeginResubmit`, `CommitResubmit`, `AbandonResubmit` |
| `ProjectApprovalService.approveProject`, `PerunFacade.createGroup`, `PerunGroupService.createGroup` | `BeginApproval`, `CreateGroup` or `RefuseApproval`, `EnqueueSettings`, `CommitApproval` or `AbandonApproval` |
| `ProjectApprovalService.rejectProject`, `ProjectArchivalService.archiveProject` | `RejectProject`, `ArchiveProject` |
| `PerunFacade.synchronize` | `Synchronize` |
| `PerunGroupConsumer.process` | `TakeJob`, `ReadLastStage`, `RunStage`, `FindUser`, `RemoveFailedStage`, `StopRunning`; `StageFails`, `FailBeforeStart`, `FailUnrecorded`, `StayRunning` |
| the server stopping, BullMQ's stalled jobs | `Restart` |

`lost` is a history variable: projects one of whose jobs ended without recording what
the code means to record (the write that should record it failed, or BullMQ dropped a
job that stalled twice). The properties except these projects by name instead of
assuming that such a loss never happens. `ProjectLifecycle` keeps status, group and
decisions of each project and forgets Perun, queue and calls in flight.

### OpenstackGit and OpenstackDocument

`clone` is the working tree with its head, index, files, local and remote-tracking
branches; `origin` and `proposal` are GitLab;
`handler[h]` is one call of `commitAndOpenMergeRequest`. A tree maps paths to contents.

| Code | Actions |
|---|---|
| `validateRequestPayload` when a request is filed | `File` |
| `processApprovedAllocation`: check, build, record | `StartProcessing`, `Record` |
| `commitAndOpenMergeRequest` and what it calls, in order | `CheckOutBase`, `Pull`, `ListBranches`, `CreateBranch`, `WriteFile`, `Add`, `Commit`, `Push`, `Propose`, `Restore` |
| a command that rejects, for no reason or because git refuses | `Fail`; `Refused` |
| the server stopping; the maintainers; the calendar | `Stop`; `Settle`, `EditTerraform`, `EnterByHand`; `NextDay` |

Git is external and modelled as far as these commands use it: a check-out carries
changed files along unless the commits differ in them, a pull moves whatever is checked
out forward. It never merges: neither the code nor the container's `start.sh` sets
`pull.rebase` or `pull.ff`, and without them git (since 2.33) refuses to pull into a branch
that has commits of its own once the other has moved on. `OpenstackDocument` gives what a payload may ask for, the catalogue read
from the Terraform and tag files, and the document that is built, with slugs as
sequences of words; the layout of YAML is left out.

### ResourceUsage and UsageRows

`events` and `summaries` are the tables; `incoming[c]` is a batch mapped and not yet
saved, `job[j]` an aggregation with the rows of its phase still to do and what it
looked up, `backfill[p]` what is left of one. All metrics are one number. `orderly`,
`stale` and `overtaken` are history: they say which promises still apply.

The summary of an earlier day and the one to replace are awaited one after the other, in
`LookUp` and `FindExisting`, except for PBS jobs, which have the second only. Before the
mapping of summaries a failed query ends the aggregation (`JobFails`); during it the next
summary is gone on with (`MappingFails`), by the identities read when the phase began.
The dates of `Trigger` are those of whole days, as the ones `createEvents` gives are. An
admin may give a date with any time of day; one that cuts the events of its day in two,
as the bare date of a last day does where events start later than at midnight, is left out.

| Code | Actions |
|---|---|
| `createEvents` | `Receive`, `Save` |
| `aggregateForDates`: each phase, each look-up, each write | `Trigger`, `NextPhase`, `LookUp`, `FindExisting`, `WriteAccounts`, `WritePersonal`, `WriteServers`, `WriteGeneral` |
| `mapProjectIdsToSummaries` | `FindProject`, `WriteProject`, `MappingFails` |
| `backfillProjectMapping` | `BackfillEvents`, `BackfillSummaries` |
| sign-in and review, as far as usage depends on them | `SignIn`, `RequestProject`, `Approve`, `Reject`, `Resubmit` |
| failures | `JobFails`, `BackfillFails`, `Restart` |

What the dashboard does changes nothing: its choices, series and totals are operators
of `UsageRows` that properties compare with each other.

### UsageDownsampling

`rows` is the table of summaries, each with the days it covers, its value and (a
history) the daily summaries it stands for; `job[j]` is a run of the cron job in one
of its four phases. `AggregateToMonthly`, `AggregateToBiweekly` and `AggregateToWeekly`
share `LookUp`, `Write` and `DeleteSources`, and differ in tier; then `DeleteEvents`.
`Summarise`, `Tick` and `Restart` are what happens around it. Day 0 is a Monday, the
ISO weeks are computed as in the code. `displaced` is a history: the days whose row an
aggregate overwrites without standing for them, and those of an aggregate written over a
row that is about to be deleted; `late` and `apart` say that a summary came when its week
was due already, and that a tier was missed.

### Workspace

| Module | State | Actions |
|---|---|---|
| `UserAccounts` | `users`, `personal`, `ordinary` (the titles of other projects), `cached`, and what Perun knows | `Request`, `Expire`, `SignInRead`, `SignInWrite`, `Move` (a new address), `RequestProject`, `RequestProjectAgain` |
| `ProjectMembers` | `projects`, `members`, `queue`, what was `sent`, who `joined`, invitations `lost` | `AddRead`, `AddWrite`, `Invite`, `InviteFails`, `Send`, `Join`, `AcceptInvitation`, `DeleteMember`, `Decide` |
| `Publications` | `pubs`, `links` | `CreateByHand`, `CreateById`, `AddToProject`, `UpdateRead`, `UpdateWrite`, `AssignRead`, `AssignWrite`, `DeleteOwned`, `ListRead`, `ListLink`, `ListClear`, `RemoveRead`, then `RemoveLink`, `RemoveClear`, `RemoveLook`, `RemoveCount`, `RemoveRights`, `RemoveUnlink`, `RemoveLast`, and `Review` |
| `Catalogue` | `attributeTypes`, `resources`, `attributes` | `CreateAttributeType`, `DeleteTypeRead`, `DeleteTypeWrite`, `SaveRead`, `CreateWrite`, `UpdateResourceWrite` |
| `Orcids` | `orcids` | `Notify`, `ReadEntry`, `DeleteOld`, `SaveNew`, `Processed` |

A handler that reads outside the transaction it writes in is two actions and, in
between, a call in progress (`call[s]`); listing the publications of a project and
removing one from it run in no transaction at all, and are an action per statement. Rights are recomputed at each use from the
project, the membership and the role, with and without step-up, as
`userPermissionsHelper` does. `Decide` stands for the review of `ProjectProvisioning`.

## 3. Runs

Distinct states are of the full exploration; each passing run takes less than four
minutes on two workers.

| Run | Instance | States | What it shows |
|---|---|---|---|
| `alloc_meetings` | 2 handlers, 1 allocation, 3 requests, 2 merge requests, 1 failure, 2 domains | 2.3 M | at every interleaving the tables agree with what handlers remember, every step is one of the ledger, admins are shown what waits and GitLab holds nothing unexplained, but for the meeting each property names |
| `alloc_processed` | 2 handlers resumed fairly, 1 allocation, 2 requests, 2 merge requests, 1 failure, a personal project, a resource that is not a cloud | 0.6 M | approved requests get processed |
| `group_jobs` | 2 projects, 1 approval and 1 resubmission in flight, 2 groups, 2 troubles | 1.0 M | what admins see of unfinished groups is true, and every approved project settles |
| `project_review` | 2 projects, 2 approvals and 2 resubmissions in flight, 3 decisions, 1 trouble | 0.8 M | the row lock does its work, and review implements its life cycle |
| `openstack_git` | 2 handlers on one clone, 2 requests of 4 filings, 1 branch suffix, 2 mishaps | 2.1 M | what lands on GitLab is sound whatever meets, and a request changes its own file alone if calls do not overlap and nothing fails |
| `resource_usage` | 3 events of 2 days, 2 aggregations, 3 reviews, 1 failure or restart, 5 of these in all | 2.9 M | usage is mapped to its owner, no summary counts for more than its events were, for exactly as much if nothing overlaps, and what the dashboard offers opens |
| `usage_downsampling` | 4 days of 2026 and 2027, 3 jobs, 2 of them at once, a crash, a late summary | 2.8 M | what no job overwrote is kept once, periods are whole, no tier is left behind |
| `workspace` | 2 overlapping calls, 3 people, 2 projects, 2 works, 3 ORCIDs, seven mixes of up to 5 calls, changes and restarts | 0.4 M | accounts, members, approvals, the catalogue and ORCIDs stay consistent across each other |
| `alloc_one_active`, `stale_resubmission`, `stale_row`, `monday_usage` | the smallest instance with the counterexample | — | findings, section 5 |

### Bounds and why they are enough

- *Two handlers.* A handler in these services relies on rows it has read; what harms
  it is one other handler that changes them between the read and the use. A third one
  adds no new kind of step, and the theorems below hold for any number. The same goes
  for the two calls in progress of `workspace` and the two jobs of the usage runs.
- *Requests and merge requests.* Three requests let a modification follow a
  modification, so that latest, latest approved and latest unprocessed request all
  differ; `alloc_meetings` has them. For the liveness of `alloc_processed` two are enough:
  a modification can be inserted during an activation.
- *Two projects and two groups.* Titles clash, the worker of one project's job
  delays the other's, and one project can have two groups after an abandoned approval.
- *Troubles.* Two failures or restarts let a job fail, be repeated and fail again, or
  stall twice (BullMQ gives a stalled job back once). Three decisions let a project be
  rejected, resubmitted and decided on while another resubmission is in flight.
- *The clone.* Two mishaps (a day that passes, an edit by the maintainers, a failed
  command, a restart) let a failure leave a staged file and a later call trip over it.
  The four filings are one whose flavour may stop being offered, and three that write to
  one path: with a date that may pass, a quota of zero and a network asked for twice. One
  suffix is the shortest series of taken branch names.
- *Usage.* The six batches have the same day from two sources, servers that differ from
  day to day, personal events and events the backfill must find. Three events suffice for a day
  that is aggregated, added to and aggregated again; `MaxTotal` keeps the product of
  the other bounds in reach and leaves each of them reachable.
- *Downsampling.* The calendar moves by 42 days, so that a job finds each tier of
  work waiting at some time; the year turns in a week 53, where fortnights change
  parity. `Once` names what the run allows one time in a behaviour: a pair of jobs that
  overlap, a day reported late, a crash (between any two statements).
- *Workspace.* Each behaviour has one of seven mixes, with a budget for each
  kind of call. Kinds that touch the same tables have a mix together
  (accounts with members, with the catalogue and with ORCIDs; members with
  publications); the other pairs share nothing but the users.
- Each bound is a constant in a guard. `MaxRequests` and its companions count rows
  that handlers in flight may still add, so that a handler never blocks half-way
  because of a bound. Where decisions, troubles or budgets are used up the system
  comes to rest, hence `CHECK_DEADLOCK FALSE`.
- *Symmetry* is used where no property of the run is a liveness property: handlers,
  domains, calls in flight, jobs and titles are interchangeable.

### Fairness

- `AllocationMeetings!MeetFairSpec`: weak fairness of `Progress(h)` for each handler.
  Node's event loop resumes a handler whose await has been answered; an answer that
  never comes is the action `Fail`. Nothing obliges an admin, a user or a maintainer
  of the repository to act.
- `ProjectProvisioning!FairSpec`: weak fairness of `JobStep`. The worker takes the
  next waiting job and carries on with the one it has. Failures and restarts are not
  fair, and neither are admins: `ApprovedIsProvisioned` holds without anyone pressing
  "synchronize", because a failed project counts as settled when it is listed.
- The other modules state no fairness. Nothing there repeats what failed: a lost
  backfill, an invitation that could not be sent or an aggregation that broke off
  waits for a person. What must have happened when such work is through is stated as
  an invariant instead (`BackfillIsComplete`, `CloneIsReady`, `NothingIsStranded`,
  `MembershipsAgree`).

### What the properties of the newer runs say

- `DocumentsAreSound`: every YAML file on GitLab lies where its name and domain say and
  asks for nothing the server did not offer, whatever calls got in each other's way.
  `OwnFilesOnly`: a merge request changes the one file of its own request, as long as no
  calls overlapped, none failed and the server ran. `CloneIsReady`: when every call has
  ended the clone is clean and on its base branch, even if calls overlapped, unless one
  failed or the server restarted. `RefusalsHaveALateCause`: the step
  that refuses, after its approval, what filing accepted does so only for what filing does
  not check, for an end that has passed since, or after a restart under another catalogue.
  `SettledStaysSettled`: a merge request that was merged or closed is not taken up again.
- `MappingIsRight`: what is mapped to a project is of its slug or of its owner, unless a
  renaming met a mapping under way. `BackfillIsComplete`: once a project is approved and
  nothing is under way, no usage of its slug is left without it. `NoOverCount`: no summary
  claims more than its events used, whatever overlaps. `ExactInOrder`: if days came in
  order and one thing happened at a time, a day has one summary and its total is exact,
  of usage that is plain: told apart from that of others (`IsToldApart`) and under one
  slug (`IsPlain`). `OfferedIsShown`: what the dashboard offers to choose opens to
  something, and if days came in order its totals are at most what the project used,
  provided nobody else's usage is taken for the project's.
- `KeptOnce`: as long as no aggregate took the row of another, each recorded day is in
  some summary at every moment, and in one only if no job was interrupted or doubled.
  `TakenOnlyFromAnchor`: with summaries on time and whole jobs, one after the other and at
  most seven weeks apart, a row is taken so only where a finer summary starts on the very
  day an aggregate does (which `monday_usage` shows to lose usage). `NothingIsStranded`:
  no summary grows too old for the only phase that would take it.
- `NobodyIsLockedOut`: a first sign-in fails only for someone whose personal project's
  slug an ordinary project has, or somebody else's personal project; a later one only for
  someone with a new address that an ordinary project is titled after, or for which there
  is an invited row. `MembershipsAgree`: who is pending has an invitation waiting, sent
  or known to have failed, who is active has joined the group, and what people are shown
  agrees with what they may do. `ApprovalStands`: an approved publication keeps its text
  and its approval but for another decision, or an update that had looked before it.

## 4. Theorems

All hold for arbitrary constants: any number of projects, handlers, resources and any
bounds. They use the named assumptions of the modules: `AllocationAssumption` and
`ProvisioningAssumption` (bounds are numbers, model values are apart), `GitAssumption`,
`FilingAssumption` (quotas are numbers, lists are sequences, every document has a path),
`PathAssumption`, and for the workspace `AccountsAssumption` (two people never have the
same address), `MembersAssumption`, `PublicationsAssumption`, `CatalogueAssumption` and
`NoticeAssumption` (what is sent is finite and of its type) and `FirstRowsAssumption` (the
tables at the beginning are consistent), and for downsampling `DownsamplingAssumption`
(days and peaks are numbers) and `CalendarAssumption` (the years and months that are given
reach around the days that may be recorded, and no month is shorter than 28 days), and for
usage `UsageAssumption` (days follow one another, ids are unique, a slug is not null),
`ReportAssumption` (reports have their fields, and a request has events) and
`IdentityAssumption` (reports the look-ups take for those of one person name the same
users: "all events for same project should have same identities",
`resource-usage-aggregation.service.ts:672`) and `UsernameAssumption` (for PBS reports,
they also bear the user name by which the rows of a day are grouped).

**Allocations.** `HandlersInStep` is the inductive invariant: every row refers to one
that exists, and what a handler remembers at each of its awaits is stale at worst, not
wrong: the request it is about to propose has been decided, the merge request it is
about to record belongs to that request, the domain it is about to copy is that of a
decided request of the same allocation. Type correctness alone is not inductive, since
`InsertModification` writes a domain read two awaits earlier. `HandlersStayInStep`
proves it, action by action, with one lemma saying that tables only grow
(`OthersStayInStep`), so that what *other* handlers remember survives any step.
`HandlersImplementLedger` shows that each step is a step of `RequestLedger` or a
stutter; `LedgerSafety` proves the ledger's own invariants, and `DomainStaysFixed`,
`MergeRequestsStayDecided` and `RecordedUrlStaysOwn` carry them back.

The promises of `AllocationMeetings` need more than that rows exist: that what a handler
read is still so when it is used. What changes it is always another handler on the same
allocation, and always one of the kinds that `met` records. `OnlyMeetingsDisturb` proves
it for any number of handlers that interleave and fail at any await: its invariant `Met`
says, place by place, what stands unless that meeting took place (`Undisturbed`: the
request about to be recorded is not processed, the approved request is still there, the
status read before a denial is that of the allocation, nothing is pending while a
modification is checked), and that handlers in flight together have met. A step of one
handler changes only what `ChangeBy` says, each with the kind of handler that does it, and
the lemmas about the other handlers are about this relation and not about each action.
`PendingStaysShown`, `ActiveWentThroughGit`, `DenialNeverRevokes` and
`RecordedUrlNeverChanges` follow, each with the one exception that TLC shows to be
necessary; `OrphansAreFailures` counts, step by step, merge requests without a row against
the failures.

**Projects.** `TypeCorrect` needs `BusyWithSomething`: a worker or a call that is not
idle holds a real job or project. `ReviewsStayInStep` proves that an approval in flight
holds the lock of its project alone and what it read still stands
(`ApprovalHoldsLock`), that the group it has created is recorded for no project yet
(`ApprovalOwnsGroup`), that recorded groups were created for the project that has them,
and that a resubmission in flight has a rejection on record behind it
(`RejectionIsOnRecord`; this, and not the status, is what survives of the unlocked
read). `ActiveGroupStaysOwn` follows together with it. `ReviewsImplementLifecycle` is
the refinement; `DecisionsExplainStatus` brings back what `ReviewIsOnRecord` proves of
the abstract life cycle: the last decision explains the status of a project that is not
under review, and no group is recorded for two projects.

**Jobs.** The second half of `ProjectProvisioningProofs` proves `RunningFlagIsReal`,
`RowIsResumePoint` and `UnfinishedIsVisible` from one inductive invariant, `JobInv`, on
top of the two above. None of the three is inductive. That a row is a resume point needs
what the running job has seen to at each of its places (`WorkerHasDone`, with the table
`doneBefore`), since a failure records no more than that; that an unfinished group stays
in sight needs that a job which stops has recorded its failure, was lost or has done
everything (`StoppedIsRecorded`), and must hold of the group of an approval that has yet
to commit, too (`Records`), because the job may be over before the approval is. Settings
of a group only grow (`GroupsGrow`), so what holds of the only group of a project survives
every step of others, and a second group only makes the premise false (`OnlyGroupStays`).
`WorkerMovesOn` has what all places of a job have in common, `JobsChange` what all
beginnings and ends have.

**The clone.** `GitInStep` is the inductive invariant of any number of calls that share
one clone: every tree of every branch, the index and the working files hold, at each
path, a document that is sound and belongs there (`SoundAt`, closed under everything git
does to trees: `PickedTreeIsSound`); what was filed was valid on its day; and a call
that has made a branch is the only one with that branch, which has no merge request yet
(`HandlerInStep`, `BranchesAreApart`). The last part rests on the look that comes before
the branch is made: it sees every branch of origin but those another call has made in
the clone since, which `git checkout -b` itself refuses, and `FreeSuffixIsFree` shows
by counting that a free suffix is among those tried. `FilesAreSound`,
`RefusalsComeLate` and `SettledAreLeftAlone` follow from it.

`CallsLeaveItReady` needs `StagedInTurn`: as long as nothing broke, a file that differs
from the index belongs to a call about to add it, an index that differs from the commit
to a call about to commit it, and somebody is on the way back whenever the base branch
is not checked out. `MergeRequestsAreTheirOwn` needs `OneAtATime`, what an undisturbed
call finds at each of its places; with it, the base branch is never ahead of origin, so
that no pull is refused and a new branch starts where it was last in step.

**The workspace.** `WorkspaceInStep` is one inductive invariant of accounts, members,
publications, the catalogue and ORCIDs, because a step of one writes rows another reads:
an invitation inserts users, a sign-in takes them over, a notification looks them up.
Of accounts (`AccountsInStep`) it says what the unique indexes alone do not: a row that
has been signed in bears an address that person has had, and a personal project of that
title; of a sign-in in progress (`SignInHolds`), that what it found still is its own row
or an invited one of its address, whatever has happened since the look-up. A notification
in progress writes no ORCID that Perun does not name for the person (`NoticeHolds`), and
an update under way for an approved publication has looked before the approval
(`PubCallHolds`).
`WorkspaceStaysInStep` proves it, handler by handler. Each handler of one table leaves
the calls of the others their premises, which the relations `UsersGoOn`,
`InvitationsGoOn`, `PubsGoOn` and `CallsGoOn` name: rows are added, a subject once set
stays, an invitation once queued is in the queue, sent or lost, a publication's decisions
only count up. `TablesStayConsistent` follows at once. `NobodyIsEverLockedOut` shows that
whoever has the person's subject or address is the row the sign-in would take, and which
projects, of all that share the unique indexes on titles and slugs, can stand in the way:
another's personal project through its slug alone, an ordinary project through its slug at
a first sign-in and through its title after a change of address. `MembershipsAlwaysAgree`
joins the invariant of invitations (`PendingIsInvited`, `ActiveHasJoined`) with what
`Rights` computes in each state of a project; `ApprovalsStand` is the action property,
from `PubCallHolds`.

**Downsampling.** The theorems are about any calendar, any days to record, any jumps of
the clock and any number of jobs at once; and for every `Once`, the empty set included,
with which jobs overlap and break off as often as they like. They see a row by its level
(a day, a week, a fortnight, a month: 3 to 0); phase `n` takes rows of level `n` and makes rows of level
`n - 1`. The lemmas about the calendar say that the days of one ISO week, and of one pair
of weeks, have their first day in common, and so that the rows a phase puts together stand
for days of one period (`SamePeriod`, `AggregateIsSound`); `LeastOfMany` (a finite set has
a least element in any total order, by well-foundedness of its subsets instead of an
induction) gives the first row and the largest value of a group. `DownsamplingInStep` is
the inductive invariant, and has a part for each property:

- `JobHolds`: a row a job has read is in the table as it was, or what it stands for now
  counts as displaced. With two jobs the stale copy is what gets aggregated, so that less
  than this would not do.
- `DaysAreKept`: each day that was not displaced is in a row *that no job is about to
  delete*. It is what makes writing before deleting safe at every step, for overlapping
  jobs and after a crash, and gives the first half of `KeptOnceAlways`; `DaysAreOnce` (of
  rows that stay a day is in one) gives the other, for undisturbed jobs.
- `NothingIsMissed`: with jobs at most 49 days apart, a row that is due was not at the last
  job, and the phase that takes it is to come, has it in a group or among the sources it
  will delete. From it follow that the lower bounds of the queries exclude nothing and
  `NothingIsStrandedEver`.
- `PeriodsAreMadeOnce`: a period that has a row was over at the last job or has been made
  by this one, so that a row found where an aggregate starts is not of the aggregate's own
  level. A coarser one would have been made before it was due (`FoundIsNotDue`), a finer
  one than those being taken should have been taken long ago (`FoundIsPast`); what is left
  is one of the tier being taken, an anchor (`TakenOnlyFromAnchorAlways`).

`DownsamplingTypes` adds the statistics up: the four tiers of `getRetentionStats` are
disjoint and complete because rows have the lengths of their levels.

**Usage.** The theorems are about any reports, projects, customers and any number of
collectors, aggregations and backfills at once. `UsageHasItsShapes` comes first: what an
aggregation remembers (the rows of its phase, the one it looked up, the row it will
replace) is made of events that are in the table, and stays so because events are only
added and change nothing but their project. Its lemmas about sums are those the model's
folds need: a total is additive over disjoint sets, it grows with its set, and a set of
numbers has a largest one. They make no use of induction over data: `Total` is defined by
a fold over a finite set, and each lemma takes a smallest set it fails for.

- `MappingInStep` extends `MappingIsRight` from the tables to what is about to be written:
  events in a batch, and the project an aggregation has found for a summary. Until a
  renaming overtakes one of these (`overtaken`), each still belongs to its project, since
  the slug of a project changes only when it is renamed and its owner never does
  (`OwnsStays`), and a renaming that overtakes nothing finds no batch and no aggregation
  under way and leaves nothing mapped to its project (`UnmappedAre`).
- `BackfillInStep` says where the usage of an approved project is that is not mapped to
  it: an event waits for the first statement of the backfill, a summary for the backfill
  or for an aggregation that covers its day and has not got to it, and no batch brings any
  (the mapper finds the slug in every form the backfill does: `MapperFinds`, the point at
  which a customer's name within a slug would do harm). It also needs that nothing is
  mapped to a project under review but what the mapper itself finds (`IsMapped`): a
  renaming unmaps all of it, and none of that may be usage of another project that was
  approved, since nothing would map it again.
- `CountsInStep` extends `NoOverCount` to what an aggregation is about to write: the rows
  of its phase and the summary it looked up, too, claim at most what the events in the
  table show. The table only grows (`IsGrown`), so that what was claimed stays true
  however old it is when it is written, and it stays true when another aggregation has
  written the same day meanwhile. An accounting row of a day and the summary before it
  speak of disjoint events (`WrittenCounts`): that the look-up asks for an earlier day is
  all that keeps usage from being added twice. Servers need more than the total: the
  invariant has each server's number in some event of the server (`SeenBy`), and
  `SeenIsAtMost` gets the total from it.

- `ExactInStep` is the lower bound that goes with `CountsInStep`, and holds while days
  come in order and one thing happens at a time (`orderly`). It says so first: one batch or
  one aggregation is under way and never both (`OneAtATime`), and the events of an earlier
  day come first, except of a day that is still to be aggregated (`EventsInOrder`), so that
  the last event of a server is of its last day. A row of a phase is exact when it is read,
  and stays so because no event comes while an aggregation is busy (`RowsExact`). What is
  added to it is exact because the summary before it is found, is the only one, and is of
  the last day with events of that use (`LookUpsExact`, `FoundBeforeExact`): that no
  earlier day is still awaited (`EarlierAreNotAwaited`) is what the order of days is
  needed for. Each event has its summary unless it waits for one (`EventsAreSummed`):
  `Waits` says by which phase it will be written, and an event leaves it only in the step
  that writes its row (`WaitsNoMore`). There is one summary of a use and day
  (`SummariesAreUnique`), since the look-up finds the one there is. `TotalsAreExact`
  follows at once.
- `OfferedIsAlwaysShown` puts these together. That a choice opens is seen from the
  functions of the dashboard alone (`SourcesAreShown`, `AllocationsAreShown`). That a total
  is at most what the project used takes all of the invariants: events mapped to it are
  its own (`MappingInStep`, and no renaming overtakes anything in order), a summary mapped
  to it is of events of its own (`UsesAreOwned`, for which a summary must have the very
  identities of one of its events) and claims no more than these (`CountsInStep`), and
  two summaries of a day share no event, since they would be the same one
  (`SummariesAreUnique`). Numbers that are each at most what events of their own used are
  together at most what all of them used: `DisjointUses`, which also bounds a summary of
  servers by its events.

What the proofs showed about the properties:

- The look-ups ask for no slug of personal PBS usage (`findSummaryByIdentity`), so that
  the summary of someone who has two is about both: `NoOverCount` counts a summary's
  events as the look-ups do (`IsUse`), and by slug alone it would be false. `ExactInOrder`
  is false for such a person even then, since one row replaces the other.
- It is false, too, for two users without a `perun_username`, whose rows of a day and slug
  are made one under the first one's identities, and for an OpenStack slug some of whose
  usage `isPersonal` and some not: the row takes the flag of its first event, and what is
  personal finds no summary of an earlier day. `IsPlain` names the three conditions.
- `OfferedIsShown` does not hold for the last two either, and for the same reason: the
  total of a group project's summary then has personal usage in it that is not the
  project's. TLC finds the trace for two events of one slug, one of them personal, that
  were aggregated before the project was requested: the next aggregation maps the summary,
  nothing maps the events, and the dashboard falls back to the summary. It does hold for
  a person with several slugs, so that it asks for `IsToldApart` only.
- A personal project gets no backfill when a first sign-in makes it, since only
  `approveProject` starts one: usage without `isPersonal` that bears its slug and came
  before stays unmapped, so that `BackfillIsComplete` speaks of projects that were approved
  (`IsServed`). And a slug is found again only if none of the customers' names begins it,
  alone or after another customer's (`IsRecognised`).

**Only model-checked.** The liveness properties `ApprovedIsProcessed` and
`ApprovedIsProvisioned` depend on fairness, which is beyond this prover. Every invariant
and every action property of a passing run is a theorem.

## 5. Where code and documentation disagree

| Run | What happens | What is promised |
|---|---|---|
| `alloc_one_active` | two allocations requested while neither is active are both activated: the check is made at the request only | "Only one active OpenStack allocation can exist for a project." |
| `stale_resubmission` | of two resubmissions that read the rejected status, the second sends a project back into review that has been approved since | "Project should be in rejected state." |
| `stale_row` | the failed stage left by the group of an abandoned approval makes the job of the next group skip stages and then remove the row | "everything successful, remove failed stage" |
| `monday_usage` | the summary of a Monday starts when its week does, is found as the week's existing summary, overwritten and then deleted among its sources | "reduce storage while preserving historical trends" |

The models contain more that a reader of the code may not expect. None of it has a run
of its own, because no document promises otherwise or because a plain reading shows it:

- *Allocations.* Two handlers on one allocation may undo each other's work
  (`AllocationMeetings`, section 2): a modification request is hidden for good, an active
  allocation becomes denied or was never proposed, a merge request is forgotten. Denying a request that is already approved lets a modification in
  although its merge request is open, against "Cannot modify allocation while merge
  request is still open." (`allocation.service.ts:544`). A modification moves the end
  date at once and a denial does not move it back, against "The request will need admin
  approval." (`allocation.controller.ts:147`).
- *The clone.* A call that checks out the base branch while another is about to commit
  makes that commit one on the base branch. From then on every pull is refused as soon as
  the base branch of GitLab moves, and with it every approval, until somebody repairs the
  clone. If only the last check-out of a call fails, the merge request is recorded, and the
  clone is left on its branch.
- *Sign-in.* A token from the cache carries no entitlements, so that a sign-in with it
  makes an admin a user until the next fresh one. The slug of a personal project drops
  dots and the at sign: two addresses can collide, and the second owner is refused. Titles
  and slugs are unique over all projects, and titles are free: an ordinary project titled
  as somebody's personal project will be, or with its slug, keeps that person from ever
  signing in for the first time. After a change of address an ordinary project titled after
  the new one does the same, and so does an invitation that made a row for it.
- *Members.* A removed member may accept the invitation again, and adding one again
  changes nothing. An admin may invite into a project without a group: the job fails,
  and its error is swallowed.
- *Publications.* Adding works in bulk fails for those the database does not know yet,
  for want of a URL. A number of 10 or 13 digits is taken for a PubMed id as well as for
  an ISBN, and so for neither. A work registered by its owner is stored as source and
  identifier and looked up by the identifier alone, so that it is stored twice.
  Removing a legacy publication of one project from another links it there. Assigning one
  clears its legacy project without making that a link.
- *Downsampling.* A job takes months before fortnights. After some eleven weeks without
  one it makes a month of the fortnights there are, and then the month's last fortnight of
  weeks that waited; the next job makes the month again, of that fortnight alone, and
  overwrites the first. The proof of `TakenOnlyFromAnchor` came upon this.
- *Usage.* Events of `pbsAcct` are mapped at ingestion and never backfilled. The
  customer prefix of an OpenStack project is removed at one place and kept at another.
  Personal OpenStack usage never finds the summary of the day before, so that servers
  that ran on count as new. Only the last batch of a request is aggregated, and only
  its days. Two aggregations of one day that overlap both insert, and the dashboard
  shows twice the usage. The rows of a day's personal PBS usage are told apart by slug,
  their summaries are found by the person alone: of two slugs on one day the row written
  last replaces the total of the other, under the other's slug. Users without a
  `perun_username` are added up as one. So is OpenStack usage of one slug, personal or not,
  under the flag and the identities of the day's first event.
- *Catalogue.* A required attribute is one whose key is given: an empty value passes
  and is dropped. The check comes before the transaction that writes, so that a type
  made required meanwhile is missing.
- *ORCIDs.* Two notifications that overlap leave the union of what they name, or one
  fails on the unique index and what came after in it is lost.

## 6. Plan

1. An abstract specification of usage (every event belongs to at most one project and
   counts once) that `ResourceUsage` implements when runs do not overlap, and then
   `UsageDownsampling` composed with it, which would show what an approval does to
   usage that has been compacted already.
2. An abstract specification of membership that `ProjectMembers` implements.

### Not modelled

- *Perun API client and the guard of the webhook:* a call that answers or fails, which
  is what the modules take it for.
- *Users, configuration, errors, mappers, controllers and DTOs:* they rename and check
  fields and keep no state of their own.
- *Database package:* entities and migrations; what unique indexes, foreign keys and
  cascades do is in the actions that meet them.
- *Command line interface:* seeds a database and generates test data.
- *Build and deployment.*

Left out of modelled parts: user scope and averages of the usage summaries, metrics
other than one number, the layout of YAML, the works of a researcher fetched from
ORCID, how the type of an identifier is told and resolved, filters of the catalogue.
