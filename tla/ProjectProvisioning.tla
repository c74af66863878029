-------------------------- MODULE ProjectProvisioning --------------------------
(***************************************************************************)
(* Review of projects and the set-up of their Perun groups.                *)
(*                                                                         *)
(* Approving a project is one database transaction that locks the project, *)
(* creates its group in Perun, queues the job that configures the group,   *)
(* and commits.  Perun and the queue are outside the transaction: when it  *)
(* rolls back, the group and the job stay.  The job runs in the BullMQ     *)
(* worker of the same server, in stages; the stage at which it failed is   *)
(* kept in the table GroupFailedStage, from which an admin repairs the     *)
(* group (synchronize) and from which the next job resumes.                *)
(*                                                                         *)
(* Handlers that touch nothing outside their own transaction and hold the  *)
(* row lock throughout are one step.  A title stands for a title and its   *)
(* slug.  Personal projects are never reviewed and have no group.          *)
(***************************************************************************)
EXTENDS Naturals, Sequences, FiniteSets

CONSTANTS
  Project,        \* all projects
  Title,          \* the titles applicants choose from
  Admin,          \* approvals that may be in flight at one time
  Applicant,      \* resubmissions that may be in flight at one time
  NoProject,      \* not a project
  NoTitle,        \* the title of a project nobody has requested yet
  MaxGroups,      \* bound on the groups of Perun
  MaxDecisions,   \* bound on the decisions on all projects together
  MaxQueue,       \* bound on the jobs waiting
  MaxTroubles     \* bound on the failures, lost jobs and restarts

ASSUME ProvisioningAssumption ==
  /\ NoProject \notin Project
  /\ NoTitle \notin Title
  /\ {MaxGroups, MaxDecisions, MaxQueue, MaxTroubles} \subseteq Nat

VARIABLES
  project,        \* Project -> ProjectRow
  decisions,      \* Project -> the approvals and rejections on record
  approval,       \* Admin -> the call of approveProject in flight
  resubmission,   \* Applicant -> the call of requestProjectAgain in flight
  group,          \* what Perun keeps: a sequence of GroupRow, its index the id
  queue,          \* the jobs waiting in the queue perunGroup
  worker,         \* the worker of that queue
  failedStage,    \* Project -> its row of GroupFailedStage
  lost,           \* projects one of whose jobs ended without what it should record
  troubles        \* failures and restarts so far

vars == <<project, decisions, approval, resubmission, group, queue, worker,
          failedStage, lost, troubles>>

NoGroup == 0
Group == 1 .. MaxGroups
ProjectStatus == {"new", "active", "rejected", "archived"}
ApprovalStatus == {"approved", "rejected"}

ProjectRow ==
  [status : ProjectStatus \cup {"none"}, title : Title \cup {NoTitle},
   group : Group \cup {NoGroup}]

\* The stages of a job, and the order of those a row may name.
stageIndex == [create_group |-> 0, copy_form |-> 1, copy_mails |-> 2,
               set_attributes |-> 3, set_user |-> 4]
Stage == DOMAIN stageIndex

\* What a job changes in Perun.
Setting == Stage \ {"create_group"}

GroupRow == [name : Title, project : Project, settings : SUBSET Setting]

Job == [group : Group, project : Project, stalled : BOOLEAN]
NoJob == [group |-> NoGroup, project |-> NoProject, stalled |-> FALSE]

\* GroupFailedStage: "none" where the project has no row.
FailedStageRow == [lastStage : Stage \cup {"none"}, isRunning : BOOLEAN]
NoRow == [lastStage |-> "none", isRunning |-> FALSE]

ApprovalState ==
  [pc : {"idle", "create", "enqueue", "commit"}, project : Project \cup {NoProject},
   title : Title \cup {NoTitle}, group : Group \cup {NoGroup}]
NoApproval == [pc |-> "idle", project |-> NoProject, title |-> NoTitle, group |-> NoGroup]

ResubmissionState ==
  [pc : {"idle", "update"}, project : Project \cup {NoProject}, title : Title \cup {NoTitle}]
NoResubmission == [pc |-> "idle", project |-> NoProject, title |-> NoTitle]

\* The places of PerunGroupConsumer.process: "create_group" is the reads before
\* the first stage, "finish" the removal of the row, "stop" the finally block.
nextPlace == [create_group |-> "copy_form", copy_form |-> "copy_mails",
              copy_mails |-> "set_attributes", set_attributes |-> "find_user",
              find_user |-> "set_user", set_user |-> "finish", finish |-> "stop"]
Place == DOMAIN nextPlace \cup {"stop"}

WorkerState ==
  [pc : Place \cup {"idle"}, job : Job \cup {NoJob}, lastStage : Stage \cup {"none"}]
Waiting == [pc |-> "idle", job |-> NoJob, lastStage |-> "none"]

Init ==
  /\ project = [p \in Project |-> [status |-> "none", title |-> NoTitle, group |-> NoGroup]]
  /\ decisions = [p \in Project |-> <<>>]
  /\ approval = [a \in Admin |-> NoApproval]
  /\ resubmission = [u \in Applicant |-> NoResubmission]
  /\ group = <<>>
  /\ queue = <<>>
  /\ worker = Waiting
  /\ failedStage = [p \in Project |-> NoRow]
  /\ lost = {}
  /\ troubles = 0

Trouble == troubles < MaxTroubles /\ troubles' = troubles + 1

TitleIsFree(t) == \A p \in Project : project[p].title # t

MoveTo(p, s) == project' = [project EXCEPT ![p].status = s]

Record(p, verdict) == decisions' = [decisions EXCEPT ![p] = Append(@, verdict)]

\* The bound on decisions counts those in flight.
RoomForDecision ==
  Cardinality(UNION {{p} \X DOMAIN decisions[p] : p \in Project})
    + Cardinality({a \in Admin : approval[a].pc # "idle"}) < MaxDecisions

reviewVars == <<project, decisions, approval, resubmission>>
jobVars == <<queue, worker, failedStage>>
perunVars == <<group, lost, troubles>>

-----------------------------------------------------------------------------
(* The requests of applicants                                              *)

RequestProject(p, t) ==
  /\ project[p].status = "none"
  /\ TitleIsFree(t)
  /\ project' = [project EXCEPT ![p].status = "new", ![p].title = t]
  /\ UNCHANGED <<decisions, approval, resubmission, jobVars, perunVars>>

\* Mutant: a SELECT without FOR UPDATE.
LockNothing(p) == TRUE

\* The row lock of lockProject, held until the transaction of the approval ends.
CanLock(p) == \A a \in Admin : approval[a].project # p

\* Mutant: the status of a resubmitted project is not looked at.
MayAlwaysResubmit(p) == project[p].status # "none"

\* requestProjectAgain reads the project without locking it.
MayResubmit(p) == project[p].status = "rejected"

BeginResubmit(u, p, t) ==
  /\ resubmission[u].pc = "idle"
  /\ MayResubmit(p)
  /\ resubmission' = [resubmission EXCEPT ![u] = [pc |-> "update", project |-> p, title |-> t]]
  /\ UNCHANGED <<project, decisions, approval, jobVars, perunVars>>

\* Its UPDATE waits for the row lock and looks at nothing but the project's id.
CommitResubmit(u) ==
  LET p == resubmission[u].project
      t == resubmission[u].title IN
  /\ resubmission[u].pc = "update"
  /\ CanLock(p)
  /\ t = project[p].title \/ TitleIsFree(t)
  /\ project' = [project EXCEPT ![p].status = "new", ![p].title = t]
  /\ resubmission' = [resubmission EXCEPT ![u] = NoResubmission]
  /\ UNCHANGED <<decisions, approval, jobVars, perunVars>>

\* The title is taken, or a query fails: the transaction rolls back.
AbandonResubmit(u) ==
  /\ resubmission[u].pc = "update"
  /\ resubmission' = [resubmission EXCEPT ![u] = NoResubmission]
  /\ UNCHANGED <<project, decisions, approval, jobVars, perunVars>>

-----------------------------------------------------------------------------
(* The decisions of admins                                                 *)

BeginApproval(a, p) ==
  /\ approval[a].pc = "idle"
  /\ CanLock(p)
  /\ project[p].status = "new"
  /\ RoomForDecision
  /\ approval' = [approval EXCEPT ![a] =
       [pc |-> "create", project |-> p, title |-> project[p].title, group |-> NoGroup]]
  /\ UNCHANGED <<project, decisions, resubmission, jobVars, perunVars>>

CreateGroup(a) ==
  /\ approval[a].pc = "create"
  /\ Len(group) < MaxGroups
  /\ \A g \in DOMAIN group : group[g].name # approval[a].title
  /\ group' = Append(group, [name |-> approval[a].title, project |-> approval[a].project,
                             settings |-> {}])
  /\ approval' = [approval EXCEPT ![a].pc = "enqueue", ![a].group = Len(group) + 1]
  /\ UNCHANGED <<project, decisions, resubmission, jobVars, lost, troubles>>

\* Perun refuses, be it because a group has that name already.
RefuseApproval(a) ==
  /\ approval[a].pc = "create"
  /\ approval' = [approval EXCEPT ![a] = NoApproval]
  /\ UNCHANGED <<project, decisions, resubmission, jobVars, perunVars>>

\* Mutant: createGroup returns before the job is queued.
EnqueueNothing(a) ==
  /\ approval[a].pc = "enqueue"
  /\ approval' = [approval EXCEPT ![a].pc = "commit"]
  /\ UNCHANGED <<project, decisions, resubmission, jobVars, perunVars>>

EnqueueSettings(a) ==
  /\ approval[a].pc = "enqueue"
  /\ Len(queue) < MaxQueue
  /\ queue' = Append(queue, [group |-> approval[a].group, project |-> approval[a].project,
                             stalled |-> FALSE])
  /\ approval' = [approval EXCEPT ![a].pc = "commit"]
  /\ UNCHANGED <<project, decisions, resubmission, worker, failedStage, perunVars>>

CommitApproval(a) ==
  LET p == approval[a].project IN
  /\ approval[a].pc = "commit"
  /\ project' = [project EXCEPT ![p].status = "active", ![p].group = approval[a].group]
  /\ Record(p, "approved")
  /\ approval' = [approval EXCEPT ![a] = NoApproval]
  /\ UNCHANGED <<resubmission, jobVars, perunVars>>

\* The transaction rolls back after Perun was called: what Perun and the queue
\* hold stays.
AbandonApproval(a) ==
  /\ approval[a].pc \in {"enqueue", "commit"}
  /\ Trouble
  /\ approval' = [approval EXCEPT ![a] = NoApproval]
  /\ UNCHANGED <<project, decisions, resubmission, jobVars, group, lost>>

\* Mutant: the insert of the rejection is forgotten.
RejectOffTheRecord(p) ==
  /\ CanLock(p)
  /\ project[p].status = "new"
  /\ RoomForDecision
  /\ MoveTo(p, "rejected")
  /\ UNCHANGED <<decisions, approval, resubmission, jobVars, perunVars>>

RejectProject(p) ==
  /\ CanLock(p)
  /\ project[p].status = "new"
  /\ RoomForDecision
  /\ MoveTo(p, "rejected")
  /\ Record(p, "rejected")
  /\ UNCHANGED <<approval, resubmission, jobVars, perunVars>>

ArchiveProject(p) ==
  /\ CanLock(p)
  /\ project[p].status = "active"
  /\ MoveTo(p, "archived")
  /\ UNCHANGED <<decisions, approval, resubmission, jobVars, perunVars>>

\* Whatever the status of the project, once it has a group; a status it had when
\* its group was created may be gone.
Synchronize(p) ==
  /\ project[p].group # NoGroup
  /\ Len(queue) < MaxQueue
  /\ queue' = Append(queue, [group |-> project[p].group, project |-> p, stalled |-> FALSE])
  /\ UNCHANGED <<reviewVars, worker, failedStage, perunVars>>

-----------------------------------------------------------------------------
(* The worker of the queue                                                 *)

WorkerAt(place) == worker.pc = place

WorkerGoesTo(place) == worker' = [worker EXCEPT !.pc = place]

NextPlace(place) == nextPlace[place]

\* Mutant: the recorded stage counts as done.
ShouldRunAfter(currentStage, lastStage) ==
  lastStage # "none" => stageIndex[currentStage] > stageIndex[lastStage]

ShouldRunStage(currentStage, lastStage) ==
  lastStage # "none" => stageIndex[currentStage] >= stageIndex[lastStage]

HasRow(p) == failedStage[p].lastStage # "none"

\* An UPDATE: without a row it changes nothing.
SetRunning(p, isRunning) ==
  failedStage' = IF HasRow(p) THEN [failedStage EXCEPT ![p].isRunning = isRunning]
                              ELSE failedStage

TakeJob ==
  /\ WorkerAt("idle")
  /\ queue # <<>>
  /\ worker' = [pc |-> "create_group", job |-> Head(queue), lastStage |-> "none"]
  /\ queue' = Tail(queue)
  /\ SetRunning(Head(queue).project, TRUE)
  /\ UNCHANGED <<reviewVars, perunVars>>

ReadLastStage ==
  /\ WorkerAt("create_group")
  /\ worker' = [worker EXCEPT !.pc = NextPlace("create_group"),
                              !.lastStage = failedStage[worker.job.project].lastStage]
  /\ UNCHANGED <<reviewVars, queue, failedStage, perunVars>>

Applied(setting) ==
  [group EXCEPT ![worker.job.group].settings = @ \cup {setting}]

RunStage ==
  /\ worker.pc \in Setting
  /\ group' = IF ShouldRunStage(worker.pc, worker.lastStage) THEN Applied(worker.pc) ELSE group
  /\ WorkerGoesTo(NextPlace(worker.pc))
  /\ UNCHANGED <<reviewVars, queue, failedStage, lost, troubles>>

FindUser ==
  /\ WorkerAt("find_user")
  /\ WorkerGoesTo(NextPlace("find_user"))
  /\ UNCHANGED <<reviewVars, queue, failedStage, perunVars>>

RemoveFailedStage ==
  /\ WorkerAt("finish")
  /\ failedStage' = [failedStage EXCEPT ![worker.job.project] = NoRow]
  /\ WorkerGoesTo("stop")
  /\ UNCHANGED <<reviewVars, queue, perunVars>>

\* Mutant: the place is recorded as it is.
CurrentPlace(place) == place

\* The variable currentStage: finding the user is still set_attributes, and
\* removing the row is still set_user.
CurrentStage(place) ==
  CASE place = "find_user" -> "set_attributes"
    [] place = "finish" -> "set_user"
    [] OTHER -> place

\* A place can fail if it awaits something there: a stage that is skipped does not.
CanFail ==
  \/ worker.pc \in {"create_group", "find_user", "finish"}
  \/ worker.pc \in Setting /\ ShouldRunStage(worker.pc, worker.lastStage)

\* Perun may have applied the stage that is reported as failed.
SettingsAfterFailure ==
  group' \in {group} \cup {Applied(setting) : setting \in {worker.pc} \cap Setting}

\* Mutant: the catch block updates the row instead of upserting it.
StageFailsUpdatingOnly ==
  /\ CanFail
  /\ Trouble
  /\ SettingsAfterFailure
  /\ failedStage' = IF HasRow(worker.job.project)
                    THEN [failedStage EXCEPT ![worker.job.project].lastStage = CurrentStage(worker.pc)]
                    ELSE failedStage
  /\ WorkerGoesTo("stop")
  /\ UNCHANGED <<reviewVars, queue, lost>>

\* The catch block.  Its upsert leaves isRunning of an existing row alone.
StageFails ==
  /\ CanFail
  /\ Trouble
  /\ SettingsAfterFailure
  /\ failedStage' = [failedStage EXCEPT ![worker.job.project].lastStage = CurrentStage(worker.pc)]
  /\ WorkerGoesTo("stop")
  /\ UNCHANGED <<reviewVars, queue, lost>>

\* Mutant: no finally block.
StopSilently ==
  /\ WorkerAt("stop")
  /\ worker' = Waiting
  /\ UNCHANGED <<reviewVars, queue, failedStage, perunVars>>

\* The finally block.
StopRunning ==
  /\ WorkerAt("stop")
  /\ SetRunning(worker.job.project, FALSE)
  /\ worker' = Waiting
  /\ UNCHANGED <<reviewVars, queue, perunVars>>

Lose(p) == Trouble /\ lost' = lost \cup {p}

\* setRunning rejects before the try block: the job fails and nothing says so.
FailBeforeStart ==
  /\ WorkerAt("idle")
  /\ queue # <<>>
  /\ Lose(Head(queue).project)
  /\ queue' = Tail(queue)
  /\ UNCHANGED <<reviewVars, worker, failedStage, group>>

\* A stage fails, and then the upsert in the catch block does.
FailUnrecorded ==
  /\ CanFail
  /\ Lose(worker.job.project)
  /\ SettingsAfterFailure
  /\ WorkerGoesTo("stop")
  /\ UNCHANGED <<reviewVars, queue, failedStage>>

\* setRunning rejects in the finally block.
StayRunning ==
  /\ WorkerAt("stop")
  /\ Lose(worker.job.project)
  /\ worker' = Waiting
  /\ UNCHANGED <<reviewVars, queue, failedStage, group>>

-----------------------------------------------------------------------------
(* The server stops and starts again: transactions roll back, and BullMQ   *)
(* gives the job of the worker back to the queue as stalled, but only once. *)

Requeue ==
  IF WorkerAt("idle") \/ worker.job.stalled
  THEN queue
  ELSE <<[worker.job EXCEPT !.stalled = TRUE]>> \o queue

Restart ==
  /\ Trouble
  /\ approval' = [a \in Admin |-> NoApproval]
  /\ resubmission' = [u \in Applicant |-> NoResubmission]
  /\ queue' = Requeue
  /\ lost' = IF worker.job.stalled THEN lost \cup {worker.job.project} ELSE lost
  /\ worker' = Waiting
  /\ UNCHANGED <<project, decisions, group, failedStage>>

-----------------------------------------------------------------------------

ApplicantStep(u) ==
  \/ \E p \in Project, t \in Title : BeginResubmit(u, p, t)
  \/ CommitResubmit(u)
  \/ AbandonResubmit(u)

AdminStep(a) ==
  \/ \E p \in Project : BeginApproval(a, p)
  \/ CreateGroup(a)
  \/ RefuseApproval(a)
  \/ EnqueueSettings(a)
  \/ CommitApproval(a)
  \/ AbandonApproval(a)

ProjectStep(p) ==
  \/ \E t \in Title : RequestProject(p, t)
  \/ RejectProject(p)
  \/ ArchiveProject(p)
  \/ Synchronize(p)

JobStep ==
  TakeJob \/ ReadLastStage \/ RunStage \/ FindUser \/ RemoveFailedStage \/ StopRunning

JobTrouble == StageFails \/ FailBeforeStart \/ FailUnrecorded \/ StayRunning

Next ==
  \/ \E u \in Applicant : ApplicantStep(u)
  \/ \E a \in Admin : AdminStep(a)
  \/ \E p \in Project : ProjectStep(p)
  \/ JobStep
  \/ JobTrouble
  \/ Restart

Spec == Init /\ [][Next]_vars

\* The worker takes waiting jobs, and Node resumes it when an await answers.
FairSpec == Spec /\ WF_vars(JobStep)

-----------------------------------------------------------------------------
(* Properties                                                              *)

\* Every variable keeps to its table, queue or program counters.
TypeOK ==
  /\ project \in [Project -> ProjectRow]
  /\ decisions \in [Project -> Seq(ApprovalStatus)]
  /\ approval \in [Admin -> ApprovalState]
  /\ resubmission \in [Applicant -> ResubmissionState]
  /\ group \in Seq(GroupRow)
  /\ Len(group) <= MaxGroups
  /\ queue \in Seq(Job)
  /\ worker \in WorkerState
  /\ failedStage \in [Project -> FailedStageRow]
  /\ lost \subseteq Project
  /\ troubles \in 0 .. MaxTroubles

\* Project review keeps its promise (ProjectLifecycle): the row lock of
\* approveProject, rejectProject and archiveProject makes every committed
\* decision one on a project under review, though Perun is called in between,
\* and only a project that has been rejected comes back into review.
Lifecycle == INSTANCE ProjectLifecycle WITH
  status <- [p \in Project |-> project[p].status],
  groupOf <- [p \in Project |-> project[p].group]

ImplementsLifecycle == Lifecycle!Spec

\* The group recorded for an active or archived project is one created for
\* this very project, and it bears the title the project has: the title that
\* approveProject read before it called Perun did not change behind its back.
ActiveGroupIsOwn ==
  \A p \in Project :
    project[p].status \in {"active", "archived"} =>
      /\ project[p].group \in DOMAIN group
      /\ group[project[p].group].project = p
      /\ group[project[p].group].name = project[p].title

\* An approval in flight holds the lock of its project alone, and what it read
\* of the project under that lock still stands.
ApprovalHoldsLock ==
  /\ \A a \in Admin :
       LET p == approval[a].project IN
       IF approval[a].pc = "idle"
       THEN p = NoProject
       ELSE p \in Project /\ project[p].status = "new" /\ project[p].title = approval[a].title
  /\ \A a, b \in Admin :
       approval[a].pc # "idle" /\ approval[a].project = approval[b].project => a = b

\* The group an approval in flight has created is its project's, bears the title
\* the approval read, and is recorded for no project yet.
ApprovalOwnsGroup ==
  \A a \in Admin :
    approval[a].pc \in {"enqueue", "commit"} =>
      LET g == approval[a].group IN
      /\ g \in DOMAIN group
      /\ group[g].project = approval[a].project
      /\ group[g].name = approval[a].title
      /\ \A q \in Project : project[q].group # g

\* A group recorded for a project was created for it.
RecordedGroupIsOwn ==
  \A p \in Project :
    project[p].group # NoGroup =>
      project[p].group \in DOMAIN group /\ group[project[p].group].project = p

WasRejected(p) == \E i \in DOMAIN decisions[p] : decisions[p][i] = "rejected"

\* Neither a rejected project nor one being resubmitted lacks a rejection on
\* record.
RejectionIsOnRecord ==
  /\ \A p \in Project : project[p].status = "rejected" => WasRejected(p)
  /\ \A u \in Applicant :
       resubmission[u].pc = "update" =>
         resubmission[u].project \in Project /\ resubmission[u].title \in Title
           /\ WasRejected(resubmission[u].project)

\* What approvals and resubmissions in flight rely on while they await Perun and
\* the database: the lock, the group created and the rejection they read of.
ReviewInStep ==
  ApprovalHoldsLock /\ ApprovalOwnsGroup /\ RecordedGroupIsOwn /\ RejectionIsOnRecord

GroupsOf(p) == {g \in DOMAIN group : group[g].project = p}

Configured(g) == group[g].settings = Setting

JobPending(p) ==
  worker.job.project = p \/ \E i \in DOMAIN queue : queue[i].project = p

\* A project with a group that is not fully set up is never out of sight: it has
\* a row among the failed projects of the admins, or a job for it is waiting or
\* running, unless a job died without recording anything or the project has had
\* two groups.
UnfinishedIsVisible ==
  \A p \in Project :
    project[p].group # NoGroup /\ ~Configured(project[p].group) =>
      HasRow(p) \/ JobPending(p) \/ p \in lost \/ Cardinality(GroupsOf(p)) > 1

\* What a row of GroupFailedStage lets the next job skip has been applied to the
\* project's group, as long as the project has had only one: resuming from the
\* recorded stage, after failures, restarts and synchronisations, omits nothing.
RowIsResumePoint ==
  \A p \in Project : \A g \in DOMAIN group :
    HasRow(p) /\ GroupsOf(p) = {g} =>
      {setting \in Setting : ~ShouldRunStage(setting, failedStage[p].lastStage)}
        \subseteq group[g].settings

\* An admin who is told that the job of a project is running is not told so for
\* good: the worker has such a job, or one interrupted by a restart will be run
\* again, unless a job of the project was lost.
RunningFlagIsReal ==
  \A p \in Project :
    failedStage[p].isRunning =>
      \/ worker.job.project = p
      \/ \E i \in DOMAIN queue : queue[i].project = p /\ queue[i].stalled
      \/ p \in lost

\* An approved project gets its group set up, or ends up listed among the failed
\* projects with no job running, for an admin to repair, with the exceptions of
\* UnfinishedIsVisible and of a project that left the status active.
Settled(p) ==
  \/ project[p].status # "active"
  \/ Configured(project[p].group)
  \/ HasRow(p) /\ ~failedStage[p].isRunning
  \/ p \in lost
  \/ Cardinality(GroupsOf(p)) > 1

ApprovedIsProvisioned ==
  \A p \in Project : project[p].status = "active" ~> Settled(p)

\* What the API says of re-requesting a project: only one in rejected state goes
\* back into review.
OnlyRejectedIsResubmitted ==
  [][\A p \in Project :
       project'[p].status = "new" => project[p].status \in {"none", "rejected", "new"}]_vars

\* What the comment in the consumer says when it removes a row: everything was
\* successful, so the group the job configured has every setting.
RemovedRowMeansSuccess ==
  [][\A p \in Project :
       HasRow(p) /\ ~HasRow(p)' => Configured(worker.job.group)]_vars
=============================================================================
