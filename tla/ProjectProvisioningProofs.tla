----------------------- MODULE ProjectProvisioningProofs -----------------------
(* Theorems about project review and group set-up, for any number of        *)
(* projects, titles, handlers, failures, restarts and any bounds.           *)
EXTENDS ProjectProvisioning, SequenceTheorems, FiniteSetTheorems, TLAPS

-----------------------------------------------------------------------------
(* Types                                                                   *)

\* Beside TypeOK: whoever is busy has been given something to be busy with.
BusyWithSomething ==
  /\ \A p \in Project : project[p].status # "none" => project[p].title \in Title
  /\ \A a \in Admin : approval[a].pc # "idle" =>
       /\ approval[a].project \in Project /\ approval[a].title \in Title
       /\ project[approval[a].project].status # "none"
  /\ \A a \in Admin : approval[a].pc \in {"enqueue", "commit"} => approval[a].group \in Group
  /\ \A u \in Applicant : resubmission[u].pc = "update" =>
       resubmission[u].project \in Project /\ resubmission[u].title \in Title
  /\ worker.pc # "idle" => worker.job \in Job

TypeInv == TypeOK /\ BusyWithSomething

LEMMA Waits == Waiting \in WorkerState
BY DEF Waiting, WorkerState, NoJob

LEMMA RowTypes ==
  /\ NoRow \in FailedStageRow
  /\ NoApproval \in ApprovalState
  /\ NoResubmission \in ResubmissionState
BY DEF NoRow, FailedStageRow, NoApproval, ApprovalState, NoResubmission, ResubmissionState

LEMMA TypeStart == Init => TypeInv
<1> SUFFICES ASSUME Init PROVE TypeInv
  OBVIOUS
<1>1. project \in [Project -> ProjectRow] /\ decisions \in [Project -> Seq(ApprovalStatus)]
  BY DEF Init, ProjectRow, ProjectStatus
<1>2. approval \in [Admin -> ApprovalState] /\ resubmission \in [Applicant -> ResubmissionState]
  BY RowTypes DEF Init
<1>3. group \in Seq(GroupRow) /\ Len(group) <= MaxGroups /\ queue \in Seq(Job)
  BY ProvisioningAssumption DEF Init
<1>4. worker \in WorkerState /\ failedStage \in [Project -> FailedStageRow]
  BY Waits, RowTypes DEF Init
<1>5. lost \subseteq Project /\ troubles \in 0 .. MaxTroubles
  BY ProvisioningAssumption DEF Init
<1>6. BusyWithSomething
  BY DEF Init, BusyWithSomething, NoApproval, NoResubmission, Waiting
<1> QED BY <1>1, <1>2, <1>3, <1>4, <1>5, <1>6 DEF TypeInv, TypeOK

LEMMA Troubles ==
  ASSUME troubles \in 0 .. MaxTroubles, Trouble
  PROVE  troubles' \in 0 .. MaxTroubles
BY ProvisioningAssumption DEF Trouble

LEMMA ApplicantTypes ==
  ASSUME TypeInv, NEW u \in Applicant, ApplicantStep(u)
  PROVE  TypeInv'
<1>t. TypeOK /\ BusyWithSomething
  BY DEF TypeInv
<1>1. ASSUME NEW p \in Project, NEW t \in Title, BeginResubmit(u, p, t) PROVE TypeInv'
  <2>1. [pc |-> "update", project |-> p, title |-> t] \in ResubmissionState
    BY DEF ResubmissionState
  <2>2. TypeOK'
    BY <1>t, <1>1, <2>1 DEF BeginResubmit, jobVars, perunVars, TypeOK
  <2>3. BusyWithSomething'
    BY <1>t, <1>1 DEF BeginResubmit, jobVars, perunVars, TypeOK, BusyWithSomething
  <2> QED BY <2>2, <2>3 DEF TypeInv
<1>2. CASE CommitResubmit(u)
  <2>1. resubmission[u].project \in Project /\ resubmission[u].title \in Title
    BY <1>t, <1>2 DEF CommitResubmit, BusyWithSomething
  <2>2. project' = [project EXCEPT ![resubmission[u].project] =
                      [@ EXCEPT !.status = "new", !.title = resubmission[u].title]]
    BY <1>2, <1>t, <2>1 DEF CommitResubmit, TypeOK, ProjectRow
  <2>5. project' \in [Project -> ProjectRow]
    BY <1>t, <2>1, <2>2 DEF TypeOK, ProjectRow, ProjectStatus
  <2>6. resubmission' = [resubmission EXCEPT ![u] = NoResubmission]
          /\ UNCHANGED <<decisions, approval, queue, worker, failedStage, group, lost, troubles>>
    BY <1>2 DEF CommitResubmit, jobVars, perunVars
  <2>3. TypeOK'
    BY <1>t, <2>5, <2>6, RowTypes DEF TypeOK
  <2>4. BusyWithSomething'
    BY <1>t, <1>2, <2>1, <2>2
    DEF CommitResubmit, jobVars, perunVars, TypeOK, BusyWithSomething, NoResubmission, ProjectRow
  <2> QED BY <2>3, <2>4 DEF TypeInv
<1>3. CASE AbandonResubmit(u)
  <2>1. TypeOK'
    BY <1>t, <1>3, RowTypes DEF AbandonResubmit, jobVars, perunVars, TypeOK
  <2>2. BusyWithSomething'
    BY <1>t, <1>3 DEF AbandonResubmit, jobVars, perunVars, BusyWithSomething, NoResubmission, TypeOK
  <2> QED BY <2>1, <2>2 DEF TypeInv
<1> QED BY <1>1, <1>2, <1>3 DEF ApplicantStep

LEMMA AdminTypes ==
  ASSUME TypeInv, NEW a \in Admin, AdminStep(a)
  PROVE  TypeInv'
<1>t. TypeOK /\ BusyWithSomething
  BY DEF TypeInv
<1>a. approval[a] \in ApprovalState
  BY <1>t DEF TypeOK
<1>1. ASSUME NEW p \in Project, BeginApproval(a, p) PROVE TypeInv'
  <2> DEFINE begun == [pc |-> "create", project |-> p, title |-> project[p].title, group |-> NoGroup]
  <2>1. project[p].title \in Title
    BY <1>t, <1>1 DEF BeginApproval, BusyWithSomething
  <2>2. begun \in ApprovalState
    BY <2>1 DEF ApprovalState
  <2>3. approval' = [approval EXCEPT ![a] = begun]
    BY <1>1 DEF BeginApproval
  <2>4. begun.project = p /\ begun.title = project[p].title /\ begun.pc = "create"
    OBVIOUS
  <2> HIDE DEF begun
  <2>5. TypeOK'
    BY <1>t, <1>1, <2>2, <2>3 DEF BeginApproval, jobVars, perunVars, TypeOK
  <2>6. BusyWithSomething'
    BY <1>t, <1>1, <2>1, <2>3, <2>4
    DEF BeginApproval, jobVars, perunVars, TypeOK, BusyWithSomething
  <2> QED BY <2>5, <2>6 DEF TypeInv
<1>2. CASE CreateGroup(a)
  <2> DEFINE row == [name |-> approval[a].title, project |-> approval[a].project, settings |-> {}]
  <2> DEFINE created == [approval[a] EXCEPT !.pc = "enqueue", !.group = Len(group) + 1]
  <2>1. approval[a].project \in Project /\ approval[a].title \in Title
    BY <1>t, <1>2 DEF CreateGroup, BusyWithSomething
  <2>2. Len(group) + 1 \in Group
    BY <1>t, <1>2, ProvisioningAssumption DEF CreateGroup, Group, TypeOK
  <2>3. row \in GroupRow
    BY <2>1 DEF GroupRow
  <2>4. created \in ApprovalState /\ created.project = approval[a].project
          /\ created.title = approval[a].title /\ created.group = Len(group) + 1
    BY <1>a, <2>2 DEF ApprovalState
  <2>5. approval' = [approval EXCEPT ![a] = created] /\ group' = Append(group, row)
    BY <1>2, <1>a, <1>t DEF CreateGroup, ApprovalState, TypeOK
  <2> HIDE DEF row, created
  <2>6. group' \in Seq(GroupRow) /\ Len(group') <= MaxGroups
    BY <1>t, <1>2, <2>3, <2>5, ProvisioningAssumption DEF CreateGroup, TypeOK
  <2>7. TypeOK'
    BY <1>t, <1>2, <2>4, <2>5, <2>6 DEF CreateGroup, jobVars, TypeOK
  <2>8. BusyWithSomething'
    BY <1>t, <1>2, <2>1, <2>2, <2>4, <2>5 DEF CreateGroup, jobVars, TypeOK, BusyWithSomething
  <2> QED BY <2>7, <2>8 DEF TypeInv
<1>3. ASSUME approval' = [approval EXCEPT ![a] = NoApproval],
             UNCHANGED <<project, resubmission, jobVars, group, lost>>,
             decisions' \in [Project -> Seq(ApprovalStatus)],
             troubles' \in 0 .. MaxTroubles
      PROVE  TypeInv'
  <2>1. TypeOK'
    BY <1>t, <1>3, RowTypes DEF jobVars, TypeOK
  <2>2. BusyWithSomething'
    BY <1>t, <1>3 DEF jobVars, TypeOK, BusyWithSomething, NoApproval
  <2> QED BY <2>1, <2>2 DEF TypeInv
<1>4. CASE RefuseApproval(a)
  BY <1>t, <1>3, <1>4 DEF RefuseApproval, TypeOK, perunVars
<1>5. CASE EnqueueSettings(a)
  <2> DEFINE job == [group |-> approval[a].group, project |-> approval[a].project, stalled |-> FALSE]
  <2> DEFINE queued == [approval[a] EXCEPT !.pc = "commit"]
  <2>1. job \in Job
    BY <1>t, <1>5 DEF EnqueueSettings, BusyWithSomething, Job
  <2>2. queued \in ApprovalState /\ queued.project = approval[a].project
          /\ queued.title = approval[a].title /\ queued.group = approval[a].group
    BY <1>a DEF ApprovalState
  <2>3. approval' = [approval EXCEPT ![a] = queued] /\ queue' = Append(queue, job)
    BY <1>5 DEF EnqueueSettings
  <2> HIDE DEF job, queued
  <2>6. queue' \in Seq(Job)
    BY <1>t, <2>1, <2>3 DEF TypeOK
  <2>7. approval' \in [Admin -> ApprovalState]
    BY <1>t, <2>2, <2>3 DEF TypeOK
  <2>8. UNCHANGED <<project, decisions, resubmission, worker, failedStage, group, lost, troubles>>
    BY <1>5 DEF EnqueueSettings, perunVars
  <2>4. TypeOK'
    BY <1>t, <2>6, <2>7, <2>8 DEF TypeOK
  <2>5. BusyWithSomething'
    BY <1>t, <1>5, <2>2, <2>3 DEF EnqueueSettings, perunVars, TypeOK, BusyWithSomething
  <2> QED BY <2>4, <2>5 DEF TypeInv
<1>6. CASE CommitApproval(a)
  <2>1. approval[a].project \in Project /\ approval[a].group \in Group
    BY <1>t, <1>6 DEF CommitApproval, BusyWithSomething
  <2>2. project' = [project EXCEPT ![approval[a].project] =
                      [@ EXCEPT !.status = "active", !.group = approval[a].group]]
    BY <1>6, <1>t, <2>1 DEF CommitApproval, TypeOK, ProjectRow
  <2>3. project' \in [Project -> ProjectRow]
    BY <1>t, <2>1, <2>2 DEF TypeOK, ProjectRow, ProjectStatus
  <2>4. decisions' \in [Project -> Seq(ApprovalStatus)]
    BY <1>t, <1>6, <2>1 DEF CommitApproval, Record, TypeOK, ApprovalStatus
  <2>5. TypeOK'
    BY <1>t, <1>6, <2>3, <2>4, RowTypes DEF CommitApproval, jobVars, perunVars, TypeOK
  <2>6. \A p \in Project : project'[p].title = project[p].title
          /\ (p # approval[a].project => project'[p].status = project[p].status)
    BY <1>t, <2>1, <2>2 DEF TypeOK, ProjectRow
  <2>7. /\ project'[approval[a].project].status = "active"
        /\ project[approval[a].project].title \in Title
    BY <1>t, <1>6, <2>1, <2>2 DEF CommitApproval, BusyWithSomething, TypeOK, ProjectRow
  <2>8. BusyWithSomething'
    BY <1>t, <1>6, <2>6, <2>7
    DEF CommitApproval, jobVars, perunVars, TypeOK, BusyWithSomething, NoApproval
  <2> QED BY <2>5, <2>8 DEF TypeInv
<1>7. CASE AbandonApproval(a)
  BY <1>t, <1>3, <1>7, Troubles DEF AbandonApproval, TypeOK
<1> QED BY <1>1, <1>2, <1>4, <1>5, <1>6, <1>7 DEF AdminStep

\* A project that gets a status, and the title it has or a new one.
LEMMA MovedProject ==
  ASSUME TypeInv, NEW p \in Project, NEW st \in ProjectStatus,
         MoveTo(p, st),
         project[p].status # "none",
         decisions' \in [Project -> Seq(ApprovalStatus)],
         UNCHANGED <<approval, resubmission, jobVars, perunVars>>
  PROVE  TypeInv'
<1>t. TypeOK /\ BusyWithSomething
  BY DEF TypeInv
<1>1. project' = [project EXCEPT ![p] = [@ EXCEPT !.status = st]]
  BY DEF MoveTo
<1>2. project' \in [Project -> ProjectRow]
  BY <1>t, <1>1 DEF TypeOK, ProjectRow
<1>3. TypeOK'
  BY <1>t, <1>2 DEF TypeOK, jobVars, perunVars
<1>4. st # "none"
  BY DEF ProjectStatus
<1>5. \A q \in Project : /\ project'[q].title = project[q].title
                         /\ project'[q].status = "none" <=> project[q].status = "none"
  BY <1>t, <1>1, <1>4 DEF TypeOK, ProjectRow
<1>6. BusyWithSomething'
  BY <1>t, <1>5 DEF BusyWithSomething, jobVars, perunVars
<1> QED BY <1>3, <1>6 DEF TypeInv

LEMMA ProjectTypes ==
  ASSUME TypeInv, NEW p \in Project, ProjectStep(p)
  PROVE  TypeInv'
<1>t. TypeOK /\ BusyWithSomething
  BY DEF TypeInv
<1>1. ASSUME NEW t \in Title, RequestProject(p, t) PROVE TypeInv'
  <2>1. project' = [project EXCEPT ![p] = [@ EXCEPT !.status = "new", !.title = t]]
    BY <1>1, <1>t DEF RequestProject, TypeOK, ProjectRow
  <2>2. project' \in [Project -> ProjectRow]
    BY <1>t, <2>1 DEF TypeOK, ProjectRow, ProjectStatus
  <2>3. UNCHANGED <<decisions, approval, resubmission, queue, worker, failedStage, group, lost, troubles>>
    BY <1>1 DEF RequestProject, jobVars, perunVars
  <2>4. TypeOK'
    BY <1>t, <2>2, <2>3 DEF TypeOK
  <2>5. project'[p].status # "none" /\ project'[p].title \in Title
    BY <1>t, <2>1 DEF TypeOK, ProjectRow
  <2>6. \A q \in Project : q # p => project'[q] = project[q]
    BY <1>t, <2>1 DEF TypeOK
  <2>7. BusyWithSomething'
    BY <1>t, <2>3, <2>5, <2>6 DEF BusyWithSomething
  <2> QED BY <2>4, <2>7 DEF TypeInv
<1>2. CASE RejectProject(p)
  <2>1. decisions' \in [Project -> Seq(ApprovalStatus)]
    BY <1>t, <1>2 DEF RejectProject, Record, TypeOK, ApprovalStatus
  <2>2. "rejected" \in ProjectStatus
    BY DEF ProjectStatus
  <2> QED BY <1>2, <2>1, <2>2, MovedProject DEF RejectProject
<1>3. CASE ArchiveProject(p)
  <2>1. decisions' \in [Project -> Seq(ApprovalStatus)]
    BY <1>t, <1>3 DEF ArchiveProject, TypeOK
  <2>2. "archived" \in ProjectStatus
    BY DEF ProjectStatus
  <2> QED BY <1>3, <2>1, <2>2, MovedProject DEF ArchiveProject
<1>4. CASE Synchronize(p)
  <2> DEFINE job == [group |-> project[p].group, project |-> p, stalled |-> FALSE]
  <2>1. job \in Job
    BY <1>t, <1>4 DEF Synchronize, Job, TypeOK, ProjectRow
  <2>2. queue' = Append(queue, job)
    BY <1>4 DEF Synchronize
  <2> HIDE DEF job
  <2>3. queue' \in Seq(Job)
    BY <1>t, <2>1, <2>2 DEF TypeOK
  <2>4. UNCHANGED <<project, decisions, approval, resubmission, worker, failedStage, group, lost, troubles>>
    BY <1>4 DEF Synchronize, reviewVars, perunVars
  <2>5. TypeOK'
    BY <1>t, <2>3, <2>4 DEF TypeOK
  <2>6. BusyWithSomething'
    BY <1>t, <2>4 DEF BusyWithSomething
  <2> QED BY <2>5, <2>6 DEF TypeInv
<1> QED BY <1>1, <1>2, <1>3, <1>4 DEF ProjectStep

\* The worker, the queue and what jobs write; no review step is involved.
LEMMA JobTypesSuffice ==
  ASSUME TypeInv, UNCHANGED reviewVars,
         group' \in Seq(GroupRow), Len(group') <= MaxGroups,
         queue' \in Seq(Job),
         worker' \in WorkerState, worker'.pc # "idle" => worker'.job \in Job,
         failedStage' \in [Project -> FailedStageRow],
         lost' \subseteq Project,
         troubles' \in 0 .. MaxTroubles
  PROVE  TypeInv'
BY DEF TypeInv, TypeOK, BusyWithSomething, reviewVars

LEMMA SetRunningType ==
  ASSUME TypeInv, NEW p \in Project, NEW flag \in BOOLEAN, SetRunning(p, flag)
  PROVE  failedStage' \in [Project -> FailedStageRow]
<1>1. failedStage \in [Project -> FailedStageRow]
  BY DEF TypeInv, TypeOK
<1>2. CASE HasRow(p)
  <2>1. failedStage' = [failedStage EXCEPT ![p] = [@ EXCEPT !.isRunning = flag]]
    BY <1>2 DEF SetRunning
  <2> QED BY <1>1, <2>1 DEF FailedStageRow
<1>3. CASE ~HasRow(p)
  BY <1>1, <1>3 DEF SetRunning
<1> QED BY <1>2, <1>3

LEMMA AppliedType ==
  ASSUME group \in Seq(GroupRow), NEW setting \in Setting
  PROVE  Applied(setting) \in Seq(GroupRow) /\ Len(Applied(setting)) = Len(group)
<1> DEFINE g == worker.job.group
<1> DEFINE row == [group[g] EXCEPT !.settings = @ \cup {setting}]
<1>1. Applied(setting) = [group EXCEPT ![g] = row]
  BY DEF Applied
<1>2. Len(group) \in Nat /\ DOMAIN group = 1 .. Len(group)
  BY LenProperties
<1>3. CASE g \in 1 .. Len(group)
  <2>1. group[g] \in GroupRow
    BY <1>3, ElementOfSeq
  <2>2. row \in GroupRow
    BY <2>1 DEF GroupRow
  <2> HIDE DEF row, g
  <2> QED BY <1>1, <1>3, <2>2, ExceptSeq
<1>4. CASE g \notin 1 .. Len(group)
  <2> HIDE DEF row, g
  <2>1. [group EXCEPT ![g] = row] = group
    BY <1>2, <1>4, LenProperties
  <2> QED BY <1>1, <2>1
<1> QED BY <1>3, <1>4

LEMMA MovedWorker ==
  ASSUME TypeInv, NEW place \in Place, WorkerGoesTo(place), worker.pc # "idle"
  PROVE  worker' \in WorkerState /\ worker'.job \in Job /\ worker.job.project \in Project
<1>1. worker \in WorkerState /\ worker.job \in Job
  BY DEF TypeInv, TypeOK, BusyWithSomething
<1> QED BY <1>1 DEF WorkerGoesTo, WorkerState, Job

LEMMA NextPlaces ==
  /\ \A place \in Place \ {"stop"} : NextPlace(place) \in Place
  /\ Setting \subseteq Place \ {"stop"}
  /\ "stop" \in Place /\ "find_user" \in Place /\ "create_group" \in Place
  /\ "idle" \notin Place
  /\ \A place \in {"create_group", "find_user", "finish"} \cup Setting :
       CurrentStage(place) \in Stage
BY DEF Place, nextPlace, NextPlace, Setting, Stage, stageIndex, CurrentStage

LEMMA JobTypes ==
  ASSUME TypeInv, JobStep
  PROVE  TypeInv'
<1>t. TypeOK /\ BusyWithSomething
  BY DEF TypeInv
<1>1. CASE TakeJob
  <2> DEFINE taken == [pc |-> "create_group", job |-> Head(queue), lastStage |-> "none"]
  <2>1. queue \in Seq(Job) /\ queue # <<>>
    BY <1>t, <1>1 DEF TakeJob, TypeOK
  <2>2. Head(queue) \in Job /\ Tail(queue) \in Seq(Job)
    BY <2>1
  <2>3. taken \in WorkerState /\ taken.job \in Job
    BY <2>2, NextPlaces DEF WorkerState
  <2>4. worker' = taken /\ queue' = Tail(queue)
    BY <1>1 DEF TakeJob
  <2> HIDE DEF taken
  <2>5. Head(queue).project \in Project
    BY <2>2 DEF Job
  <2>6. failedStage' \in [Project -> FailedStageRow]
    BY <1>1, <2>5, SetRunningType DEF TakeJob
  <2>7. UNCHANGED reviewVars /\ UNCHANGED <<group, lost, troubles>>
    BY <1>1 DEF TakeJob, perunVars
  <2> QED BY <1>t, <2>2, <2>3, <2>4, <2>6, <2>7, JobTypesSuffice DEF TypeOK
<1>2. CASE ReadLastStage
  <2> DEFINE next == [worker EXCEPT !.pc = NextPlace("create_group"),
                                    !.lastStage = failedStage[worker.job.project].lastStage]
  <2>1. worker \in WorkerState /\ worker.job \in Job /\ worker.job.project \in Project
    BY <1>t, <1>2 DEF ReadLastStage, WorkerAt, TypeOK, BusyWithSomething, Job
  <2>2. NextPlace("create_group") \in Place
    BY NextPlaces
  <2>3. failedStage[worker.job.project].lastStage \in Stage \cup {"none"}
    BY <1>t, <2>1 DEF TypeOK, FailedStageRow
  <2>4. next \in WorkerState /\ next.job \in Job
    BY <2>1, <2>2, <2>3 DEF WorkerState
  <2>5. worker' = next
    BY <1>2 DEF ReadLastStage
  <2> HIDE DEF next
  <2>6. UNCHANGED reviewVars /\ UNCHANGED <<queue, failedStage, group, lost, troubles>>
    BY <1>2 DEF ReadLastStage, perunVars
  <2> QED BY <1>t, <2>4, <2>5, <2>6, JobTypesSuffice DEF TypeOK
<1>3. CASE RunStage
  <2>1. worker.pc \in Setting /\ NextPlace(worker.pc) \in Place /\ worker.pc # "idle"
    BY <1>3, NextPlaces DEF RunStage
  <2>2. worker' \in WorkerState /\ worker'.job \in Job
    BY <1>3, <2>1, MovedWorker DEF RunStage
  <2>3. Applied(worker.pc) \in Seq(GroupRow) /\ Len(Applied(worker.pc)) = Len(group)
    BY <1>t, <2>1, AppliedType DEF TypeOK
  <2>4. group' \in Seq(GroupRow) /\ Len(group') <= MaxGroups
    BY <1>t, <1>3, <2>3 DEF RunStage, TypeOK
  <2>5. UNCHANGED reviewVars /\ UNCHANGED <<queue, failedStage, lost, troubles>>
    BY <1>3 DEF RunStage
  <2> QED BY <1>t, <2>2, <2>4, <2>5, JobTypesSuffice DEF TypeOK
<1>4. CASE FindUser
  <2>1. NextPlace("find_user") \in Place /\ worker.pc # "idle"
    BY <1>4, NextPlaces DEF FindUser, WorkerAt
  <2>2. worker' \in WorkerState /\ worker'.job \in Job
    BY <1>4, <2>1, MovedWorker DEF FindUser
  <2>3. UNCHANGED reviewVars /\ UNCHANGED <<queue, failedStage, group, lost, troubles>>
    BY <1>4 DEF FindUser, perunVars
  <2> QED BY <1>t, <2>2, <2>3, JobTypesSuffice DEF TypeOK
<1>5. CASE RemoveFailedStage
  <2>1. worker.pc # "idle"
    BY <1>5 DEF RemoveFailedStage, WorkerAt
  <2>2. worker' \in WorkerState /\ worker'.job \in Job
    BY <1>5, <2>1, MovedWorker, NextPlaces DEF RemoveFailedStage
  <2>3. failedStage' \in [Project -> FailedStageRow]
    BY <1>t, <1>5, RowTypes DEF RemoveFailedStage, TypeOK
  <2>4. UNCHANGED reviewVars /\ UNCHANGED <<queue, group, lost, troubles>>
    BY <1>5 DEF RemoveFailedStage, perunVars
  <2> QED BY <1>t, <2>2, <2>3, <2>4, JobTypesSuffice DEF TypeOK
<1>6. CASE StopRunning
  <2>1. worker.job.project \in Project
    BY <1>t, <1>6 DEF StopRunning, WorkerAt, BusyWithSomething, Job
  <2>2. failedStage' \in [Project -> FailedStageRow]
    BY <1>6, <2>1, SetRunningType DEF StopRunning
  <2>3. worker' \in WorkerState /\ worker'.pc = "idle"
    BY <1>6, Waits DEF StopRunning, Waiting
  <2>4. UNCHANGED reviewVars /\ UNCHANGED <<queue, group, lost, troubles>>
    BY <1>6 DEF StopRunning, perunVars
  <2> QED BY <1>t, <2>2, <2>3, <2>4, JobTypesSuffice DEF TypeOK
<1> QED BY <1>1, <1>2, <1>3, <1>4, <1>5, <1>6 DEF JobStep

LEMMA FailingTypes ==
  ASSUME TypeInv, CanFail, SettingsAfterFailure
  PROVE  /\ worker.pc # "idle" /\ worker.pc \in {"create_group", "find_user", "finish"} \cup Setting
         /\ worker.job.project \in Project
         /\ group' \in Seq(GroupRow) /\ Len(group') <= MaxGroups
<1>t. TypeOK /\ BusyWithSomething
  BY DEF TypeInv
<1>1. worker.pc \in {"create_group", "find_user", "finish"} \cup Setting
  BY DEF CanFail
<1>2. worker.pc # "idle"
  BY <1>1, NextPlaces
<1>3. worker.job.project \in Project
  BY <1>t, <1>2 DEF BusyWithSomething, Job
<1>4. PICK applied \in {group} \cup {Applied(setting) : setting \in {worker.pc} \cap Setting} :
        group' = applied
  BY DEF SettingsAfterFailure
<1>5. group' \in Seq(GroupRow) /\ Len(group') <= MaxGroups
  <2>1. CASE applied = group
    BY <1>t, <1>4, <2>1 DEF TypeOK
  <2>2. ASSUME NEW setting \in Setting, applied = Applied(setting)
        PROVE  group' \in Seq(GroupRow) /\ Len(group') <= MaxGroups
    BY <1>t, <1>4, <2>2, AppliedType DEF TypeOK
  <2> QED BY <2>1, <2>2
<1> QED BY <1>1, <1>2, <1>3, <1>5

LEMMA TroubleTypes ==
  ASSUME TypeInv, JobTrouble
  PROVE  TypeInv'
<1>t. TypeOK /\ BusyWithSomething
  BY DEF TypeInv
<1>1. CASE StageFails
  <2>1. /\ worker.pc # "idle" /\ worker.pc \in {"create_group", "find_user", "finish"} \cup Setting
        /\ worker.job.project \in Project
        /\ group' \in Seq(GroupRow) /\ Len(group') <= MaxGroups
    BY <1>1, FailingTypes DEF StageFails
  <2>2. worker' \in WorkerState /\ worker'.job \in Job
    BY <1>1, <2>1, MovedWorker, NextPlaces DEF StageFails
  <2>3. CurrentStage(worker.pc) \in Stage
    BY <2>1, NextPlaces
  <2>4. failedStage' = [failedStage EXCEPT ![worker.job.project] =
                          [@ EXCEPT !.lastStage = CurrentStage(worker.pc)]]
    BY <1>1 DEF StageFails
  <2>5. failedStage' \in [Project -> FailedStageRow]
    BY <1>t, <2>1, <2>3, <2>4 DEF TypeOK, FailedStageRow
  <2>6. troubles' \in 0 .. MaxTroubles
    BY <1>t, <1>1, Troubles DEF StageFails, TypeOK
  <2>7. UNCHANGED reviewVars /\ UNCHANGED <<queue, lost>>
    BY <1>1 DEF StageFails
  <2> QED BY <1>t, <2>1, <2>2, <2>5, <2>6, <2>7, JobTypesSuffice DEF TypeOK
<1>2. CASE FailBeforeStart
  <2>1. queue \in Seq(Job) /\ queue # <<>>
    BY <1>t, <1>2 DEF FailBeforeStart, TypeOK
  <2>5. Head(queue) \in Job /\ Tail(queue) \in Seq(Job)
    BY <2>1
  <2>2. Head(queue).project \in Project /\ Tail(queue) \in Seq(Job)
    BY <2>5 DEF Job
  <2>3. lost' \subseteq Project /\ troubles' \in 0 .. MaxTroubles
    BY <1>t, <1>2, <2>2, Troubles DEF FailBeforeStart, Lose, TypeOK
  <2>4. UNCHANGED reviewVars /\ UNCHANGED <<worker, failedStage, group>> /\ queue' = Tail(queue)
    BY <1>2 DEF FailBeforeStart
  <2> QED BY <1>t, <2>2, <2>3, <2>4, JobTypesSuffice DEF TypeOK, BusyWithSomething
<1>3. CASE FailUnrecorded
  <2>1. /\ worker.pc # "idle" /\ worker.job.project \in Project
        /\ group' \in Seq(GroupRow) /\ Len(group') <= MaxGroups
    BY <1>3, FailingTypes DEF FailUnrecorded
  <2>2. worker' \in WorkerState /\ worker'.job \in Job
    BY <1>3, <2>1, MovedWorker, NextPlaces DEF FailUnrecorded
  <2>3. lost' \subseteq Project /\ troubles' \in 0 .. MaxTroubles
    BY <1>t, <1>3, <2>1, Troubles DEF FailUnrecorded, Lose, TypeOK
  <2>4. UNCHANGED reviewVars /\ UNCHANGED <<queue, failedStage>>
    BY <1>3 DEF FailUnrecorded
  <2> QED BY <1>t, <2>1, <2>2, <2>3, <2>4, JobTypesSuffice DEF TypeOK
<1>4. CASE StayRunning
  <2>1. worker.job.project \in Project
    BY <1>t, <1>4 DEF StayRunning, WorkerAt, BusyWithSomething, Job
  <2>2. lost' \subseteq Project /\ troubles' \in 0 .. MaxTroubles
    BY <1>t, <1>4, <2>1, Troubles DEF StayRunning, Lose, TypeOK
  <2>3. worker' \in WorkerState /\ worker'.pc = "idle"
    BY <1>4, Waits DEF StayRunning, Waiting
  <2>4. UNCHANGED reviewVars /\ UNCHANGED <<queue, failedStage, group>>
    BY <1>4 DEF StayRunning
  <2> QED BY <1>t, <2>2, <2>3, <2>4, JobTypesSuffice DEF TypeOK
<1> QED BY <1>1, <1>2, <1>3, <1>4 DEF JobTrouble

LEMMA RestartTypes ==
  ASSUME TypeInv, Restart
  PROVE  TypeInv'
<1>t. TypeOK /\ BusyWithSomething
  BY DEF TypeInv
<1>1. Requeue \in Seq(Job)
  <2>1. CASE WorkerAt("idle") \/ worker.job.stalled
    BY <1>t, <2>1 DEF Requeue, TypeOK
  <2>2. CASE ~(WorkerAt("idle") \/ worker.job.stalled)
    <3> DEFINE job == [worker.job EXCEPT !.stalled = TRUE]
    <3>1. job \in Job
      BY <1>t, <2>2 DEF WorkerAt, BusyWithSomething, Job
    <3>2. Requeue = <<job>> \o queue
      BY <2>2 DEF Requeue
    <3> HIDE DEF job
    <3> QED BY <1>t, <3>1, <3>2 DEF TypeOK
  <2> QED BY <2>1, <2>2
<1>2. lost' \subseteq Project
  <2>1. CASE worker.job.stalled
    <3>1. worker.job # NoJob
      BY <2>1 DEF NoJob
    <3>2. worker.job.project \in Project
      BY <1>t, <3>1 DEF TypeOK, WorkerState, Job
    <3> QED BY <1>t, <3>2 DEF Restart, TypeOK
  <2>2. CASE ~worker.job.stalled
    BY <1>t, <2>2 DEF Restart, TypeOK
  <2> QED BY <2>1, <2>2
<1>3. troubles' \in 0 .. MaxTroubles
  BY <1>t, Troubles DEF Restart, TypeOK
<1>4. approval' \in [Admin -> ApprovalState] /\ resubmission' \in [Applicant -> ResubmissionState]
  BY RowTypes DEF Restart
<1>5. TypeOK'
  BY <1>t, <1>1, <1>2, <1>3, <1>4, Waits DEF Restart, TypeOK
<1>6. BusyWithSomething'
  BY <1>t DEF Restart, BusyWithSomething, NoApproval, NoResubmission, Waiting
<1> QED BY <1>5, <1>6 DEF TypeInv

LEMMA TypeStep == TypeInv /\ [Next]_vars => TypeInv'
<1> SUFFICES ASSUME TypeInv, [Next]_vars PROVE TypeInv'
  OBVIOUS
<1>1. CASE UNCHANGED vars
  BY <1>1 DEF vars, TypeInv, TypeOK, BusyWithSomething
<1>2. CASE Next
  BY <1>2, ApplicantTypes, AdminTypes, ProjectTypes, JobTypes, TroubleTypes, RestartTypes DEF Next
<1> QED BY <1>1, <1>2

\* Every variable keeps to its table, queue or program counters, for all bounds.
THEOREM TypeCorrect == Spec => []TypeOK
<1>1. TypeInv => TypeOK
  BY DEF TypeInv
<1> QED BY <1>1, TypeStart, TypeStep, PTL DEF Spec

-----------------------------------------------------------------------------
(* The steps of the reviews, as what they do to the variables reviews use. *)

\* What each kind of step leaves alone is left alone for the review invariants:
\* the jobs change only the settings of groups.
SameGroups == /\ DOMAIN group' = DOMAIN group
              /\ \A g \in DOMAIN group : /\ group'[g].name = group[g].name
                                       /\ group'[g].project = group[g].project

ReviewInv == ReviewInStep /\ ActiveGroupIsOwn

LEMMA ReviewStart == Init => ReviewInv
BY DEF Init, ReviewInv, ReviewInStep, ApprovalHoldsLock, ApprovalOwnsGroup, RecordedGroupIsOwn,
       RejectionIsOnRecord, ActiveGroupIsOwn, NoApproval, NoResubmission, NoGroup

LEMMA SameGroupsKeepReview ==
  ASSUME ReviewInv, SameGroups, UNCHANGED reviewVars
  PROVE  ReviewInv'
<1>1. ReviewInStep'
  BY DEF ReviewInv, ReviewInStep, SameGroups, reviewVars, ApprovalHoldsLock, ApprovalOwnsGroup,
         RecordedGroupIsOwn, RejectionIsOnRecord, WasRejected
<1>2. ActiveGroupIsOwn'
  <2> SUFFICES ASSUME NEW p \in Project, project[p].status \in {"active", "archived"}
               PROVE  /\ project[p].group \in DOMAIN group'
                      /\ group'[project[p].group].project = p
                      /\ group'[project[p].group].name = project[p].title
    BY DEF ActiveGroupIsOwn, reviewVars
  <2> QED BY DEF ReviewInv, ActiveGroupIsOwn, SameGroups
<1> QED BY <1>1, <1>2 DEF ReviewInv

LEMMA AppliedKeepsGroups ==
  ASSUME TypeInv, NEW setting \in Setting, group' = Applied(setting)
  PROVE  SameGroups
<1> DEFINE g == worker.job.group
<1> DEFINE row == [group[g] EXCEPT !.settings = @ \cup {setting}]
<1>1. group' = [group EXCEPT ![g] = row]
  BY DEF Applied
<1>2. group \in Seq(GroupRow)
  BY DEF TypeInv, TypeOK
<1>3. g \in DOMAIN group => row.name = group[g].name /\ row.project = group[g].project
  BY <1>2 DEF GroupRow
<1> HIDE DEF row, g
<1> QED BY <1>1, <1>2, <1>3 DEF SameGroups

LEMMA JobsKeepReview ==
  ASSUME TypeInv, ReviewInv, JobStep \/ JobTrouble
  PROVE  ReviewInv'
<1>1. UNCHANGED reviewVars
  BY DEF JobStep, JobTrouble, TakeJob, ReadLastStage, RunStage, FindUser, RemoveFailedStage, StopRunning,
         StageFails, FailBeforeStart, FailUnrecorded, StayRunning
<1>2. \/ UNCHANGED group
      \/ \E setting \in Setting : group' = Applied(setting)
  BY DEF JobStep, JobTrouble, TakeJob, ReadLastStage, RunStage, FindUser, RemoveFailedStage, StopRunning,
         StageFails, FailBeforeStart, FailUnrecorded, StayRunning, SettingsAfterFailure, perunVars
<1>3. SameGroups
  <2>1. CASE UNCHANGED group
    BY <2>1 DEF SameGroups
  <2>2. CASE \E setting \in Setting : group' = Applied(setting)
    BY <2>2, AppliedKeepsGroups
  <2> QED BY <1>2, <2>1, <2>2
<1> QED BY <1>1, <1>3, SameGroupsKeepReview

LEMMA RestartKeepsReview ==
  ASSUME TypeInv, ReviewInv, Restart
  PROVE  ReviewInv'
<1>1. UNCHANGED <<project, decisions, group>>
  BY DEF Restart
<1>2. /\ \A a \in Admin : approval'[a] = NoApproval
      /\ \A u \in Applicant : resubmission'[u] = NoResubmission
  BY DEF Restart
<1> QED BY <1>1, <1>2
    DEF ReviewInv, ReviewInStep, ApprovalHoldsLock, ApprovalOwnsGroup, RecordedGroupIsOwn,
        RejectionIsOnRecord, WasRejected, ActiveGroupIsOwn, NoApproval, NoResubmission

LEMMA RecordKeepsRejections ==
  ASSUME TypeInv, NEW p \in Project, NEW verdict \in ApprovalStatus, Record(p, verdict)
  PROVE  /\ \A q \in Project : WasRejected(q) => WasRejected(q)'
         /\ verdict = "rejected" => WasRejected(p)'
<1>1. decisions \in [Project -> Seq(ApprovalStatus)]
  BY DEF TypeInv, TypeOK
<1>2. decisions' = [decisions EXCEPT ![p] = Append(@, verdict)]
  BY DEF Record
<1>3. ASSUME NEW q \in Project, WasRejected(q) PROVE WasRejected(q)'
  <2>1. PICK i \in DOMAIN decisions[q] : decisions[q][i] = "rejected"
    BY <1>3 DEF WasRejected
  <2>2. decisions[q] \in Seq(ApprovalStatus)
    BY <1>1
  <2>3. i \in DOMAIN decisions'[q] /\ decisions'[q][i] = "rejected"
    <3>1. CASE q = p
      BY <1>1, <1>2, <2>1, <2>2, <3>1
    <3>2. CASE q # p
      BY <1>1, <1>2, <2>1, <3>2
    <3> QED BY <3>1, <3>2
  <2> QED BY <2>3 DEF WasRejected
<1>4. ASSUME verdict = "rejected" PROVE WasRejected(p)'
  <2>1. decisions'[p] = Append(decisions[p], "rejected")
    BY <1>1, <1>2, <1>4
  <2>2. decisions[p] \in Seq(ApprovalStatus)
    BY <1>1
  <2>3. Len(decisions[p]) + 1 \in DOMAIN decisions'[p]
          /\ decisions'[p][Len(decisions[p]) + 1] = "rejected"
    BY <2>1, <2>2
  <2> QED BY <2>3 DEF WasRejected
<1> QED BY <1>3, <1>4

LEMMA ApplicantKeepsReview ==
  ASSUME TypeInv, ReviewInv, NEW u \in Applicant, ApplicantStep(u)
  PROVE  ReviewInv'
<1>t. TypeOK /\ BusyWithSomething
  BY DEF TypeInv
<1>1. ASSUME NEW p \in Project, NEW t \in Title, BeginResubmit(u, p, t) PROVE ReviewInv'
  <2>1. UNCHANGED <<project, decisions, approval, group>>
    BY <1>1 DEF BeginResubmit, perunVars
  <2>2. ApprovalHoldsLock' /\ ApprovalOwnsGroup' /\ RecordedGroupIsOwn' /\ ActiveGroupIsOwn'
    BY <2>1 DEF ReviewInv, ReviewInStep, ApprovalHoldsLock, ApprovalOwnsGroup, RecordedGroupIsOwn,
                ActiveGroupIsOwn
  <2>3. WasRejected(p)
    BY <1>1 DEF BeginResubmit, MayResubmit, ReviewInv, ReviewInStep, RejectionIsOnRecord
  <2>4. \A q \in Project : WasRejected(q)' = WasRejected(q)
    BY <2>1 DEF WasRejected
  <2>5. resubmission' = [resubmission EXCEPT ![u] = [pc |-> "update", project |-> p, title |-> t]]
    BY <1>1 DEF BeginResubmit
  <2>6. RejectionIsOnRecord'
    BY <1>t, <2>1, <2>3, <2>4, <2>5 DEF TypeOK, ReviewInv, ReviewInStep, RejectionIsOnRecord
  <2> QED BY <2>2, <2>6 DEF ReviewInv, ReviewInStep
<1>2. CASE CommitResubmit(u)
  <2> DEFINE p == resubmission[u].project
             t == resubmission[u].title
  <2>1. p \in Project
    BY <1>t, <1>2 DEF CommitResubmit, BusyWithSomething
  <2>2. UNCHANGED <<decisions, approval, group>>
          /\ resubmission' = [resubmission EXCEPT ![u] = NoResubmission]
    BY <1>2 DEF CommitResubmit, perunVars
  <2>3. /\ project'[p].status = "new" /\ project'[p].group = project[p].group
        /\ \A q \in Project : q # p => project'[q] = project[q]
    BY <1>t, <1>2, <2>1 DEF CommitResubmit, TypeOK, ProjectRow
  <2>4. \A a \in Admin : approval[a].project # p
    BY <1>2 DEF CommitResubmit, CanLock
  <2> HIDE DEF p, t
  <2>5. ApprovalHoldsLock'
    BY <2>1, <2>2, <2>3, <2>4 DEF ReviewInv, ReviewInStep, ApprovalHoldsLock
  <2>6. \A q \in Project : project'[q].group = project[q].group
    BY <2>1, <2>3
  <2>7. ApprovalOwnsGroup' /\ RecordedGroupIsOwn'
    BY <2>2, <2>6 DEF ReviewInv, ReviewInStep, ApprovalOwnsGroup, RecordedGroupIsOwn
  <2>8. ActiveGroupIsOwn'
    BY <2>1, <2>2, <2>3 DEF ReviewInv, ActiveGroupIsOwn
  <2>9. RejectionIsOnRecord'
    BY <1>t, <2>1, <2>2, <2>3
    DEF TypeOK, ReviewInv, ReviewInStep, RejectionIsOnRecord, WasRejected, NoResubmission
  <2> QED BY <2>5, <2>7, <2>8, <2>9 DEF ReviewInv, ReviewInStep
<1>3. CASE AbandonResubmit(u)
  <2>1. UNCHANGED <<project, decisions, approval, group>>
    BY <1>3 DEF AbandonResubmit, perunVars
  <2>2. resubmission' = [resubmission EXCEPT ![u] = NoResubmission]
    BY <1>3 DEF AbandonResubmit
  <2> QED BY <1>t, <2>1, <2>2
      DEF TypeOK, ReviewInv, ReviewInStep, ApprovalHoldsLock, ApprovalOwnsGroup, RecordedGroupIsOwn,
          RejectionIsOnRecord, WasRejected, ActiveGroupIsOwn, NoResubmission
<1> QED BY <1>1, <1>2, <1>3 DEF ApplicantStep

LEMMA ProjectKeepsReview ==
  ASSUME TypeInv, ReviewInv, NEW p \in Project, ProjectStep(p)
  PROVE  ReviewInv'
<1>t. TypeOK /\ BusyWithSomething
  BY DEF TypeInv
\* A project nobody holds the lock of moves, and keeps its group.
<1>1. ASSUME UNCHANGED <<approval, resubmission, group>>,
             \A a \in Admin : approval[a].project # p,
             \A q \in Project : q # p => project'[q] = project[q],
             project'[p].group = project[p].group,
             project'[p].status \in {"active", "archived"} =>
               project[p].status \in {"active", "archived"} /\ project'[p].title = project[p].title,
             project'[p].status = "rejected" => WasRejected(p)',
             \A q \in Project : WasRejected(q) => WasRejected(q)'
      PROVE  ReviewInv'
  <2>1. ApprovalHoldsLock'
    BY <1>1 DEF ReviewInv, ReviewInStep, ApprovalHoldsLock
  <2>2. \A q \in Project : project'[q].group = project[q].group
    BY <1>1
  <2>3. ApprovalOwnsGroup' /\ RecordedGroupIsOwn'
    BY <1>1, <2>2 DEF ReviewInv, ReviewInStep, ApprovalOwnsGroup, RecordedGroupIsOwn
  <2>4. ActiveGroupIsOwn'
    BY <1>1 DEF ReviewInv, ActiveGroupIsOwn
  <2>5. RejectionIsOnRecord'
    BY <1>1 DEF ReviewInv, ReviewInStep, RejectionIsOnRecord
  <2> QED BY <2>1, <2>3, <2>4, <2>5 DEF ReviewInv, ReviewInStep
<1>2. ASSUME NEW t \in Title, RequestProject(p, t) PROVE ReviewInv'
  <2>1. \A a \in Admin : approval[a].project # p
    <3> SUFFICES ASSUME NEW a \in Admin, approval[a].project = p PROVE FALSE
      OBVIOUS
    <3>1. project[p].status = "none"
      BY <1>2 DEF RequestProject
    <3>2. p # NoProject
      BY ProvisioningAssumption
    <3> QED BY <3>1, <3>2 DEF ReviewInv, ReviewInStep, ApprovalHoldsLock
  <2>2. /\ project'[p].status = "new" /\ project'[p].group = project[p].group
        /\ \A q \in Project : q # p => project'[q] = project[q]
    BY <1>t, <1>2 DEF RequestProject, TypeOK, ProjectRow
  <2>3. UNCHANGED <<approval, resubmission, group, decisions>>
    BY <1>2 DEF RequestProject, perunVars
  <2>4. \A q \in Project : WasRejected(q) => WasRejected(q)'
    BY <2>3 DEF WasRejected
  <2> QED BY <1>1, <2>1, <2>2, <2>3, <2>4
<1>3. CASE RejectProject(p)
  <2>1. \A a \in Admin : approval[a].project # p
    BY <1>3 DEF RejectProject, CanLock
  <2>2. /\ project'[p].status = "rejected" /\ project'[p].group = project[p].group
        /\ \A q \in Project : q # p => project'[q] = project[q]
    BY <1>t, <1>3 DEF RejectProject, MoveTo, TypeOK, ProjectRow
  <2>3. UNCHANGED <<approval, resubmission, group>>
    BY <1>3 DEF RejectProject, perunVars
  <2>4. "rejected" \in ApprovalStatus /\ Record(p, "rejected")
    BY <1>3 DEF RejectProject, ApprovalStatus
  <2>5. WasRejected(p)' /\ \A q \in Project : WasRejected(q) => WasRejected(q)'
    BY <2>4, RecordKeepsRejections
  <2> QED BY <1>1, <2>1, <2>2, <2>3, <2>5
<1>4. CASE ArchiveProject(p)
  <2>1. \A a \in Admin : approval[a].project # p
    BY <1>4 DEF ArchiveProject, CanLock
  <2>2. /\ project'[p].status = "archived" /\ project'[p].group = project[p].group
        /\ project'[p].title = project[p].title /\ project[p].status = "active"
        /\ \A q \in Project : q # p => project'[q] = project[q]
    BY <1>t, <1>4 DEF ArchiveProject, MoveTo, TypeOK, ProjectRow
  <2>3. UNCHANGED <<approval, resubmission, group, decisions>>
    BY <1>4 DEF ArchiveProject, perunVars
  <2>4. \A q \in Project : WasRejected(q) => WasRejected(q)'
    BY <2>3 DEF WasRejected
  <2> QED BY <1>1, <2>1, <2>2, <2>3, <2>4
<1>5. CASE Synchronize(p)
  <2>1. UNCHANGED reviewVars /\ SameGroups
    BY <1>5 DEF Synchronize, perunVars, SameGroups
  <2> QED BY <2>1, SameGroupsKeepReview
<1> QED BY <1>2, <1>3, <1>4, <1>5 DEF ProjectStep

LEMMA AdminKeepsReview ==
  ASSUME TypeInv, ReviewInv, NEW a \in Admin, AdminStep(a)
  PROVE  ReviewInv'
<1>t. TypeOK /\ BusyWithSomething
  BY DEF TypeInv
<1>r. ApprovalHoldsLock /\ ApprovalOwnsGroup /\ RecordedGroupIsOwn /\ RejectionIsOnRecord /\ ActiveGroupIsOwn
  BY DEF ReviewInv, ReviewInStep
<1>a. approval[a] \in ApprovalState /\ group \in Seq(GroupRow)
  BY <1>t DEF TypeOK
<1>1. ASSUME NEW p \in Project, BeginApproval(a, p) PROVE ReviewInv'
  <2> DEFINE begun == [pc |-> "create", project |-> p, title |-> project[p].title, group |-> NoGroup]
  <2>1. UNCHANGED <<project, decisions, resubmission, group>> /\ approval' = [approval EXCEPT ![a] = begun]
    BY <1>1 DEF BeginApproval, perunVars
  <2>2. begun.pc = "create" /\ begun.project = p /\ begun.title = project[p].title
    OBVIOUS
  <2>3. project[p].status = "new" /\ \A b \in Admin : approval[b].project # p
    BY <1>1 DEF BeginApproval, CanLock
  <2> HIDE DEF begun
  <2>4. ApprovalHoldsLock'
    BY <1>t, <1>r, <2>1, <2>2, <2>3 DEF TypeOK, ApprovalHoldsLock
  <2>5. ApprovalOwnsGroup'
    BY <1>t, <1>r, <2>1, <2>2 DEF TypeOK, ApprovalOwnsGroup
  <2>6. RecordedGroupIsOwn' /\ RejectionIsOnRecord' /\ ActiveGroupIsOwn'
    BY <1>r, <2>1 DEF RecordedGroupIsOwn, RejectionIsOnRecord, WasRejected, ActiveGroupIsOwn
  <2> QED BY <2>4, <2>5, <2>6 DEF ReviewInv, ReviewInStep
<1>2. CASE CreateGroup(a)
  <2> DEFINE row == [name |-> approval[a].title, project |-> approval[a].project, settings |-> {}]
             id == Len(group) + 1
             created == [approval[a] EXCEPT !.pc = "enqueue", !.group = id]
  <2>1. UNCHANGED <<project, decisions, resubmission>>
          /\ approval' = [approval EXCEPT ![a] = created] /\ group' = Append(group, row)
    BY <1>2, <1>a, <1>t DEF CreateGroup, ApprovalState, TypeOK
  <2>2. created.pc = "enqueue" /\ created.project = approval[a].project
          /\ created.title = approval[a].title /\ created.group = id
    BY <1>a DEF ApprovalState
  <2>3. row.name = approval[a].title /\ row.project = approval[a].project
    OBVIOUS
  <2>4. approval[a].pc = "create"
    BY <1>2 DEF CreateGroup
  <2>5. row \in GroupRow
    BY <1>t, <2>4 DEF GroupRow, BusyWithSomething
  <2>6. Len(group) \in Nat /\ DOMAIN group = 1 .. Len(group)
    BY <1>a, LenProperties
  <2> HIDE DEF row, created
  <2>7. DOMAIN group' = 1 .. id /\ group'[id] = row /\ \A g \in DOMAIN group : group'[g] = group[g]
    BY <1>a, <2>1, <2>5, <2>6
  <2>8. id \notin DOMAIN group /\ id \in DOMAIN group' /\ DOMAIN group \subseteq DOMAIN group'
    BY <2>6, <2>7
  <2> HIDE DEF id
  <2>9. ApprovalHoldsLock'
    BY <1>t, <1>r, <2>1, <2>2, <2>4 DEF TypeOK, ApprovalHoldsLock
  <2>10. \A q \in Project : project[q].group # id
    <3>1. id # NoGroup
      BY <2>6 DEF id, NoGroup
    <3> QED BY <1>r, <2>8, <3>1 DEF RecordedGroupIsOwn
  <2>11. ApprovalOwnsGroup'
    BY <1>t, <1>r, <2>1, <2>2, <2>3, <2>7, <2>8, <2>10 DEF TypeOK, ApprovalOwnsGroup
  <2>12. RecordedGroupIsOwn' /\ ActiveGroupIsOwn'
    BY <1>r, <2>1, <2>7, <2>8 DEF RecordedGroupIsOwn, ActiveGroupIsOwn
  <2>13. RejectionIsOnRecord'
    BY <1>r, <2>1 DEF RejectionIsOnRecord, WasRejected
  <2> QED BY <2>9, <2>11, <2>12, <2>13 DEF ReviewInv, ReviewInStep
<1>3. ASSUME UNCHANGED <<project, decisions, resubmission, group>>,
             approval' = [approval EXCEPT ![a] = NoApproval]
      PROVE  ReviewInv'
  <2>1. approval'[a].pc = "idle" /\ approval'[a].project = NoProject
          /\ \A b \in Admin : b # a => approval'[b] = approval[b]
    BY <1>t, <1>3 DEF TypeOK, NoApproval
  <2>2. ApprovalHoldsLock'
    BY <1>r, <1>3, <2>1, ProvisioningAssumption DEF ApprovalHoldsLock
  <2>3. ApprovalOwnsGroup'
    BY <1>r, <1>3, <2>1 DEF ApprovalOwnsGroup
  <2>4. RecordedGroupIsOwn' /\ RejectionIsOnRecord' /\ ActiveGroupIsOwn'
    BY <1>r, <1>3 DEF RecordedGroupIsOwn, RejectionIsOnRecord, WasRejected, ActiveGroupIsOwn
  <2> QED BY <2>2, <2>3, <2>4 DEF ReviewInv, ReviewInStep
<1>4. CASE RefuseApproval(a)
  BY <1>3, <1>4 DEF RefuseApproval, perunVars
<1>5. CASE EnqueueSettings(a)
  <2> DEFINE queued == [approval[a] EXCEPT !.pc = "commit"]
  <2>1. UNCHANGED <<project, decisions, resubmission, group>> /\ approval' = [approval EXCEPT ![a] = queued]
    BY <1>5 DEF EnqueueSettings, perunVars
  <2>2. queued.pc = "commit" /\ queued.project = approval[a].project
          /\ queued.title = approval[a].title /\ queued.group = approval[a].group
    BY <1>a DEF ApprovalState
  <2>3. approval[a].pc = "enqueue"
    BY <1>5 DEF EnqueueSettings
  <2> HIDE DEF queued
  <2>4. ApprovalHoldsLock'
    BY <1>t, <1>r, <2>1, <2>2, <2>3 DEF TypeOK, ApprovalHoldsLock
  <2>5. ApprovalOwnsGroup'
    BY <1>t, <1>r, <2>1, <2>2, <2>3 DEF TypeOK, ApprovalOwnsGroup
  <2>6. RecordedGroupIsOwn' /\ RejectionIsOnRecord' /\ ActiveGroupIsOwn'
    BY <1>r, <2>1 DEF RecordedGroupIsOwn, RejectionIsOnRecord, WasRejected, ActiveGroupIsOwn
  <2> QED BY <2>4, <2>5, <2>6 DEF ReviewInv, ReviewInStep
<1>6. CASE CommitApproval(a)
  <2> DEFINE p == approval[a].project
             g == approval[a].group
  <2>1. p \in Project /\ approval[a].pc = "commit"
    BY <1>t, <1>6 DEF CommitApproval, BusyWithSomething
  <2>2. UNCHANGED <<resubmission, group>> /\ approval' = [approval EXCEPT ![a] = NoApproval]
    BY <1>6 DEF CommitApproval, perunVars
  <2>3. /\ project'[p].status = "active" /\ project'[p].group = g /\ project'[p].title = project[p].title
        /\ \A q \in Project : q # p => project'[q] = project[q]
    BY <1>t, <1>6, <2>1 DEF CommitApproval, TypeOK, ProjectRow
  <2>4. approval'[a].pc = "idle" /\ approval'[a].project = NoProject
          /\ \A b \in Admin : b # a => approval'[b] = approval[b]
    BY <1>t, <2>2 DEF TypeOK, NoApproval
  <2>5. g \in DOMAIN group /\ group[g].project = p /\ group[g].name = project[p].title
          /\ \A q \in Project : project[q].group # g
    BY <1>r, <2>1 DEF ApprovalOwnsGroup, ApprovalHoldsLock
  <2>6. \A b \in Admin : b # a => approval[b].project # p
    BY <1>r, <2>1 DEF ApprovalHoldsLock
  <2>7. "approved" \in ApprovalStatus /\ Record(p, "approved")
    BY <1>6 DEF CommitApproval, ApprovalStatus
  <2>8. \A q \in Project : WasRejected(q) => WasRejected(q)'
    BY <2>1, <2>7, RecordKeepsRejections
  <2> HIDE DEF p, g
  <2>9. ApprovalHoldsLock'
    <3>1. ASSUME NEW b \in Admin, approval'[b].pc # "idle"
          PROVE  /\ approval'[b].project \in Project
                 /\ project'[approval'[b].project].status = "new"
                 /\ project'[approval'[b].project].title = approval'[b].title
      BY <1>r, <2>3, <2>4, <2>6, <3>1 DEF ApprovalHoldsLock
    <3>2. ASSUME NEW b \in Admin, approval'[b].pc = "idle" PROVE approval'[b].project = NoProject
      BY <1>r, <2>4, <3>2 DEF ApprovalHoldsLock
    <3>3. ASSUME NEW b \in Admin, NEW c \in Admin, approval'[b].pc # "idle",
                 approval'[b].project = approval'[c].project
          PROVE  b = c
      BY <1>r, <2>4, <3>1, <3>3, ProvisioningAssumption DEF ApprovalHoldsLock
    <3> QED BY <3>1, <3>2, <3>3 DEF ApprovalHoldsLock
  <2>10. ApprovalOwnsGroup'
    <3> SUFFICES ASSUME NEW b \in Admin, approval'[b].pc \in {"enqueue", "commit"}
                 PROVE  LET h == approval'[b].group IN
                        /\ h \in DOMAIN group'
                        /\ group'[h].project = approval'[b].project
                        /\ group'[h].name = approval'[b].title
                        /\ \A q \in Project : project'[q].group # h
      BY DEF ApprovalOwnsGroup
    <3>1. b # a /\ approval'[b] = approval[b]
      BY <2>4
    <3>2. approval[b].group # g
      BY <1>r, <2>5, <2>6, <3>1 DEF ApprovalOwnsGroup
    <3> QED BY <1>r, <2>2, <2>3, <3>1, <3>2 DEF ApprovalOwnsGroup
  <2>11. RecordedGroupIsOwn' /\ ActiveGroupIsOwn'
    BY <1>r, <2>2, <2>3, <2>5 DEF RecordedGroupIsOwn, ActiveGroupIsOwn
  <2>12. RejectionIsOnRecord'
    BY <1>r, <2>1, <2>2, <2>3, <2>8 DEF RejectionIsOnRecord
  <2> QED BY <2>9, <2>10, <2>11, <2>12 DEF ReviewInv, ReviewInStep
<1>7. CASE AbandonApproval(a)
  BY <1>3, <1>7 DEF AbandonApproval
<1> QED BY <1>1, <1>2, <1>4, <1>5, <1>6, <1>7 DEF AdminStep

LEMMA ReviewStep == TypeInv /\ ReviewInv /\ [Next]_vars => ReviewInv'
<1> SUFFICES ASSUME TypeInv, ReviewInv, [Next]_vars PROVE ReviewInv'
  OBVIOUS
<1>1. CASE UNCHANGED vars
  <2>1. UNCHANGED reviewVars /\ SameGroups
    BY <1>1 DEF vars, reviewVars, SameGroups
  <2> QED BY <2>1, SameGroupsKeepReview
<1>2. CASE Next
  BY <1>2, ApplicantKeepsReview, AdminKeepsReview, ProjectKeepsReview, JobsKeepReview, RestartKeepsReview
  DEF Next
<1> QED BY <1>1, <1>2

\* An approval in flight keeps the lock of its project, a new group of its own
\* and the title it read, and a resubmission in flight has a rejection behind it.
THEOREM ReviewsStayInStep == Spec => []ReviewInStep
<1>1. ReviewInv => ReviewInStep
  BY DEF ReviewInv
<1> QED BY <1>1, TypeStart, TypeStep, ReviewStart, ReviewStep, PTL DEF Spec

\* The group of an active or archived project is its own and bears its title,
\* for any number of approvals, resubmissions, failures and restarts.
THEOREM ActiveGroupStaysOwn == Spec => []ActiveGroupIsOwn
<1>1. ReviewInv => ActiveGroupIsOwn
  BY DEF ReviewInv
<1> QED BY <1>1, TypeStart, TypeStep, ReviewStart, ReviewStep, PTL DEF Spec

-----------------------------------------------------------------------------
(* The reviews implement the life cycle.                                   *)

statusOf == [p \in Project |-> project[p].status]
groupOf == [p \in Project |-> project[p].group]

\* One project gets a status, and one project a group.
LEMMA StatusMoves ==
  ASSUME NEW p \in Project, NEW st, project'[p].status = st,
         \A q \in Project : q # p => project'[q].status = project[q].status
  PROVE  statusOf' = [statusOf EXCEPT ![p] = st]
BY DEF statusOf

LEMMA GroupMoves ==
  ASSUME NEW p \in Project, NEW g, project'[p].group = g,
         \A q \in Project : q # p => project'[q].group = project[q].group
  PROVE  groupOf' = [groupOf EXCEPT ![p] = g]
BY DEF groupOf

LEMMA GroupsStay ==
  ASSUME \A q \in Project : project'[q].group = project[q].group
  PROVE  groupOf' = groupOf
BY DEF groupOf

LifecycleStep == [Lifecycle!Next]_(Lifecycle!lifecycleVars)

LEMMA Standing == UNCHANGED <<project, decisions>> => LifecycleStep
BY DEF LifecycleStep, Lifecycle!lifecycleVars

LEMMA LifecycleStarts == Init => Lifecycle!Init
BY DEF Init, Lifecycle!Init, NoGroup, Lifecycle!NoGroup

LEMMA ApplicantImplements ==
  ASSUME TypeInv, ReviewInv, NEW u \in Applicant, ApplicantStep(u)
  PROVE  LifecycleStep
<1>t. TypeOK /\ BusyWithSomething
  BY DEF TypeInv
<1>1. CASE CommitResubmit(u)
  <2>1. PICK p \in Project : p = resubmission[u].project
    BY <1>t, <1>1 DEF CommitResubmit, BusyWithSomething
  <2>2. /\ project'[p].status = "new" /\ project'[p].group = project[p].group
        /\ \A q \in Project : q # p => project'[q] = project[q]
    BY <1>t, <1>1, <2>1 DEF CommitResubmit, TypeOK, ProjectRow
  <2>3. WasRejected(p) /\ UNCHANGED decisions
    BY <1>1, <2>1 DEF CommitResubmit, ReviewInv, ReviewInStep, RejectionIsOnRecord
  <2>4. statusOf' = [statusOf EXCEPT ![p] = "new"]
    BY <2>1, <2>2, StatusMoves
  <2>5. groupOf' = groupOf
    BY <2>1, <2>2, GroupsStay
  <2>6. Lifecycle!Resubmit(p)
    BY <2>3, <2>4, <2>5 DEF Lifecycle!Resubmit, Lifecycle!WasRejected, WasRejected, statusOf, groupOf
  <2> QED BY <2>1, <2>6 DEF LifecycleStep, Lifecycle!Next
<1>2. CASE ~CommitResubmit(u)
  BY <1>2, Standing DEF ApplicantStep, BeginResubmit, AbandonResubmit
<1> QED BY <1>1, <1>2

LEMMA AdminImplements ==
  ASSUME TypeInv, ReviewInv, NEW a \in Admin, AdminStep(a)
  PROVE  LifecycleStep
<1>t. TypeOK /\ BusyWithSomething
  BY DEF TypeInv
<1>1. CASE CommitApproval(a)
  <2>1. PICK p \in Project, g \in Group :
          p = approval[a].project /\ g = approval[a].group /\ approval[a].pc = "commit"
    BY <1>t, <1>1 DEF CommitApproval, BusyWithSomething
  <2>2. /\ project'[p].status = "active" /\ project'[p].group = g
        /\ \A q \in Project : q # p => project'[q] = project[q]
    BY <1>t, <1>1, <2>1 DEF CommitApproval, TypeOK, ProjectRow
  <2>3. project[p].status = "new" /\ \A q \in Project : project[q].group # g
    BY <2>1 DEF ReviewInv, ReviewInStep, ApprovalHoldsLock, ApprovalOwnsGroup
  <2>4. Record(p, "approved")
    BY <1>1, <2>1 DEF CommitApproval
  <2>5. statusOf' = [statusOf EXCEPT ![p] = "active"] /\ groupOf' = [groupOf EXCEPT ![p] = g]
    BY <2>1, <2>2, StatusMoves, GroupMoves
  <2>6. Lifecycle!Approve(p, g)
    BY <2>1, <2>3, <2>4, <2>5 DEF Lifecycle!Approve, Lifecycle!Decide, Record, statusOf, groupOf
  <2>7. g \in Lifecycle!Group
    BY <2>1 DEF Group, Lifecycle!Group
  <2> QED BY <2>1, <2>6, <2>7 DEF LifecycleStep, Lifecycle!Next
<1>2. CASE ~CommitApproval(a)
  BY <1>2, Standing
  DEF AdminStep, BeginApproval, CreateGroup, RefuseApproval, EnqueueSettings, AbandonApproval
<1> QED BY <1>1, <1>2

LEMMA ProjectImplements ==
  ASSUME TypeInv, NEW p \in Project, ProjectStep(p)
  PROVE  LifecycleStep
<1>t. TypeOK /\ BusyWithSomething
  BY DEF TypeInv
<1>1. ASSUME NEW t \in Title, RequestProject(p, t) PROVE Lifecycle!Submit(p)
  <2>1. /\ project[p].status = "none" /\ project'[p].status = "new"
        /\ project'[p].group = project[p].group
        /\ \A q \in Project : q # p => project'[q] = project[q]
    BY <1>t, <1>1 DEF RequestProject, TypeOK, ProjectRow
  <2>2. statusOf' = [statusOf EXCEPT ![p] = "new"] /\ groupOf' = groupOf
    BY <2>1, StatusMoves, GroupsStay
  <2> QED BY <1>1, <2>1, <2>2 DEF RequestProject, Lifecycle!Submit, statusOf, groupOf
<1>2. CASE RejectProject(p)
  <2>1. /\ project[p].status = "new" /\ project'[p].status = "rejected"
        /\ project'[p].group = project[p].group
        /\ \A q \in Project : q # p => project'[q] = project[q]
    BY <1>t, <1>2 DEF RejectProject, MoveTo, TypeOK, ProjectRow
  <2>2. statusOf' = [statusOf EXCEPT ![p] = "rejected"] /\ groupOf' = groupOf
    BY <2>1, StatusMoves, GroupsStay
  <2>3. Lifecycle!Reject(p)
    BY <1>2, <2>1, <2>2 DEF RejectProject, Record, Lifecycle!Reject, Lifecycle!Decide, statusOf, groupOf
  <2> QED BY <2>3 DEF LifecycleStep, Lifecycle!Next
<1>3. CASE ArchiveProject(p)
  <2>1. /\ project[p].status = "active" /\ project'[p].status = "archived"
        /\ project'[p].group = project[p].group
        /\ \A q \in Project : q # p => project'[q] = project[q]
    BY <1>t, <1>3 DEF ArchiveProject, MoveTo, TypeOK, ProjectRow
  <2>2. statusOf' = [statusOf EXCEPT ![p] = "archived"] /\ groupOf' = groupOf
    BY <2>1, StatusMoves, GroupsStay
  <2>3. Lifecycle!Archive(p)
    BY <1>3, <2>1, <2>2 DEF ArchiveProject, Lifecycle!Archive, statusOf, groupOf
  <2> QED BY <2>3 DEF LifecycleStep, Lifecycle!Next
<1>4. CASE Synchronize(p)
  BY <1>4, Standing DEF Synchronize, reviewVars
<1> QED BY <1>1, <1>2, <1>3, <1>4 DEF ProjectStep, LifecycleStep, Lifecycle!Next

LEMMA LifecycleSteps ==
  TypeInv /\ ReviewInv /\ [Next]_vars => LifecycleStep
<1> SUFFICES ASSUME TypeInv, ReviewInv, [Next]_vars
             PROVE  LifecycleStep
  OBVIOUS
<1>1. CASE UNCHANGED vars
  BY <1>1, Standing DEF vars
<1>2. CASE JobStep \/ JobTrouble \/ Restart
  <2>1. UNCHANGED <<project, decisions>>
    BY <1>2
    DEF JobStep, JobTrouble, Restart, TakeJob, ReadLastStage, RunStage, FindUser, RemoveFailedStage,
        StopRunning, StageFails, FailBeforeStart, FailUnrecorded, StayRunning, reviewVars
  <2> QED BY <2>1, Standing
<1>3. CASE Next
  BY <1>2, <1>3, ApplicantImplements, AdminImplements, ProjectImplements DEF Next
<1> QED BY <1>1, <1>3

\* Requests, resubmissions, approvals, rejections and archivals, with their locks,
\* failures and restarts, implement the life cycle that readers are promised.
THEOREM ReviewsImplementLifecycle == Spec => ImplementsLifecycle
BY TypeStart, TypeStep, ReviewStart, ReviewStep, LifecycleStarts, LifecycleSteps, PTL
DEF Spec, ImplementsLifecycle, Lifecycle!Spec, LifecycleStep

-----------------------------------------------------------------------------
(* What the life cycle promises holds of the reviews.                      *)

LifecycleFacts == INSTANCE ProjectLifecycleProofs WITH
  status <- [p \in Project |-> project[p].status],
  groupOf <- [p \in Project |-> project[p].group]

OnRecord == Lifecycle!StatusFollowsDecisions /\ Lifecycle!GroupsAreOwn

\* The life cycle of those facts is the one the reviews implement.
LEMMA SameStart == Lifecycle!Init => LifecycleFacts!Init
BY DEF Lifecycle!Init, LifecycleFacts!Init, Lifecycle!NoGroup, LifecycleFacts!NoGroup

LEMMA SameSteps == LifecycleStep => [LifecycleFacts!Next]_(LifecycleFacts!lifecycleVars)
BY DEF LifecycleStep, Lifecycle!Next, LifecycleFacts!Next, Lifecycle!lifecycleVars,
       LifecycleFacts!lifecycleVars, Lifecycle!Submit, LifecycleFacts!Submit,
       Lifecycle!Approve, LifecycleFacts!Approve, Lifecycle!Reject, LifecycleFacts!Reject,
       Lifecycle!Archive, LifecycleFacts!Archive, Lifecycle!Resubmit, LifecycleFacts!Resubmit,
       Lifecycle!Decide, LifecycleFacts!Decide, Lifecycle!Group, LifecycleFacts!Group,
       Lifecycle!WasRejected, LifecycleFacts!WasRejected

LEMMA SameRecord ==
  LifecycleFacts!StatusFollowsDecisions /\ LifecycleFacts!GroupsAreOwn => OnRecord
BY DEF OnRecord, Lifecycle!StatusFollowsDecisions, LifecycleFacts!StatusFollowsDecisions,
       Lifecycle!GroupsAreOwn, LifecycleFacts!GroupsAreOwn, Lifecycle!NoGroup, LifecycleFacts!NoGroup

\* The last decision recorded by approveProject or rejectProject explains the
\* status of a project that is not under review, and no two projects record the
\* same Perun group.
THEOREM DecisionsExplainStatus == Spec => []OnRecord
<1>1. Lifecycle!Spec => LifecycleFacts!Spec
  BY SameStart, SameSteps, PTL DEF Lifecycle!Spec, LifecycleFacts!Spec, LifecycleStep
<1>2. LifecycleFacts!Spec
        => [](LifecycleFacts!StatusFollowsDecisions /\ LifecycleFacts!GroupsAreOwn)
  BY LifecycleFacts!ReviewIsOnRecord
<1>3. Spec => Lifecycle!Spec
  BY ReviewsImplementLifecycle DEF ImplementsLifecycle
<1> QED BY <1>1, <1>2, <1>3, SameRecord, PTL

-----------------------------------------------------------------------------
(* The jobs that set up Perun groups: what the rows of GroupFailedStage say *)
(* is true, and unfinished groups stay in sight, for any number of          *)
(* projects, failures, restarts and synchronisations.                       *)

Queued == {queue[i] : i \in DOMAIN queue}

JobIsOwn(job) == job.group \in DOMAIN group /\ group[job.group].project = job.project

\* Jobs configure a group that was created for their project.
JobsAreOwn ==
  /\ worker.pc # "idle" => JobIsOwn(worker.job)
  /\ \A job \in Queued : JobIsOwn(job)

HasGroup(p) == \E g \in DOMAIN group : group[g].project = p

IdleIsWaiting == worker.pc = "idle" => worker = Waiting

\* Only projects with a group have a row, and only a row says that a job runs.
RowsAreReal ==
  \A p \in Project : IF HasRow(p) THEN HasGroup(p) ELSE ~failedStage[p].isRunning

\* RunningFlagIsReal, of the jobs in the queue as a set.
FlagsAreReal ==
  \A p \in Project :
    failedStage[p].isRunning =>
      worker.job.project = p \/ (\E job \in Queued : job.project = p /\ job.stalled) \/ p \in lost

\* What a recorded stage lets the next job skip.
Skipped(lastStage) == {setting \in Setting : ~ShouldRunStage(setting, lastStage)}

\* What a job that got to a place has seen to.
doneBefore ==
  [idle |-> {}, create_group |-> {}, copy_form |-> {}, copy_mails |-> {"copy_form"},
   set_attributes |-> {"copy_form", "copy_mails"},
   find_user |-> {"copy_form", "copy_mails", "set_attributes"},
   set_user |-> {"copy_form", "copy_mails", "set_attributes"},
   finish |-> Setting, stop |-> {}]

\* A group that is the only one of its project has these settings.
IsOnlyGroup(p, g) ==
  /\ g \in DOMAIN group /\ group[g].project = p
  /\ \A h \in DOMAIN group : group[h].project = p => h = g

OnlyGroupHas(p, settings) ==
  \A g \in DOMAIN group : IsOnlyGroup(p, g) => settings \subseteq group[g].settings

RowsResume ==
  \A p \in Project : HasRow(p) => OnlyGroupHas(p, Skipped(failedStage[p].lastStage))

WorkerHasDone ==
  worker.pc # "idle" =>
    OnlyGroupHas(worker.job.project, doneBefore[worker.pc] \cup Skipped(worker.lastStage))

\* A job that stops has recorded its failure, was lost, or has done everything.
StoppedIsRecorded ==
  worker.pc = "stop" =>
    \/ HasRow(worker.job.project)
    \/ worker.job.project \in lost
    \/ OnlyGroupHas(worker.job.project, Setting)

Pending(p) == worker.job.project = p \/ \E job \in Queued : job.project = p

InSight(p, g) ==
  HasRow(p) \/ Pending(p) \/ p \in lost \/ ~IsOnlyGroup(p, g) \/ Setting \subseteq group[g].settings

\* The project has that group, or is about to: its approval only has to commit.
Records(p, g) ==
  /\ g # NoGroup
  /\ \/ project[p].group = g
     \/ \E a \in Admin : approval[a].pc = "commit" /\ approval[a].project = p /\ approval[a].group = g

\* UnfinishedIsVisible, also of the groups that approvals are about to record.
GroupsAreInSight == \A p \in Project, g \in Group : Records(p, g) => InSight(p, g)

JobInv ==
  /\ JobsAreOwn /\ IdleIsWaiting /\ RowsAreReal /\ FlagsAreReal
  /\ RowsResume /\ WorkerHasDone /\ StoppedIsRecorded /\ GroupsAreInSight

-----------------------------------------------------------------------------
(* The queue as a set, and groups whose settings grow.                     *)

LEMMA JobInvStarts == Init => JobInv
BY DEF Init, JobInv, JobsAreOwn, Queued, IdleIsWaiting, RowsAreReal, FlagsAreReal, RowsResume,
       WorkerHasDone, StoppedIsRecorded, GroupsAreInSight, Records, HasRow, NoRow, Waiting,
       NoApproval, NoGroup

LEMMA AppendIsQueued ==
  ASSUME queue \in Seq(Job), NEW job \in Job, queue' = Append(queue, job)
  PROVE  Queued' = Queued \cup {job}
<1>1. Len(queue) \in Nat /\ DOMAIN queue = 1 .. Len(queue)
  OBVIOUS
<1>2. DOMAIN queue' = 1 .. (Len(queue) + 1) /\ queue'[Len(queue) + 1] = job
  OBVIOUS
<1>3. \A i \in DOMAIN queue : queue'[i] = queue[i]
  OBVIOUS
<1>4. \A i \in DOMAIN queue' : i = Len(queue) + 1 \/ i \in DOMAIN queue
  BY <1>1, <1>2
<1>5. DOMAIN queue \subseteq DOMAIN queue' /\ Len(queue) + 1 \in DOMAIN queue'
  BY <1>1, <1>2
<1> QED BY <1>2, <1>3, <1>4, <1>5 DEF Queued

LEMMA TailIsQueued ==
  ASSUME queue \in Seq(Job), queue # <<>>, queue' = Tail(queue)
  PROVE  Queued = Queued' \cup {Head(queue)} /\ Head(queue) \in Job
<1>1. Len(queue) \in Nat \ {0} /\ DOMAIN queue = 1 .. Len(queue)
  OBVIOUS
<1>2. DOMAIN queue' = 1 .. (Len(queue) - 1) /\ \A i \in DOMAIN queue' : queue'[i] = queue[i + 1]
  OBVIOUS
<1>3. Head(queue) = queue[1] /\ 1 \in DOMAIN queue
  BY <1>1
<1>4. ASSUME NEW i \in DOMAIN queue PROVE queue[i] \in Queued' \cup {Head(queue)}
  <2>1. CASE i = 1
    BY <1>3, <2>1
  <2>2. CASE i # 1
    <3>1. i - 1 \in DOMAIN queue' /\ queue'[i - 1] = queue[i]
      BY <1>1, <1>2, <2>2
    <3> QED BY <3>1 DEF Queued
  <2> QED BY <2>1, <2>2
<1>5. ASSUME NEW i \in DOMAIN queue' PROVE queue'[i] \in Queued
  <2>1. i + 1 \in DOMAIN queue /\ queue'[i] = queue[i + 1]
    BY <1>1, <1>2
  <2> QED BY <2>1 DEF Queued
<1> QED BY <1>3, <1>4, <1>5 DEF Queued

LEMMA GivenBackIsQueued ==
  ASSUME queue \in Seq(Job), NEW job \in Job, queue' = <<job>> \o queue
  PROVE  Queued' = Queued \cup {job}
<1>1. Len(queue) \in Nat /\ DOMAIN queue = 1 .. Len(queue)
  OBVIOUS
<1>2. DOMAIN queue' = 1 .. (Len(queue) + 1) /\ queue'[1] = job
  OBVIOUS
<1>3. \A i \in DOMAIN queue : i + 1 \in DOMAIN queue' /\ queue'[i + 1] = queue[i]
  BY <1>1, <1>2
<1>4. \A i \in DOMAIN queue' : i = 1 \/ (i - 1 \in DOMAIN queue /\ queue'[i] = queue[i - 1])
  BY <1>1, <1>2
<1>5. job \in Queued'
  BY <1>1, <1>2 DEF Queued
<1>6. ASSUME NEW i \in DOMAIN queue PROVE queue[i] \in Queued'
  BY <1>3 DEF Queued
<1>7. ASSUME NEW i \in DOMAIN queue' PROVE queue'[i] \in Queued \cup {job}
  BY <1>2, <1>4 DEF Queued
<1> QED BY <1>5, <1>6, <1>7 DEF Queued

\* Groups are never removed, keep their project and lose no setting.
GroupsGrow ==
  /\ DOMAIN group \subseteq DOMAIN group'
  /\ \A g \in DOMAIN group : /\ group'[g].project = group[g].project
                           /\ group[g].settings \subseteq group'[g].settings

LEMMA OnlyGroupStays ==
  ASSUME GroupsGrow, NEW p, HasGroup(p), NEW g, IsOnlyGroup(p, g)'
  PROVE  IsOnlyGroup(p, g) /\ group[g].settings \subseteq group'[g].settings
BY DEF GroupsGrow, HasGroup, IsOnlyGroup

LEMMA OwnGroupStays ==
  ASSUME GroupsGrow
  PROVE  /\ \A job : JobIsOwn(job) => JobIsOwn(job)'
         /\ \A p : HasGroup(p) => HasGroup(p)'
         /\ \A p, settings : HasGroup(p) /\ OnlyGroupHas(p, settings) => OnlyGroupHas(p, settings)'
BY OnlyGroupStays DEF GroupsGrow, JobIsOwn, HasGroup, OnlyGroupHas, IsOnlyGroup

LEMMA StaysInSight ==
  ASSUME GroupsGrow, lost \subseteq lost', NEW p \in Project, NEW g \in DOMAIN group,
         group[g].project = p, InSight(p, g),
         HasRow(p) => HasRow(p)' \/ Pending(p)',
         Pending(p) => Pending(p)' \/ HasRow(p)' \/ p \in lost' \/ OnlyGroupHas(p, Setting)'
  PROVE  InSight(p, g)'
<1>1. HasGroup(p) /\ g \in DOMAIN group'
  BY DEF HasGroup, GroupsGrow
<1>2. CASE ~IsOnlyGroup(p, g)
  BY <1>1, <1>2, OnlyGroupStays DEF InSight
<1>3. CASE Setting \subseteq group[g].settings
  BY <1>1, <1>3 DEF GroupsGrow, InSight
<1>4. CASE OnlyGroupHas(p, Setting)'
  BY <1>1, <1>4 DEF OnlyGroupHas, InSight
<1> QED BY <1>2, <1>3, <1>4 DEF InSight

IsGroupOf(p, g) == g \in DOMAIN group /\ group[g].project = p

\* The groups that projects and approvals record are their own, and in sight.
LEMMA RecordedInSight ==
  ASSUME TypeInv, ReviewInv, JobInv, NEW p \in Project, NEW g, Records(p, g)
  PROVE  IsGroupOf(p, g) /\ InSight(p, g)
<1>1. ASSUME project[p].group = g PROVE IsGroupOf(p, g)
  <2>1. RecordedGroupIsOwn /\ project[p].group # NoGroup
    BY <1>1 DEF ReviewInv, ReviewInStep, Records
  <2> QED BY <1>1, <2>1 DEF RecordedGroupIsOwn, IsGroupOf
<1>2. ASSUME NEW a \in Admin, approval[a].pc = "commit", approval[a].project = p, approval[a].group = g
      PROVE  IsGroupOf(p, g)
  BY <1>2 DEF ReviewInv, ReviewInStep, ApprovalOwnsGroup, IsGroupOf
<1>3. IsGroupOf(p, g)
  BY <1>1, <1>2 DEF Records
<1>4. g \in Group
  <2>1. Len(group) \in Nat /\ DOMAIN group = 1 .. Len(group) /\ Len(group) <= MaxGroups
    BY LenProperties DEF TypeInv, TypeOK
  <2> QED BY <1>3, <2>1, ProvisioningAssumption DEF IsGroupOf, Group
<1> QED BY <1>3, <1>4 DEF JobInv, GroupsAreInSight

-----------------------------------------------------------------------------
(* Reviews: jobs are added to the queue and groups to Perun.               *)

\* A review changes neither jobs nor rows; it records the group that its
\* approval holds, or sends an approval on that has queued the job.
LEMMA ReviewKeepsJobs ==
  ASSUME TypeInv, ReviewInv, JobInv, GroupsGrow,
         UNCHANGED <<worker, failedStage, lost>>,
         Queued \subseteq Queued', \A job \in Queued' \ Queued : JobIsOwn(job),
         \A p \in Project : \A g : Records(p, g)' => Records(p, g) \/ \E job \in Queued' : job.project = p
  PROVE  JobInv'
<1>j. JobsAreOwn /\ IdleIsWaiting /\ RowsAreReal /\ FlagsAreReal /\ RowsResume /\ WorkerHasDone
        /\ StoppedIsRecorded
  BY DEF JobInv
<1>1. JobsAreOwn'
  BY <1>j, OwnGroupStays DEF JobsAreOwn
<1>2. IdleIsWaiting'
  BY <1>j DEF IdleIsWaiting, Waiting, NoJob
<1>3. \A p \in Project : HasRow(p)' = HasRow(p)
  BY DEF HasRow
<1>4. RowsAreReal'
  BY <1>j, <1>3, OwnGroupStays DEF RowsAreReal
<1>5. FlagsAreReal'
  BY <1>j DEF FlagsAreReal
<1>6. RowsResume'
  <2>1. ASSUME NEW p \in Project, HasRow(p), NEW g, IsOnlyGroup(p, g)'
        PROVE  Skipped(failedStage[p].lastStage) \subseteq group'[g].settings
    <3>1. HasGroup(p) /\ OnlyGroupHas(p, Skipped(failedStage[p].lastStage))
      BY <1>j, <2>1 DEF RowsAreReal, RowsResume
    <3>2. IsOnlyGroup(p, g) /\ group[g].settings \subseteq group'[g].settings
      BY <2>1, <3>1, OnlyGroupStays
    <3> QED BY <3>1, <3>2 DEF OnlyGroupHas, IsOnlyGroup
  <2>2. \A p \in Project : Skipped(failedStage[p].lastStage)' = Skipped(failedStage[p].lastStage)
    BY DEF Skipped, ShouldRunStage
  <2> QED BY <1>3, <2>1, <2>2 DEF RowsResume, OnlyGroupHas
<1>w. worker.pc # "idle" => HasGroup(worker.job.project)
  BY <1>j DEF JobsAreOwn, JobIsOwn, HasGroup
<1>7. WorkerHasDone'
  <2> DEFINE seen == doneBefore[worker.pc] \cup Skipped(worker.lastStage)
  <2>1. ASSUME worker.pc # "idle", NEW g, IsOnlyGroup(worker.job.project, g)'
        PROVE  seen \subseteq group'[g].settings
    <3>1. HasGroup(worker.job.project) /\ OnlyGroupHas(worker.job.project, seen)
      BY <1>j, <1>w, <2>1 DEF WorkerHasDone
    <3>2. IsOnlyGroup(worker.job.project, g) /\ group[g].settings \subseteq group'[g].settings
      BY <2>1, <3>1 DEF GroupsGrow, HasGroup, IsOnlyGroup
    <3> QED BY <3>1, <3>2 DEF OnlyGroupHas, IsOnlyGroup
  <2>2. seen' = seen
    BY DEF doneBefore, Skipped, ShouldRunStage
  <2> QED BY <2>1, <2>2 DEF WorkerHasDone, OnlyGroupHas
<1>8. StoppedIsRecorded'
  <2>1. ASSUME worker.pc # "idle", OnlyGroupHas(worker.job.project, Setting)
        PROVE  OnlyGroupHas(worker.job.project, Setting)'
    BY <1>w, <2>1 DEF GroupsGrow, HasGroup, IsOnlyGroup, OnlyGroupHas
  <2> QED BY <1>j, <2>1 DEF StoppedIsRecorded, HasRow
<1>9. ASSUME NEW p \in Project, NEW g, IsGroupOf(p, g), InSight(p, g) PROVE InSight(p, g)'
  <2>1. Pending(p) => Pending(p)'
    BY DEF Pending
  <2>2. HasRow(p) => HasRow(p)'
    BY DEF HasRow
  <2> QED BY <1>9, <2>1, <2>2, StaysInSight DEF IsGroupOf
<1>10. GroupsAreInSight'
  <2>1. ASSUME NEW p \in Project, NEW g \in Group, Records(p, g)' PROVE InSight(p, g)'
    <3>1. CASE Records(p, g)
      BY <1>9, <3>1, RecordedInSight
    <3>2. CASE \E job \in Queued' : job.project = p
      BY <3>2 DEF InSight, Pending
    <3> QED BY <2>1, <3>1, <3>2
  <2> QED BY <2>1 DEF GroupsAreInSight, Group
<1> QED BY <1>1, <1>2, <1>4, <1>5, <1>6, <1>7, <1>8, <1>10 DEF JobInv

\* Most reviews change neither groups nor jobs.
LEMMA QuietReview ==
  ASSUME TypeInv, ReviewInv, JobInv, UNCHANGED <<group, jobVars, lost>>,
         \A p \in Project : \A g : Records(p, g)' => Records(p, g)
  PROVE  JobInv'
<1>1. GroupsGrow /\ Queued' = Queued /\ UNCHANGED <<worker, failedStage, lost>>
  BY DEF GroupsGrow, Queued, jobVars
<1> QED BY <1>1, ReviewKeepsJobs

LEMMA QuietRecords ==
  ASSUME \A p \in Project : project'[p].group = project[p].group,
         \A a \in Admin : approval'[a].pc = "commit" => approval'[a] = approval[a],
         NEW p \in Project, NEW g, Records(p, g)'
  PROVE  Records(p, g)
BY DEF Records

LEMMA ApplicantKeepsJobs ==
  ASSUME TypeInv, ReviewInv, JobInv, NEW u \in Applicant, ApplicantStep(u)
  PROVE  JobInv'
<1>1. UNCHANGED <<approval, group, jobVars, lost>>
  BY DEF ApplicantStep, BeginResubmit, CommitResubmit, AbandonResubmit, perunVars
<1>2. \A p \in Project : project'[p].group = project[p].group
  <2>1. CASE CommitResubmit(u)
    <3>1. project \in [Project -> ProjectRow] /\ resubmission[u].project \in Project
      BY <2>1 DEF CommitResubmit, TypeInv, TypeOK, BusyWithSomething
    <3> QED BY <2>1, <3>1 DEF CommitResubmit, ProjectRow
  <2>2. CASE ~CommitResubmit(u)
    BY <2>2 DEF ApplicantStep, BeginResubmit, AbandonResubmit
  <2> QED BY <2>1, <2>2
<1>3. \A p \in Project : \A g : Records(p, g)' => Records(p, g)
  BY <1>1, <1>2, QuietRecords
<1> QED BY <1>1, <1>3, QuietReview

LEMMA AdminKeepsJobs ==
  ASSUME TypeInv, ReviewInv, JobInv, NEW a \in Admin, AdminStep(a)
  PROVE  JobInv'
<1>t. TypeOK /\ BusyWithSomething
  BY DEF TypeInv
<1>1. CASE (\E p \in Project : BeginApproval(a, p)) \/ RefuseApproval(a) \/ AbandonApproval(a)
  <2>1. UNCHANGED <<project, group, jobVars, lost>>
    BY <1>1 DEF BeginApproval, RefuseApproval, AbandonApproval, perunVars
  <2>2. \A b \in Admin : approval'[b].pc = "commit" => approval'[b] = approval[b]
    BY <1>t, <1>1 DEF BeginApproval, RefuseApproval, AbandonApproval, NoApproval, TypeOK
  <2>3. \A p \in Project : \A g : Records(p, g)' => Records(p, g)
    BY <2>1, <2>2, QuietRecords
  <2> QED BY <2>1, <2>3, QuietReview
<1>2. CASE CommitApproval(a)
  <2>1. UNCHANGED <<group, jobVars, lost>>
    BY <1>2 DEF CommitApproval, perunVars
  <2>2. approval[a].pc = "commit" /\ approval[a].project \in Project
    BY <1>t, <1>2 DEF CommitApproval, BusyWithSomething
  <2>3. \A p \in Project : project'[p].group = IF p = approval[a].project THEN approval[a].group
                                                                      ELSE project[p].group
    BY <1>t, <1>2, <2>2 DEF CommitApproval, TypeOK, ProjectRow
  <2>4. \A b \in Admin : approval'[b].pc = "commit" => approval'[b] = approval[b]
    BY <1>t, <1>2 DEF CommitApproval, NoApproval, TypeOK
  <2>5. \A p \in Project : \A g : Records(p, g)' => Records(p, g)
    BY <2>2, <2>3, <2>4 DEF Records
  <2> QED BY <2>1, <2>5, QuietReview
<1>3. CASE CreateGroup(a)
  <2>1. UNCHANGED <<project, queue, worker, failedStage, lost>>
    BY <1>3 DEF CreateGroup, jobVars
  <2>2. \A b \in Admin : approval'[b].pc = "commit" => approval'[b] = approval[b]
    BY <1>t, <1>3 DEF CreateGroup, TypeOK
  <2>3. \A p \in Project : \A g : Records(p, g)' => Records(p, g)
    BY <2>1, <2>2, QuietRecords
  <2>4. GroupsGrow
    <3>1. PICK row : group' = Append(group, row)
      BY <1>3 DEF CreateGroup
    <3>2. group \in Seq(GroupRow) /\ Len(group) \in Nat /\ DOMAIN group = 1 .. Len(group)
      BY <1>t, LenProperties DEF TypeOK
    <3>3. DOMAIN group' = 1 .. (Len(group) + 1) /\ \A g \in DOMAIN group : group'[g] = group[g]
      BY <3>1, <3>2
    <3> QED BY <3>2, <3>3 DEF GroupsGrow
  <2>5. Queued' = Queued
    BY <2>1 DEF Queued
  <2> QED BY <2>1, <2>3, <2>4, <2>5, ReviewKeepsJobs
<1>4. CASE EnqueueSettings(a)
  <2> DEFINE job == [group |-> approval[a].group, project |-> approval[a].project, stalled |-> FALSE]
  <2>1. UNCHANGED <<project, group, worker, failedStage, lost>> /\ queue' = Append(queue, job)
    BY <1>4 DEF EnqueueSettings, perunVars
  <2>2. approval[a].pc = "enqueue" /\ job \in Job /\ queue \in Seq(Job)
    BY <1>t, <1>4 DEF EnqueueSettings, BusyWithSomething, Job, TypeOK
  <2>3. Queued' = Queued \cup {job}
    BY <2>1, <2>2, AppendIsQueued
  <2>4. JobIsOwn(job)
    BY <2>2 DEF ReviewInv, ReviewInStep, ApprovalOwnsGroup, JobIsOwn
  <2>5. GroupsGrow
    BY <2>1 DEF GroupsGrow
  <2>6. \A b \in Admin : b # a => approval'[b] = approval[b]
    BY <1>t, <1>4 DEF EnqueueSettings, TypeOK
  <2>7. approval'[a].project = job.project
    BY <1>t, <1>4 DEF EnqueueSettings, TypeOK, ApprovalState
  <2>8. \A p \in Project : \A g : Records(p, g)' => Records(p, g) \/ \E j \in Queued' : j.project = p
    <3>1. job.project = approval[a].project /\ job \in Queued'
      BY <2>3
    <3> HIDE DEF job
    <3>2. ASSUME NEW p \in Project, NEW b \in Admin, approval'[b].project = p
          PROVE  b # a \/ \E j \in Queued' : j.project = p
      BY <2>7, <3>1, <3>2
    <3> QED BY <2>1, <2>6, <3>2 DEF Records
  <2> HIDE DEF job
  <2> QED BY <2>1, <2>3, <2>4, <2>5, <2>8, ReviewKeepsJobs
<1> QED BY <1>1, <1>2, <1>3, <1>4 DEF AdminStep

LEMMA ProjectKeepsJobs ==
  ASSUME TypeInv, ReviewInv, JobInv, NEW p \in Project, ProjectStep(p)
  PROVE  JobInv'
<1>t. TypeOK /\ BusyWithSomething
  BY DEF TypeInv
<1>1. CASE (\E t \in Title : RequestProject(p, t)) \/ RejectProject(p) \/ ArchiveProject(p)
  <2>1. UNCHANGED <<approval, group, jobVars, lost>>
    BY <1>1 DEF RequestProject, RejectProject, ArchiveProject, perunVars
  <2>2. \A q \in Project : project'[q].group = project[q].group
    <3>1. project \in [Project -> ProjectRow]
      BY <1>t DEF TypeOK
    <3>2. ASSUME NEW t \in Title, RequestProject(p, t)
          PROVE  \A q \in Project : project'[q].group = project[q].group
      BY <3>1, <3>2 DEF RequestProject, ProjectRow
    <3>3. ASSUME NEW st, MoveTo(p, st) PROVE \A q \in Project : project'[q].group = project[q].group
      BY <3>1, <3>3 DEF MoveTo, ProjectRow
    <3> QED BY <1>1, <3>2, <3>3 DEF RejectProject, ArchiveProject
  <2>3. \A q \in Project : \A g : Records(q, g)' => Records(q, g)
    BY <2>1, <2>2, QuietRecords
  <2> QED BY <2>1, <2>3, QuietReview
<1>2. CASE Synchronize(p)
  <2> DEFINE job == [group |-> project[p].group, project |-> p, stalled |-> FALSE]
  <2>1. /\ UNCHANGED <<project, approval, group, worker, failedStage, lost>>
        /\ queue' = Append(queue, job) /\ project[p].group # NoGroup
    BY <1>2 DEF Synchronize, reviewVars, perunVars
  <2>2. job \in Job /\ queue \in Seq(Job)
    BY <1>t, <2>1 DEF Job, TypeOK, ProjectRow
  <2>3. Queued' = Queued \cup {job}
    BY <2>1, <2>2, AppendIsQueued
  <2>4. JobIsOwn(job)
    BY <2>1 DEF ReviewInv, ReviewInStep, RecordedGroupIsOwn, JobIsOwn
  <2>5. GroupsGrow
    BY <2>1 DEF GroupsGrow
  <2>6. \A q \in Project : \A g : Records(q, g)' => Records(q, g)
    BY <2>1 DEF Records
  <2> HIDE DEF job
  <2> QED BY <2>1, <2>3, <2>4, <2>5, <2>6, ReviewKeepsJobs
<1> QED BY <1>1, <1>2 DEF ProjectStep

-----------------------------------------------------------------------------
(* The worker: settings are added to groups, rows come and go.             *)

LEMMA SightStays ==
  ASSUME TypeInv, ReviewInv, JobInv, GroupsGrow, lost \subseteq lost',
         \A p \in Project : \A g : Records(p, g)' => Records(p, g),
         \A p \in Project : HasRow(p) => HasRow(p)' \/ Pending(p)',
         \A p \in Project :
           Pending(p) => Pending(p)' \/ HasRow(p)' \/ p \in lost' \/ OnlyGroupHas(p, Setting)'
  PROVE  GroupsAreInSight'
<1>1. ASSUME NEW p \in Project, NEW g \in Group, Records(p, g)' PROVE InSight(p, g)'
  <2>1. IsGroupOf(p, g) /\ InSight(p, g)
    BY <1>1, RecordedInSight
  <2> QED BY <2>1, StaysInSight DEF IsGroupOf
<1> QED BY <1>1 DEF GroupsAreInSight, Group

\* Rows that stay as they are stay true.
LEMMA RowStaysTrue ==
  ASSUME JobInv, GroupsGrow, NEW p \in Project, failedStage'[p].lastStage = failedStage[p].lastStage,
         HasRow(p)'
  PROVE  /\ HasGroup(p)'
         /\ \A g : IsOnlyGroup(p, g)' => Skipped(failedStage[p].lastStage) \subseteq group'[g].settings
<1>1. HasGroup(p) /\ OnlyGroupHas(p, Skipped(failedStage[p].lastStage))
  BY DEF HasRow, JobInv, RowsAreReal, RowsResume
<1>2. HasGroup(p)'
  BY <1>1, OwnGroupStays
<1>3. ASSUME NEW g, IsOnlyGroup(p, g)' PROVE Skipped(failedStage[p].lastStage) \subseteq group'[g].settings
  <2>1. IsOnlyGroup(p, g) /\ group[g].settings \subseteq group'[g].settings
    BY <1>1, <1>3, OnlyGroupStays
  <2> QED BY <1>1, <2>1 DEF OnlyGroupHas, IsOnlyGroup
<1> QED BY <1>2, <1>3

\* What the job of a project gets on with, place by place.
LEMMA WorkerMovesOn ==
  ASSUME TypeInv, ReviewInv, JobInv, GroupsGrow, lost \subseteq lost',
         UNCHANGED <<project, approval, queue>>,
         NEW w \in Project, worker.job.project = w, worker.pc # "idle", worker'.job = worker.job,
         NEW place, worker'.pc = place, place # "idle", NEW stage, worker'.lastStage = stage,
         \A p \in Project \ {w} : failedStage'[p] = failedStage[p],
         NEW recorded, failedStage'[w].lastStage = recorded,
         recorded = "none" => ~failedStage'[w].isRunning,
         \A g : IsOnlyGroup(w, g)' =>
           /\ recorded # "none" => Skipped(recorded) \subseteq group'[g].settings
           /\ doneBefore[place] \cup Skipped(stage) \subseteq group'[g].settings,
         place = "stop" => HasRow(w)' \/ w \in lost' \/ OnlyGroupHas(w, Setting)'
  PROVE  JobInv'
<1>j. JobsAreOwn /\ IdleIsWaiting /\ RowsAreReal /\ FlagsAreReal
  BY DEF JobInv
<1>q. Queued' = Queued
  BY DEF Queued
<1>w. worker'.job.project = w
  OBVIOUS
<1>1. JobsAreOwn'
  BY <1>j, <1>q DEF JobsAreOwn, JobIsOwn, GroupsGrow
<1>2. IdleIsWaiting'
  BY DEF IdleIsWaiting
<1>3. HasGroup(w)'
  BY <1>1 DEF JobsAreOwn, JobIsOwn, HasGroup
<1>4. RowsAreReal'
  <2>1. ASSUME NEW p \in Project, p # w PROVE IF HasRow(p)' THEN HasGroup(p)' ELSE ~failedStage'[p].isRunning
    BY <1>j, <2>1, RowStaysTrue DEF RowsAreReal, HasRow
  <2> QED BY <1>3, <2>1 DEF RowsAreReal, HasRow
<1>5. FlagsAreReal'
  BY <1>j, <1>q, <1>w DEF FlagsAreReal
<1>6. RowsResume'
  <2>1. ASSUME NEW p \in Project, HasRow(p)', NEW g, IsOnlyGroup(p, g)',
               NEW kept, kept = failedStage'[p].lastStage
        PROVE  Skipped(kept) \subseteq group'[g].settings
    <3>1. CASE p = w
      BY <2>1, <3>1 DEF HasRow
    <3>2. CASE p # w
      BY <2>1, <3>2, RowStaysTrue
    <3> QED BY <3>1, <3>2
  <2> QED BY <2>1 DEF RowsResume, OnlyGroupHas, HasRow, Skipped, ShouldRunStage
<1>7. WorkerHasDone'
  <2>1. doneBefore' = doneBefore
    BY DEF doneBefore
  <2>2. \A g : IsOnlyGroup(w, g)' => doneBefore[place] \cup Skipped(stage) \subseteq group'[g].settings
    OBVIOUS
  <2> QED BY <1>w, <2>1, <2>2 DEF WorkerHasDone, OnlyGroupHas, IsOnlyGroup, Skipped, ShouldRunStage
<1>8. StoppedIsRecorded'
  BY <1>w DEF StoppedIsRecorded, HasRow, OnlyGroupHas, IsOnlyGroup
<1>9. GroupsAreInSight'
  <2>1. \A p \in Project : \A g : Records(p, g)' => Records(p, g)
    BY DEF Records
  <2>2. \A p \in Project : Pending(p)' <=> Pending(p)
    BY <1>q DEF Pending
  <2>3. \A p \in Project : HasRow(p) => HasRow(p)' \/ Pending(p)'
    BY <2>2 DEF HasRow, Pending
  <2> QED BY <2>1, <2>2, <2>3, SightStays
<1> QED BY <1>1, <1>2, <1>4, <1>5, <1>6, <1>7, <1>8, <1>9 DEF JobInv

\* Whoever works has a project, its group, and seen to what its place says.
LEMMA Working ==
  ASSUME TypeInv, JobInv, worker.pc # "idle"
  PROVE  /\ worker.job.project \in Project /\ worker.job.group \in DOMAIN group
         /\ group[worker.job.group].project = worker.job.project
         /\ OnlyGroupHas(worker.job.project, doneBefore[worker.pc] \cup Skipped(worker.lastStage))
<1>1. worker.job \in Job
  BY DEF TypeInv, BusyWithSomething
<1> QED BY <1>1 DEF JobInv, JobsAreOwn, JobIsOwn, WorkerHasDone, Job

LEMMA SeenToStays ==
  ASSUME TypeInv, JobInv, GroupsGrow, worker.pc # "idle", NEW w, w = worker.job.project,
         NEW g, IsOnlyGroup(w, g)'
  PROVE  /\ g = worker.job.group /\ g \in DOMAIN group /\ group[g].settings \subseteq group'[g].settings
         /\ doneBefore[worker.pc] \cup Skipped(worker.lastStage) \subseteq group'[g].settings
<1>1. /\ worker.job.group \in DOMAIN group /\ group[worker.job.group].project = w
      /\ OnlyGroupHas(w, doneBefore[worker.pc] \cup Skipped(worker.lastStage))
  BY Working
<1>2. HasGroup(w)
  BY <1>1 DEF HasGroup
<1>3. IsOnlyGroup(w, g) /\ group[g].settings \subseteq group'[g].settings
  BY <1>2, OnlyGroupStays
<1> QED BY <1>1, <1>3 DEF OnlyGroupHas, IsOnlyGroup

LEMMA AppliedGrows ==
  ASSUME TypeInv, NEW setting \in Setting, group' = Applied(setting)
  PROVE  /\ GroupsGrow
         /\ worker.job.group \in DOMAIN group => setting \in group'[worker.job.group].settings
<1>1. group \in Seq(GroupRow)
  BY DEF TypeInv, TypeOK
<1>2. \A g \in DOMAIN group : group[g] \in GroupRow
  BY <1>1, ElementOfSeq, LenProperties
<1>3. DOMAIN group' = DOMAIN group
  BY <1>1 DEF Applied
<1>4. \A g \in DOMAIN group : g # worker.job.group => group'[g] = group[g]
  BY <1>1 DEF Applied
<1>5. ASSUME worker.job.group \in DOMAIN group
      PROVE  group'[worker.job.group] = [group[worker.job.group] EXCEPT !.settings = @ \cup {setting}]
  BY <1>1, <1>5 DEF Applied
<1>6. ASSUME worker.job.group \in DOMAIN group
      PROVE  /\ group'[worker.job.group].project = group[worker.job.group].project
             /\ group'[worker.job.group].settings = group[worker.job.group].settings \cup {setting}
  BY <1>2, <1>5, <1>6 DEF GroupRow
<1> QED BY <1>3, <1>4, <1>6 DEF GroupsGrow

\* What a place adds to the places before it.
LEMMA PlacesInOrder ==
  /\ doneBefore["copy_form"] = {} /\ doneBefore["stop"] = {} /\ doneBefore["finish"] = Setting
  /\ doneBefore["set_user"] = doneBefore["find_user"]
  /\ NextPlace("create_group") = "copy_form" /\ NextPlace("find_user") = "set_user"
  /\ \A place \in Setting : doneBefore[NextPlace(place)] = doneBefore[place] \cup {place}
  /\ \A place \in Setting : NextPlace(place) \notin {"idle", "stop"}
  /\ Skipped("none") = {}
  /\ \A place \in {"create_group", "find_user", "finish"} \cup Setting :
       CurrentStage(place) # "none" /\ Skipped(CurrentStage(place)) \subseteq doneBefore[place]
<1>1. Setting = {"copy_form", "copy_mails", "set_attributes", "set_user"}
  BY DEF Setting, Stage, stageIndex
<1>2. /\ doneBefore["copy_form"] = {} /\ doneBefore["stop"] = {} /\ doneBefore["finish"] = Setting
      /\ doneBefore["set_user"] = doneBefore["find_user"] /\ Skipped("none") = {}
      /\ NextPlace("create_group") = "copy_form" /\ NextPlace("find_user") = "set_user"
  BY DEF doneBefore, NextPlace, nextPlace, Skipped, ShouldRunStage
<1>3. \A place \in Setting : NextPlace(place) \notin {"idle", "stop"}
  BY <1>1 DEF NextPlace, nextPlace
<1>4. \A place \in Setting : doneBefore[NextPlace(place)] = doneBefore[place] \cup {place}
  <2>1. doneBefore[NextPlace("copy_form")] = doneBefore["copy_form"] \cup {"copy_form"}
    BY DEF NextPlace, nextPlace, doneBefore
  <2>2. doneBefore[NextPlace("copy_mails")] = doneBefore["copy_mails"] \cup {"copy_mails"}
    BY DEF NextPlace, nextPlace, doneBefore
  <2>3. doneBefore[NextPlace("set_attributes")] = doneBefore["set_attributes"] \cup {"set_attributes"}
    BY DEF NextPlace, nextPlace, doneBefore
  <2>4. doneBefore[NextPlace("set_user")] = doneBefore["set_user"] \cup {"set_user"}
    BY <1>1 DEF NextPlace, nextPlace, doneBefore
  <2> QED BY <1>1, <2>1, <2>2, <2>3, <2>4
<1>5. \A place \in {"create_group", "find_user", "finish"} \cup Setting :
        CurrentStage(place) # "none" /\ Skipped(CurrentStage(place)) \subseteq doneBefore[place]
  <2> SUFFICES ASSUME NEW place \in {"create_group", "find_user", "finish"} \cup Setting,
                      NEW setting \in Setting, NEW stage, stage = CurrentStage(place)
               PROVE  /\ stage # "none"
                      /\ stageIndex[setting] < stageIndex[stage] => setting \in doneBefore[place]
    BY <1>1 DEF Skipped, ShouldRunStage, stageIndex, CurrentStage
  <2>1. CASE place \in {"create_group", "copy_form"}
    BY <1>1, <2>1 DEF CurrentStage, stageIndex, doneBefore
  <2>2. CASE place = "copy_mails"
    BY <1>1, <2>2 DEF CurrentStage, stageIndex, doneBefore
  <2>3. CASE place \in {"set_attributes", "find_user"}
    BY <1>1, <2>3 DEF CurrentStage, stageIndex, doneBefore
  <2>4. CASE place \in {"set_user", "finish"}
    BY <1>1, <2>4 DEF CurrentStage, stageIndex, doneBefore
  <2> QED BY <1>1, <2>1, <2>2, <2>3, <2>4
<1> QED BY <1>2, <1>3, <1>4, <1>5

LEMMA ReadKeepsJobs == ASSUME TypeInv, ReviewInv, JobInv, ReadLastStage PROVE JobInv'
<1>1. worker.pc = "create_group" /\ worker.job.project \in Project
  BY Working DEF ReadLastStage, WorkerAt
<1>2. PICK w, kept : w \in Project /\ w = worker.job.project /\ kept = failedStage[w].lastStage
  BY <1>1
<1>3. /\ worker' = [worker EXCEPT !.pc = "copy_form", !.lastStage = kept]
      /\ UNCHANGED <<project, approval, queue, failedStage, group, lost>>
  BY <1>2, PlacesInOrder DEF ReadLastStage, reviewVars, perunVars
<1>4. worker'.pc = "copy_form" /\ worker'.lastStage = kept /\ worker'.job = worker.job
  BY <1>3 DEF TypeInv, TypeOK, WorkerState
<1>5. GroupsGrow
  BY <1>3 DEF GroupsGrow
<1>6. \A g : IsOnlyGroup(w, g)' => Skipped(kept) \subseteq group'[g].settings
  <2>1. CASE kept = "none"
    BY <2>1, PlacesInOrder
  <2>2. CASE kept # "none"
    BY <1>2, <1>3, <1>5, <2>2, RowStaysTrue DEF HasRow
  <2> QED BY <2>1, <2>2
<1>7. kept = "none" => ~failedStage[w].isRunning
  BY <1>2 DEF JobInv, RowsAreReal, HasRow
<1> QED BY <1>1, <1>2, <1>3, <1>4, <1>5, <1>6, <1>7, PlacesInOrder, WorkerMovesOn

\* The row of a project stays as it is while its job gets on.
LEMMA RowUntouched ==
  ASSUME TypeInv, ReviewInv, JobInv, GroupsGrow, worker.pc # "idle",
         lost \subseteq lost', UNCHANGED <<project, approval, queue, failedStage>>,
         NEW w, w = worker.job.project, NEW place, place # "idle", WorkerGoesTo(place),
         \A g : IsOnlyGroup(w, g)' =>
           doneBefore[place] \cup Skipped(worker.lastStage) \subseteq group'[g].settings,
         place = "stop" => w \in lost'
  PROVE  JobInv'
<1>1. w \in Project
  BY Working
<1>2. PICK kept, stage : kept = failedStage[w].lastStage /\ stage = worker.lastStage
  OBVIOUS
<1>3. worker'.pc = place /\ worker'.lastStage = stage /\ worker'.job = worker.job
  BY <1>2 DEF WorkerGoesTo, TypeInv, TypeOK, WorkerState
<1>4. \A g : IsOnlyGroup(w, g)' /\ kept # "none" => Skipped(kept) \subseteq group'[g].settings
  BY <1>1, <1>2, RowStaysTrue DEF HasRow
<1>5. kept = "none" => ~failedStage[w].isRunning
  BY <1>1, <1>2 DEF JobInv, RowsAreReal, HasRow
<1> QED BY <1>1, <1>2, <1>3, <1>4, <1>5, WorkerMovesOn

LEMMA RunKeepsJobs == ASSUME TypeInv, ReviewInv, JobInv, RunStage PROVE JobInv'
<1>1. PICK w : w = worker.job.project
  OBVIOUS
<1>2. PICK setting \in Setting : setting = worker.pc
  BY DEF RunStage
<1>3. worker.pc # "idle" /\ NextPlace(setting) \notin {"idle", "stop"} /\ WorkerGoesTo(NextPlace(setting))
  BY <1>2, PlacesInOrder, NextPlaces DEF RunStage
<1>4. UNCHANGED <<project, approval, queue, failedStage, lost>>
  BY DEF RunStage, reviewVars
<1>5. CASE ShouldRunStage(setting, worker.lastStage)
  <2>1. group' = Applied(setting)
    BY <1>2, <1>5 DEF RunStage
  <2>2. GroupsGrow /\ setting \in group'[worker.job.group].settings
    BY <1>3, <2>1, AppliedGrows, Working
  <2>3. \A g : IsOnlyGroup(w, g)' =>
          doneBefore[NextPlace(setting)] \cup Skipped(worker.lastStage) \subseteq group'[g].settings
    BY <1>1, <1>2, <1>3, <2>2, SeenToStays, PlacesInOrder
  <2> QED BY <1>1, <1>3, <1>4, <2>2, <2>3, RowUntouched
<1>6. CASE ~ShouldRunStage(setting, worker.lastStage)
  <2>1. GroupsGrow
    BY <1>2, <1>6 DEF RunStage, GroupsGrow
  <2>2. setting \in Skipped(worker.lastStage)
    BY <1>6 DEF Skipped
  <2>3. \A g : IsOnlyGroup(w, g)' =>
          doneBefore[NextPlace(setting)] \cup Skipped(worker.lastStage) \subseteq group'[g].settings
    BY <1>1, <1>2, <1>3, <2>1, <2>2, SeenToStays, PlacesInOrder
  <2> QED BY <1>1, <1>3, <1>4, <2>1, <2>3, RowUntouched
<1> QED BY <1>5, <1>6

LEMMA FindKeepsJobs == ASSUME TypeInv, ReviewInv, JobInv, FindUser PROVE JobInv'
<1>1. PICK w : w = worker.job.project
  OBVIOUS
<1>2. worker.pc = "find_user" /\ WorkerGoesTo("set_user")
  BY PlacesInOrder DEF FindUser, WorkerAt
<1>3. UNCHANGED <<project, approval, queue, failedStage, group, lost>>
  BY DEF FindUser, reviewVars, perunVars
<1>4. GroupsGrow
  BY <1>3 DEF GroupsGrow
<1>5. \A g : IsOnlyGroup(w, g)' =>
        doneBefore["set_user"] \cup Skipped(worker.lastStage) \subseteq group'[g].settings
  BY <1>1, <1>2, <1>4, SeenToStays, PlacesInOrder
<1> QED BY <1>1, <1>2, <1>3, <1>4, <1>5, RowUntouched

LEMMA RemoveKeepsJobs == ASSUME TypeInv, ReviewInv, JobInv, RemoveFailedStage PROVE JobInv'
<1>1. worker.pc = "finish"
  BY DEF RemoveFailedStage, WorkerAt
<1>2. PICK w, stage : w \in Project /\ w = worker.job.project /\ stage = worker.lastStage
  BY <1>1, Working
<1>3. worker'.pc = "stop" /\ worker'.lastStage = stage /\ worker'.job = worker.job
  BY <1>2 DEF RemoveFailedStage, WorkerGoesTo, TypeInv, TypeOK, WorkerState
<1>4. UNCHANGED <<project, approval, queue, group, lost>>
  BY DEF RemoveFailedStage, reviewVars, perunVars
<1>5. GroupsGrow
  BY <1>4 DEF GroupsGrow
<1>6. /\ \A p \in Project \ {w} : failedStage'[p] = failedStage[p]
      /\ failedStage'[w].lastStage = "none" /\ ~failedStage'[w].isRunning
  BY <1>2 DEF RemoveFailedStage, NoRow, TypeInv, TypeOK
<1>7. \A g : IsOnlyGroup(w, g)' => Setting \cup Skipped(stage) \subseteq group'[g].settings
  BY <1>1, <1>2, <1>5, SeenToStays, PlacesInOrder
<1>8. OnlyGroupHas(w, Setting)'
  BY <1>7 DEF OnlyGroupHas, Setting, Stage, stageIndex
<1>9. doneBefore["stop"] = {} /\ "stop" # "idle" /\ worker.pc # "idle"
  BY <1>1, PlacesInOrder
<1> QED BY <1>2, <1>3, <1>4, <1>5, <1>6, <1>7, <1>8, <1>9, WorkerMovesOn

\* A failing stage may have been applied or not.
LEMMA FailureGrows ==
  ASSUME TypeInv, JobInv, CanFail, SettingsAfterFailure
  PROVE  /\ GroupsGrow /\ worker.pc # "idle"
         /\ worker.pc \in {"create_group", "find_user", "finish"} \cup Setting
<1>1. worker.pc \in {"create_group", "find_user", "finish"} \cup Setting
  BY DEF CanFail
<1>2. worker.pc # "idle"
  BY <1>1, NextPlaces
<1>3. ASSUME group' = group PROVE GroupsGrow
  BY <1>3 DEF GroupsGrow
<1>4. ASSUME NEW setting \in Setting, group' = Applied(setting) PROVE GroupsGrow
  BY <1>4, AppliedGrows
<1> QED BY <1>1, <1>2, <1>3, <1>4 DEF SettingsAfterFailure

LEMMA FailKeepsJobs == ASSUME TypeInv, ReviewInv, JobInv, StageFails PROVE JobInv'
<1>1. /\ GroupsGrow /\ worker.pc # "idle"
      /\ worker.pc \in {"create_group", "find_user", "finish"} \cup Setting
  BY FailureGrows DEF StageFails
<1>2. PICK w, stage, recorded :
        w \in Project /\ w = worker.job.project /\ stage = worker.lastStage /\ recorded = CurrentStage(worker.pc)
  BY <1>1, Working
<1>3. worker'.pc = "stop" /\ worker'.lastStage = stage /\ worker'.job = worker.job
  BY <1>2 DEF StageFails, WorkerGoesTo, TypeInv, TypeOK, WorkerState
<1>4. UNCHANGED <<project, approval, queue, lost>>
  BY DEF StageFails, reviewVars
<1>5. recorded # "none" /\ Skipped(recorded) \subseteq doneBefore[worker.pc]
  BY <1>1, <1>2, PlacesInOrder
<1>6. /\ \A p \in Project \ {w} : failedStage'[p] = failedStage[p]
      /\ failedStage'[w].lastStage = recorded
  <2>1. failedStage \in [Project -> FailedStageRow]
    BY DEF TypeInv, TypeOK
  <2>2. failedStage' = [failedStage EXCEPT ![w] = [@ EXCEPT !.lastStage = recorded]]
    BY <1>2 DEF StageFails
  <2> QED BY <1>2, <2>1, <2>2 DEF FailedStageRow
<1>7. \A g : IsOnlyGroup(w, g)' =>
        Skipped(recorded) \subseteq group'[g].settings /\ Skipped(stage) \subseteq group'[g].settings
  BY <1>1, <1>2, <1>5, SeenToStays
<1>8. HasRow(w)'
  BY <1>5, <1>6 DEF HasRow
<1>9. doneBefore["stop"] = {} /\ "stop" # "idle"
  BY PlacesInOrder
<1> QED BY <1>1, <1>2, <1>3, <1>4, <1>5, <1>6, <1>7, <1>8, <1>9, WorkerMovesOn

LEMMA UnrecordedKeepsJobs == ASSUME TypeInv, ReviewInv, JobInv, FailUnrecorded PROVE JobInv'
<1>1. GroupsGrow /\ worker.pc # "idle"
  BY FailureGrows DEF FailUnrecorded
<1>2. PICK w : w = worker.job.project
  OBVIOUS
<1>3. lost \subseteq lost' /\ w \in lost'
  BY <1>2 DEF FailUnrecorded, Lose
<1>4. UNCHANGED <<project, approval, queue, failedStage>> /\ WorkerGoesTo("stop")
  BY DEF FailUnrecorded, reviewVars
<1>5. doneBefore["stop"] = {} /\ "stop" # "idle"
  BY PlacesInOrder
<1>6. \A g : IsOnlyGroup(w, g)' =>
        doneBefore["stop"] \cup Skipped(worker.lastStage) \subseteq group'[g].settings
  BY <1>1, <1>2, <1>5, SeenToStays
<1> QED BY <1>1, <1>2, <1>3, <1>4, <1>5, <1>6, RowUntouched

-----------------------------------------------------------------------------
(* Jobs begin and end.                                                     *)

\* Beginnings and ends change no group and no recorded stage.
LEMMA JobsChange ==
  ASSUME TypeInv, ReviewInv, JobInv, UNCHANGED <<project, group>>, lost \subseteq lost',
         \A p \in Project : \A g : Records(p, g)' => Records(p, g),
         \A p \in Project : failedStage'[p].lastStage = failedStage[p].lastStage,
         \A p \in Project : failedStage'[p].isRunning => HasRow(p),
         JobsAreOwn', FlagsAreReal',
         worker' = Waiting \/ (worker'.pc = "create_group" /\ worker'.lastStage = "none"),
         \A p \in Project :
           Pending(p) => Pending(p)' \/ HasRow(p) \/ p \in lost' \/ OnlyGroupHas(p, Setting)
  PROVE  JobInv'
<1>1. GroupsGrow
  BY DEF GroupsGrow
<1>2. \A p \in Project : (HasRow(p)' <=> HasRow(p)) /\ (HasGroup(p)' <=> HasGroup(p))
  BY DEF HasRow, HasGroup
<1>3. IdleIsWaiting'
  BY DEF IdleIsWaiting, Waiting, NoJob
<1>4. RowsAreReal'
  BY <1>2 DEF JobInv, RowsAreReal
<1>5. RowsResume'
  <2>1. ASSUME NEW p \in Project, HasRow(p)', NEW g, IsOnlyGroup(p, g)',
               NEW kept, kept = failedStage'[p].lastStage
        PROVE  Skipped(kept) \subseteq group'[g].settings
    BY <1>1, <2>1, RowStaysTrue
  <2> QED BY <2>1 DEF RowsResume, OnlyGroupHas, HasRow, Skipped, ShouldRunStage
<1>6. WorkerHasDone' /\ StoppedIsRecorded'
  <2>1. worker'.pc = "idle" \/ (worker'.pc = "create_group" /\ worker'.lastStage = "none")
    BY DEF Waiting
  <2>2. (doneBefore["create_group"] \cup Skipped("none"))' = {}
    BY DEF doneBefore, Skipped, ShouldRunStage
  <2> QED BY <2>1, <2>2 DEF WorkerHasDone, StoppedIsRecorded, OnlyGroupHas, Skipped, ShouldRunStage
<1>7. GroupsAreInSight'
  <2>1. \A p \in Project : OnlyGroupHas(p, Setting) => OnlyGroupHas(p, Setting)'
    BY DEF OnlyGroupHas, IsOnlyGroup
  <2> QED BY <1>1, <1>2, <2>1, SightStays
<1> QED BY <1>3, <1>4, <1>5, <1>6, <1>7 DEF JobInv

\* setRunning leaves the recorded stages alone.
LEMMA SettingRunning ==
  ASSUME TypeInv, JobInv, NEW p \in Project, NEW flag \in BOOLEAN, SetRunning(p, flag)
  PROVE  \A q \in Project :
           /\ failedStage'[q].lastStage = failedStage[q].lastStage
           /\ failedStage'[q].isRunning => HasRow(q)
           /\ failedStage'[q].isRunning = IF q = p /\ HasRow(p) THEN flag ELSE failedStage[q].isRunning
<1>1. failedStage \in [Project -> FailedStageRow] /\ RowsAreReal
  BY DEF TypeInv, TypeOK, JobInv
<1>2. CASE HasRow(p)
  <2>1. failedStage' = [failedStage EXCEPT ![p] = [@ EXCEPT !.isRunning = flag]]
    BY <1>2 DEF SetRunning
  <2> QED BY <1>1, <1>2, <2>1 DEF FailedStageRow, RowsAreReal
<1>3. CASE ~HasRow(p)
  BY <1>1, <1>3 DEF SetRunning, RowsAreReal
<1> QED BY <1>2, <1>3

LEMMA EndKeepsJobs == ASSUME TypeInv, ReviewInv, JobInv, StopRunning \/ StayRunning PROVE JobInv'
<1>1. worker.pc = "stop" /\ worker' = Waiting /\ UNCHANGED <<project, approval, queue, group>>
        /\ lost \subseteq lost'
  BY DEF StopRunning, StayRunning, WorkerAt, Lose, reviewVars, perunVars
<1>2. PICK w \in Project : w = worker.job.project
  BY <1>1, Working
<1>3. \A p \in Project : /\ failedStage'[p].lastStage = failedStage[p].lastStage
                         /\ failedStage'[p].isRunning => HasRow(p) /\ failedStage[p].isRunning
                         /\ failedStage'[w].isRunning => w \in lost'
  <2>1. CASE StopRunning
    <3>1. SetRunning(w, FALSE)
      BY <1>2, <2>1 DEF StopRunning
    <3> QED BY <1>2, <3>1, SettingRunning
  <2>2. CASE StayRunning
    BY <1>2, <2>2 DEF StayRunning, Lose, JobInv, RowsAreReal
  <2> QED BY <2>1, <2>2
<1>4. Queued' = Queued
  BY <1>1 DEF Queued
<1>5. JobsAreOwn'
  BY <1>1, <1>4 DEF JobInv, JobsAreOwn, JobIsOwn, Waiting
<1>6. FlagsAreReal'
  BY <1>1, <1>2, <1>3, <1>4 DEF JobInv, FlagsAreReal
<1>7. \A p \in Project : Pending(p) => Pending(p)' \/ HasRow(p) \/ p \in lost' \/ OnlyGroupHas(p, Setting)
  <2>1. HasRow(w) \/ w \in lost \/ OnlyGroupHas(w, Setting)
    BY <1>1, <1>2 DEF JobInv, StoppedIsRecorded
  <2> QED BY <1>1, <1>2, <1>4, <2>1 DEF Pending
<1>8. \A p \in Project : \A g : Records(p, g)' => Records(p, g)
  BY <1>1 DEF Records
<1> QED BY <1>1, <1>3, <1>5, <1>6, <1>7, <1>8, JobsChange

LEMMA TakeKeepsJobs == ASSUME TypeInv, ReviewInv, JobInv, TakeJob PROVE JobInv'
<1>1. PICK job : job = Head(queue)
  OBVIOUS
<1>2. /\ worker' = [pc |-> "create_group", job |-> job, lastStage |-> "none"]
      /\ UNCHANGED <<project, approval, group, lost>> /\ SetRunning(job.project, TRUE)
  BY <1>1 DEF TakeJob, reviewVars, perunVars
<1>3. worker.job.project = NoProject
  BY DEF TakeJob, WorkerAt, JobInv, IdleIsWaiting, Waiting, NoJob
<1>4. Queued = Queued' \cup {job} /\ job \in Job
  BY <1>1, TailIsQueued DEF TakeJob, TypeInv, TypeOK
<1>5. job.project \in Project
  BY <1>4 DEF Job
<1>6. \A p \in Project : /\ failedStage'[p].lastStage = failedStage[p].lastStage
                         /\ failedStage'[p].isRunning => HasRow(p)
                         /\ failedStage'[p].isRunning => p = job.project \/ failedStage[p].isRunning
  BY <1>2, <1>5, SettingRunning
<1>7. JobsAreOwn'
  BY <1>2, <1>4 DEF JobInv, JobsAreOwn, JobIsOwn
<1>8. FlagsAreReal'
  BY <1>2, <1>3, <1>4, <1>6, ProvisioningAssumption DEF JobInv, FlagsAreReal
<1>9. \A p \in Project : Pending(p) => Pending(p)'
  BY <1>2, <1>3, <1>4, ProvisioningAssumption DEF Pending
<1>10. \A p \in Project : \A g : Records(p, g)' => Records(p, g)
  BY <1>2 DEF Records
<1> QED BY <1>2, <1>6, <1>7, <1>8, <1>9, <1>10, JobsChange

LEMMA BeforeKeepsJobs == ASSUME TypeInv, ReviewInv, JobInv, FailBeforeStart PROVE JobInv'
<1>1. PICK job : job = Head(queue)
  OBVIOUS
<1>2. /\ UNCHANGED <<project, approval, group, worker, failedStage>>
      /\ lost \subseteq lost' /\ job.project \in lost'
  BY <1>1 DEF FailBeforeStart, Lose, reviewVars
<1>3. worker = Waiting
  BY DEF FailBeforeStart, WorkerAt, JobInv, IdleIsWaiting
<1>4. Queued = Queued' \cup {job}
  BY <1>1, TailIsQueued DEF FailBeforeStart, TypeInv, TypeOK
<1>5. JobsAreOwn'
  BY <1>2, <1>4 DEF JobInv, JobsAreOwn, JobIsOwn
<1>6. FlagsAreReal'
  BY <1>2, <1>4 DEF JobInv, FlagsAreReal
<1>7. \A p \in Project : Pending(p) => Pending(p)' \/ p \in lost'
  BY <1>2, <1>4 DEF Pending
<1>8. \A p \in Project : \A g : Records(p, g)' => Records(p, g)
  BY <1>2 DEF Records
<1>9. \A p \in Project : failedStage'[p].isRunning => HasRow(p)
  BY <1>2 DEF JobInv, RowsAreReal
<1>10. worker' = Waiting
  BY <1>2, <1>3 DEF Waiting, NoJob
<1> QED BY <1>2, <1>5, <1>6, <1>7, <1>8, <1>9, <1>10, JobsChange

LEMMA RestartKeepsJobs == ASSUME TypeInv, ReviewInv, JobInv, Restart PROVE JobInv'
<1>1. /\ UNCHANGED <<project, group, failedStage>> /\ worker' = Waiting
      /\ queue' = Requeue /\ lost' = IF worker.job.stalled THEN lost \cup {worker.job.project} ELSE lost
      /\ \A a \in Admin : approval'[a].pc = "idle"
  BY DEF Restart, NoApproval
<1>2. CASE worker.pc = "idle" \/ worker.job.stalled
  <2>1. Queued' = Queued
    BY <1>1, <1>2 DEF Requeue, WorkerAt, Queued
  <2>2. \A p \in Project : worker.job.project = p => p \in lost'
    BY <1>1, <1>2, ProvisioningAssumption DEF JobInv, IdleIsWaiting, Waiting, NoJob
  <2>3. JobsAreOwn'
    BY <1>1, <2>1 DEF JobInv, JobsAreOwn, JobIsOwn, Waiting
  <2>4. FlagsAreReal'
    BY <1>1, <2>1, <2>2 DEF JobInv, FlagsAreReal
  <2>5. \A p \in Project : Pending(p) => Pending(p)' \/ p \in lost'
    BY <2>1, <2>2 DEF Pending
  <2> QED BY <1>1, <2>3, <2>4, <2>5, JobsChange DEF Records, JobInv, RowsAreReal
<1>3. CASE worker.pc # "idle" /\ ~worker.job.stalled
  <2>1. PICK job : job = [worker.job EXCEPT !.stalled = TRUE]
    OBVIOUS
  <2>2. worker.job \in Job /\ JobIsOwn(worker.job)
    BY <1>3 DEF TypeInv, BusyWithSomething, JobInv, JobsAreOwn
  <2>3. /\ job \in Job /\ job.project = worker.job.project /\ job.group = worker.job.group
        /\ job.stalled
    BY <2>1, <2>2 DEF Job
  <2>4. Queued' = Queued \cup {job}
    BY <1>1, <1>3, <2>1, <2>3, GivenBackIsQueued DEF Requeue, WorkerAt, TypeInv, TypeOK
  <2>5. JobsAreOwn'
    BY <1>1, <2>2, <2>3, <2>4 DEF JobInv, JobsAreOwn, JobIsOwn, Waiting
  <2>6. FlagsAreReal'
    BY <1>1, <2>3, <2>4 DEF JobInv, FlagsAreReal
  <2>7. \A p \in Project : Pending(p) => Pending(p)'
    BY <2>3, <2>4 DEF Pending
  <2> QED BY <1>1, <2>5, <2>6, <2>7, JobsChange DEF Records, JobInv, RowsAreReal
<1> QED BY <1>2, <1>3

-----------------------------------------------------------------------------
(* What the jobs keep to.                                                  *)

LEMMA JobInvStep == TypeInv /\ ReviewInv /\ JobInv /\ [Next]_vars => JobInv'
<1> SUFFICES ASSUME TypeInv, ReviewInv, JobInv, [Next]_vars PROVE JobInv'
  OBVIOUS
<1>1. CASE UNCHANGED vars
  <2>1. \A p \in Project : \A g : Records(p, g)' => Records(p, g)
    BY <1>1 DEF vars, Records
  <2> QED BY <1>1, <2>1, QuietReview DEF vars, jobVars
<1>2. CASE JobStep
  BY <1>2, TakeKeepsJobs, ReadKeepsJobs, RunKeepsJobs, FindKeepsJobs, RemoveKeepsJobs, EndKeepsJobs DEF JobStep
<1>3. CASE JobTrouble
  BY <1>3, FailKeepsJobs, BeforeKeepsJobs, UnrecordedKeepsJobs, EndKeepsJobs DEF JobTrouble
<1>4. CASE Next
  BY <1>2, <1>3, <1>4, ApplicantKeepsJobs, AdminKeepsJobs, ProjectKeepsJobs, RestartKeepsJobs DEF Next
<1> QED BY <1>1, <1>4

\* A row of GroupFailedStage that says a job is running tells the truth, or the
\* job is waiting to be run again, or its end was lost: for any number of
\* projects, jobs, failures and restarts.
THEOREM RunningFlagsAreReal == Spec => []RunningFlagIsReal
<1>1. JobInv => RunningFlagIsReal
  BY DEF JobInv, FlagsAreReal, RunningFlagIsReal, Queued
<1> QED BY <1>1, TypeStart, TypeStep, ReviewStart, ReviewStep, JobInvStarts, JobInvStep, PTL DEF Spec

\* What the recorded stage lets the next job skip (shouldRunStage) has been
\* applied to the only group of the project.
THEOREM RowsAreResumePoints == Spec => []RowIsResumePoint
<1>1. JobInv => RowIsResumePoint
  <2> SUFFICES ASSUME JobInv, NEW p \in Project, NEW g \in DOMAIN group, HasRow(p), GroupsOf(p) = {g}
               PROVE  Skipped(failedStage[p].lastStage) \subseteq group[g].settings
    BY DEF RowIsResumePoint, Skipped
  <2>1. IsOnlyGroup(p, g)
    BY DEF IsOnlyGroup, GroupsOf
  <2> QED BY <2>1 DEF JobInv, RowsResume, OnlyGroupHas
<1> QED BY <1>1, TypeStart, TypeStep, ReviewStart, ReviewStep, JobInvStarts, JobInvStep, PTL DEF Spec

LEMMA TwoGroups ==
  ASSUME TypeInv, NEW p, NEW g, IsGroupOf(p, g), ~IsOnlyGroup(p, g)
  PROVE  Cardinality(GroupsOf(p)) > 1
<1>1. PICK h \in GroupsOf(p) : h # g
  BY DEF IsGroupOf, IsOnlyGroup, GroupsOf
<1>2. Len(group) \in Nat /\ DOMAIN group = 1 .. Len(group)
  BY LenProperties DEF TypeInv, TypeOK
<1>3. IsFiniteSet(GroupsOf(p))
  <2>1. IsFiniteSet(1 .. Len(group))
    BY <1>2, FS_Interval
  <2>2. GroupsOf(p) \in SUBSET (1 .. Len(group))
    BY <1>2 DEF GroupsOf
  <2> QED BY <2>1, <2>2, FS_Subset
<1>4. {g, h} \subseteq GroupsOf(p)
  BY <1>1 DEF GroupsOf, IsGroupOf
<1>5. Cardinality({g, h}) = 2
  <2>1. IsFiniteSet({g}) /\ Cardinality({g}) = 1
    BY FS_Singleton
  <2>2. {g, h} = {g} \cup {h}
    OBVIOUS
  <2> QED BY <1>1, <2>1, <2>2, FS_AddElement
<1>6. Cardinality({g, h}) <= Cardinality(GroupsOf(p)) /\ Cardinality(GroupsOf(p)) \in Nat
  <2>1. {g, h} \in SUBSET GroupsOf(p)
    BY <1>4
  <2>2. Cardinality({g, h}) <= Cardinality(GroupsOf(p))
    BY <1>3, <2>1, FS_Subset
  <2> QED BY <1>3, <2>2, FS_CardinalityType
<1> QED BY <1>5, <1>6

\* A project whose recorded group is not fully set up has a failed-stage row or a
\* job, unless a job was lost or it has had two groups: no interleaving of
\* approvals, synchronisations, failures and restarts lets it out of sight.
THEOREM UnfinishedStaysVisible == Spec => []UnfinishedIsVisible
<1>1. TypeInv /\ ReviewInv /\ JobInv => UnfinishedIsVisible
  <2> SUFFICES ASSUME TypeInv, ReviewInv, JobInv, NEW p \in Project, NEW g, g = project[p].group,
                      g # NoGroup, ~Configured(g)
               PROVE  HasRow(p) \/ JobPending(p) \/ p \in lost \/ Cardinality(GroupsOf(p)) > 1
    BY DEF UnfinishedIsVisible
  <2>1. IsGroupOf(p, g) /\ InSight(p, g)
    BY RecordedInSight DEF Records
  <2>2. group[g] \in GroupRow
    BY <2>1, ElementOfSeq, LenProperties DEF IsGroupOf, TypeInv, TypeOK
  <2>3. ~(Setting \subseteq group[g].settings)
    BY <2>2 DEF Configured, GroupRow
  <2>4. Pending(p) => JobPending(p)
    BY DEF Pending, JobPending, Queued
  <2> QED BY <2>1, <2>3, <2>4, TwoGroups DEF InSight
<1> QED BY <1>1, TypeStart, TypeStep, ReviewStart, ReviewStep, JobInvStarts, JobInvStep, PTL DEF Spec
=============================================================================
