------------------------- MODULE OpenstackAllocation -------------------------
(***************************************************************************)
(* The life of allocations and of the OpenStack requests behind them.      *)
(*                                                                         *)
(* A user requests an allocation (AllocationService.request, one database  *)
(* transaction), an admin changes its status (setStatus), a user asks to   *)
(* modify an active one (modifyOpenstackAllocation).  setStatus and        *)
(* modifyOpenstackAllocation run outside any transaction, so each awaited  *)
(* query or call is a step of its own and other handlers run in between.   *)
(* handler[h] is what one HTTP request in flight remembers: what it read,  *)
(* which may be stale by the time it is used.                              *)
(*                                                                         *)
(* Activating an allocation approves its latest request and opens a merge  *)
(* request in GitLab (processApprovedAllocation); the steps of the git     *)
(* working tree are one step here.  Who may call which handler is decided  *)
(* elsewhere: every call below is an authorised one.                       *)
(***************************************************************************)
EXTENDS OpenstackTables, FiniteSets

CONSTANTS
  Project,           \* all projects
  PersonalProject,   \* those with isPersonal set
  Resource,          \* all resources
  CloudResource,     \* those whose resource type is "cloud"
  NamedOpenStack,    \* those whose own name is "OpenStack"
  Decision,          \* statuses admins choose from in setStatus
  Handler,           \* HTTP requests that may be in flight at one time
  MaxFailures,       \* bound on the handlers that fail half-way
  None               \* what a handler holds before it has read a value

ASSUME AllocationAssumption ==
  /\ PersonalProject \subseteq Project
  /\ CloudResource \subseteq Resource
  /\ NamedOpenStack \subseteq Resource
  /\ Decision \subseteq {"new", "active", "revoked", "denied", "expired"}
  /\ MaxFailures \in Nat
  /\ None \notin Domain \cup Project \cup Resource

VARIABLES
  allocation,     \* allocation id -> AllocationRow
  request,        \* request id -> RequestRow
  mergeRequest,   \* merge request id -> MergeRequestRow
  handler,        \* Handler -> HandlerState
  failures        \* handlers that failed so far

vars == <<allocation, request, mergeRequest, handler, failures>>

AllocationStatus == {"new", "active", "revoked", "denied", "expired"}

AllocationRow == [project : Project, resource : Resource, status : AllocationStatus]

ProgramCounter ==
  {"idle", "insert",
   "latest", "approve", "find", "commit", "record", "deny", "finish",
   "modify_latest", "modify_state", "modify_base", "modify_date", "modify_insert"}

HandlerState ==
  [pc : ProgramCounter,
   project : Project \cup {None},
   resource : Resource \cup {None},
   allocation : AllocationId \cup {0},
   decision : AllocationStatus \cup {"none"},
   wasActive : BOOLEAN,
   request : RequestId \cup {0},
   url : MergeRequestId \cup {0},
   domain : Domain \cup {None}]

Idle ==
  [pc |-> "idle", project |-> None, resource |-> None, allocation |-> 0,
   decision |-> "none", wasActive |-> FALSE, request |-> 0, url |-> 0, domain |-> None]

Init ==
  /\ allocation = EmptyTable
  /\ request = EmptyTable
  /\ mergeRequest = EmptyTable
  /\ handler = [h \in Handler |-> Idle]
  /\ failures = 0

RequestsOf(a) == {r \in DOMAIN request : request[r].allocation = a}

IsLatest(r, S) == r \in S /\ \A q \in S : q <= r

At(h, place) == handler[h].pc = place

Return(h) == handler' = [handler EXCEPT ![h] = Idle]

\* Bounds.  A handler starts only when the rows in use and those the handlers
\* in flight may still add leave it room.
Inserting == {h \in Handler : ~At(h, "idle") /\ handler[h].decision = "none"}

Activating == {h \in Handler : handler[h].decision = "active"}

RoomForRequest ==
  /\ Cardinality(DOMAIN request) + Cardinality(Inserting) < MaxRequests
  /\ Cardinality(DOMAIN allocation) + Cardinality(Inserting) < MaxAllocations

RoomForModification ==
  Cardinality(DOMAIN request) + Cardinality(Inserting) < MaxRequests

RoomForMergeRequest ==
  Cardinality(DOMAIN mergeRequest) + Cardinality(Activating) < MaxMergeRequests

-----------------------------------------------------------------------------
(* AllocationService.request                                               *)

\* The restrictions are checked for cloud resources and for a resource that is
\* called OpenStack, against the active allocations of resources so called.
HasActiveOpenstack(p) ==
  \E a \in DOMAIN allocation : /\ allocation[a].project = p
                               /\ allocation[a].status = "active"
                               /\ allocation[a].resource \in NamedOpenStack

MayRequest(p, res) ==
  res \in CloudResource \cup NamedOpenStack =>
    p \notin PersonalProject /\ ~HasActiveOpenstack(p)

RequestAllocation(h, p, res) ==
  /\ At(h, "idle") /\ RoomForRequest
  /\ MayRequest(p, res)
  /\ handler' = [handler EXCEPT ![h] = [Idle EXCEPT !.pc = "insert",
                                        !.project = p, !.resource = res]]
  /\ UNCHANGED <<allocation, request, mergeRequest, failures>>

NewAllocation(p, res) ==
  [project |-> p, resource |-> res, status |-> "new"]

\* The commit of the transaction: the allocation, and its first request if the
\* resource is a cloud one, appear at once.
CommitRequest(h) ==
  /\ At(h, "insert")
  /\ \E a \in AllocationId :
       /\ IsNextId(allocation, a)
       /\ allocation' = Insert(allocation, a, NewAllocation(handler[h].project, handler[h].resource))
       /\ IF handler[h].resource \in CloudResource
          THEN \E r \in RequestId, d \in Domain :
                 /\ IsNextId(request, r)
                 /\ request' = Insert(request, r, PendingRequest(a, d))
          ELSE request' = request
  /\ Return(h)
  /\ UNCHANGED <<mergeRequest, failures>>

-----------------------------------------------------------------------------
(* AllocationService.setStatus                                             *)

SetStatus(h, a, s) ==
  /\ At(h, "idle") /\ (s = "active" => RoomForMergeRequest)
  /\ handler' = [handler EXCEPT ![h] = [Idle EXCEPT !.pc = "latest", !.allocation = a,
                                        !.decision = s,
                                        !.wasActive = allocation[a].status = "active"]]
  /\ UNCHANGED <<allocation, request, mergeRequest, failures>>

\* The latest request is touched by an activation and by a denial only.
ReadLatestRequest(h) ==
  /\ At(h, "latest")
  /\ LET own == RequestsOf(handler[h].allocation)
         s == handler[h].decision
     IN
     IF own = {} \/ s \notin {"active", "denied"}
     THEN handler' = [handler EXCEPT ![h].pc = "finish"]
     ELSE \E r \in own :
            /\ IsLatest(r, own)
            /\ handler' = [handler EXCEPT ![h].pc = IF s = "active" THEN "approve" ELSE "deny",
                                          ![h].request = r]
  /\ UNCHANGED <<allocation, request, mergeRequest, failures>>

ApproveRequest(h) ==
  /\ At(h, "approve")
  /\ request' = [request EXCEPT ![handler[h].request].status = "approved"]
  /\ handler' = [handler EXCEPT ![h].pc = "find", ![h].request = 0]
  /\ UNCHANGED <<allocation, mergeRequest, failures>>

DenyRequest(h) ==
  /\ At(h, "deny")
  /\ request' = [request EXCEPT ![handler[h].request].status = "denied"]
  /\ handler' = [handler EXCEPT ![h].pc = "finish", ![h].request = 0]
  /\ UNCHANGED <<allocation, mergeRequest, failures>>

\* Mutants: the query forgets one of its conditions, or runs before the approval.
StillPending(a) == {r \in RequestsOf(a) : request[r].status = "pending"}

UnprocessedOfAnyStatus(a) == {r \in RequestsOf(a) : ~request[r].processed}

ApprovedEvenIfProcessed(a) == {r \in RequestsOf(a) : request[r].status = "approved"}

\* OpenstackAllocationService.processApprovedAllocation: whatever request the
\* handler approved, the one processed is the latest approved unprocessed one.
ToProcess(a) ==
  {r \in RequestsOf(a) : request[r].status = "approved" /\ ~request[r].processed}

FindApprovedRequest(h) ==
  /\ At(h, "find")
  /\ LET todo == ToProcess(handler[h].allocation) IN
     IF todo = {} \/ allocation[handler[h].allocation].resource \notin CloudResource
     THEN handler' = [handler EXCEPT ![h].pc = "finish"]
     ELSE \E r \in todo :
            /\ IsLatest(r, todo)
            /\ handler' = [handler EXCEPT ![h].pc = "commit", ![h].request = r]
  /\ UNCHANGED <<allocation, request, mergeRequest, failures>>

\* OpenstackGitService.commitAndOpenMergeRequest always makes a fresh branch,
\* so no open merge request of an earlier attempt is found and reused.
OpenMergeRequest(h) ==
  /\ At(h, "commit")
  /\ \E m \in MergeRequestId :
       /\ IsNextId(mergeRequest, m)
       /\ mergeRequest' = Insert(mergeRequest, m, OpenedFor(handler[h].request))
       /\ handler' = [handler EXCEPT ![h].pc = "record", ![h].url = m]
  /\ UNCHANGED <<allocation, request, failures>>

\* Mutants: the URL without the flag, the flag without the URL.
MarkedWithoutFlag(row, url) == [row EXCEPT !.mergeRequestUrl = url]

MarkedWithoutUrl(row, url) == [row EXCEPT !.processed = TRUE]

MarkedProcessed(row, url) == [row EXCEPT !.processed = TRUE, !.mergeRequestUrl = url]

\* Mutant: the URL goes to the latest request, not to the one processed.
RecordOnLatest(h) ==
  /\ At(h, "record")
  /\ \E r \in RequestsOf(handler[h].allocation) :
       /\ IsLatest(r, RequestsOf(handler[h].allocation))
       /\ request' = [request EXCEPT ![r] = MarkedProcessed(@, handler[h].url)]
  /\ handler' = [handler EXCEPT ![h].pc = "finish", ![h].request = 0, ![h].url = 0]
  /\ UNCHANGED <<allocation, mergeRequest, failures>>

RecordMergeRequest(h) ==
  /\ At(h, "record")
  /\ request' = [request EXCEPT ![handler[h].request] = MarkedProcessed(@, handler[h].url)]
  /\ handler' = [handler EXCEPT ![h].pc = "finish", ![h].request = 0, ![h].url = 0]
  /\ UNCHANGED <<allocation, mergeRequest, failures>>

\* Mutant: only an approval is taken for a decision on a modification.
KeepsStatusOnApproval(wasActive, decision) == wasActive /\ decision = "active"

\* A decision on the modification of an allocation that was active when the
\* handler read it changes at most its description.
KeepsStatus(wasActive, decision) == wasActive /\ decision \in {"active", "denied"}

FinishSetStatus(h) ==
  /\ At(h, "finish")
  /\ LET a == handler[h].allocation
         s == handler[h].decision IN
     IF KeepsStatus(handler[h].wasActive, s)
     THEN allocation' = allocation
     ELSE allocation' = [allocation EXCEPT ![a].status = s]
  /\ Return(h)
  /\ UNCHANGED <<request, mergeRequest, failures>>

-----------------------------------------------------------------------------
(* AllocationService.modifyOpenstackAllocation                             *)

\* isChangeable is a column the API never writes: every allocation keeps its TRUE.
Modify(h, a) ==
  /\ At(h, "idle") /\ RoomForModification
  /\ allocation[a].status = "active"
  /\ allocation[a].resource \in CloudResource
  /\ handler' = [handler EXCEPT ![h] = [Idle EXCEPT !.pc = "modify_latest", !.allocation = a]]
  /\ UNCHANGED <<allocation, request, mergeRequest, failures>>

\* A denied request may be followed by another without a look at GitLab, an
\* approved one once it has a merge request, a pending one never.
\* Mutant: the check for a pending request is missing.
UnlessApproved(row) == row.status # "approved"

RetryAllowed(row) == row.status = "denied"

Proposed(row) == row.status = "approved" /\ row.mergeRequestUrl # 0

CheckLatestRequest(h) ==
  /\ At(h, "modify_latest")
  /\ LET own == RequestsOf(handler[h].allocation)
         latest == {r \in own : IsLatest(r, own)}
     IN
     IF \E r \in latest : RetryAllowed(request[r])
     THEN handler' = [handler EXCEPT ![h].pc = "modify_base"]
     ELSE IF \E r \in latest : Proposed(request[r])
     THEN \E r \in latest :
            handler' = [handler EXCEPT ![h].pc = "modify_state",
                                       ![h].url = request[r].mergeRequestUrl]
     ELSE Return(h)
  /\ UNCHANGED <<allocation, request, mergeRequest, failures>>

\* GitLab's answer, or no answer, which refuses as an open merge request does.
CheckMergeRequest(h) ==
  /\ At(h, "modify_state")
  /\ \/ /\ mergeRequest[handler[h].url].state # "opened"
        /\ handler' = [handler EXCEPT ![h].pc = "modify_base", ![h].url = 0]
     \/ Return(h)
  /\ UNCHANGED <<allocation, request, mergeRequest, failures>>

\* Mutants: the domain comes from the modification; it is left out.
AnyDomain(a) == Domain

NoDomain(a) == {None}

\* The domain of the latest approved request, if there is one.
BaseDomain(a) ==
  LET approved == {r \in RequestsOf(a) : request[r].status = "approved"} IN
  {request[r].domain : r \in {q \in approved : IsLatest(q, approved)}}

FindBaseRequest(h) ==
  /\ At(h, "modify_base")
  /\ LET base == BaseDomain(handler[h].allocation) IN
     IF base = {}
     THEN Return(h)
     ELSE \E d \in base, next \in {"modify_date", "modify_insert"} :
            handler' = [handler EXCEPT ![h].pc = next, ![h].domain = d]
  /\ UNCHANGED <<allocation, request, mergeRequest, failures>>

\* A disableDate in the modification is applied at once; the date itself is
\* left out, not the await.
MoveEndDate(h) ==
  /\ At(h, "modify_date")
  /\ handler' = [handler EXCEPT ![h].pc = "modify_insert"]
  /\ UNCHANGED <<allocation, request, mergeRequest, failures>>

InsertModification(h) ==
  /\ At(h, "modify_insert")
  /\ \E r \in RequestId :
       /\ IsNextId(request, r)
       /\ request' = Insert(request, r, PendingRequest(handler[h].allocation, handler[h].domain))
  /\ Return(h)
  /\ UNCHANGED <<allocation, mergeRequest, failures>>

-----------------------------------------------------------------------------
(* AllocationService.getAll                                                *)

\* What an admin is shown under "pending-modification".
PendingModifications ==
  {a \in DOMAIN allocation :
     /\ allocation[a].status = "active"
     /\ \E r \in RequestsOf(a) : IsLatest(r, RequestsOf(a)) /\ request[r].status = "pending"}

-----------------------------------------------------------------------------
(* What handlers do not control                                            *)

\* An await rejects (database, git, GitLab, a validation that no longer holds)
\* or the server stops: the handler is gone and nothing it did is undone.
\* For a handler at "insert" the transaction rolls back: nothing was done yet.
Fail(h) ==
  /\ ~At(h, "idle")
  /\ failures < MaxFailures
  /\ failures' = failures + 1
  /\ Return(h)
  /\ UNCHANGED <<allocation, request, mergeRequest>>

\* The maintainers of the OpenStack repository merge or close.
Settle(m, outcome) ==
  /\ mergeRequest[m].state = "opened"
  /\ mergeRequest' = [mergeRequest EXCEPT ![m].state = outcome]
  /\ UNCHANGED <<allocation, request, handler, failures>>

Progress(h) ==
  \/ CommitRequest(h)
  \/ ReadLatestRequest(h) \/ ApproveRequest(h) \/ DenyRequest(h)
  \/ FindApprovedRequest(h) \/ OpenMergeRequest(h) \/ RecordMergeRequest(h)
  \/ FinishSetStatus(h)
  \/ CheckLatestRequest(h) \/ CheckMergeRequest(h) \/ FindBaseRequest(h)
  \/ MoveEndDate(h) \/ InsertModification(h)

Next ==
  \/ \E h \in Handler, p \in Project, res \in Resource : RequestAllocation(h, p, res)
  \/ \E h \in Handler, a \in DOMAIN allocation, s \in Decision : SetStatus(h, a, s)
  \/ \E h \in Handler, a \in DOMAIN allocation : Modify(h, a)
  \/ \E h \in Handler : Progress(h)
  \/ \E h \in Handler : Fail(h)
  \/ \E m \in DOMAIN mergeRequest, outcome \in {"merged", "closed"} : Settle(m, outcome)

Spec == Init /\ [][Next]_vars

-----------------------------------------------------------------------------
(* What holds whatever the handlers do to each other                       *)

\* Type invariant of the tables and of the handlers in flight.
TypeOK ==
  /\ DOMAIN allocation \subseteq AllocationId
  /\ allocation \in [DOMAIN allocation -> AllocationRow]
  /\ DOMAIN request \subseteq RequestId
  /\ request \in [DOMAIN request -> RequestRow]
  /\ DOMAIN mergeRequest \subseteq MergeRequestId
  /\ mergeRequest \in [DOMAIN mergeRequest -> MergeRequestRow]
  /\ handler \in [Handler -> HandlerState]
  /\ failures \in Nat

\* Every row refers to a row that exists.
RowsLinked ==
  /\ \A r \in DOMAIN request : request[r].allocation \in DOMAIN allocation
  /\ \A m \in DOMAIN mergeRequest : mergeRequest[m].request \in DOMAIN request

\* What a handler remembers is stale at worst: the rows it read still exist,
\* a request it is about to propose is still a decided one, the domain it is
\* about to copy is still that of a decided request of its allocation.
InStep(h) ==
  LET s == handler[h] IN
  /\ s.pc = "insert" => s.project \in Project /\ s.resource \in Resource
  /\ s.pc \notin {"idle", "insert"} => s.allocation \in DOMAIN allocation
  /\ s.pc \in {"latest", "approve", "find", "commit", "record", "deny", "finish"}
       => s.decision \in AllocationStatus
  /\ s.pc \in {"approve", "deny", "commit", "record"} => s.request \in DOMAIN request
  /\ s.pc \in {"commit", "record"} => request[s.request].status # "pending"
  /\ s.pc = "record" => /\ s.url \in DOMAIN mergeRequest
                        /\ mergeRequest[s.url].request = s.request
  /\ s.pc \in {"modify_date", "modify_insert"} =>
       \E q \in RequestsOf(s.allocation) : /\ request[q].status # "pending"
                                           /\ request[q].domain = s.domain

\* The inductive invariant: what the tables and the handlers in flight hold
\* agrees at every await of every handler.
HandlersInStep == TypeOK /\ RowsLinked /\ \A h \in Handler : InStep(h)

Ledger == INSTANCE RequestLedger

\* The domain of an OpenStack project cannot be changed by a modification.
DomainIsFixed == Ledger!DomainIsFixed

\* No merge request is opened for a request that no admin has decided on, even
\* when a modification is inserted while an activation is under way.
MergeRequestsWereDecided == Ledger!MergeRequestsWereDecided

\* processed and mergeRequestUrl are written together, with a merge request
\* that was opened for the same request.
RecordedUrlIsOwn == Ledger!RecordedUrlIsOwn

\* The handlers, however interleaved or cut short, keep the promises of the
\* request ledger.
ImplementsLedger == Ledger!Spec

-----------------------------------------------------------------------------
(* What the repository says of the system, and the system does not keep    *)

\* "Only one active OpenStack allocation can exist for a project."
OneActiveOpenstackAllocation ==
  \A a, b \in DOMAIN allocation :
    /\ allocation[a].status = "active" /\ allocation[a].resource \in NamedOpenStack
    /\ allocation[b].status = "active" /\ allocation[b].resource \in NamedOpenStack
    /\ allocation[a].project = allocation[b].project
    => a = b
=============================================================================
