---------------------------- MODULE RequestLedger ----------------------------
(***************************************************************************)
(* What the OpenStack request table and GitLab promise an auditor, however *)
(* the HTTP handlers interleave or fail: a request is submitted pending    *)
(* and never becomes pending again, the first request of an allocation     *)
(* fixes its domain, a merge request is opened only for a request that has *)
(* been decided, and a request is only ever marked processed together with *)
(* the URL of a merge request of its own.                                  *)
(***************************************************************************)
EXTENDS OpenstackTables

VARIABLES
  request,       \* request id -> RequestRow
  mergeRequest   \* merge request id -> MergeRequestRow

ledgerVars == <<request, mergeRequest>>

RequestsOf(a) == {r \in DOMAIN request : request[r].allocation = a}

Init ==
  /\ request = EmptyTable
  /\ mergeRequest = EmptyTable

\* A first request may name any domain; a later one needs an earlier request
\* that has been decided, whose domain it repeats.
Submit(id, a, d) ==
  /\ IsNextId(request, id)
  /\ \/ RequestsOf(a) = {}
     \/ \E q \in RequestsOf(a) : /\ request[q].status # "pending"
                                 /\ request[q].domain = d
  /\ request' = Insert(request, id, PendingRequest(a, d))
  /\ UNCHANGED mergeRequest

Decide(r, verdict) ==
  /\ request' = [request EXCEPT ![r].status = verdict]
  /\ UNCHANGED mergeRequest

OpenMergeRequest(id, r) ==
  /\ IsNextId(mergeRequest, id)
  /\ request[r].status # "pending"
  /\ mergeRequest' = Insert(mergeRequest, id, OpenedFor(r))
  /\ UNCHANGED request

Record(r, m) ==
  /\ mergeRequest[m].request = r
  /\ request' = [request EXCEPT ![r].processed = TRUE, ![r].mergeRequestUrl = m]
  /\ UNCHANGED mergeRequest

Settle(m, outcome) ==
  /\ mergeRequest[m].state = "opened"
  /\ mergeRequest' = [mergeRequest EXCEPT ![m].state = outcome]
  /\ UNCHANGED request

Next ==
  \/ \E id \in RequestId, a \in AllocationId, d \in Domain : Submit(id, a, d)
  \/ \E r \in DOMAIN request, verdict \in {"approved", "denied"} : Decide(r, verdict)
  \/ \E id \in MergeRequestId, r \in DOMAIN request : OpenMergeRequest(id, r)
  \/ \E r \in DOMAIN request, m \in DOMAIN mergeRequest : Record(r, m)
  \/ \E m \in DOMAIN mergeRequest, outcome \in {"merged", "closed"} : Settle(m, outcome)

Spec == Init /\ [][Next]_ledgerVars

-----------------------------------------------------------------------------

LedgerTypeOK ==
  /\ DOMAIN request \subseteq RequestId
  /\ request \in [DOMAIN request -> RequestRow]
  /\ DOMAIN mergeRequest \subseteq MergeRequestId
  /\ mergeRequest \in [DOMAIN mergeRequest -> MergeRequestRow]
  /\ \A m \in DOMAIN mergeRequest : mergeRequest[m].request \in DOMAIN request

\* All the requests of an allocation name one domain: a modification copies
\* it from an approved request of the same allocation.
DomainIsFixed ==
  \A r, q \in DOMAIN request :
    request[r].allocation = request[q].allocation => request[r].domain = request[q].domain

\* GitLab never holds a merge request for a request no admin has decided on.
MergeRequestsWereDecided ==
  \A m \in DOMAIN mergeRequest : request[mergeRequest[m].request].status # "pending"

\* A request is processed exactly when it has a URL, and the URL is that of a
\* merge request opened for this very request.
RecordedUrlIsOwn ==
  \A r \in DOMAIN request :
    LET url == request[r].mergeRequestUrl IN
    /\ request[r].processed <=> url # 0
    /\ url # 0 => url \in DOMAIN mergeRequest /\ mergeRequest[url].request = r

LedgerInv ==
  LedgerTypeOK /\ DomainIsFixed /\ MergeRequestsWereDecided /\ RecordedUrlIsOwn
=============================================================================
