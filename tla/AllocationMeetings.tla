-------------------------- MODULE AllocationMeetings --------------------------
(***************************************************************************)
(* What any number of allocation handlers keep, and which of them must not *)
(* meet for it.                                                            *)
(*                                                                         *)
(* Nothing in the server keeps two requests about one allocation apart,    *)
(* and some promises of setStatus and modifyOpenstackAllocation do break   *)
(* when two of them are in flight together.  The history variable met      *)
(* records which handlers were, and about which allocation; it constrains  *)
(* no step.  Each property names the one meeting that breaks it: whatever  *)
(* else the handlers do to each other, it holds.                           *)
(***************************************************************************)
EXTENDS OpenstackAllocation

VARIABLE met   \* <<allocation, kinds of two handlers that were in flight together>>

meetVars == <<vars, met>>

Kind(h) == IF handler[h].decision = "none" THEN "modify" ELSE handler[h].decision

\* Two activations, an activation and a denial, two modifications.
Crossing == {{"active"}, {"active", "denied"}, {"modify"}}

InFlight(h, k) ==
  /\ h # k
  /\ handler[h].allocation # 0
  /\ handler[k].allocation = handler[h].allocation

Meetings ==
  {meeting \in AllocationId \X Crossing :
     \E h, k \in Handler : /\ InFlight(h, k)
                           /\ meeting = <<handler[h].allocation, {Kind(h), Kind(k)}>>}

MeetInit == Init /\ met = {}

MeetNext == Next /\ met' = met \cup Meetings'

MeetSpec == MeetInit /\ [][MeetNext]_meetVars

\* Node's event loop resumes a handler whose await has been answered.
MeetFairSpec == MeetSpec /\ \A h \in Handler : WF_vars(Progress(h))

Crossed(a, kinds) == <<a, kinds>> \in met

-----------------------------------------------------------------------------

\* A pending request of an active allocation is shown to the admins (getAll
\* under "pending-modification"): it is the latest one, so it can be approved
\* or denied.  Two modifications of the allocation at once may hide one.
PendingIsShown ==
  \A r \in DOMAIN request :
    /\ request[r].status = "pending"
    /\ allocation[request[r].allocation].status = "active"
    /\ ~Crossed(request[r].allocation, {"modify"})
    => /\ request[r].allocation \in PendingModifications
       /\ IsLatest(r, RequestsOf(request[r].allocation))

\* An active cloud allocation went through GitOps: one of its requests has a
\* recorded merge request, even if git failed for some of its activations.
\* Only an activation that met a denial may have found nothing to propose.
ActiveWasProposed ==
  \A a \in DOMAIN allocation :
    /\ allocation[a].status = "active"
    /\ allocation[a].resource \in CloudResource
    /\ ~Crossed(a, {"active", "denied"})
    => \E r \in RequestsOf(a) : request[r].processed

\* Denying a modification leaves the allocation active (setStatus), unless the
\* denial read the allocation before an activation it met was finished.
DenialKeepsActive ==
  [][\A a \in DOMAIN allocation :
       allocation[a].status = "active" /\ ~Crossed(a, {"active", "denied"})
         => allocation'[a].status # "denied"]_meetVars

\* Once recorded, the merge request of a request is never replaced by another
\* (processApprovedAllocation), unless two activations proposed it at once.
RecordedUrlStands ==
  [][\A r \in DOMAIN request :
       request[r].processed /\ ~Crossed(request[r].allocation, {"active"})
         => request'[r].mergeRequestUrl = request[r].mergeRequestUrl]_meetVars

\* The merge requests that no request points to and no handler is about to
\* record, but for those of allocations activated twice at once.
Abandoned ==
  {m \in DOMAIN mergeRequest :
     LET r == mergeRequest[m].request IN
     /\ request[r].mergeRequestUrl # m
     /\ ~Crossed(request[r].allocation, {"active"})
     /\ \A h \in Handler : ~(At(h, "record") /\ handler[h].url = m)}

\* Each of them was left by a handler that failed between opening and recording.
OrphansComeFromFailures == Cardinality(Abandoned) <= failures

\* Unless some handler fails, an approved request gets its merge request
\* recorded, or is denied after all, whatever denial or modification of the same
\* allocation is under way (processApprovedAllocation looks its request up
\* again).  Two activations at once may leave one behind for good.
ApprovedIsProcessed ==
  \A r \in RequestId :
    (r \in DOMAIN request /\ request[r].status = "approved" /\ ~request[r].processed)
      ~> (\/ failures > 0
          \/ /\ r \in DOMAIN request
             /\ \/ request[r].processed
                \/ request[r].status = "denied"
                \/ Crossed(request[r].allocation, {"active"}))
=============================================================================
