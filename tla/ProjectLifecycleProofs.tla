------------------------- MODULE ProjectLifecycleProofs -------------------------
(* What follows from the promise of project review, for any number of      *)
(* projects and groups.                                                    *)
EXTENDS ProjectLifecycle, TLAPS

LEMMA LifecycleStart == Init => LifecycleTypeOK /\ StatusFollowsDecisions /\ GroupsAreOwn
BY DEF Init, LifecycleTypeOK, StatusFollowsDecisions, GroupsAreOwn, ProjectStatus, NoGroup,
       Group, ApprovalStatus

\* Appending a decision to the record of one project.
LEMMA Deciding ==
  ASSUME NEW p \in Project, NEW verdict \in ApprovalStatus,
         decisions \in [Project -> Seq(ApprovalStatus)],
         Decide(p, verdict)
  PROVE  /\ decisions' \in [Project -> Seq(ApprovalStatus)]
         /\ \A q \in Project : q # p => decisions'[q] = decisions[q]
         /\ Len(decisions'[p]) = Len(decisions[p]) + 1
         /\ decisions'[p][Len(decisions'[p])] = verdict
BY DEF Decide

LEMMA LifecycleStep ==
  ASSUME LifecycleTypeOK, StatusFollowsDecisions, GroupsAreOwn, [Next]_lifecycleVars
  PROVE  (LifecycleTypeOK /\ StatusFollowsDecisions /\ GroupsAreOwn)'
<1> USE DEF LifecycleTypeOK, StatusFollowsDecisions, GroupsAreOwn
<1>1. CASE UNCHANGED lifecycleVars
  BY <1>1 DEF lifecycleVars
<1>2. ASSUME NEW p \in Project, Submit(p)
      PROVE  (LifecycleTypeOK /\ StatusFollowsDecisions /\ GroupsAreOwn)'
  BY <1>2 DEF Submit, ProjectStatus
<1>3. ASSUME NEW p \in Project, NEW g \in Group, Approve(p, g)
      PROVE  (LifecycleTypeOK /\ StatusFollowsDecisions /\ GroupsAreOwn)'
  <2>1. "approved" \in ApprovalStatus
    BY DEF ApprovalStatus
  <2>2. Decide(p, "approved")
    BY <1>3 DEF Approve
  <2>3. /\ decisions' \in [Project -> Seq(ApprovalStatus)]
        /\ \A q \in Project : q # p => decisions'[q] = decisions[q]
        /\ Len(decisions'[p]) = Len(decisions[p]) + 1
        /\ decisions'[p][Len(decisions'[p])] = "approved"
    BY <2>1, <2>2, Deciding
  <2>4. Len(decisions[p]) \in Nat
    OBVIOUS
  <2>5. LifecycleTypeOK'
    BY <1>3, <2>3 DEF Approve, ProjectStatus
  <2>6. g # NoGroup
    BY DEF Group, NoGroup
  <2>7. StatusFollowsDecisions'
    BY <1>3, <2>3, <2>4 DEF Approve
  <2>8. GroupsAreOwn'
    BY <1>3, <2>6 DEF Approve
  <2> QED BY <2>5, <2>7, <2>8
<1>4. ASSUME NEW p \in Project, Reject(p)
      PROVE  (LifecycleTypeOK /\ StatusFollowsDecisions /\ GroupsAreOwn)'
  <2>1. "rejected" \in ApprovalStatus
    BY DEF ApprovalStatus
  <2>2. Decide(p, "rejected")
    BY <1>4 DEF Reject
  <2>3. /\ decisions' \in [Project -> Seq(ApprovalStatus)]
        /\ \A q \in Project : q # p => decisions'[q] = decisions[q]
        /\ Len(decisions'[p]) = Len(decisions[p]) + 1
        /\ decisions'[p][Len(decisions'[p])] = "rejected"
    BY <2>1, <2>2, Deciding
  <2>4. Len(decisions[p]) \in Nat
    OBVIOUS
  <2>5. LifecycleTypeOK'
    BY <1>4, <2>3 DEF Reject, ProjectStatus
  <2>6. StatusFollowsDecisions'
    BY <1>4, <2>3, <2>4 DEF Reject
  <2>7. GroupsAreOwn'
    BY <1>4 DEF Reject
  <2> QED BY <2>5, <2>6, <2>7
<1>5. ASSUME NEW p \in Project, Archive(p)
      PROVE  (LifecycleTypeOK /\ StatusFollowsDecisions /\ GroupsAreOwn)'
  BY <1>5 DEF Archive, ProjectStatus
<1>6. ASSUME NEW p \in Project, Resubmit(p)
      PROVE  (LifecycleTypeOK /\ StatusFollowsDecisions /\ GroupsAreOwn)'
  BY <1>6 DEF Resubmit, ProjectStatus
<1> QED BY <1>1, <1>2, <1>3, <1>4, <1>5, <1>6 DEF Next

\* The last decision on record explains the status of a project, and no group
\* is recorded for two projects, whatever sequence of reviews, resubmissions
\* and archivals approveProject and its neighbours commit.
THEOREM ReviewIsOnRecord == Spec => [](StatusFollowsDecisions /\ GroupsAreOwn)
<1>1. Init => LifecycleTypeOK /\ StatusFollowsDecisions /\ GroupsAreOwn
  BY LifecycleStart
<1>2. LifecycleTypeOK /\ StatusFollowsDecisions /\ GroupsAreOwn /\ [Next]_lifecycleVars
        => (LifecycleTypeOK /\ StatusFollowsDecisions /\ GroupsAreOwn)'
  BY LifecycleStep
<1> QED BY <1>1, <1>2, PTL DEF Spec
=============================================================================
