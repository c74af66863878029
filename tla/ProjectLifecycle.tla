--------------------------- MODULE ProjectLifecycle ---------------------------
(***************************************************************************)
(* What project review promises its readers, however the handlers of       *)
(* admins and applicants interleave, fail or are cut off by a restart: a   *)
(* project becomes active only out of review, by an approval that gives it *)
(* a Perun group no other project has, it is archived only while active,   *)
(* and it comes back into review only if it has been rejected before.      *)
(***************************************************************************)
EXTENDS Naturals, Sequences

CONSTANTS
  Project,    \* all projects
  MaxGroups   \* bound on the groups of Perun

VARIABLES
  status,     \* Project -> ProjectStatus, "none" before the project exists
  groupOf,    \* Project -> the Perun group recorded for it, or NoGroup
  decisions   \* Project -> the approvals and rejections recorded so far

lifecycleVars == <<status, groupOf, decisions>>

NoGroup == 0
Group == 1 .. MaxGroups
ProjectStatus == {"new", "active", "rejected", "archived"}
ApprovalStatus == {"approved", "rejected"}

WasRejected(p) == \E i \in DOMAIN decisions[p] : decisions[p][i] = "rejected"

Init ==
  /\ status = [p \in Project |-> "none"]
  /\ groupOf = [p \in Project |-> NoGroup]
  /\ decisions = [p \in Project |-> <<>>]

Decide(p, verdict) == decisions' = [decisions EXCEPT ![p] = Append(@, verdict)]

Submit(p) ==
  /\ status[p] = "none"
  /\ status' = [status EXCEPT ![p] = "new"]
  /\ UNCHANGED <<groupOf, decisions>>

Approve(p, g) ==
  /\ status[p] = "new"
  /\ \A q \in Project : groupOf[q] # g
  /\ status' = [status EXCEPT ![p] = "active"]
  /\ groupOf' = [groupOf EXCEPT ![p] = g]
  /\ Decide(p, "approved")

Reject(p) ==
  /\ status[p] = "new"
  /\ status' = [status EXCEPT ![p] = "rejected"]
  /\ Decide(p, "rejected")
  /\ UNCHANGED groupOf

Archive(p) ==
  /\ status[p] = "active"
  /\ status' = [status EXCEPT ![p] = "archived"]
  /\ UNCHANGED <<groupOf, decisions>>

Resubmit(p) ==
  /\ WasRejected(p)
  /\ status' = [status EXCEPT ![p] = "new"]
  /\ UNCHANGED <<groupOf, decisions>>

Next ==
  \E p \in Project :
    Submit(p) \/ (\E g \in Group : Approve(p, g)) \/ Reject(p) \/ Archive(p) \/ Resubmit(p)

Spec == Init /\ [][Next]_lifecycleVars

-----------------------------------------------------------------------------

LifecycleTypeOK ==
  /\ status \in [Project -> ProjectStatus \cup {"none"}]
  /\ groupOf \in [Project -> Group \cup {NoGroup}]
  /\ decisions \in [Project -> Seq(ApprovalStatus)]

\* The last recorded decision explains the status of a project that is not
\* under review, and a project without a decision has no group.
StatusFollowsDecisions ==
  \A p \in Project :
    LET n == Len(decisions[p]) IN
    /\ status[p] \in {"active", "archived"} => n > 0 /\ decisions[p][n] = "approved"
    /\ status[p] = "rejected" => n > 0 /\ decisions[p][n] = "rejected"
    /\ groupOf[p] # NoGroup => n > 0

\* Every project that is or was active has a Perun group of its own: no group
\* is recorded for two projects.
GroupsAreOwn ==
  /\ \A p \in Project : status[p] \in {"active", "archived"} => groupOf[p] # NoGroup
  /\ \A p, q \in Project : groupOf[p] # NoGroup /\ groupOf[p] = groupOf[q] => p = q
=============================================================================
