--------------------------- MODULE OpenstackTables ---------------------------
(***************************************************************************)
(* The rows shared by the specifications of OpenStack allocations: the     *)
(* table allocation_openstack_request and the merge requests GitLab keeps  *)
(* for it.  A table is a function whose domain is the set of ids in use;   *)
(* ids are handed out in increasing order, as a PrimaryGeneratedColumn     *)
(* does, and 0 stands for NULL.                                            *)
(***************************************************************************)
EXTENDS Naturals

CONSTANTS
  Domain,             \* identity domains an OpenStack project may live in
  MaxAllocations,     \* bound on the allocations ever requested
  MaxRequests,        \* bound on the OpenStack requests ever inserted
  MaxMergeRequests    \* bound on the merge requests ever opened

ASSUME BoundsAssumption ==
  /\ MaxAllocations \in Nat
  /\ MaxRequests \in Nat
  /\ MaxMergeRequests \in Nat

AllocationId   == 1..MaxAllocations
RequestId      == 1..MaxRequests
MergeRequestId == 1..MaxMergeRequests

RequestStatus     == {"pending", "approved", "denied"}
MergeRequestState == {"opened", "merged", "closed"}

RequestRow ==
  [allocation : AllocationId, domain : Domain, status : RequestStatus,
   processed : BOOLEAN, mergeRequestUrl : MergeRequestId \cup {0}]

\* A merge request is known by the request whose branch it proposes to merge.
MergeRequestRow == [request : RequestId, state : MergeRequestState]

EmptyTable == [k \in {} |-> 0]

\* The table with one more row, under the id that follows those in use.
IsNextId(table, id) == DOMAIN table = 1..(id - 1)

Insert(table, id, row) ==
  [k \in DOMAIN table \cup {id} |-> IF k = id THEN row ELSE table[k]]

PendingRequest(a, d) ==
  [allocation |-> a, domain |-> d, status |-> "pending",
   processed |-> FALSE, mergeRequestUrl |-> 0]

OpenedFor(r) == [request |-> r, state |-> "opened"]
=============================================================================
