------------------------- MODULE MCAllocationMeetings -------------------------
(* Finite instances of AllocationMeetings for TLC.                         *)
EXTENDS AllocationMeetings, TLC

\* Handlers and domains are interchangeable: no definition tells them apart.
Symmetry == Permutations(Handler) \cup Permutations(Domain)
=============================================================================
