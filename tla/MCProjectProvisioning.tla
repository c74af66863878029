------------------------ MODULE MCProjectProvisioning ------------------------
(* Finite instances of ProjectProvisioning for TLC.                        *)
EXTENDS ProjectProvisioning, TLC

\* Calls in flight and titles are interchangeable: no definition tells them apart.
Symmetry == Permutations(Admin) \cup Permutations(Applicant) \cup Permutations(Title)
=============================================================================
