--------------------------- MODULE MCApplications ---------------------------
(* Instances of Applications for TLC. *)
EXTENDS Applications, TLC
CONSTANTS r1, r2, r3, r4, toApply, applied
\* Neither a request nor a status is named anywhere in Applications.
Alike == Permutations(Requests) \cup Permutations(Statuses)
=============================================================================
