--------------------------- MODULE MCBatchScoring ---------------------------
(* Instances of BatchScoring for TLC. *)
EXTENDS BatchScoring

CONSTANTS u1, u2, u3

MCTwoUsers == <<u1, u2>>
MCThreeUsers == <<u1, u2, u3>>
=============================================================================
