-------------------------- MODULE MCUpcomingSteps --------------------------
(* Instances of UpcomingSteps for TLC: thresholds of one and two ticks. *)
EXTENDS UpcomingSteps, TLC
CONSTANTS j1, j2, c1, c2
MCDefault == [stale |-> 1, interview |-> 1, inactivity |-> 2, application |-> 1]
MCSymmetry == Permutations(Jobs) \cup Permutations(Conns)
=============================================================================
