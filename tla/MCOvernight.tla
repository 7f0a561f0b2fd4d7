---------------------------- MODULE MCOvernight ----------------------------
(* Instances of Overnight for TLC. *)
EXTENDS Overnight, TLC

CONSTANTS p1, p2, p3, r1, r2, u1, u2, s1, s2

Row(u, s) == [user |-> u, source |-> s]

\* One row per run.
MCOneRow == <<Row(u1, s1)>>

\* One user on two sources: with two run ids, two rows per source.
MCTwoSources == <<Row(u1, s1), Row(u1, s2)>>

\* Two users on one source: rows of one run that must take turns.
MCSharedSource == <<Row(u1, s1), Row(u2, s1)>>

\* A rerun in the same minute shares the run id; a later one mints its own.
MCRunOf3 == p1 :> r1 @@ p2 :> r1 @@ p3 :> r2
MCRunOf2 == p1 :> r1 @@ p2 :> r2
=============================================================================
