------------------------------- MODULE Orders -------------------------------
(***************************************************************************)
(* Sequences in an order: a set sorted by a relation (ORDER BY), and the   *)
(* entries of a sequence that a condition keeps (a comprehension).         *)
(***************************************************************************)
EXTENDS Naturals, FiniteSets

(* How many members of S come before x; R holds the pairs in order.        *)
CountBefore(S, R, x) == Cardinality({y \in S : <<y, x>> \in R})

(* The members of S, the first one first.                                  *)
InOrder(S, R) ==
  [n \in 1..Cardinality(S) |-> CHOOSE x \in S : CountBefore(S, R, x) = n - 1]

(* The entries of s at the positions in I.                                 *)
Pick(s, I) ==
  LET at == InOrder(I, {p \in I \X I : p[1] < p[2]})
  IN  [n \in 1..Cardinality(I) |-> s[at[n]]]
=============================================================================
