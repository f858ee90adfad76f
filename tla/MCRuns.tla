------------------------------- MODULE MCRuns -------------------------------
(* Small instances of Runs for TLC. *)
EXTENDS Runs, TLC

CONSTANTS w1, w2, s1, s2, k1, k2, k3, p1, nobody

Symmetry == Permutations(Workers) \cup Permutations(Keys)
=============================================================================
