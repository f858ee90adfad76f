----------------------------- MODULE MCReports -----------------------------
(* Small instances of Reports for TLC. *)
EXTENDS Reports, TLC

CONSTANTS w1, w2, s1, c1, c2, nobody

\* The second process is full of other profiles' runs and only ticks.
OneSlot == [w \in Workers |-> IF w = w1 THEN 1 ELSE 0]

\* A subagent between two processes that tick; two subagents under one; and an objective, with a
\* subagent and without.
Wakes == {[workers |-> {w1, w2}, turns |-> 1..3, children |-> {c1}, objective |-> FALSE],
          [workers |-> {w1}, turns |-> 1..3, children |-> {c1, c2}, objective |-> FALSE],
          [workers |-> {w1}, turns |-> 1..2, children |-> {c1}, objective |-> TRUE],
          [workers |-> {w1}, turns |-> 1..3, children |-> {}, objective |-> TRUE]}
============================================================================
