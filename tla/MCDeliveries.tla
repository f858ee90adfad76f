---------------------------- MODULE MCDeliveries ----------------------------
(* Small instances of Deliveries for TLC. *)
EXTENDS Deliveries, TLC

CONSTANTS w1, w2

\* Two processes on one turn, and one process on two turns of which a tick reads the first.
RaceOrQueue == {[workers |-> {w1, w2}, runs |-> 1, lines |-> 2, switches |-> 2],
                [workers |-> {w1}, runs |-> 2, lines |-> 0, switches |-> 1]}
OneLong == {[workers |-> {w1}, runs |-> 1, lines |-> 2, switches |-> 0]}
=============================================================================
