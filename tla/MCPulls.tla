------------------------------ MODULE MCPulls ------------------------------
(* Small instances of Pulls for TLC. *)
EXTENDS Pulls, TLC

CONSTANTS w1, w2

\* Two workers while people comment and checks change, and one while the agent and others push.
LooksOrPushes == {[workers |-> {w1, w2}, comments |-> 1, commits |-> 1, settles |-> 1],
                  [workers |-> {w1}, comments |-> 0, commits |-> 3, settles |-> 0]}
============================================================================
