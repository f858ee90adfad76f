------------------------------ MODULE Handoff ------------------------------
(***************************************************************************)
(* What something to hand on promises, a subagent's report or a message of  *)
(* a turn: once it is there it is handed on, in one way, and never again.   *)
(***************************************************************************)
CONSTANTS Children, Ways       \* what there is to hand on, and how it can leave
VARIABLES over, handed         \* what is there to be handed on; the ways each was handed on

Init == over = {} /\ handed = [c \in Children |-> <<>>]

Finish == over \subseteq over' /\ over' \subseteq Children /\ UNCHANGED handed

Hand(c) == /\ c \in over
           /\ handed[c] = <<>>
           /\ \E way \in Ways : handed' = [handed EXCEPT ![c] = <<way>>]
           /\ UNCHANGED over

Next == Finish \/ \E c \in Children : Hand(c)

Spec == Init /\ [][Next]_<<over, handed>>
============================================================================
