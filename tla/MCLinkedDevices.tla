-------------------------- MODULE MCLinkedDevices --------------------------
(* Small instances of LinkedDevices for TLC. *)
EXTENDS LinkedDevices, TLC

CONSTANTS v, w, m1, m2, a1, a2, nobody

\* One generation, one pairing, no message and nothing that goes wrong but time.
Quiet == [workers |-> {v, w}, messages |-> {}, refused |-> {}, capacity |-> 2, pairings |-> 1,
          moves |-> 1, gens |-> 1, fences |-> 3, pauses |-> 0, modelless |-> FALSE, drops |-> FALSE,
          logouts |-> FALSE, sends |-> FALSE, stops |-> FALSE]

\* Two processes that stall with a message whose channel its owner pauses and resumes; two messages
\* when there may be no model to answer with, and the same for one process and an owner who pauses and
\* resumes; an inbox that is left behind by a new generation, with a message nobody can take; one that
\* is full; a phone that is replaced by another; one that is disconnected; keys that move on;
\* processes that send, drop, stop and die.
EachPart ==
    {[Quiet EXCEPT !.messages = {m1}, !.pauses = 2, !.pairings = 0],
     [Quiet EXCEPT !.messages = {m1, m2}, !.modelless = TRUE, !.pairings = 0],
     [Quiet EXCEPT !.workers = {w}, !.messages = {m1, m2}, !.modelless = TRUE, !.pauses = 2,
                   !.pairings = 0],
     [Quiet EXCEPT !.workers = {w}, !.messages = {m1, m2}, !.refused = {m2},
                   !.gens = 2, !.pairings = 0, !.fences = 2],
     [Quiet EXCEPT !.workers = {w}, !.messages = {m1, m2}, !.capacity = 1, !.pairings = 0],
     [Quiet EXCEPT !.workers = {w}, !.pairings = 2, !.drops = TRUE, !.logouts = TRUE],
     [Quiet EXCEPT !.workers = {w}, !.gens = 2, !.logouts = TRUE],
     [Quiet EXCEPT !.moves = 2],
     [Quiet EXCEPT !.sends = TRUE, !.stops = TRUE, !.drops = TRUE]}
=============================================================================
