---------------------------- MODULE MCEventFeed ----------------------------
(* Small instances of EventFeed for TLC. *)
EXTENDS EventFeed

CONSTANTS w1, w2
============================================================================
