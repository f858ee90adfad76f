------------------------------ MODULE MCPeers ------------------------------
(* Small instances of Peers for TLC. *)
EXTENDS Peers, TLC

CONSTANTS a, b, c, owner, nowhere
============================================================================
