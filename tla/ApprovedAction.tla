--------------------------- MODULE ApprovedAction ---------------------------
(***************************************************************************)
(* What an approval promises, whatever workers, leases and retries do: an   *)
(* action asked for is decided once, only a yes lets it be performed, and   *)
(* it is performed at most once.                                            *)
(***************************************************************************)
CONSTANT Calls                   \* the parked calls
VARIABLES fate, performances     \* each call's decision and the times it was carried out

Init == /\ fate = [c \in Calls |-> "unasked"]
        /\ performances = [c \in Calls |-> {}]

Ask(c) == /\ fate[c] = "unasked"
          /\ fate' = [fate EXCEPT ![c] = "asked"]
          /\ UNCHANGED performances

\* Decided by a person, or dropped with the run that asked.
Decide(c) == /\ fate[c] = "asked"
             /\ \E verdict \in {"approved", "dropped"} : fate' = [fate EXCEPT ![c] = verdict]
             /\ UNCHANGED performances

Perform(c) == /\ fate[c] = "approved"
              /\ performances[c] = {}
              /\ \E t \in performances'[c] : performances' = [performances EXCEPT ![c] = {t}]
              /\ UNCHANGED fate

Next == \E c \in Calls : Ask(c) \/ Decide(c) \/ Perform(c)

Spec == Init /\ [][Next]_<<fate, performances>>
=============================================================================
