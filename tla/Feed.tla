-------------------------------- MODULE Feed --------------------------------
(* What a client of an event stream is promised: from where it first came in, *)
(* every event of the profile, once, in the order they were committed.        *)
EXTENDS Integers, Sequences

VARIABLES log,   \* the events of the profile, as committed
          from,  \* how many there were where the client came in; -1 before
          heard  \* the events it was told

Init == log = <<>> /\ from = -1 /\ heard = <<>>

Record == /\ Len(log') > Len(log) /\ SubSeq(log', 1, Len(log)) = log
          /\ UNCHANGED <<from, heard>>
ComeIn == from = -1 /\ from' \in 0..Len(log) /\ UNCHANGED <<log, heard>>
Hear == /\ from >= 0 /\ from + Len(heard) < Len(log)
        /\ heard' = Append(heard, log[from + Len(heard) + 1])
        /\ UNCHANGED <<log, from>>

Spec == Init /\ [][Record \/ ComeIn \/ Hear]_<<log, from, heard>>
=============================================================================
