--------------------------- MODULE MCRemoteTasks ---------------------------
(* Small instances of RemoteTasks for TLC. *)
EXTENDS RemoteTasks, TLC

CONSTANTS p1, p2

\* One task of each kind under two polls, and a command behind another, or on a machine that is
\* removed, under one.
EachKind == [kinds : {<<k, "absent">> : k \in Kinds}, polls : {{p1, p2}}, removal : {FALSE}]
            \cup [kinds : {<<k, "absent">> : k \in Kinds}, polls : {{p1}}, removal : {TRUE}]
            \cup {[kinds |-> <<"shell", "shell">>, polls |-> {p1}, removal |-> FALSE]}
=============================================================================
