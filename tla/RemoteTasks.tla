----------------------------- MODULE RemoteTasks -----------------------------
(***************************************************************************)
(* Tasks for a remote machine (remote/service.ts: execute, executeFiles,    *)
(* executeBrowser, waitForTask, poll, claimSecretEnv, failClaimed,          *)
(* complete, failLeftoverFiles, remove).  A call puts a row in the queue    *)
(* and looks at it until its limit; the machine polls for the oldest row,   *)
(* runs it and answers.  Every step is a statement of its own, with no      *)
(* transaction: the caller gives up, the machine falls silent or is         *)
(* removed, several polls are under way and a process dies between any two. *)
(***************************************************************************)
EXTENDS Integers, Sequences

CONSTANTS
    MaxTasks,   \* bound: the tasks, named by the order they are queued in
    Polls,      \* requests of the machine that may be under way at once
    Scopes      \* bound: what one run explores, see Limits

Kinds == {"shell", "secret", "write", "read", "browser"}
Tasks == 1..MaxTasks

\* The kind of each task, or "absent"; the polls; whether the owner may remove the machine.
Limits == [kinds : [Tasks -> Kinds \cup {"absent"}], polls : SUBSET Polls, removal : BOOLEAN]

ASSUME RemoteTasksAssumption == MaxTasks \in Nat \ {0} /\ Scopes \subseteq Limits

VARIABLES
    scope,    \* the member of Scopes this behaviour stays within
    row,      \* the `remote_tasks` table
    vault,    \* the tasks whose secret environment is in the vault
    call,     \* who waits for each task
    due,      \* tasks past their limit and the 30 seconds beyond it
    silent,   \* nothing was heard of the machine for a minute, or it said goodbye
    removed,  \* the machine's row is gone
    poll,     \* the requests of the machine
    doing,    \* tasks the machine works on
    handed    \* history: the polls that handed each task to the machine

vars == <<scope, row, vault, call, due, silent, removed, poll, doing, handed>>

Kind(t) == scope.kinds[t]

NoRow == [status |-> "none", text |-> FALSE, answer |-> "none"]
NoCall == [pc |-> "none", queued |-> FALSE, told |-> "nothing"]
NoPoll == [pc |-> "idle", tasks |-> {}]

Init == /\ scope \in Scopes
        /\ row = [t \in Tasks |-> NoRow]
        /\ vault = {} /\ due = {} /\ doing = {}
        /\ call = [t \in Tasks |-> NoCall]
        /\ silent = FALSE /\ removed = FALSE
        /\ poll = [p \in Polls |-> NoPoll]
        /\ handed = [t \in Tasks |-> <<>>]

Settled == {"completed", "failed"}
Unsettled == {"queued", "running"}

TypeOK ==
    /\ scope \in Scopes /\ silent \in BOOLEAN /\ removed \in BOOLEAN
    /\ row \in [Tasks -> [status : {"none", "deleted"} \cup Settled \cup Unsettled,
                          text : BOOLEAN, answer : {"none", "contents", "kept"}]]
    /\ vault \subseteq Tasks /\ due \subseteq Tasks /\ doing \subseteq Tasks
    /\ call \in [Tasks -> [pc : {"none", "queueing", "looking", "listening", "dropping", "failing",
                                 "emptying", "stripping", "discarding", "over", "gone"},
                           queued : BOOLEAN,
                           told : {"nothing", "answer", "failed", "offline", "cancelled", "timed out"}]]
    /\ poll \in [Polls -> [pc : {"idle", "looking", "claiming", "opening", "discarding", "refusing",
                                 "handing"}, tasks : SUBSET Tasks]]
    /\ handed \in [Tasks -> Seq(Polls)]

---------------------------------------------------------------------------
(* The call: execute, executeFiles, executeBrowser around waitForTask. *)

At(t, pc) == call[t].pc = pc
Goto(t, pc) == call' = [call EXCEPT ![t].pc = pc]
Alive(t) == call[t].pc \notin {"none", "over", "gone"}
Files(t) == Kind(t) \in {"write", "read"}

\* A credential is put in the vault before its task is queued, and only for a machine that is there.
Call(t) ==
    /\ Kind(t) # "absent" /\ At(t, "none") /\ \A u \in 1..t - 1 : ~At(u, "none")
    /\ ~removed /\ (Kind(t) = "secret" => ~silent)
    /\ vault' = IF Kind(t) = "secret" THEN vault \cup {t} ELSE vault
    /\ Goto(t, "queueing")
    /\ UNCHANGED <<scope, row, due, silent, removed, poll, doing, handed>>

Queue(t) ==
    /\ At(t, "queueing") /\ ~removed
    /\ row' = [row EXCEPT ![t] = [NoRow EXCEPT !.status = "queued", !.text = Kind(t) = "write"]]
    /\ Goto(t, "looking")
    /\ UNCHANGED <<scope, vault, due, silent, removed, poll, doing, handed>>

\* What is left to do once the wait is over, as each kind of call does it.
Cleanup(t, told) ==
    CASE Files(t) /\ told = "answer" -> "stripping"
      [] Files(t) -> "failing"
      [] Kind(t) = "secret" -> "discarding"
      [] Kind(t) = "browser" /\ told = "answer" -> "stripping"
      [] OTHER -> "over"
Return(t, told) == call' = [call EXCEPT ![t].pc = Cleanup(t, told), ![t].told = told]

\* A row needs its machine.
QueueFails(t) ==
    /\ At(t, "queueing") /\ removed
    /\ Return(t, "failed")
    /\ UNCHANGED <<scope, row, vault, due, silent, removed, poll, doing, handed>>

FailRow(t, statuses) ==
    row' = IF row[t].status \in statuses THEN [row EXCEPT ![t].status = "failed"] ELSE row

\* The row is read: an answer ends the wait.
Look(t) ==
    /\ At(t, "looking") /\ t \notin due
    /\ IF row[t].status \in Settled
       THEN Return(t, IF row[t].status = "completed" THEN "answer" ELSE "failed")
       ELSE call' = [call EXCEPT ![t].pc = "listening", ![t].queued = row[t].status = "queued"]
    /\ UNCHANGED <<scope, row, vault, due, silent, removed, poll, doing, handed>>

\* Then when the machine was last heard: its silence counts for a task it has not claimed.
Listen(t) ==
    /\ At(t, "listening")
    /\ Goto(t, IF call[t].queued /\ silent THEN "dropping" ELSE "looking")
    /\ UNCHANGED <<scope, row, vault, due, silent, removed, poll, doing, handed>>

\* A row still queued is deleted; the caller is told the machine is offline either way.
Drop(t) ==
    /\ At(t, "dropping")
    /\ row' = IF row[t].status = "queued"
              THEN [row EXCEPT ![t] = [NoRow EXCEPT !.status = "deleted"]] ELSE row
    /\ Return(t, "offline")
    /\ UNCHANGED <<scope, vault, due, silent, removed, poll, doing, handed>>

\* A plausible bug: a cancelled call leaves its task in the queue.
AbortQuietly(t) ==
    /\ At(t, "looking") /\ t \notin due
    /\ Return(t, "cancelled")
    /\ UNCHANGED <<scope, row, vault, due, silent, removed, poll, doing, handed>>

\* The run that asked is cancelled: only a task nobody claimed is failed.
Abort(t) ==
    /\ At(t, "looking") /\ t \notin due
    /\ FailRow(t, {"queued"})
    /\ Return(t, "cancelled")
    /\ UNCHANGED <<scope, vault, due, silent, removed, poll, doing, handed>>

\* A plausible bug: the limit only counts for a task the machine never claimed.
TimeOutQueued(t) ==
    /\ At(t, "looking") /\ t \in due /\ row[t].status # "running"
    /\ FailRow(t, {"queued"})
    /\ Return(t, "timed out")
    /\ UNCHANGED <<scope, vault, due, silent, removed, poll, doing, handed>>

\* Past its limit a task that is not answered fails, and the caller is told so even if it just was.
TimeOut(t) ==
    /\ At(t, "looking") /\ t \in due
    /\ FailRow(t, Unsettled)
    /\ Return(t, "timed out")
    /\ UNCHANGED <<scope, vault, due, silent, removed, poll, doing, handed>>

\* executeFiles: a call that ends early fails the task, ...
FailEarly(t) ==
    /\ At(t, "failing")
    /\ FailRow(t, Unsettled)
    /\ Goto(t, IF Kind(t) = "write" THEN "emptying" ELSE "stripping")
    /\ UNCHANGED <<scope, vault, due, silent, removed, poll, doing, handed>>

\* ... empties the text it was to write, ...
Empty(t) ==
    /\ At(t, "emptying")
    /\ row' = [row EXCEPT ![t].text = FALSE]
    /\ Goto(t, "stripping")
    /\ UNCHANGED <<scope, vault, due, silent, removed, poll, doing, handed>>

Stripped(t) == IF row[t].answer = "contents" THEN "kept" ELSE row[t].answer

\* ... and strips what the machine brought back, as executeBrowser does with an answer it returns.
Strip(t) ==
    /\ At(t, "stripping")
    /\ row' = [row EXCEPT ![t].answer = Stripped(t)]
    /\ Goto(t, "over")
    /\ UNCHANGED <<scope, vault, due, silent, removed, poll, doing, handed>>

\* execute: the credential goes with the call.
Discard(t) ==
    /\ At(t, "discarding")
    /\ vault' = vault \ {t}
    /\ Goto(t, "over")
    /\ UNCHANGED <<scope, row, due, silent, removed, poll, doing, handed>>

\* The caller's process dies.
Die(t) ==
    /\ Alive(t)
    /\ Goto(t, "gone")
    /\ UNCHANGED <<scope, row, vault, due, silent, removed, poll, doing, handed>>

---------------------------------------------------------------------------
(* poll, in its statements *)

PollAt(p, pc) == poll[p].pc = pc
PollGoto(p, pc, tasks) == poll' = [poll EXCEPT ![p] = [pc |-> pc, tasks |-> tasks]]

\* The machine is heard.
Knock(p) ==
    /\ p \in scope.polls /\ PollAt(p, "idle") /\ ~removed
    /\ silent' = FALSE
    /\ PollGoto(p, "looking", {})
    /\ UNCHANGED <<scope, row, vault, call, due, removed, doing, handed>>

Waiting == {t \in Tasks : row[t].status = "queued"}

\* The oldest queued task, if there is one.
Find(p) ==
    /\ PollAt(p, "looking")
    /\ \/ Waiting = {} /\ PollGoto(p, "idle", {})
       \/ \E t \in Waiting : (\A u \in Waiting : t <= u) /\ PollGoto(p, "claiming", {t})
    /\ UNCHANGED <<scope, row, vault, call, due, silent, removed, doing, handed>>

\* A plausible bug: the task is taken as it was found.
ClaimableAsFound(t) == row[t].status \in Unsettled
\* The claim is of a task still queued.
Claimable(t) == row[t].status = "queued"

Opened(t) == IF Kind(t) \in {"write", "secret"} THEN "opening" ELSE "handing"

Claim(p) == \E t \in poll[p].tasks :
    /\ PollAt(p, "claiming")
    /\ IF Claimable(t)
       THEN row' = [row EXCEPT ![t].status = "running"] /\ PollGoto(p, Opened(t), {t})
       ELSE UNCHANGED row /\ PollGoto(p, "idle", {})
    /\ UNCHANGED <<scope, vault, call, due, silent, removed, doing, handed>>

\* A plausible bug: the text stays in the row it was claimed from.
EmptyLater(t) == UNCHANGED row
\* The text a write carries is emptied as it is handed over.
EmptyClaimed(t) == row' = [row EXCEPT ![t].text = FALSE]

OpenWrite(p) == \E t \in poll[p].tasks :
    /\ PollAt(p, "opening") /\ Kind(t) = "write"
    /\ EmptyClaimed(t)
    /\ PollGoto(p, "handing", {t})
    /\ UNCHANGED <<scope, vault, call, due, silent, removed, doing, handed>>

\* claimSecretEnv: read, then taken out of the vault.
OpenSecret(p) == \E t \in poll[p].tasks :
    /\ PollAt(p, "opening") /\ Kind(t) = "secret"
    /\ PollGoto(p, IF t \in vault THEN "discarding" ELSE "refusing", {t})
    /\ UNCHANGED <<scope, row, vault, call, due, silent, removed, doing, handed>>

\* A plausible bug: it is only read, and left for the call to discard.
LeftInVault(t) == vault
TakenFromVault(t) == vault \ {t}

TakeSecret(p) == \E t \in poll[p].tasks :
    /\ PollAt(p, "discarding")
    /\ vault' = TakenFromVault(t)
    /\ PollGoto(p, "handing", {t})
    /\ UNCHANGED <<scope, row, call, due, silent, removed, doing, handed>>

\* failClaimed, whatever became of the task since.
Refuse(p) == \E t \in poll[p].tasks :
    /\ PollAt(p, "refusing")
    /\ row' = IF removed THEN row ELSE [row EXCEPT ![t].status = "failed"]
    /\ PollGoto(p, "idle", {})
    /\ UNCHANGED <<scope, vault, call, due, silent, removed, doing, handed>>

Hand(p) == \E t \in poll[p].tasks :
    /\ PollAt(p, "handing")
    /\ doing' = doing \cup {t}
    /\ handed' = [handed EXCEPT ![t] = Append(@, p)]
    /\ PollGoto(p, "idle", {})
    /\ UNCHANGED <<scope, row, vault, call, due, silent, removed>>

\* The process dies, or the reply is lost.
LosePoll(p) ==
    /\ ~PollAt(p, "idle")
    /\ PollGoto(p, "idle", {})
    /\ UNCHANGED <<scope, row, vault, call, due, silent, removed, doing, handed>>

---------------------------------------------------------------------------
(* The machine *)

Contents(t) == IF Kind(t) \in {"read", "browser"} THEN "contents" ELSE "kept"

\* A plausible bug: an answer is taken of any task the machine was handed.
AcceptableAny(t) == row[t].status # "deleted"
\* complete: only a running task is answered.
Acceptable(t) == row[t].status = "running"

Complete(t) ==
    /\ t \in doing
    /\ doing' = doing \ {t}
    /\ row' = IF Acceptable(t)
              THEN [row EXCEPT ![t].status = "completed", ![t].answer = Contents(t)] ELSE row
    /\ UNCHANGED <<scope, vault, call, due, silent, removed, poll, handed>>

LoseWork(t) ==
    /\ t \in doing
    /\ doing' = doing \ {t}
    /\ UNCHANGED <<scope, row, vault, call, due, silent, removed, poll, handed>>

\* A minute without a poll, or disconnect.
FallSilent ==
    /\ ~silent /\ silent' = TRUE
    /\ UNCHANGED <<scope, row, vault, call, due, removed, poll, doing, handed>>

\* remove: the tasks go with their machine, whatever they are at.
Remove ==
    /\ scope.removal /\ ~removed
    /\ removed' = TRUE /\ silent' = TRUE
    /\ row' = [t \in Tasks |-> IF row[t].status = "none" THEN row[t] ELSE [NoRow EXCEPT !.status = "deleted"]]
    /\ UNCHANGED <<scope, vault, call, due, poll, doing, handed>>

Elapse(t) ==
    /\ row[t].status # "none" /\ t \notin due
    /\ due' = due \cup {t}
    /\ UNCHANGED <<scope, row, vault, call, silent, removed, poll, doing, handed>>

---------------------------------------------------------------------------
(* failLeftoverFiles *)

\* A restart of the only process, which ended every call; otherwise a task past its limit.
Abandoned(t) ==
    t \in due \/ ((\A u \in Tasks : ~Alive(u)) /\ \A p \in Polls : PollAt(p, "idle"))

\* A plausible bug: answers nobody read are not looked for.
LeftoverUnsettled(t) == Files(t) /\ row[t].status \in Unsettled
\* What it looks for: unsettled tasks, and answers nobody read.
Leftover(t) == Files(t) /\ (row[t].status \in Unsettled \/ row[t].answer = "contents")

Sweep(t) ==
    /\ Abandoned(t) /\ Leftover(t)
    /\ row' = [row EXCEPT ![t] =
         [status |-> IF @.status \in Unsettled THEN "failed" ELSE @.status,
          text |-> @.text /\ @.status \notin Unsettled,
          answer |-> Stripped(t)]]
    /\ UNCHANGED <<scope, vault, call, due, silent, removed, poll, doing, handed>>

CallStep(t) ==
    \/ Queue(t) \/ QueueFails(t) \/ Look(t) \/ Listen(t) \/ Drop(t) \/ Abort(t) \/ TimeOut(t)
    \/ FailEarly(t) \/ Empty(t) \/ Strip(t) \/ Discard(t)

PollStep(p) ==
    \/ Knock(p) \/ Find(p) \/ Claim(p) \/ OpenWrite(p) \/ OpenSecret(p) \/ TakeSecret(p)
    \/ Refuse(p) \/ Hand(p) \/ LosePoll(p)

Next ==
    \/ \E t \in Tasks : \/ Call(t) \/ CallStep(t) \/ Die(t)
                        \/ Complete(t) \/ LoseWork(t) \/ Elapse(t) \/ Sweep(t)
    \/ \E p \in Polls : PollStep(p)
    \/ FallSilent \/ Remove

Spec == Init /\ [][Next]_vars

\* A call goes on while its process lives, time passes, and gateways are started, which sweep.
\* Nothing is asked of the machine.
Fairness == \A t \in Tasks : WF_vars(CallStep(t)) /\ WF_vars(Elapse(t)) /\ WF_vars(Sweep(t))
LiveSpec == Spec /\ Fairness

---------------------------------------------------------------------------
\* A task goes to the machine at most once, and only once it was queued, although several polls
\* find it and any of them may be lost.
Queued == {t \in Tasks : row[t].status # "none"}
Handing == INSTANCE Handoff WITH
    Children <- Tasks, Ways <- Polls, over <- Queued, handed <- handed
HandedOnce == Handing!Spec

\* A call that ended, other than by its process dying, leaves nothing a poll could still claim:
\* what the caller was told of a task nobody took stays true.
EndedIsUnclaimed == \A t \in Tasks : At(t, "over") => row[t].status # "queued"

\* A late answer changes nothing: a task that was failed or given up stays so, whatever the
\* machine sends and whichever of caller, poll and sweep failed it.
SettledStays == [][\A t \in Tasks : row[t].status \in Settled \cup {"deleted"}
                                      => row'[t].status \in {row[t].status, "deleted"}]_vars

\* Once a file call is over no file text is left in its row, not what it was to write and not what
\* it brought back, whenever the machine answered.
NoTextLeft == \A t \in Tasks :
    At(t, "over") /\ Files(t) => ~row[t].text /\ row[t].answer # "contents"

\* A credential leaves the vault with the call, and is in the machine's hands only once it has.
SecretGone == \A t \in Tasks :
    (At(t, "over") \/ handed[t] # <<>>) /\ Kind(t) = "secret" => t \notin vault

\* A call that ended leaves nothing behind: no task to claim, no file text, no credential.
RemoteTasksSafety == TypeOK /\ EndedIsUnclaimed /\ NoTextLeft /\ SecretGone

\* Every call ends, whatever the machine does.
CallsEnd == \A t \in Tasks : Alive(t) ~> ~Alive(t)

\* A file task whose caller died unanswered, or before reading the answer, is given up, text and all.
DeadAreSwept == \A t \in Tasks :
    (At(t, "gone") /\ Files(t) /\ (row[t].status \in Unsettled \/ row[t].answer = "contents"))
    ~> (~row[t].text /\ row[t].answer # "contents" /\ row[t].status \notin Unsettled)

\* "each fails and gives up the file text it holds": no text outlives a caller that died.
DeadLeaveNoText == \A t \in Tasks : At(t, "gone") /\ Files(t) ~> ~row[t].text
=============================================================================
