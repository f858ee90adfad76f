-------------------------- MODULE RemoteTasksProofs --------------------------
(***************************************************************************)
(* Theorems about RemoteTasks for every number of tasks and polls: a task   *)
(* is handed to the machine at most once, a call that ended leaves nothing  *)
(* behind, and what failed or was answered stays so.                        *)
(***************************************************************************)
EXTENDS RemoteTasks, TLAPS

Row == [status : {"none", "deleted"} \cup Settled \cup Unsettled,
        text : BOOLEAN, answer : {"none", "contents", "kept"}]
CallState == [pc : {"none", "queueing", "looking", "listening", "dropping", "failing",
                    "emptying", "stripping", "discarding", "over", "gone"},
              queued : BOOLEAN,
              told : {"nothing", "answer", "failed", "offline", "cancelled", "timed out"}]
PollState == [pc : {"idle", "looking", "claiming", "opening", "discarding", "refusing", "handing"},
              tasks : SUBSET Tasks]

\* The wait is over and the call has not died.
Ending == {"failing", "emptying", "stripping", "discarding", "over"}

Holds(p, t) == t \in poll[p].tasks /\ poll[p].pc \in {"opening", "discarding", "refusing", "handing"}
Given(t) == handed[t] # <<>>

\* A task without a row has not begun.
Unqueued == \A t \in Tasks :
    /\ call[t].pc \in {"none", "queueing"} => row[t].status = "none"
    /\ row[t].status = "none" => ~Given(t) /\ ~row[t].text /\ \A p \in Polls : t \notin poll[p].tasks

\* A claimed task is one poll's, was handed to nobody, and is running, given up or gone with its machine.
HeldByOne == \A p \in Polls, t \in Tasks : Holds(p, t) =>
    /\ ~Given(t)
    /\ row[t].status \in {"running", "failed"} \/ (removed /\ row[t].status = "deleted")
    /\ \A q \in Polls : Holds(q, t) => q = p

\* What is handed over carries its text or its credential, and leaves neither behind.
Opening == \A t \in Tasks :
    /\ row[t].text => Kind(t) = "write"
    /\ \A p \in Polls : poll[p].pc = "handing" /\ t \in poll[p].tasks =>
         ~row[t].text /\ (Kind(t) = "secret" => t \notin vault)
    /\ \A p \in Polls : poll[p].pc = "discarding" /\ t \in poll[p].tasks => Kind(t) = "secret"
    /\ Given(t) => /\ row[t].status # "queued" /\ ~row[t].text
                   /\ Kind(t) = "secret" => t \notin vault

\* Only what was handed over is worked on or answered.
Answered == \A t \in Tasks : t \in doing \/ row[t].status = "completed" => Given(t)

\* How far each kind of call has cleaned up.
CleanedUp(t) ==
    /\ call[t].pc \in Ending => row[t].status # "queued"
    /\ call[t].pc = "emptying" => Kind(t) = "write"
    /\ call[t].pc \in {"failing", "emptying"} => Files(t)
    /\ call[t].pc = "discarding" => Kind(t) = "secret"
    /\ call[t].pc = "stripping" => Kind(t) # "secret"
    /\ Files(t) /\ call[t].pc \in {"emptying", "stripping", "over"} => row[t].status \notin Unsettled
    /\ Files(t) /\ call[t].pc \in {"stripping", "over"} => ~row[t].text
    /\ Files(t) /\ call[t].pc = "over" => row[t].answer # "contents"
    /\ Kind(t) = "secret" /\ call[t].pc = "over" => t \notin vault
Cleaned == \A t \in Tasks : CleanedUp(t)

TInv == TypeOK /\ Unqueued /\ HeldByOne /\ Opening /\ Answered /\ Cleaned

LEMMA Types == TypeOK <=>
    /\ scope \in Scopes /\ silent \in BOOLEAN /\ removed \in BOOLEAN
    /\ row \in [Tasks -> Row] /\ call \in [Tasks -> CallState] /\ poll \in [Polls -> PollState]
    /\ vault \subseteq Tasks /\ due \subseteq Tasks /\ doing \subseteq Tasks
    /\ handed \in [Tasks -> Seq(Polls)]
BY DEF TypeOK, Row, CallState, PollState

USE DEF Settled, Unsettled

---------------------------------------------------------------------------
(* What the operations write *)

\* Only the row of task t changes, to one with these fields.
Wrote(t, status, text, answer) ==
    /\ row' \in [Tasks -> Row]
    /\ \A u \in Tasks : u # t => row'[u] = row[u]
    /\ row'[t].status = status /\ row'[t].text = text /\ row'[t].answer = answer

Moved(t, pc) ==
    /\ call' \in [Tasks -> CallState]
    /\ \A u \in Tasks : u # t => call'[u] = call[u]
    /\ call'[t].pc = pc

PollMoved(p, pc, tasks) ==
    /\ poll' \in [Polls -> PollState]
    /\ \A q \in Polls : q # p => poll'[q] = poll[q]
    /\ poll'[p].pc = pc /\ poll'[p].tasks = tasks

Pcs == {"none", "queueing", "looking", "listening", "dropping", "failing",
        "emptying", "stripping", "discarding", "over", "gone"}

LEMMA GotoMoves ==
    ASSUME call \in [Tasks -> CallState], NEW t \in Tasks, NEW pc \in Pcs, Goto(t, pc) PROVE Moved(t, pc)
BY DEF Goto, Moved, CallState, Pcs

LEMMA ReturnMoves ==
    ASSUME call \in [Tasks -> CallState], NEW t \in Tasks,
           NEW told \in {"answer", "failed", "offline", "cancelled", "timed out"}, Return(t, told)
    PROVE  Moved(t, Cleanup(t, told))
<1>1. Cleanup(t, told) \in Pcs
  BY DEF Cleanup, Pcs
<1> QED
  BY <1>1, ZenonT(30) DEF Return, Moved, CallState, Pcs

LEMMA PollGotoMoves ==
    ASSUME poll \in [Polls -> PollState], NEW p \in Polls, NEW tasks \in SUBSET Tasks,
           NEW pc \in {"idle", "looking", "claiming", "opening", "discarding", "refusing", "handing"},
           PollGoto(p, pc, tasks)
    PROVE  PollMoved(p, pc, tasks)
BY DEF PollGoto, PollMoved, PollState

LEMMA FailRowWrites ==
    ASSUME row \in [Tasks -> Row], NEW t \in Tasks, NEW statuses, FailRow(t, statuses)
    PROVE  Wrote(t, IF row[t].status \in statuses THEN "failed" ELSE row[t].status, row[t].text, row[t].answer)
BY DEF FailRow, Wrote, Row, Settled

LEMMA StatusWrites ==
    ASSUME row \in [Tasks -> Row], NEW t \in Tasks, NEW status \in {"failed", "running"},
           row' = [row EXCEPT ![t].status = status]
    PROVE  Wrote(t, status, row[t].text, row[t].answer)
BY DEF Wrote, Row, Settled, Unsettled

LEMMA EmptyWrites ==
    ASSUME row \in [Tasks -> Row], NEW t \in Tasks, row' = [row EXCEPT ![t].text = FALSE]
    PROVE  Wrote(t, row[t].status, FALSE, row[t].answer)
BY DEF Wrote, Row

LEMMA StripWrites ==
    ASSUME row \in [Tasks -> Row], NEW t \in Tasks, row' = [row EXCEPT ![t].answer = Stripped(t)]
    PROVE  Wrote(t, row[t].status, row[t].text, Stripped(t))
<1>1. Stripped(t) \in {"none", "contents", "kept"}
  BY DEF Stripped, Row
<1> QED
  BY <1>1 DEF Wrote, Row

---------------------------------------------------------------------------
(* The call *)

\* A call goes on: it may give its task up, and leaves less behind than it found.
GoesOn(t) ==
    /\ row' \in [Tasks -> Row] /\ call' \in [Tasks -> CallState]
    /\ \A u \in Tasks : u # t => row'[u] = row[u] /\ call'[u] = call[u]
    /\ call'[t].pc \notin {"none", "queueing"}
    /\ \/ row'[t].status = row[t].status
       \/ row[t].status \in Unsettled /\ row'[t].status = "failed"
       \/ row[t].status = "queued" /\ row'[t].status = "deleted"
    /\ row'[t].text => row[t].text
    /\ vault' \subseteq vault /\ (\A u \in Tasks : u # t /\ u \in vault => u \in vault')
    /\ CleanedUp(t)'
    /\ UNCHANGED <<scope, due, silent, removed, poll, doing, handed>>

LEMMA GoingOn ==
    ASSUME TInv, NEW t \in Tasks, GoesOn(t) PROVE TInv'
<1> USE DEF TInv
<1>1. TypeOK'
  BY Types DEF GoesOn, TypeOK, Row, CallState
<1>2. Unqueued'
  BY DEF GoesOn, Unqueued, Given
<1>3. HeldByOne'
  BY DEF GoesOn, HeldByOne, Holds, Given
<1>4. Opening'
  BY DEF GoesOn, Opening, Given, Kind
<1>5. Answered'
  BY DEF GoesOn, Answered, Given
<1>6. Cleaned'
  BY DEF GoesOn, Cleaned, CleanedUp, Kind, Files
<1> QED
  BY <1>1, <1>2, <1>3, <1>4, <1>5, <1>6

\* What the end of a wait may do to the row: it is left, or given up.
GivenUp(t) ==
    /\ row' \in [Tasks -> Row]
    /\ \A u \in Tasks : u # t => row'[u] = row[u]
    /\ \/ row'[t].status = row[t].status
       \/ row[t].status \in Unsettled /\ row'[t].status = "failed"
       \/ row[t].status = "queued" /\ row'[t].status = "deleted"
    /\ row'[t].status # "queued"
    /\ row'[t].text => row[t].text

\* A wait that ended: with an answer only if there is one.
LEMMA Returning ==
    ASSUME TInv, NEW t \in Tasks,
           NEW told \in {"answer", "failed", "offline", "cancelled", "timed out"}, Return(t, told),
           GivenUp(t), told = "answer" => row[t].status = "completed",
           UNCHANGED <<scope, vault, due, silent, removed, poll, doing, handed>>
    PROVE  TInv'
<1>0. row \in [Tasks -> Row] /\ call \in [Tasks -> CallState]
  BY Types DEF TInv
<1>1. Moved(t, Cleanup(t, told))
  BY <1>0, ReturnMoves
<1>2. row[t].status = "completed" => ~row[t].text
  BY DEF TInv, Answered, Opening
<1>3. ASSUME told = "answer" PROVE ~row'[t].text /\ row'[t].status = "completed"
  <2>1. row[t].status = "completed" /\ ~row[t].text
    BY <1>2, <1>3
  <2>2. row'[t].status = "completed"
    BY <2>1 DEF GivenUp
  <2> QED
    BY <2>1, <2>2 DEF GivenUp
<1>4. /\ Kind(t)' = Kind(t) /\ Files(t)' = Files(t)
      /\ call'[t].pc = Cleanup(t, told) /\ row'[t].status # "queued"
  BY <1>1 DEF Moved, GivenUp, Kind, Files
<1>5. Cleanup(t, told) \in {"stripping", "failing", "discarding", "over"}
      /\ (Cleanup(t, told) = "stripping" => Kind(t) # "secret" /\ told = "answer")
      /\ (Cleanup(t, told) = "failing" => Files(t))
      /\ (Cleanup(t, told) = "discarding" => Kind(t) = "secret")
      /\ (Cleanup(t, told) = "over" => ~Files(t) /\ Kind(t) # "secret")
  BY DEF Cleanup, Files
<1>6. CleanedUp(t)'
  BY <1>3, <1>4, <1>5 DEF CleanedUp, Ending
<1>7. GoesOn(t)
  BY <1>1, <1>5, <1>6 DEF Moved, GivenUp, GoesOn
<1> QED
  BY <1>7, GoingOn

\* A call that goes on without touching its task.
LEMMA Pausing ==
    ASSUME TInv, NEW t \in Tasks, NEW pc \in {"looking", "listening", "dropping", "gone"}, Moved(t, pc),
           UNCHANGED <<scope, row, vault, due, silent, removed, poll, doing, handed>>
    PROVE  TInv'
<1>0. row \in [Tasks -> Row]
  BY Types DEF TInv
<1>1. CleanedUp(t)'
  BY DEF Moved, CleanedUp, Kind, Files, Ending
<1> QED
  BY <1>0, <1>1, GoingOn DEF Moved, GoesOn

LEMMA Unwritten ==
    ASSUME row \in [Tasks -> Row], NEW t \in Tasks, UNCHANGED row, row[t].status # "queued"
    PROVE  GivenUp(t)
BY DEF GivenUp

LEMMA FailRowGivesUp ==
    ASSUME row \in [Tasks -> Row], NEW t \in Tasks, FailRow(t, {"queued"}) \/ FailRow(t, Unsettled)
    PROVE  GivenUp(t)
BY FailRowWrites DEF GivenUp, Wrote

LEMMA LookHolds == ASSUME TInv, NEW t \in Tasks, Look(t) PROVE TInv'
<1>0. row \in [Tasks -> Row] /\ call \in [Tasks -> CallState]
  BY Types DEF TInv
<1>1. CASE row[t].status \in Settled
  <2>1. PICK told \in {"answer", "failed"} : /\ Return(t, told) /\ row' = row
                                             /\ told = "answer" => row[t].status = "completed"
    BY <1>1 DEF Look
  <2> QED
    BY <1>0, <1>1, <2>1, Unwritten, Returning DEF Look
<1>2. CASE row[t].status \notin Settled
  <2>1. call' = [call EXCEPT ![t].pc = "listening", ![t].queued = row[t].status = "queued"]
    BY <1>2 DEF Look
  <2>2. Moved(t, "listening")
    BY <1>0, <2>1, ZenonT(30) DEF Moved, CallState
  <2> QED
    BY <2>2, Pausing DEF Look
<1> QED
  BY <1>1, <1>2

LEMMA WaitHolds ==
    ASSUME TInv, NEW t \in Tasks, QueueFails(t) \/ Listen(t) \/ Drop(t) \/ Abort(t) \/ TimeOut(t) \/ Die(t)
    PROVE  TInv'
<1>0. row \in [Tasks -> Row] /\ call \in [Tasks -> CallState]
  BY Types DEF TInv
<1>1. CASE QueueFails(t)
  <2>1. row[t].status # "queued"
    BY <1>1 DEF QueueFails, At, TInv, Unqueued
  <2> QED
    BY <1>0, <1>1, <2>1, Unwritten, Returning DEF QueueFails
<1>2. CASE Listen(t)
  BY <1>0, <1>2, GotoMoves, Pausing DEF Listen, Pcs
<1>3. CASE Drop(t)
  <2>1. CASE row[t].status = "queued"
    <3>1. Wrote(t, "deleted", FALSE, "none")
      BY <1>0, <1>3, <2>1 DEF Drop, Wrote, NoRow, Row
    <3>2. GivenUp(t)
      BY <2>1, <3>1 DEF GivenUp, Wrote
    <3> QED
      BY <1>3, <3>2, Returning DEF Drop
  <2>2. CASE row[t].status # "queued"
    BY <1>0, <1>3, <2>2, Unwritten, Returning DEF Drop
  <2> QED
    BY <2>1, <2>2
<1>4. CASE Abort(t)
  BY <1>0, <1>4, FailRowGivesUp, Returning DEF Abort
<1>5. CASE TimeOut(t)
  BY <1>0, <1>5, FailRowGivesUp, Returning DEF TimeOut
<1>6. CASE Die(t)
  BY <1>0, <1>6, GotoMoves, Pausing DEF Die, Pcs
<1> QED
  BY <1>1, <1>2, <1>3, <1>4, <1>5, <1>6

LEMMA CleanupHolds ==
    ASSUME TInv, NEW t \in Tasks, FailEarly(t) \/ Empty(t) \/ Strip(t) \/ Discard(t) PROVE TInv'
<1>0. row \in [Tasks -> Row] /\ call \in [Tasks -> CallState] /\ CleanedUp(t) /\ vault \subseteq Tasks
  BY Types DEF TInv, Cleaned
<1>t. row[t].text => Kind(t) = "write"
  BY DEF TInv, Opening
<1>1. CASE FailEarly(t)
  <2>1. PICK pc \in {"emptying", "stripping"} : Moved(t, pc) /\ (pc = "emptying" <=> Kind(t) = "write")
    BY <1>0, <1>1, GotoMoves DEF FailEarly, Pcs
  <2>2. Wrote(t, IF row[t].status \in Unsettled THEN "failed" ELSE row[t].status, row[t].text, row[t].answer)
    BY <1>0, <1>1, FailRowWrites DEF FailEarly
  <2>3. CleanedUp(t)'
    BY <1>0, <1>1, <1>t, <2>1, <2>2 DEF FailEarly, CleanedUp, Moved, Wrote, At, Kind, Files, Ending
  <2> QED
    BY <1>1, <2>1, <2>2, <2>3, GoingOn DEF FailEarly, Moved, Wrote, GoesOn
<1>2. CASE Empty(t)
  <2>1. Moved(t, "stripping") /\ Wrote(t, row[t].status, FALSE, row[t].answer)
    BY <1>0, <1>2, GotoMoves, EmptyWrites DEF Empty, Pcs
  <2>2. CleanedUp(t)'
    BY <1>0, <1>2, <2>1 DEF Empty, CleanedUp, Moved, Wrote, At, Kind, Files, Ending
  <2> QED
    BY <1>2, <2>1, <2>2, GoingOn DEF Empty, Moved, Wrote, GoesOn
<1>3. CASE Strip(t)
  <2>1. Moved(t, "over") /\ Wrote(t, row[t].status, row[t].text, Stripped(t))
    BY <1>0, <1>3, GotoMoves, StripWrites DEF Strip, Pcs
  <2>2. CleanedUp(t)'
    BY <1>0, <1>3, <2>1 DEF Strip, CleanedUp, Moved, Wrote, At, Kind, Files, Ending, Stripped
  <2> QED
    BY <1>3, <2>1, <2>2, GoingOn DEF Strip, Moved, Wrote, GoesOn
<1>4. CASE Discard(t)
  <2>1. Moved(t, "over")
    BY <1>0, <1>4, GotoMoves DEF Discard, Pcs
  <2>2. CleanedUp(t)'
    BY <1>0, <1>4, <2>1 DEF Discard, CleanedUp, Moved, At, Kind, Files, Ending
  <2> QED
    BY <1>0, <1>4, <2>1, <2>2, GoingOn DEF Discard, Moved, GoesOn
<1> QED
  BY <1>1, <1>2, <1>3, <1>4

\* A credential goes to the vault, and a row to the queue, before anybody can have the task.
LEMMA CallHolds == ASSUME TInv, NEW t \in Tasks, Call(t) PROVE TInv'
<1> USE DEF TInv
<1>0. call[t].pc = "none" /\ row[t].status = "none"
  BY DEF Call, At, Unqueued
<1>1. Moved(t, "queueing") /\ vault' \subseteq vault \cup {t}
      /\ UNCHANGED <<scope, row, due, silent, removed, poll, doing, handed>>
  BY Types, GotoMoves DEF Call, Pcs
<1>2. TypeOK'
  BY <1>1, Types DEF TypeOK, Moved, CallState
<1>3. Unqueued'
  BY <1>0, <1>1 DEF Moved, Unqueued, Given
<1>4. HeldByOne'
  BY <1>1 DEF HeldByOne, Holds, Given
<1>5. Opening'
  BY <1>0, <1>1 DEF Opening, Unqueued, Given, Kind
<1>6. Answered' /\ Cleaned'
  BY <1>1 DEF Answered, Given, Moved, Cleaned, CleanedUp, Kind, Files, Ending
<1> QED
  BY <1>2, <1>3, <1>4, <1>5, <1>6

LEMMA NewRow ==
    ASSUME NEW text \in BOOLEAN
    PROVE  LET new == [NoRow EXCEPT !.status = "queued", !.text = text] IN
           new \in Row /\ new.status = "queued" /\ new.text = text /\ new.answer = "none"
BY DEF NoRow, Row

LEMMA QueueHolds == ASSUME TInv, NEW t \in Tasks, Queue(t) PROVE TInv'
<1> USE DEF TInv
<1>0. call[t].pc = "queueing" /\ row[t].status = "none"
  BY DEF Queue, At, Unqueued
<1>1. Moved(t, "looking") /\ UNCHANGED <<scope, vault, due, silent, removed, poll, doing, handed>>
  BY Types, GotoMoves DEF Queue, Pcs
<1>2. Wrote(t, "queued", Kind(t) = "write", "none")
  <2>1. (Kind(t) = "write") \in BOOLEAN /\ row \in [Tasks -> Row]
    BY Types
  <2>2. DEFINE new == [NoRow EXCEPT !.status = "queued", !.text = Kind(t) = "write"]
  <2>3. new \in Row /\ new.status = "queued" /\ new.text = (Kind(t) = "write") /\ new.answer = "none"
    BY <2>1, NewRow
  <2>4. row' = [row EXCEPT ![t] = new]
    BY Zenon DEF Queue
  <2> HIDE DEF new
  <2> QED
    BY <2>1, <2>3, <2>4 DEF Wrote
<1>3. TypeOK'
  BY <1>1, <1>2, Types DEF TypeOK, Moved, Wrote, CallState, Row
<1>4. Unqueued'
  BY <1>0, <1>1, <1>2 DEF Moved, Wrote, Unqueued, Given
<1>5. HeldByOne'
  BY <1>0, <1>1, <1>2 DEF HeldByOne, Holds, Given, Unqueued, Wrote
<1>6. Opening'
  BY <1>0, <1>1, <1>2 DEF Opening, Unqueued, Given, Kind, Wrote
<1>7. Answered' /\ Cleaned'
  BY <1>0, <1>1, <1>2 DEF Answered, Given, Moved, Wrote, Cleaned, CleanedUp, Kind, Files, Ending
<1> QED
  BY <1>3, <1>4, <1>5, <1>6, <1>7

---------------------------------------------------------------------------
(* The polls *)

\* A poll that has claimed nothing touches nothing.
LEMMA Polling ==
    ASSUME TInv, NEW p \in Polls, NEW pc \in {"idle", "looking", "claiming"}, NEW tasks \in SUBSET Tasks,
           PollGoto(p, pc, tasks), \A t \in tasks : row[t].status # "none",
           silent' \in BOOLEAN, UNCHANGED <<scope, row, vault, call, due, removed, doing, handed>>
    PROVE  TInv'
<1> USE DEF TInv
<1>1. PollMoved(p, pc, tasks)
  BY Types, PollGotoMoves
<1>2. TypeOK'
  BY <1>1 DEF TypeOK, PollMoved, PollState
<1>3. Unqueued'
  BY <1>1 DEF Unqueued, Given, PollMoved
<1>4. HeldByOne'
  BY <1>1 DEF HeldByOne, Holds, Given, PollMoved
<1>5. Opening'
  BY <1>1 DEF Opening, Given, Kind, PollMoved
<1>6. Answered' /\ Cleaned'
  BY DEF Answered, Given, Cleaned, CleanedUp, Kind, Files
<1> QED
  BY <1>2, <1>3, <1>4, <1>5, <1>6

LEMMA PollingHolds == ASSUME TInv, NEW p \in Polls, Knock(p) \/ Find(p) \/ LosePoll(p) PROVE TInv'
<1>0. silent \in BOOLEAN /\ {} \in SUBSET Tasks
  BY DEF TInv, TypeOK
<1>1. CASE Knock(p)
  <2>1. PollGoto(p, "looking", {}) /\ silent' \in BOOLEAN
    BY <1>1 DEF Knock
  <2> QED
    BY <1>0, <1>1, <2>1, Polling DEF Knock
<1>2. CASE Find(p)
  <2>1. CASE PollGoto(p, "idle", {})
    BY <1>0, <1>2, <2>1, Polling DEF Find
  <2>2. CASE \E t \in Waiting : PollGoto(p, "claiming", {t})
    <3>1. PICK t \in Waiting : PollGoto(p, "claiming", {t})
      BY <2>2
    <3>2. {t} \in SUBSET Tasks /\ \A u \in {t} : row[u].status # "none"
      BY DEF Waiting
    <3> QED
      BY <1>0, <1>2, <3>1, <3>2, Polling DEF Find
  <2> QED
    BY <1>2, <2>1, <2>2 DEF Find
<1>3. CASE LosePoll(p)
  BY <1>0, <1>3, Polling DEF LosePoll
<1> QED
  BY <1>1, <1>2, <1>3

LEMMA ClaimHolds == ASSUME TInv, NEW p \in Polls, Claim(p) PROVE TInv'
<1>1. PICK t \in poll[p].tasks :
        /\ IF Claimable(t)
           THEN row' = [row EXCEPT ![t].status = "running"] /\ PollGoto(p, Opened(t), {t})
           ELSE UNCHANGED row /\ PollGoto(p, "idle", {})
        /\ UNCHANGED <<scope, vault, call, due, silent, removed, doing, handed>>
  BY DEF Claim
<1>2. t \in Tasks
  BY Types DEF TInv, PollState
<1>3. CASE ~Claimable(t)
  <2>1. PollGoto(p, "idle", {}) /\ UNCHANGED row /\ silent' \in BOOLEAN
    BY <1>1, <1>3 DEF TInv, TypeOK
  <2> QED
    BY <1>1, <2>1, Polling
<1>4. CASE Claimable(t)
  <2> USE DEF TInv
  <2>1. PollMoved(p, Opened(t), {t})
    BY <1>1, <1>2, <1>4, Types, PollGotoMoves DEF Opened
  <2>2. Wrote(t, "running", row[t].text, row[t].answer) /\ row[t].status = "queued"
    BY <1>1, <1>2, <1>4, Types, StatusWrites DEF Claimable
  <2>3. TypeOK'
    BY <1>1, <2>1, <2>2, Types DEF TypeOK, PollMoved, PollState, Wrote, Row
  <2>4. Unqueued'
    BY <1>1, <1>2, <2>1, <2>2 DEF Unqueued, Given, PollMoved, Wrote
  <2>5. ~Given(t) /\ \A q \in Polls : ~Holds(q, t)
    BY <1>2, <2>2 DEF Opening, HeldByOne
  <2>6. HeldByOne'
    BY <1>1, <1>2, <2>1, <2>2, <2>5 DEF HeldByOne, Holds, Given, PollMoved, Wrote
  <2>7. Opening'
    BY <1>1, <1>2, <2>1, <2>2 DEF Opening, Given, Kind, PollMoved, Wrote, Opened
  <2>8. Answered' /\ Cleaned'
    BY <1>1, <1>2, <2>2 DEF Answered, Given, Cleaned, CleanedUp, Kind, Files, Wrote, Ending
  <2> QED
    BY <2>3, <2>4, <2>6, <2>7, <2>8
<1> QED
  BY <1>3, <1>4

\* A poll goes on with the task it claimed: it opens what the task carries.
LEMMA Keeping ==
    ASSUME TInv, NEW p \in Polls, NEW t \in Tasks, Holds(p, t),
           NEW pc \in {"handing", "discarding", "refusing"}, PollGoto(p, pc, {t}),
           NEW text \in BOOLEAN, Wrote(t, row[t].status, text, row[t].answer),
           text => row[t].text, vault' \subseteq vault, \A u \in Tasks : u # t /\ u \in vault => u \in vault',
           pc = "handing" => ~text /\ (Kind(t) = "secret" => t \notin vault'),
           pc = "discarding" => Kind(t) = "secret",
           UNCHANGED <<scope, call, due, silent, removed, doing, handed>>
    PROVE  TInv'
<1> USE DEF TInv
<1>1. PollMoved(p, pc, {t})
  BY Types, PollGotoMoves
<1>2. TypeOK'
  BY <1>1, Types DEF TypeOK, PollMoved, PollState, Wrote, Row
<1>3. Unqueued'
  BY <1>1 DEF Unqueued, Given, PollMoved, Wrote, HeldByOne
<1>4. HeldByOne'
  BY <1>1 DEF HeldByOne, Holds, Given, PollMoved, Wrote
<1>5. Opening'
  BY <1>1 DEF Opening, Given, Kind, PollMoved, Wrote
<1>6. Answered' /\ Cleaned'
  BY DEF Answered, Given, Cleaned, CleanedUp, Kind, Files, Wrote, Ending
<1> QED
  BY <1>2, <1>3, <1>4, <1>5, <1>6

LEMMA OpenHolds ==
    ASSUME TInv, NEW p \in Polls, OpenWrite(p) \/ OpenSecret(p) \/ TakeSecret(p) PROVE TInv'
<1>0. /\ row \in [Tasks -> Row] /\ \A t \in poll[p].tasks : t \in Tasks /\ row[t].text \in BOOLEAN
      /\ \A t \in Tasks : row[t].text => Kind(t) = "write"
  BY Types DEF TInv, PollState, Row, Opening
<1>1. CASE OpenWrite(p)
  <2>1. PICK t \in poll[p].tasks : /\ PollAt(p, "opening") /\ Kind(t) = "write"
                                   /\ EmptyClaimed(t) /\ PollGoto(p, "handing", {t})
    BY <1>1 DEF OpenWrite
  <2>2. Wrote(t, row[t].status, FALSE, row[t].answer)
    BY <1>0, <2>1, EmptyWrites DEF EmptyClaimed
  <2> QED
    BY <1>0, <1>1, <2>1, <2>2, Keeping DEF OpenWrite, Holds, PollAt
<1>2. CASE OpenSecret(p)
  <2>1. PICK t \in poll[p].tasks, pc \in {"discarding", "refusing"} :
          PollAt(p, "opening") /\ Kind(t) = "secret" /\ PollGoto(p, pc, {t})
    BY <1>2 DEF OpenSecret
  <2>2. Wrote(t, row[t].status, row[t].text, row[t].answer)
    BY <1>0, <1>2, <2>1 DEF OpenSecret, Wrote
  <2> QED
    BY <1>0, <1>2, <2>1, <2>2, Keeping DEF OpenSecret, Holds, PollAt
<1>3. CASE TakeSecret(p)
  <2>1. PICK t \in poll[p].tasks : /\ PollAt(p, "discarding") /\ PollGoto(p, "handing", {t})
                                   /\ vault' = vault \ {t}
    BY <1>3 DEF TakeSecret, TakenFromVault
  <2>2. Wrote(t, row[t].status, row[t].text, row[t].answer)
    BY <1>0, <1>3, <2>1 DEF TakeSecret, Wrote
  <2>3. ~row[t].text
    BY <1>0, <2>1 DEF TInv, Opening, PollAt
  <2> QED
    BY <1>0, <1>3, <2>1, <2>2, <2>3, Keeping DEF TakeSecret, Holds, PollAt
<1> QED
  BY <1>1, <1>2, <1>3

\* What became of a claimed task is known: it fails, or its machine is gone.
LEMMA RefuseHolds == ASSUME TInv, NEW p \in Polls, Refuse(p) PROVE TInv'
<1> USE DEF TInv
<1>1. PICK t \in poll[p].tasks :
        /\ PollAt(p, "refusing") /\ PollGoto(p, "idle", {})
        /\ row' = IF removed THEN row ELSE [row EXCEPT ![t].status = "failed"]
        /\ UNCHANGED <<scope, vault, call, due, silent, removed, doing, handed>>
  BY DEF Refuse
<1>2. t \in Tasks /\ row \in [Tasks -> Row] /\ Holds(p, t) /\ silent \in BOOLEAN
  BY <1>1, Types DEF PollState, PollAt, Holds
<1>3. CASE removed
  BY <1>1, <1>2, <1>3, Polling
<1>4. CASE ~removed
  <2>1. PollMoved(p, "idle", {})
    BY <1>1, Types, PollGotoMoves
  <2>2. Wrote(t, "failed", row[t].text, row[t].answer) /\ row[t].status \in {"running", "failed"} /\ ~Given(t)
    BY <1>1, <1>2, <1>4, StatusWrites DEF HeldByOne
  <2>3. TypeOK'
    BY <1>1, <2>1, <2>2, Types DEF TypeOK, PollMoved, PollState, Wrote, Row
  <2>4. Unqueued' /\ HeldByOne'
    BY <1>1, <1>2, <2>1, <2>2 DEF Unqueued, HeldByOne, Holds, Given, PollMoved, Wrote
  <2>5. Opening'
    BY <1>1, <1>2, <2>1, <2>2 DEF Opening, Given, Kind, PollMoved, Wrote
  <2>6. Answered' /\ Cleaned'
    BY <1>1, <1>2, <2>2 DEF Answered, Given, Cleaned, CleanedUp, Kind, Files, Wrote, Ending
  <2> QED
    BY <2>3, <2>4, <2>5, <2>6
<1> QED
  BY <1>3, <1>4

\* A task is handed over for the first time.
LEMMA Handed ==
    ASSUME TInv, NEW p \in Polls, Hand(p)
    PROVE  \E t \in Tasks : /\ Holds(p, t) /\ poll[p].pc = "handing" /\ handed[t] = <<>>
                            /\ handed' = [handed EXCEPT ![t] = <<p>>]
                            /\ doing' = doing \cup {t} /\ PollMoved(p, "idle", {})
                            /\ UNCHANGED <<scope, row, vault, call, due, silent, removed>>
<1>1. PICK t \in poll[p].tasks :
        /\ PollAt(p, "handing") /\ PollGoto(p, "idle", {})
        /\ doing' = doing \cup {t} /\ handed' = [handed EXCEPT ![t] = Append(@, p)]
        /\ UNCHANGED <<scope, row, vault, call, due, silent, removed>>
  BY DEF Hand
<1>2. t \in Tasks /\ Holds(p, t) /\ handed \in [Tasks -> Seq(Polls)]
  BY <1>1, Types DEF TInv, PollState, PollAt, Holds
<1>3. handed[t] = <<>>
  BY <1>2 DEF TInv, HeldByOne, Given
<1>4. handed' = [handed EXCEPT ![t] = <<p>>]
  BY <1>1, <1>2, <1>3
<1>5. PollMoved(p, "idle", {})
  BY <1>1, Types, PollGotoMoves DEF TInv
<1> QED
  BY <1>1, <1>2, <1>3, <1>4, <1>5 DEF PollAt

LEMMA HandHolds == ASSUME TInv, NEW p \in Polls, Hand(p) PROVE TInv'
<1> USE DEF TInv
<1>1. PICK t \in Tasks : /\ Holds(p, t) /\ poll[p].pc = "handing" /\ handed[t] = <<>>
                         /\ handed' = [handed EXCEPT ![t] = <<p>>]
                         /\ doing' = doing \cup {t} /\ PollMoved(p, "idle", {})
                         /\ UNCHANGED <<scope, row, vault, call, due, silent, removed>>
  BY Handed
<1>2. handed \in [Tasks -> Seq(Polls)] /\ <<p>> \in Seq(Polls) /\ <<p>> # <<>>
  BY Types
<1>3. Given(t)' /\ \A u \in Tasks : u # t => (Given(u)' <=> Given(u))
  BY <1>1, <1>2 DEF Given
<1>4. TypeOK'
  BY <1>1, <1>2, Types DEF TypeOK, PollMoved, PollState
<1>5. Unqueued' /\ HeldByOne'
  BY <1>1, <1>3 DEF Unqueued, HeldByOne, Holds, PollMoved
<1>6. Opening'
  BY <1>1, <1>3 DEF Opening, Kind, PollMoved, HeldByOne, Holds
<1>7. Answered' /\ Cleaned'
  BY <1>1, <1>3 DEF Answered, Cleaned, CleanedUp, Kind, Files
<1> QED
  BY <1>4, <1>5, <1>6, <1>7

---------------------------------------------------------------------------
(* The machine, and what sweeps after the calls that died *)

LEMMA CompleteHolds == ASSUME TInv, NEW t \in Tasks, Complete(t) PROVE TInv'
<1> USE DEF TInv
<1>0. t \in doing /\ Given(t) /\ row \in [Tasks -> Row] /\ doing' \subseteq doing
  BY Types DEF Complete, Answered
<1>1. row' = IF row[t].status = "running"
             THEN [row EXCEPT ![t].status = "completed", ![t].answer = Contents(t)] ELSE row
  BY DEF Complete, Acceptable
<1>2. CASE row[t].status = "running"
  <2>1. Wrote(t, "completed", row[t].text, Contents(t))
    BY <1>0, <1>1, <1>2 DEF Wrote, Row, Contents
  <2>2. TypeOK'
    BY <1>0, <2>1, Types DEF Complete, TypeOK, Wrote, Row
  <2>3. Unqueued' /\ HeldByOne'
    BY <1>0, <1>2, <2>1 DEF Complete, Unqueued, HeldByOne, Holds, Given, Wrote
  <2>4. Opening'
    BY <1>0, <1>2, <2>1 DEF Complete, Opening, Given, Kind, Wrote
  <2>5. Answered' /\ Cleaned'
    BY <1>0, <1>2, <2>1 DEF Complete, Answered, Given, Cleaned, CleanedUp, Kind, Files, Wrote, Ending
  <2> QED
    BY <2>2, <2>3, <2>4, <2>5
<1>3. CASE row[t].status # "running"
  <2>1. UNCHANGED <<scope, row, vault, call, due, silent, removed, poll, handed>>
    BY <1>1, <1>3 DEF Complete
  <2>2. TypeOK' /\ Unqueued' /\ HeldByOne' /\ Opening'
    BY <1>0, <2>1 DEF TypeOK, Unqueued, HeldByOne, Holds, Given, Opening, Kind
  <2>3. Answered' /\ Cleaned'
    BY <1>0, <2>1 DEF Answered, Given, Cleaned, CleanedUp, Kind, Files
  <2> QED
    BY <2>2, <2>3
<1> QED
  BY <1>2, <1>3

\* What only concerns the machine or the time.
LEMMA OutsideHolds ==
    ASSUME TInv, FallSilent \/ (\E t \in Tasks : LoseWork(t) \/ Elapse(t)) \/ UNCHANGED vars PROVE TInv'
<1> USE DEF TInv
<1>1. /\ UNCHANGED <<scope, row, vault, call, removed, poll, handed>>
      /\ doing' \subseteq doing /\ due' \subseteq Tasks /\ silent' \in BOOLEAN
  BY DEF FallSilent, LoseWork, Elapse, vars, TypeOK
<1>2. TypeOK' /\ Unqueued' /\ HeldByOne' /\ Opening'
  BY <1>1 DEF TypeOK, Unqueued, HeldByOne, Holds, Given, Opening, Kind
<1>3. Answered' /\ Cleaned'
  BY <1>1 DEF Answered, Given, Cleaned, CleanedUp, Kind, Files
<1> QED
  BY <1>2, <1>3

LEMMA RemoveHolds == ASSUME TInv, Remove PROVE TInv'
<1> USE DEF TInv
<1>0. removed' = TRUE /\ silent' = TRUE /\ UNCHANGED <<scope, vault, call, due, poll, doing, handed>>
  BY DEF Remove
<1>1. /\ row' \in [Tasks -> Row]
      /\ \A t \in Tasks : \/ row[t].status = "none" /\ row'[t] = row[t]
                          \/ /\ row[t].status # "none" /\ row'[t].status = "deleted"
                             /\ ~row'[t].text /\ row'[t].answer = "none"
  BY Types DEF Remove, NoRow, Row
<1>2. TypeOK' /\ Unqueued'
  BY <1>0, <1>1, Types DEF TypeOK, Unqueued, Given, Row
<1>3. HeldByOne'
  BY <1>0, <1>1 DEF HeldByOne, Holds, Given, Unqueued
<1>4. Opening' /\ Answered'
  BY <1>0, <1>1 DEF Opening, Answered, Given, Kind
<1>5. Cleaned'
  BY <1>0, <1>1 DEF Cleaned, CleanedUp, Kind, Files
<1> QED
  BY <1>2, <1>3, <1>4, <1>5

LEMMA SweepHolds == ASSUME TInv, NEW t \in Tasks, Sweep(t) PROVE TInv'
<1> USE DEF TInv
<1>1. Wrote(t, IF row[t].status \in Unsettled THEN "failed" ELSE row[t].status,
            row[t].text /\ row[t].status \notin Unsettled, Stripped(t))
  BY Types DEF Sweep, Wrote, Row, Stripped
<1>2. UNCHANGED <<scope, vault, call, due, silent, removed, poll, doing, handed>>
  BY DEF Sweep
<1>3. TypeOK'
  BY <1>1, <1>2, Types DEF TypeOK, Wrote, Row
<1>4. Unqueued'
  <2>1. row'[t].status = "none" => row[t].status = "none" /\ (row'[t].text => row[t].text)
    BY <1>1 DEF Wrote
  <2>2. call[t].pc \in {"none", "queueing"} => row'[t].status = "none"
    BY <1>1 DEF Wrote, Unqueued
  <2> QED
    BY <1>1, <1>2, <2>1, <2>2 DEF Unqueued, Given, Wrote
<1>7. HeldByOne'
  BY <1>1, <1>2 DEF HeldByOne, Holds, Given, Wrote
<1>5. Opening'
  BY <1>1, <1>2 DEF Opening, Given, Kind, Wrote
<1>6. Answered'
  BY <1>1, <1>2 DEF Answered, Given, Kind, Wrote, Ending, Stripped
<1>8. Cleaned'
  BY <1>1, <1>2 DEF Cleaned, CleanedUp, Given, Kind, Files, Wrote, Ending, Stripped
<1> QED
  BY <1>7, <1>3, <1>4, <1>5, <1>6, <1>8

---------------------------------------------------------------------------
(* Theorems *)

LEMMA InitHolds == Init => TInv
<1> SUFFICES ASSUME Init PROVE TInv
  OBVIOUS
<1>1. NoRow \in Row /\ NoCall \in CallState /\ NoPoll \in PollState
  BY DEF NoRow, NoCall, NoPoll, Row, CallState, PollState
<1>2. TypeOK
  <2>1. <<>> \in Seq(Polls)
    OBVIOUS
  <2>2. row \in [Tasks -> Row] /\ call \in [Tasks -> CallState] /\ poll \in [Polls -> PollState]
    BY <1>1 DEF Init
  <2>3. handed \in [Tasks -> Seq(Polls)]
    BY <2>1, Zenon DEF Init
  <2> QED
    BY <2>2, <2>3, Types DEF Init
<1>3. Unqueued /\ HeldByOne /\ Answered
  BY DEF Init, Unqueued, HeldByOne, Answered, NoRow, NoPoll, Given, Holds
<1>4. Opening /\ Cleaned
  BY DEF Init, Opening, Cleaned, CleanedUp, NoRow, NoCall, NoPoll, Given, Files, Ending
<1> QED
  BY <1>2, <1>3, <1>4 DEF TInv

LEMMA StepHolds == ASSUME TInv, [Next]_vars PROVE TInv'
<1>1. ASSUME NEW t \in Tasks, CallStep(t) PROVE TInv'
  BY <1>1, QueueHolds, LookHolds, WaitHolds, CleanupHolds DEF CallStep
<1>2. ASSUME NEW p \in Polls, PollStep(p) PROVE TInv'
  BY <1>2, PollingHolds, ClaimHolds, OpenHolds, RefuseHolds, HandHolds DEF PollStep
<1>3. ASSUME NEW t \in Tasks, Call(t) \/ Die(t) \/ Complete(t) \/ Sweep(t) PROVE TInv'
  BY <1>3, CallHolds, WaitHolds, CompleteHolds, SweepHolds
<1>4. CASE FallSilent \/ (\E t \in Tasks : LoseWork(t) \/ Elapse(t)) \/ UNCHANGED vars
  BY <1>4, OutsideHolds
<1> QED
  BY <1>1, <1>2, <1>3, <1>4, RemoveHolds DEF Next

\* Every reachable state satisfies the inductive invariant: who holds a task, what it still carries
\* and how far its call has cleaned up go together.
THEOREM Invariance == Spec => []TInv
BY InitHolds, StepHolds, PTL DEF Spec

\* Whatever the machine, the polls and the caller's process do, a call that ended leaves nothing a
\* poll could claim, no file text in the row and no credential in the vault.
THEOREM RemoteTasksSafe == Spec => []RemoteTasksSafety
<1>1. TInv => RemoteTasksSafety
  BY DEF TInv, Cleaned, CleanedUp, Ending, Opening, Given, At, Files, RemoteTasksSafety, EndedIsUnclaimed,
         NoTextLeft, SecretGone
<1> QED
  BY <1>1, Invariance, PTL

\* The way of a task: queued, claimed, answered or given up; or gone with its machine.
Onward(before, after) ==
    \/ after = before
    \/ before = "none" /\ after = "queued"
    \/ before \in Unsettled /\ after \notin {"none", "queued"}
    \/ before # "none" /\ after = "deleted"

LEMMA StatusesGoOn ==
    ASSUME TInv, [Next]_vars PROVE \A t \in Tasks : Onward(row[t].status, row'[t].status)
<1> DEFINE Goal == \A t \in Tasks : Onward(row[t].status, row'[t].status)
<1> USE DEF Onward
<1>0. row \in [Tasks -> Row]
  BY Types DEF TInv
<1>w. ASSUME NEW t \in Tasks, NEW status, NEW text, NEW answer, Wrote(t, status, text, answer),
             Onward(row[t].status, status)
      PROVE  Goal
  BY <1>w DEF Wrote
<1>u. UNCHANGED row => Goal
  OBVIOUS
<1>1. ASSUME NEW t \in Tasks, CallStep(t) PROVE Goal
  <2>1. CASE Queue(t)
    <3>1. row[t].status = "none"
      BY <2>1 DEF TInv, Unqueued, Queue, At
    <3>2. \A u \in Tasks : u # t => row'[u] = row[u]
      BY <1>0, <2>1 DEF Queue
    <3>3. row'[t].status = "queued"
      BY <1>0, <2>1 DEF Queue, NoRow
    <3> QED
      BY <3>1, <3>2, <3>3
  <2>2. CASE Drop(t)
    BY <1>0, <2>2 DEF Drop, NoRow
  <2>3. CASE Abort(t) \/ TimeOut(t) \/ FailEarly(t)
    <3>1. FailRow(t, {"queued"}) \/ FailRow(t, Unsettled)
      BY <2>3 DEF Abort, TimeOut, FailEarly
    <3>2. UNCHANGED row \/ (row[t].status \in Unsettled /\ row' = [row EXCEPT ![t].status = "failed"])
      BY <3>1 DEF FailRow
    <3>3. CASE row[t].status \in Unsettled /\ row' = [row EXCEPT ![t].status = "failed"]
      <4>1. Wrote(t, "failed", row[t].text, row[t].answer)
        BY <1>0, <3>3, StatusWrites
      <4>2. Onward(row[t].status, "failed")
        BY <3>3
      <4> QED
        BY <1>w, <4>1, <4>2
    <3> QED
      BY <1>u, <3>2, <3>3
  <2>4. CASE Empty(t)
    BY <1>0, <1>w, <2>4, EmptyWrites DEF Empty
  <2>5. CASE Strip(t)
    BY <1>0, <1>w, <2>5, StripWrites DEF Strip
  <2>6. CASE QueueFails(t) \/ Look(t) \/ Listen(t) \/ Discard(t)
    BY <1>u, <2>6 DEF QueueFails, Look, Listen, Discard
  <2> QED
    BY <1>1, <2>1, <2>2, <2>3, <2>4, <2>5, <2>6 DEF CallStep
<1>2. ASSUME NEW p \in Polls, PollStep(p) PROVE Goal
  <2>0. \A t \in poll[p].tasks : t \in Tasks
    BY Types DEF TInv, PollState
  <2>1. CASE Claim(p)
    <3>1. PICK t \in poll[p].tasks :
            UNCHANGED row \/ (row[t].status = "queued" /\ row' = [row EXCEPT ![t].status = "running"])
      BY <2>1 DEF Claim, Claimable
    <3> QED
      BY <1>0, <1>u, <1>w, <2>0, <3>1, StatusWrites
  <2>2. CASE OpenWrite(p)
    BY <1>0, <1>w, <2>0, <2>2, EmptyWrites DEF OpenWrite, EmptyClaimed
  <2>3. CASE Refuse(p)
    <3>1. PICK t \in poll[p].tasks :
            /\ PollAt(p, "refusing")
            /\ UNCHANGED row \/ (~removed /\ row' = [row EXCEPT ![t].status = "failed"])
      BY <2>3 DEF Refuse
    <3>2. row[t].status \in {"running", "failed"} \/ removed
      BY <2>0, <3>1 DEF TInv, HeldByOne, Holds, PollAt
    <3> QED
      BY <1>0, <1>u, <1>w, <2>0, <3>1, <3>2, StatusWrites
  <2>4. CASE Knock(p) \/ Find(p) \/ OpenSecret(p) \/ TakeSecret(p) \/ Hand(p) \/ LosePoll(p)
    BY <1>u, <2>4 DEF Knock, Find, OpenSecret, TakeSecret, Hand, LosePoll
  <2> QED
    BY <1>2, <2>1, <2>2, <2>3, <2>4 DEF PollStep
<1>3. ASSUME NEW t \in Tasks, Complete(t) PROVE Goal
  BY <1>0, <1>3 DEF Complete, Acceptable
<1>4. ASSUME NEW t \in Tasks, Sweep(t) PROVE Goal
  BY <1>0, <1>4 DEF Sweep
<1>5. ASSUME Remove PROVE Goal
  BY <1>5 DEF Remove, NoRow
<1>6. (\E t \in Tasks : Call(t) \/ Die(t) \/ LoseWork(t) \/ Elapse(t)) \/ FallSilent \/ UNCHANGED vars
        => UNCHANGED row
  BY DEF Call, Die, LoseWork, Elapse, FallSilent, vars
<1> QED
  BY <1>u, <1>1, <1>2, <1>3, <1>4, <1>5, <1>6 DEF Next

\* A late answer changes nothing: once it was answered, failed or given up a task stays so, whoever
\* comes late, the machine, a poll, the caller or the sweep.
THEOREM SettledForGood == Spec => SettledStays
<1>1. TInv /\ [Next]_vars => [\A t \in Tasks : row[t].status \in Settled \cup {"deleted"}
                                => row'[t].status \in {row[t].status, "deleted"}]_vars
  BY StatusesGoOn DEF Onward
<1> QED
  BY <1>1, Invariance, PTL DEF Spec, SettledStays

\* Only Hand gives the machine a task.
LEMMA OthersHandNothing ==
    ASSUME [Next]_vars, \A p \in Polls : ~Hand(p) PROVE UNCHANGED handed
<1>1. ASSUME NEW t \in Tasks PROVE CallStep(t) => UNCHANGED handed
  BY DEF CallStep, Queue, QueueFails, Look, Listen, Drop, Abort, TimeOut, FailEarly, Empty, Strip, Discard
<1>2. ASSUME NEW p \in Polls PROVE PollStep(p) => UNCHANGED handed
  BY DEF PollStep, Knock, Find, Claim, OpenWrite, OpenSecret, TakeSecret, Refuse, LosePoll
<1>3. ASSUME NEW t \in Tasks
      PROVE  Call(t) \/ Die(t) \/ Complete(t) \/ LoseWork(t) \/ Elapse(t) \/ Sweep(t) => UNCHANGED handed
  BY DEF Call, Die, Complete, LoseWork, Elapse, Sweep
<1>4. FallSilent \/ Remove \/ UNCHANGED vars => UNCHANGED handed
  BY DEF FallSilent, Remove, vars
<1> QED
  BY <1>1, <1>2, <1>3, <1>4 DEF Next

\* A task goes to the machine at most once, and only after it was queued: RemoteTasks implements
\* Handoff, whichever polls find the task and are lost.
THEOREM HandedOverOnce == Spec => HandedOnce
<1>1. Init => Handing!Init
  BY DEF Init, Handing!Init, Queued, NoRow
<1>2. TInv /\ [Next]_vars => [Handing!Next]_<<Queued, handed>>
  <2> SUFFICES ASSUME TInv, [Next]_vars PROVE Handing!Next \/ UNCHANGED <<Queued, handed>>
    OBVIOUS
  <2>1. ASSUME NEW p \in Polls, Hand(p) PROVE \E t \in Tasks : Handing!Hand(t)
    <3>1. PICK t \in Tasks : /\ Holds(p, t) /\ handed[t] = <<>>
                             /\ handed' = [handed EXCEPT ![t] = <<p>>] /\ UNCHANGED row
      BY <2>1, Handed
    <3>2. t \in Queued /\ Queued' = Queued
      BY <3>1 DEF TInv, HeldByOne, Queued
    <3> QED
      BY <3>1, <3>2 DEF Handing!Hand
  <2>2. CASE \A p \in Polls : ~Hand(p)
    <3>1. Queued \subseteq Queued' /\ Queued' \subseteq Tasks
      BY StatusesGoOn DEF Onward, Queued
    <3> QED
      BY <2>2, <3>1, OthersHandNothing DEF Handing!Next, Handing!Finish
  <2> QED
    BY <2>1, <2>2 DEF Handing!Next
<1> QED
  BY <1>1, <1>2, Invariance, PTL DEF Spec, HandedOnce, Handing!Spec
=============================================================================
