----------------------------- MODULE Deliveries -----------------------------
(***************************************************************************)
(* Answers on their way to a chat (channels/service.ts: deliverRun,         *)
(* dispatchOutbound, saySoFar, claimDelivery, deliver,                      *)
(* recoverUncertainDeliveries; channels/repository.ts).  Each turn of a     *)
(* chat has one row.  Every worker process reads the oldest pending rows,   *)
(* outside any lock, and sends what the turn said so far and then its       *)
(* answer, part by part, while turns go on speaking, the owner pauses the   *)
(* channel, sends fail and processes die between any two steps.             *)
(***************************************************************************)
EXTENDS Integers, Sequences, FiniteSets, SequencesExt

CONSTANTS
    Workers,      \* processes that dispatch
    MaxTurns,     \* bound: the turns of the chat, named by their order
    MaxLines,     \* bound: the lines a turn says on its way to its answer
    Kept,         \* how many of its last lines a turn keeps (20)
    Parts,        \* the messages an answer of its own is split into
    Batch,        \* how many pending rows one tick reads (20)
    MaxSwitches,  \* bound: times the owner pauses or resumes the channel
    Scopes        \* bound: the sizes one run explores, each within the bounds above

ASSUME DeliveriesAssumption ==
    /\ MaxTurns \in Nat \ {0} /\ MaxLines \in Nat /\ Kept \in Nat \ {0}
    /\ Parts \in Nat \ {0} /\ Batch \in Nat \ {0} /\ MaxSwitches \in Nat
    /\ Scopes \subseteq [workers : SUBSET Workers, runs : 1..MaxTurns, lines : 0..MaxLines,
                        switches : 0..MaxSwitches]

VARIABLES
    scope,     \* bound: the member of Scopes this behaviour stays within
    switches,  \* how often the channel was paused or resumed: it is paused while that is odd
    run,       \* the turns
    delivery,  \* the `deliveries` table, one row per turn
    worker,    \* dispatchOutbound in each process
    chat,      \* what each turn put in the chat, in the order it landed
    taken,     \* history: the lines of each turn some process took to send
    escaped    \* history: messages a process landed since the last switch that the switch stops

deliveriesVars == <<scope, switches, run, delivery, worker, chat, taken, escaped>>

Turns == 1..MaxTurns
Lines == 1..MaxLines
\* A message of a turn: one of its lines, or a part of its answer.
Items == {<<"line", i>> : i \in Lines} \cup {<<"part", i>> : i \in 1..Parts}
\* Words of its own, those of the last line it said, or a question only the panel is to be asked.
Answers == {"own", "last_line", "panel"}
UnderWay == {"active", "waiting"}

Unborn == [status |-> "none", lines |-> 0, answer |-> "none", born |-> 0]
NoDelivery == [status |-> "none", said |-> 0]
\* dispatchOutbound: the row it is at and the rows after it, the lines the turn had said and the parts
\* of its answer when it was read, what comes after saying the lines, the next line or part to send.
Idle == [pc |-> "idle", row |-> 0, rows |-> {}, total |-> 0, answer |-> 0, then |-> "next", next |-> 1,
         outcome |-> "sent"]

DeliveriesInit ==
    /\ scope \in Scopes
    /\ switches = 0
    /\ run = [r \in Turns |-> Unborn]
    /\ delivery = [r \in Turns |-> NoDelivery]
    /\ worker = [w \in Workers |-> Idle]
    /\ chat = [r \in Turns |-> <<>>]
    /\ taken = [r \in Turns |-> {}]
    /\ escaped = [w \in Workers |-> 0]

Outcomes == {"sent", "failed", "unknown", "pending"}
WorkerStates == [pc : {"idle", "looping", "said", "line", "line_out", "part", "part_out", "settling"},
                 row : Turns \cup {0}, rows : SUBSET Turns, total : 0..MaxLines, answer : {0, Parts},
                 then : {"next", "claim", "send"}, next : Nat, outcome : Outcomes]

DeliveriesTypeOK ==
    /\ scope \in Scopes /\ switches \in 0..scope.switches
    /\ run \in [Turns -> [status : {"none", "ended", "cancelled"} \cup UnderWay, lines : 0..MaxLines,
                         answer : Answers \cup {"none"}, born : 0..MaxSwitches]]
    /\ delivery \in [Turns -> [status : Outcomes \cup {"none", "sending"}, said : 0..Kept]]
    /\ worker \in [Workers -> WorkerStates]
    /\ chat \in [Turns -> Seq(Items)] /\ taken \in [Turns -> SUBSET Lines]
    /\ escaped \in [Workers -> Nat]

---------------------------------------------------------------------------
(* The turns, as the channel sees them: each action is a transaction of the
   run's own, and the channel's switch is one transaction with the turns it cancels. *)

Start(r) ==
    /\ r <= scope.runs
    /\ run[r].status = "none" /\ \A q \in 1..r - 1 : run[q].status # "none"
    /\ run' = [run EXCEPT ![r].status = "active", ![r].born = switches]
    /\ UNCHANGED <<scope, switches, delivery, worker, chat, taken, escaped>>

\* deliverRun, and submit's own insert: a turn that has a row keeps it.
Attach(r) ==
    /\ run[r].status # "none" /\ delivery[r].status = "none"
    /\ delivery' = [delivery EXCEPT ![r].status = "pending"]
    /\ UNCHANGED <<scope, switches, run, worker, chat, taken, escaped>>

\* A conversation works on one turn at a time; the ones behind it are queued.
Speaking(r) == run[r].status = "active" /\ \A q \in 1..r - 1 : run[q].status # "active"

Say(r) ==
    /\ Speaking(r) /\ run[r].lines < scope.lines
    /\ run' = [run EXCEPT ![r].lines = @ + 1]
    /\ UNCHANGED <<scope, switches, delivery, worker, chat, taken, escaped>>

\* The turn ends with words of its own, or with those of the last line it said.
EndTurn(r) ==
    /\ Speaking(r)
    /\ \E answer \in {"own", "last_line"} :
         /\ answer = "last_line" => run[r].lines > 0
         /\ run' = [run EXCEPT ![r].status = "ended", ![r].answer = answer]
    /\ UNCHANGED <<scope, switches, delivery, worker, chat, taken, escaped>>

\* It asks the owner, and the chat is asked or is not the one to be asked.
Wait(r) ==
    /\ Speaking(r)
    /\ \E answer \in {"own", "panel"} :
         run' = [run EXCEPT ![r].status = "waiting", ![r].answer = answer]
    /\ UNCHANGED <<scope, switches, delivery, worker, chat, taken, escaped>>

Answered(r) ==
    /\ run[r].status = "waiting"
    /\ run' = [run EXCEPT ![r].status = "ended"]
    /\ UNCHANGED <<scope, switches, delivery, worker, chat, taken, escaped>>

Cancel(r) ==
    /\ run[r].status \in UnderWay
    /\ run' = [run EXCEPT ![r].status = "cancelled"]
    /\ UNCHANGED <<scope, switches, delivery, worker, chat, taken, escaped>>

\* update: pausing cancels the chat's turns, and so does resuming.
Switch ==
    /\ switches < scope.switches
    /\ switches' = switches + 1
    /\ run' = [r \in Turns |-> IF run[r].status \in UnderWay
                              THEN [run[r] EXCEPT !.status = "cancelled"] ELSE run[r]]
    /\ escaped' = [w \in Workers |-> 0]
    /\ UNCHANGED <<scope, delivery, worker, chat, taken>>

---------------------------------------------------------------------------
(* One tick of dispatchOutbound *)

Paused == switches % 2 = 1

\* Nothing of a turn leaves once the channel was paused after it began, not even after the resume.
Stopped(r) == Paused \/ run[r].born < switches

\* automationDeliveryError
Denied(r) == Stopped(r) \/ run[r].status = "cancelled"

\* A plausible bug: the row of a cancelled turn is not looked at again.
PendingLive == {r \in Turns : delivery[r].status = "pending" /\ run[r].status # "cancelled"}
Pending == {r \in Turns : delivery[r].status = "pending"}
Oldest(rows) == {r \in rows : Cardinality({q \in rows : q < r}) < Batch}

Current(w) == worker[w].row
At(w, pc) == worker[w].pc = pc
Set(w, record) == worker' = [worker EXCEPT ![w] = record]

\* The loop goes on with the oldest of the rows there still are.
LookAt(w, rows) ==
    \/ rows = {} /\ Set(w, Idle)
    \/ \E r \in rows :
         /\ \A q \in rows : r <= q
         /\ Set(w, [Idle EXCEPT !.pc = "looping", !.row = r, !.rows = rows \ {r}])
Onward(w) == LookAt(w, worker[w].rows)

\* listDeliveriesByPhase, oldest first, outside any lock.
Tick(w) ==
    /\ w \in scope.workers /\ At(w, "idle") /\ Pending # {}
    /\ LookAt(w, Oldest(Pending))
    /\ UNCHANGED <<scope, switches, run, delivery, chat, taken, escaped>>

\* What predates a pause, or was cancelled, is given up.
Deny(w) ==
    /\ At(w, "looping") /\ Denied(Current(w))
    /\ delivery' = IF delivery[Current(w)].status = "pending"
                   THEN [delivery EXCEPT ![Current(w)].status = "failed"] ELSE delivery
    /\ Onward(w)
    /\ UNCHANGED <<scope, switches, run, chat, taken, escaped>>

\* A plausible bug: a turn that said anything has nothing left to send.
OutboundUnsaid(turn) == IF turn.answer = "own" /\ turn.lines = 0 THEN Parts ELSE 0
\* remainingOutbound: an answer that is the last line the turn kept is on the phone already.
Outbound(turn) == IF turn.answer = "own" \/ (turn.answer = "panel" /\ turn.status = "ended")
                  THEN Parts ELSE 0

\* The turn is read with its lines; what comes after saying them depends on where it stands.
ReadTurn(w, then) ==
    /\ At(w, "looping") /\ ~Denied(Current(w))
    /\ Set(w, [worker[w] EXCEPT !.pc = "said", !.total = run[Current(w)].lines, !.then = then,
                                !.answer = Outbound(run[Current(w)])])
    /\ UNCHANGED <<scope, switches, run, delivery, chat, taken, escaped>>

\* A turn under way, or one that waits on a device this process does not hold, is only heard.
Follow(w) == At(w, "looping") /\ run[Current(w)].status \in UnderWay /\ ReadTurn(w, "next")

\* A turn that is over or asks is answered from the process that can send.
Prepare(w) == /\ At(w, "looping") /\ run[Current(w)].status \in {"ended", "waiting"}
              /\ ReadTurn(w, "claim")

\* canSend: the device is another process's.
PassBy(w) ==
    /\ At(w, "looping") /\ ~Denied(Current(w)) /\ run[Current(w)].status = "ended"
    /\ Onward(w)
    /\ UNCHANGED <<scope, switches, run, delivery, chat, taken, escaped>>

\* How many of `total` lines a turn keeps, and the first of these after the first `said`.
KeptLines(total) == IF total < Kept THEN total ELSE Kept
NextUnsaid(total, said) == total - KeptLines(total) + said + 1

\* What follows once the lines are out.
Followed(w) == IF worker[w].then = "next" THEN Onward(w)
               ELSE Set(w, [worker[w] EXCEPT !.pc = "part", !.next = 1])

\* saySoFar: the count is raised first, in its own transaction, and what it passes over is sent.
Take(w) ==
    LET r == Current(w) total == worker[w].total first == NextUnsaid(total, delivery[r].said) IN
    /\ At(w, "said")
    /\ IF delivery[r].status = "pending" /\ delivery[r].said < KeptLines(total)
       THEN /\ delivery' = [delivery EXCEPT ![r].said = KeptLines(total)]
            /\ taken' = [taken EXCEPT ![r] = @ \cup first..total]
            /\ Set(w, [worker[w] EXCEPT !.pc = "line", !.next = first])
       ELSE UNCHANGED <<delivery, taken>> /\ Followed(w)
    /\ UNCHANGED <<scope, switches, run, chat, escaped>>

---------------------------------------------------------------------------
(* Sending: each message is checked, and leaves, on its own. *)

Landing(w, r, item) ==
    /\ chat' = [chat EXCEPT ![r] = Append(@, item)]
    /\ escaped' = IF Stopped(r) THEN [escaped EXCEPT ![w] = @ + 1] ELSE escaped

NotLanding == UNCHANGED <<chat, escaped>>

Line(w) == <<"line", worker[w].next>>
Part(w) == <<"part", worker[w].next>>
\* A part of the answer is in the chat.
Landed(w) == worker[w].next > 1

NextLine(w) ==
    IF worker[w].next = worker[w].total THEN Followed(w)
    ELSE Set(w, [worker[w] EXCEPT !.pc = "line", !.next = worker[w].next + 1])

\* A plausible bug: the check is made once for the batch and not again between its messages.
CheckedFirst(w) == ~Denied(Current(w)) \/ Landed(w)
\* deliver asks again right before each message.
Checked(w) == ~Denied(Current(w))

SendLine(w) ==
    /\ At(w, "line")
    /\ IF Checked(w) THEN Set(w, [worker[w] EXCEPT !.pc = "line_out"]) ELSE NextLine(w)
    /\ UNCHANGED <<scope, switches, run, delivery, chat, taken, escaped>>

\* A line that does not arrive is not sent again.
LineOut(w) ==
    /\ At(w, "line_out")
    /\ Landing(w, Current(w), Line(w)) \/ NotLanding
    /\ NextLine(w)
    /\ UNCHANGED <<scope, switches, run, delivery, taken>>

\* claimDelivery: only a row still pending is claimed.
Claim(w) ==
    LET r == Current(w) IN
    /\ At(w, "part") /\ worker[w].then = "claim"
    /\ IF delivery[r].status = "pending"
       THEN /\ delivery' = [delivery EXCEPT ![r].status = "sending"]
            /\ Set(w, [worker[w] EXCEPT !.then = "send",
                                        !.pc = IF worker[w].answer = 0 THEN "settling" ELSE "part"])
       ELSE UNCHANGED delivery /\ Onward(w)
    /\ UNCHANGED <<scope, switches, run, chat, taken, escaped>>

SettleAs(w, outcome) == Set(w, [worker[w] EXCEPT !.pc = "settling", !.outcome = outcome])

\* A part the pause stops: unknown once anything of the answer is there.
SendPart(w) ==
    /\ At(w, "part") /\ worker[w].then = "send"
    /\ IF Checked(w) THEN Set(w, [worker[w] EXCEPT !.pc = "part_out"])
       ELSE SettleAs(w, IF Landed(w) THEN "unknown" ELSE "failed")
    /\ UNCHANGED <<scope, switches, run, delivery, chat, taken, escaped>>

NextPart(w) ==
    IF worker[w].next = worker[w].answer THEN SettleAs(w, "sent")
    ELSE Set(w, [worker[w] EXCEPT !.pc = "part", !.next = worker[w].next + 1])

PartSent(w) ==
    /\ At(w, "part_out")
    /\ Landing(w, Current(w), Part(w)) /\ NextPart(w)
    /\ UNCHANGED <<scope, switches, run, delivery, taken>>

\* A plausible bug: a refusal puts the row back although a part of the answer is in the chat.
AfterRefusalAlways(w, outcome) == outcome
\* Nothing is replayed once a part of the answer is there.
AfterRefusal(w, outcome) == IF Landed(w) THEN "unknown" ELSE outcome

\* The adapter refused ("failed"), was told to come back later ("pending"), or cannot tell.
PartRefused(w) ==
    /\ At(w, "part_out")
    /\ \E outcome \in {"failed", "pending", "unknown"} :
         /\ NotLanding \/ (outcome = "unknown" /\ Landing(w, Current(w), Part(w)))
         /\ SettleAs(w, AfterRefusal(w, outcome))
    /\ UNCHANGED <<scope, switches, run, delivery, taken>>

\* The outcome is written over whatever the row is by now.
Settle(w) ==
    /\ At(w, "settling")
    /\ delivery' = [delivery EXCEPT ![Current(w)].status = worker[w].outcome]
    /\ Onward(w)
    /\ UNCHANGED <<scope, switches, run, chat, taken, escaped>>

\* A plausible bug: a delivery left half-way is put back to be sent again.
RecoveredAgain(r) == [delivery[r] EXCEPT !.status = "pending"]
\* A delivery left half-way may have arrived: nobody sends it again.
Recovered(r) == [delivery[r] EXCEPT !.status = "unknown"]

\* recoverUncertainDeliveries: a claim ten minutes old, its process dead or only slow.
Recover(w, r) ==
    /\ w \in scope.workers /\ At(w, "idle") /\ delivery[r].status = "sending"
    /\ delivery' = [delivery EXCEPT ![r] = Recovered(r)]
    /\ UNCHANGED <<scope, switches, run, worker, chat, taken, escaped>>

\* The process dies and starts again; a message on its way may have landed before (LineOut, PartSent).
Crash(w) ==
    /\ ~At(w, "idle")
    /\ Set(w, Idle)
    /\ UNCHANGED <<scope, switches, run, delivery, chat, taken, escaped>>

Dispatch(w) ==
    \/ Tick(w) \/ Deny(w) \/ Follow(w) \/ Prepare(w) \/ PassBy(w) \/ Take(w) \/ SendLine(w)
    \/ LineOut(w) \/ Claim(w) \/ SendPart(w) \/ PartSent(w) \/ PartRefused(w) \/ Settle(w)

DeliveriesNext ==
    \/ \E r \in Turns : Start(r) \/ Attach(r) \/ Say(r) \/ EndTurn(r) \/ Wait(r) \/ Answered(r) \/ Cancel(r)
    \/ Switch
    \/ \E w \in Workers : Dispatch(w) \/ Crash(w) \/ \E r \in Turns : Recover(w, r)

DeliveriesSpec == DeliveriesInit /\ [][DeliveriesNext]_deliveriesVars

\* Turns end and have their row; every process ticks.  The promise is for once the trouble is
\* over: no process dies, no provider says to come back later, the device can send.
Trouble == \E w \in Workers : Crash(w) \/ PassBy(w) \/ (At(w, "part_out") /\ worker'[w].outcome = "pending")
DeliveriesFairness ==
    /\ \A r \in Turns : WF_deliveriesVars(EndTurn(r)) /\ WF_deliveriesVars(Attach(r)) /\ WF_deliveriesVars(Answered(r))
    /\ \A w \in Workers : WF_deliveriesVars(Dispatch(w))
    /\ \A r \in Turns : SF_deliveriesVars(\E w \in Workers : Recover(w, r))
    /\ <>[][~Trouble]_deliveriesVars
DeliveriesLiveSpec == DeliveriesSpec /\ DeliveriesFairness

---------------------------------------------------------------------------
\* Every part of an answer comes after all that go before it and ahead of all that follow.
InOrder(messages) == \A j \in DOMAIN messages : \A k \in 1..Parts : messages[j] = <<"part", k>> =>
    /\ \A i \in 1..j - 1, m \in 1..Parts : messages[i] = <<"part", m>> => m < k
    /\ \A m \in 1..k - 1 : \E i \in 1..j - 1 : messages[i] = <<"part", m>>

\* An answer reaches the chat in order and without a gap, whoever sends it and wherever it stops.
AnswerInOrder == \A r \in Turns : InOrder(chat[r])

\* What the chat should hold once a turn's delivery is "sent".
Owed(r) == CASE run[r].answer = "own" -> {<<"part", i>> : i \in 1..Parts}
             [] run[r].answer = "last_line" -> {<<"line", run[r].lines>>}
             [] OTHER -> {}
\* Unless a line it took to send was lost on the way, the answer of a sent turn is in its chat.
IsTold(r) == (delivery[r].status = "sent" /\ \A i \in taken[r] : <<"line", i>> \in Range(chat[r]))
             => Owed(r) \subseteq Range(chat[r])

\* "Sends what the run has said since the last tick": a turn whose delivery reads "sent" has its
\* answer in the chat, however much it said on the way.
SentIsTold == \A r \in Turns : IsTold(r)

\* It has, at least if the answer is not one of more lines than the turn keeps.
KeptIsTold == \A r \in Turns :
    (run[r].answer = "last_line" => run[r].lines <= Kept) => IsTold(r)

\* Pausing, or resuming, stops what was under way: at most the one message each process had
\* already handed over still leaves.
PauseHolds == \A w \in Workers : escaped[w] <= 1

\* An answer is in order and whole once it is "sent", and nothing passes a pause.
DeliveriesSafety == DeliveriesTypeOK /\ AnswerInOrder /\ KeptIsTold /\ PauseHolds

\* Every message of a turn, line or part, is told to the chat at most once and only after the turn
\* produced it, although processes race, die and recover each other's deliveries.
Messages == Turns \X Items
Produced == {m \in Messages :
    CASE m[2][1] = "line" -> m[2][2] <= run[m[1]].lines
      [] OTHER -> run[m[1]].answer \in {"own", "panel"}}
\* Where a message of a turn is in its chat.
Places(m) == {i \in DOMAIN chat[m[1]] : chat[m[1]][i] = m[2]}
TimesTold == [m \in Messages |-> [i \in 1..Cardinality(Places(m)) |-> "told"]]
Telling == INSTANCE Handoff WITH
    Children <- Messages, Ways <- {"told"}, over <- Produced, handed <- TimesTold
ToldOnce == Telling!Spec

\* The delivery of a turn that is over settles: sent, given up, or known to be in doubt.
Settles == \A r \in Turns :
    run[r].status \in {"ended", "cancelled"} ~> delivery[r].status \in {"sent", "failed", "unknown"}
=============================================================================
