---------------------------- MODULE RunRequests ----------------------------
(***************************************************************************)
(* What people and the gateway itself ask of runs (runs/service.ts): submit *)
(* a message, continue a stopped run, answer a question, decide an action,  *)
(* cancel.  `submit` has one operator per way a message can end up; a       *)
(* request it refuses or answers from what is stored changes nothing.       *)
(*                                                                          *)
(* Who writes decides what a message may do: the "owner" in the panel, an   *)
(* "approver" (a chat the owner lets decide), or any "other" source (a      *)
(* contact, a schedule, a subagent's report, an objective's nudge).         *)
(***************************************************************************)
EXTENDS RunRecords

Senders == {"owner", "approver", "other"}

\* The key was never used here, by a run or by a message filed under one.
FreshRunOnly(s, k) == ~HasRun(s, SendKey(k))   \* a plausible bug
Fresh(s, k) == ~HasRun(s, SendKey(k)) /\ ~HasMessage(s, k)

\* The message is stored, under its key, as part of run r.
File(s, k, r) == joined' = [joined EXCEPT ![k][s] = r]

---------------------------------------------------------------------------
(* Carrying a parked run on. *)

\* Parked runs that still wait: the service checks the fresh row under the lock.
AwaitsAnswer(q) == runs[q].status = "waiting" /\ runs[q].asks = "question"
AwaitsDecision(q) == runs[q].status = "waiting" /\ runs[q].asks = "approval"
                       /\ runs[q].decision = "none"

\* The parked row, once its question is answered or its action decided.
Answered(row) == [row EXCEPT !.status = "completed", !.decision = "answered"]
Verdict(approve) == IF approve THEN "approved" ELSE "rejected"
Decided(row, approve) ==
    [row EXCEPT !.status = "completed", !.action = "none", !.decision = Verdict(approve)]

\* The turn that carries parked run q on, on the next row.
CarryOn(q, closed, key, action) ==
    \E n \in RunIds :
       /\ IsNext(n)
       /\ runs' = [runs EXCEPT ![q] = closed,
                               ![n] = QueuedRow(runs[q].session, key, q, action)]

\* A plausible bug: the run read before the lock is trusted inside it.
ResumeWaitingStale(q, key) ==
    /\ runs[q].asks = "question"
    /\ HasRoom
    /\ CarryOn(q, Answered(runs[q]), key, "none")

\* resumeWaiting: closes the parked run and queues the turn that carries the answer.
ResumeWaiting(q, key) ==
    /\ AwaitsAnswer(q)
    /\ HasRoom
    /\ CarryOn(q, Answered(runs[q]), key, "none")

\* A plausible bug: the stored call moves on whatever was decided.
ResumeApprovalAnyway(q, approve, key) ==
    /\ AwaitsDecision(q)
    /\ HasRoom
    /\ CarryOn(q, Decided(runs[q], approve), key, "approved")

\* resumeApproval: on a yes the stored call moves to the continuation, on a no it is dropped.
ResumeApproval(q, approve, key) ==
    /\ AwaitsDecision(q)
    /\ approve => runs[q].action = "pending"
    /\ HasRoom
    /\ CarryOn(q, Decided(runs[q], approve), key, IF approve THEN "approved" ELSE "none")

---------------------------------------------------------------------------
(* submit, in the order its branches are tried. *)

\* Data for a parked question: the message joins the waiting turn and the question stays.
JoinWaiting(s, k) ==
    /\ Fresh(s, k)
    /\ \E q \in RunIds : Questioned(s, q) /\ File(s, k, q)
    /\ UNCHANGED <<runs, turns, ran, heard>>

\* The owner, or a chat that may answer, writes while a question is open.
AnswerBySubmit(s, k) ==
    /\ Fresh(s, k)
    /\ \E q \in RunIds :
         /\ Questioned(s, q)
         /\ ~HasRun(s, AnswerKey(q))
         /\ ResumeWaiting(q, AnswerKey(q))
         /\ File(s, k, q)
    /\ UNCHANGED <<turns, ran, heard>>

\* The chat's approver decides; the owner writing in the panel is a no with a note.
DecideBySubmit(s, k, who, approve) ==
    /\ Fresh(s, k)
    /\ \/ who = "approver" /\ s \in ChatSessions
       \/ who = "owner" /\ ~approve
    /\ \E q \in RunIds :
         /\ Undecided(s, q)
         /\ ~HasRun(s, ApprovalKey(q))
         /\ ResumeApproval(q, approve, ApprovalKey(q))
         /\ File(s, k, q)
    /\ UNCHANGED <<turns, ran, heard>>

\* The message neither answers nor decides; `p` is the run it continues, or NoRun.
Ordinary(s, k, who, p) ==
    /\ Fresh(s, k)
    /\ p # NoRun => /\ who = "other"
                    /\ runs[p].session = s
                    /\ runs[p].status \in {"interrupted", "failed", "cancelled"}
    /\ ~\E q \in RunIds : Questioned(s, q)
    /\ who = "owner" => ~\E q \in RunIds : Undecided(s, q)

\* appendSteer
Steered(row, k) == [row EXCEPT !.steer = Append(@, k)]

\* A turn is in flight: the message joins it and waits in `steer` for its next step.
Steer(s, k, who, p) ==
    /\ Ordinary(s, k, who, p)
    /\ \E r \in RunIds :
         /\ InFlight(s, r)
         /\ File(s, k, r)
         /\ Write(r, Steered(runs[r], k))
    /\ UNCHANGED <<turns, ran, heard>>

\* Nothing is in flight: the message starts a run of its own.
Start(s, k, who, p) ==
    /\ Ordinary(s, k, who, p)
    /\ NoneInFlight(s)
    /\ HasRoom
    /\ \E n \in RunIds : IsNext(n) /\ Write(n, QueuedRow(s, SendKey(k), p, "none"))
    /\ UNCHANGED <<joined, turns, ran, heard>>

---------------------------------------------------------------------------
(* Routes that name the run. *)

\* A key a panel request carries: its own, or the one the service derives.
PanelRequest(derived) == {derived} \cup {SendKey(k) : k \in PanelKeys}

AnswerRun(q) ==
    \E key \in PanelRequest(AnswerKey(q)) :
       /\ ~HasRun(runs[q].session, key)
       /\ ResumeWaiting(q, key)
       /\ UNCHANGED <<joined, turns, ran, heard>>

DecideApproval(q, approve) ==
    \E key \in PanelRequest(ApprovalKey(q)) :
       /\ runs[q].session \notin ChatSessions
       /\ ~HasRun(runs[q].session, key)
       /\ ResumeApproval(q, approve, key)
       /\ UNCHANGED <<joined, turns, ran, heard>>

\* Cancellable runs end with their lease, question and action; approvals keep their call's text.
AsksLeft(asks) == IF asks = "question" THEN "nothing" ELSE asks
Cancelled(row) == Asking(Unowned(row, "cancelled"), AsksLeft(row.asks), "none")

\* The process that served the request aborts the turn when the turn is its own; another
\* process learns at its next beat.
Cancel(w, r) ==
    /\ runs[r].status \in Active \cup {"waiting"}
    /\ Write(r, Cancelled(runs[r]))
    /\ IF turns[w][r].pc = "none" THEN UNCHANGED turns ELSE Turned(w, r, Aborted(turns[w][r]))
    /\ UNCHANGED <<joined, ran, heard>>

Request ==
    \/ \E s \in Sessions, k \in Keys :
         \/ JoinWaiting(s, k)
         \/ AnswerBySubmit(s, k)
         \/ \E who \in {"owner", "approver"}, approve \in BOOLEAN :
              DecideBySubmit(s, k, who, approve)
         \/ \E who \in Senders, p \in RunIds \cup {NoRun} :
              Steer(s, k, who, p) \/ Start(s, k, who, p)
    \/ \E q \in RunIds :
         AnswerRun(q) \/ \E approve \in BOOLEAN : DecideApproval(q, approve)
    \/ \E w \in Workers, r \in RunIds : Cancel(w, r)
===========================================================================
