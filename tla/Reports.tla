------------------------------ MODULE Reports ------------------------------
(***************************************************************************)
(* What wakes a conversation by itself: its subagents' reports              *)
(* (tasks/service.ts, runs/queue.ts) and its open objective                 *)
(* (sessions/continuation.ts).  A turn spawns a child; its call may wait    *)
(* for the report, holding a slot of its worker process; otherwise, or once *)
(* the call lets go, the queue's tick brings the report into the            *)
(* conversation.  A turn that completes while an objective is open is       *)
(* followed by a nudge.  Reads, transactions and awaits are steps of their  *)
(* own; a process may die between any two of them.                          *)
(***************************************************************************)
EXTENDS Integers, Sequences, FiniteSets

CONSTANTS
    Workers,        \* gateway processes
    Conversations,  \* principal conversations
    Deletable,      \* bound: the conversations the owner may delete
    Turns,          \* bound: the runs of those conversations; numbers, in order of creation
    Children,       \* subagent runs
    Nobody,         \* no process, no turn, no conversation
    Slots,          \* runs of the profile each process has room for at once, within its concurrency
    Batch,          \* reports one tick looks at (listUnreportedSubagents' limit)
    MaxNudges,      \* MAX_OBJECTIVE_CONTINUATIONS
    MaxGoals,       \* bound: the texts an objective is given
    Scopes          \* bound: what one run explores, see Limits

\* The processes, turns and children there may be, and whether conversations have an objective.
Limits == [workers : SUBSET Workers, turns : SUBSET Turns, children : SUBSET Children,
           objective : BOOLEAN]

ASSUME ReportsAssumption ==
    /\ Deletable \subseteq Conversations
    /\ Turns \subseteq Nat
    /\ Children \cap Turns = {}
    /\ Nobody \notin Workers \cup Turns \cup Conversations
    /\ Slots \in [Workers -> Nat]
    /\ Batch \in Nat \ {0} /\ MaxNudges \in Nat /\ MaxGoals \in Nat
    /\ Scopes \subseteq Limits

VARIABLES
    scope,     \* the member of Scopes this behaviour stays within
    status,    \* runs.status, of turns and children
    at,        \* the process that executes a run
    conv,      \* the conversation of a turn
    by,        \* subagent.parentRunId
    hold,      \* awaitedUntil against the clock; "late" is the last poll before it
    call,      \* where a waiting spawn_subagent call stands
    reported,  \* subagentReportedAt is set
    ended,     \* the children that ended, by updatedAt
    batch,     \* the reports a process's tick has still to look at, by their place in ended
    given,     \* history: the ways each report was handed on
    unread,    \* reports a turn was given and its model has not been shown
    lost,      \* history: reports that died with the turn they were given to
    objective, \* sessions.objective of each conversation
    tool,      \* what a turn read before it blocks or closes the objective
    nudged,    \* history: nudges in a row, with no word about the objective between them
    stalled    \* history: conversations where nothing was left that would go on by itself

table == <<status, at, conv, by>>
handoff == <<hold, call, reported, given>>
aims == <<objective, tool, nudged, stalled>>
vars == <<scope, table, handoff, ended, batch, unread, lost, aims>>

Runs == Turns \cup Children
Ways == {"call", "steer", "turn", "dropped"}
Goals == 0..MaxGoals
NoObjective == [status |-> "none", text |-> 0, count |-> 0]
NoTool == [text |-> 0, status |-> "none"]
Done == [text |-> 0, status |-> "done"]   \* bound: a turn blocks or closes once
Statuses == {"absent", "queued", "running", "ended", "cancelled", "deleted"}
Objectives == [status : {"none", "open", "blocked", "closed"}, text : Goals, count : 0..MaxNudges]
Tools == [text : Goals, status : {"none", "done", "blocked", "closed"}]

TypeOK == /\ scope \in Scopes
          /\ status \in [Runs -> Statuses]
          /\ at \in [Runs -> Workers \cup {Nobody}]
          /\ conv \in [Turns -> Conversations \cup {Nobody}]
          /\ by \in [Children -> Turns \cup {Nobody}]
          /\ hold \in [Children -> {"none", "early", "late", "lapsed"}]
          /\ call \in [Children -> {"none", "looking", "claiming", "leaving"}]
          /\ reported \in [Children -> BOOLEAN]
          /\ ended \in Seq(Children)
          /\ batch \in [Workers -> SUBSET (DOMAIN ended)]
          /\ given \in [Children -> Seq(Ways)]
          /\ unread \in [Turns -> SUBSET Children]
          /\ lost \subseteq Children
          /\ objective \in [Conversations -> Objectives] /\ tool \in [Turns -> Tools]
          /\ nudged \in [Conversations -> Nat] /\ stalled \subseteq Conversations

Init == /\ scope \in Scopes
        /\ status = [r \in Runs |-> "absent"]
        /\ at = [r \in Runs |-> Nobody]
        /\ conv = [t \in Turns |-> Nobody]
        /\ by = [c \in Children |-> Nobody]
        /\ hold = [c \in Children |-> "none"]
        /\ call = [c \in Children |-> "none"]
        /\ reported = [c \in Children |-> FALSE]
        /\ ended = <<>>
        /\ batch = [w \in Workers |-> {}]
        /\ given = [c \in Children |-> <<>>]
        /\ unread = [t \in Turns |-> {}]
        /\ lost = {}
        /\ objective = [s \in Conversations |-> NoObjective]
        /\ tool = [t \in Turns |-> NoTool]
        /\ nudged = [s \in Conversations |-> 0]
        /\ stalled = {}

---------------------------------------------------------------------------
(* Turns of a conversation. *)

Live(t) == status[t] = "running" /\ at[t] # Nobody
Gone(t) == t # Nobody /\ status[t] = "deleted"
Waits(t) == {c \in Children : by[c] = t /\ call[c] # "none"}
IsNext(t) == t \in scope.turns /\ status[t] = "absent"
             /\ \A u \in scope.turns : u < t => status[u] # "absent"
InFlight(s) == {t \in Turns : conv[t] = s /\ status[t] \in {"queued", "running"}}
\* It answered, and its process has yet to see whether the conversation goes on.
Finishing(t) == status[t] = "ended" /\ at[t] # Nobody
AtWork(s) == {t \in Turns : conv[t] = s /\ (t \in InFlight(s) \/ Finishing(t))}
\* bound: the turns the reports may need are left.
Spare == Cardinality({t \in scope.turns : status[t] = "absent"}) > Cardinality(scope.children)

\* The run a message to conversation s starts.
StartTurn(s) == \E t \in Turns :
    /\ IsNext(t)
    /\ status' = [status EXCEPT ![t] = "queued"]
    /\ conv' = [conv EXCEPT ![t] = s]
    /\ stalled' = stalled \ {s}

\* What is at work in t's conversation ends with t.
Break(t) ==
    stalled' = IF scope.objective /\ AtWork(conv[t]) \subseteq {t}
               THEN stalled \cup ({conv[t]} \ {Nobody}) ELSE stalled

\* What a person's words make of an objective: a command, or a reply that resumes a blocked one.
Words == IF scope.objective THEN {"chat", "set", "close"} ELSE {"chat"}
Given(o) == [status |-> "open", text |-> o.text + 1, count |-> 0]
Said(o, word) ==
    CASE word = "set" -> Given(o)
      [] word = "close" /\ o.text # 0 -> [o EXCEPT !.status = "closed"]
      [] word = "chat" /\ o.status = "blocked" -> [o EXCEPT !.status = "open", !.count = 0]
      [] OTHER -> o
Hear(s, word) ==
    /\ word = "set" => objective[s].text < MaxGoals
    /\ objective' = [objective EXCEPT ![s] = Said(@, word)]
    /\ nudged' = [nudged EXCEPT ![s] = 0]

\* A person writes: a turn starts, ...
Message(s) == \E word \in Words :
    /\ InFlight(s) = {} /\ Spare
    /\ StartTurn(s) /\ Hear(s, word)
    /\ UNCHANGED <<scope, at, by, handoff, ended, batch, unread, lost, tool>>

\* ... or the one in flight takes the message (which Runs follows to its model).
Join(s) == \E word \in Words :
    /\ scope.objective /\ InFlight(s) # {}
    /\ Hear(s, word)
    /\ UNCHANGED <<scope, table, handoff, ended, batch, unread, lost, tool, stalled>>

\* An executor takes a queued run when a slot of its process is free.
Begin(w, r) ==
    /\ w \in scope.workers /\ status[r] = "queued"
    /\ Cardinality({x \in Runs : at[x] = w}) < Slots[w]
    /\ status' = [status EXCEPT ![r] = "running"]
    /\ at' = [at EXCEPT ![r] = w]
    /\ UNCHANGED <<scope, conv, by, handoff, ended, batch, unread, lost, aims>>

\* The turn's next step: its model reads tool results and what was steered in.
Step(t) ==
    /\ Live(t) /\ unread[t] # {}
    /\ unread' = [unread EXCEPT ![t] = {}]
    /\ UNCHANGED <<scope, table, handoff, ended, batch, lost, aims>>

Freed(t) == at' = [at EXCEPT ![t] = Nobody]

\* The run is answered once no call of its last step is open; a process that finds no objective
\* is done with it.
EndTurn(t) ==
    /\ Live(t) /\ Waits(t) = {} /\ tool[t] \in {NoTool, Done}
    /\ status' = [status EXCEPT ![t] = "ended"]
    /\ IF scope.objective THEN UNCHANGED at ELSE Freed(t)
    /\ UNCHANGED <<scope, conv, by, handoff, ended, batch, unread, lost, aims>>

\* It fails, or its own process aborts it as it stops: to all but an objective, as if it answered.
FailTurn(t) ==
    /\ scope.objective /\ Live(t) /\ Waits(t) = {}
    /\ status' = [status EXCEPT ![t] = "ended"]
    /\ Freed(t) /\ Break(t)
    /\ UNCHANGED <<scope, conv, by, handoff, ended, batch, unread, lost, objective, tool, nudged>>

\* The owner cancels the principal; its process keeps the slot until the turn unwound.
CancelTurn(t) ==
    /\ status[t] \in {"queued", "running"}
    /\ status' = [status EXCEPT ![t] = "cancelled"]
    /\ Break(t)
    /\ UNCHANGED <<scope, at, conv, by, handoff, ended, batch, unread, lost, objective, tool, nudged>>

Unwind(t) ==
    /\ status[t] \in {"cancelled", "deleted"} /\ at[t] # Nobody /\ Waits(t) = {}
    /\ at' = [at EXCEPT ![t] = Nobody]
    /\ UNCHANGED <<scope, status, conv, by, handoff, ended, batch, unread, lost, aims>>

\* deleteSession: the conversation's runs go with it, a subagent's own session stays.
Delete(s) ==
    /\ InFlight(s) = {}
    /\ \E t \in Turns : conv[t] = s
    /\ status' = [r \in Runs |-> IF r \in Turns /\ conv[r] = s THEN "deleted" ELSE status[r]]
    /\ conv' = [t \in Turns |-> IF conv[t] = s THEN Nobody ELSE conv[t]]
    /\ objective' = [objective EXCEPT ![s] = NoObjective]
    /\ stalled' = stalled \ {s} /\ nudged' = [nudged EXCEPT ![s] = 0]
    /\ UNCHANGED <<scope, at, by, handoff, ended, batch, unread, lost, tool>>

---------------------------------------------------------------------------
(* The objective. *)

\* setObjective from the panel: a text opens one with its count at zero, a status keeps the count.
Edit(s) ==
    /\ scope.objective
    /\ \/ objective[s].text < MaxGoals /\ objective' = [objective EXCEPT ![s] = Given(@)]
       \/ /\ objective[s].text # 0
          /\ \E to \in {"open", "blocked", "closed"} :
                objective' = [objective EXCEPT ![s].status = to]
    /\ stalled' = IF AtWork(s) = {} THEN stalled \cup {s} ELSE stalled
    /\ nudged' = [nudged EXCEPT ![s] = 0]
    /\ UNCHANGED <<scope, table, handoff, ended, batch, unread, lost, tool>>

\* The turn's tools: one gives the conversation an objective, ...
SetGoal(t) ==
    /\ scope.objective /\ Live(t) /\ objective[conv[t]].text < MaxGoals
    /\ objective' = [objective EXCEPT ![conv[t]] = Given(@)]
    /\ nudged' = [nudged EXCEPT ![conv[t]] = 0]
    /\ UNCHANGED <<scope, table, handoff, ended, batch, unread, lost, tool, stalled>>

\* ... others read it to block or close it, ...
ReadGoal(t) ==
    /\ scope.objective /\ Live(t) /\ tool[t] = NoTool /\ objective[conv[t]].text # 0
    /\ \E to \in {"blocked", "closed"} :
          tool' = [tool EXCEPT ![t] = [text |-> objective[conv[t]].text, status |-> to]]
    /\ UNCHANGED <<scope, table, handoff, ended, batch, unread, lost, objective, nudged, stalled>>

\* ... and write the text they read, also once the turn was cancelled.
WriteGoal(t) ==
    /\ tool[t] \notin {NoTool, Done}
    /\ tool' = [tool EXCEPT ![t] = Done]
    /\ IF conv[t] = Nobody THEN UNCHANGED <<objective, nudged>>
       ELSE /\ objective' = [objective EXCEPT ![conv[t]].text = tool[t].text,
                                              ![conv[t]].status = tool[t].status]
            /\ nudged' = [nudged EXCEPT ![conv[t]] = 0]
    /\ UNCHANGED <<scope, table, handoff, ended, batch, unread, lost, stalled>>

\* A plausible bug: the run that just ended is taken for one in flight.
NudgedItself(s) == AtWork(s)
\* The run a nudge joins, if there is one.
Nudged(s) == InFlight(s)

\* A plausible bug: a nudge that joins a run is not counted.
CountStarted(o, s) == IF InFlight(s) = {} THEN [o EXCEPT !.count = @ + 1] ELSE o
Count(o, s) == [o EXCEPT !.count = @ + 1]

\* continueAfter, when there is nothing to go on with, or the last nudge was sent.
Rest(t) ==
    /\ Finishing(t) /\ conv[t] # Nobody
    /\ objective[conv[t]].status = "open" => objective[conv[t]].count >= MaxNudges
    /\ objective' = [objective EXCEPT ![conv[t]].status = IF @ = "open" THEN "blocked" ELSE @]
    /\ Freed(t)
    /\ UNCHANGED <<scope, status, conv, by, handoff, ended, batch, unread, lost, tool, nudged, stalled>>

\* The nudge joins the run in flight, or starts one.
Nudge(t) ==
    LET s == conv[t] IN
    /\ Finishing(t) /\ s # Nobody
    /\ objective[s].status = "open" /\ objective[s].count < MaxNudges
    /\ IF Nudged(s) # {} THEN UNCHANGED <<status, conv, stalled>> ELSE Spare /\ StartTurn(s)
    /\ objective' = [objective EXCEPT ![s] = Count(@, s)]
    /\ nudged' = [nudged EXCEPT ![s] = @ + 1]
    /\ Freed(t)
    /\ UNCHANGED <<scope, by, handoff, ended, batch, unread, lost, tool>>

\* It fails, and what it wrote is rolled back: a full profile, the database.
NudgeFails(t) ==
    /\ Finishing(t)
    /\ Freed(t) /\ Break(t)
    /\ UNCHANGED <<scope, status, conv, by, handoff, ended, batch, unread, lost, objective, tool, nudged>>

---------------------------------------------------------------------------
(* Children. *)

\* spawnInConversation: the child is queued and, when the call waits, its report held back.
Spawn(t, c, awaited) ==
    /\ Live(t) /\ c \in scope.children /\ status[c] = "absent"
    /\ status' = [status EXCEPT ![c] = "queued"]
    /\ by' = [by EXCEPT ![c] = t]
    /\ hold' = [hold EXCEPT ![c] = IF awaited THEN "early" ELSE "none"]
    /\ call' = [call EXCEPT ![c] = IF awaited THEN "looking" ELSE "none"]
    /\ UNCHANGED <<scope, at, conv, reported, given, ended, batch, unread, lost, aims>>

\* Its turn ends, well or badly, or it is cancelled before or during it.
EndChild(c) ==
    /\ status[c] = "queued" \/ (status[c] = "running" /\ at[c] # Nobody)
    /\ status' = [status EXCEPT ![c] = "ended"]
    /\ at' = [at EXCEPT ![c] = Nobody]
    /\ ended' = Append(ended, c)
    /\ UNCHANGED <<scope, conv, by, handoff, batch, unread, lost, aims>>

---------------------------------------------------------------------------
(* awaitReport *)

Goto(c, where) == call' = [call EXCEPT ![c] = where]
Finished(c) == status[c] = "ended"

\* A plausible bug: a call that looks until the child is over, however long that takes.
LookForever(c) ==
    /\ call[c] = "looking" /\ Finished(c)
    /\ Goto(c, "claiming")
    /\ UNCHANGED <<scope, table, hold, reported, given, ended, batch, unread, lost, aims>>

\* One look at the child: over, past the limit, or queued for a minute already.
Look(c) ==
    /\ call[c] = "looking"
    /\ \/ Finished(c) /\ Goto(c, "claiming")
       \/ ~Finished(c) /\ hold[c] \in {"late", "lapsed"} /\ Goto(c, "leaving")
       \/ status[c] = "queued" /\ Goto(c, "leaving")
    /\ UNCHANGED <<scope, table, hold, reported, given, ended, batch, unread, lost, aims>>

\* The turn is aborted while the call sleeps, or a read throws.
StopWaiting(c) ==
    /\ call[c] \in {"looking", "claiming"}
    /\ Goto(c, "leaving")
    /\ UNCHANGED <<scope, table, hold, reported, given, ended, batch, unread, lost, aims>>

\* What handing c's report on in one way changes.
Give(c, way) == /\ reported' = [reported EXCEPT ![c] = TRUE]
                /\ given' = [given EXCEPT ![c] = Append(@, way)]

\* A plausible bug: the report is taken without asking whether the queue handed it on.
ClaimAnyway(c) ==
    /\ call[c] = "claiming"
    /\ Give(c, "call") /\ Goto(c, "none")
    /\ unread' = [unread EXCEPT ![by[c]] = @ \cup {c}]
    /\ UNCHANGED <<scope, table, hold, ended, batch, lost, aims>>

\* The report is claimed in the update that marks it reported, or was delivered already.
Claim(c) ==
    /\ call[c] = "claiming"
    /\ IF reported[c]
       THEN Goto(c, "leaving") /\ UNCHANGED <<reported, given, unread>>
       ELSE /\ Give(c, "call") /\ Goto(c, "none")
            /\ unread' = [unread EXCEPT ![by[c]] = @ \cup {c}]
    /\ UNCHANGED <<scope, table, hold, ended, batch, lost, aims>>

\* release, in the finally of a call that did not claim.
Release(c) ==
    /\ call[c] = "leaving"
    /\ hold' = [hold EXCEPT ![c] = "none"]
    /\ Goto(c, "none")
    /\ UNCHANGED <<scope, table, reported, given, ended, batch, unread, lost, aims>>

---------------------------------------------------------------------------
(* The queue's tick. *)

\* A plausible bug: a hold does not run out with its time.
HeldForGood(c) == hold[c] # "none"
\* The parent's call is waiting and returns the report itself.
Held(c) == hold[c] \in {"early", "late"}

\* listUnreportedSubagents, outside any lock: the first of them, by when they ended.
Unreported == {i \in DOMAIN ended : ~reported[ended[i]]}
FirstUnreported == {i \in Unreported : Cardinality({j \in Unreported : j < i}) < Batch}
Tick(w) ==
    /\ w \in scope.workers /\ batch[w] = {} /\ Unreported # {}
    /\ batch' = [batch EXCEPT ![w] = FirstUnreported]
    /\ UNCHANGED <<scope, table, handoff, ended, unread, lost, aims>>

First(positions) == {i \in positions : \A j \in positions : i <= j}
Due(w, c) == \E i \in First(batch[w]) : ended[i] = c
Advance(w) == batch' = [batch EXCEPT ![w] = @ \ First(@)]

\* A plausible bug: the report is not looked at again under the lock.
HandableStale(c) == ~Held(c)
Handable(c) == Finished(c) /\ ~reported[c] /\ ~Held(c)

\* The principal was cancelled: nothing restarts what the owner stopped.
Drop(w, c) ==
    /\ Due(w, c) /\ Advance(w)
    /\ Handable(c) /\ status[by[c]] = "cancelled"
    /\ Give(c, "dropped")
    /\ UNCHANGED <<scope, table, hold, call, ended, unread, lost, aims>>

\* submit joins the run in flight: the report waits for its next step.
Steer(w, c) ==
    /\ Due(w, c) /\ Advance(w)
    /\ Handable(c) /\ status[by[c]] \in {"running", "ended"}
    /\ \E t \in InFlight(conv[by[c]]) : unread' = [unread EXCEPT ![t] = @ \cup {c}]
    /\ Give(c, "steer")
    /\ UNCHANGED <<scope, table, hold, call, ended, lost, aims>>

\* submit starts a turn with the report as its message.
Wake(w, c) ==
    /\ Due(w, c) /\ Advance(w)
    /\ Handable(c) /\ status[by[c]] \in {"running", "ended"}
    /\ InFlight(conv[by[c]]) = {}
    /\ StartTurn(conv[by[c]])
    /\ Give(c, "turn")
    /\ UNCHANGED <<scope, at, by, hold, call, ended, unread, lost, objective, tool, nudged>>

\* Nothing to hand on now, or the transaction failed: a refused run, a principal that is gone.
Pass(w, c) ==
    /\ Due(w, c) /\ Advance(w)
    /\ UNCHANGED <<scope, table, handoff, ended, unread, lost, aims>>

Handing(w, c) == Drop(w, c) \/ Steer(w, c) \/ Wake(w, c)

---------------------------------------------------------------------------
(* Time, crashes and recovery. *)

Elapse(c) ==
    /\ hold[c] \in {"early", "late"}
    /\ hold' = [hold EXCEPT ![c] = IF @ = "early" THEN "late" ELSE "lapsed"]
    /\ UNCHANGED <<scope, table, call, reported, given, ended, batch, unread, lost, aims>>

\* A process dies in the middle of what it executes.
Crash(w) ==
    /\ \E r \in Runs : at[r] = w
    /\ at' = [r \in Runs |-> IF at[r] = w THEN Nobody ELSE at[r]]
    /\ call' = [c \in Children |-> IF by[c] # Nobody /\ at[by[c]] = w THEN "none" ELSE call[c]]
    /\ batch' = [batch EXCEPT ![w] = {}]
    /\ tool' = [t \in Turns |-> IF at[t] = w THEN NoTool ELSE tool[t]]
    /\ stalled' = stalled \cup {s \in Conversations :
                     AtWork(s) # {} /\ \A t \in AtWork(s) : Finishing(t) /\ at[t] = w}
    /\ UNCHANGED <<scope, status, conv, by, hold, reported, given, ended, unread, lost, objective, nudged>>

\* recover, once the dead process's lease ran out: the run is interrupted, nothing is replayed.
Recover(r) ==
    /\ status[r] = "running" /\ at[r] = Nobody
    /\ status' = [status EXCEPT ![r] = "ended"]
    /\ IF r \in Children
       THEN ended' = Append(ended, r) /\ UNCHANGED <<lost, stalled>>
       ELSE lost' = lost \cup unread[r] /\ Break(r) /\ UNCHANGED ended
    /\ UNCHANGED <<scope, at, conv, by, handoff, batch, unread, objective, tool, nudged>>

Next ==
    \/ \E s \in Conversations : Message(s) \/ Join(s) \/ Edit(s)
    \/ \E s \in Deletable : Delete(s)
    \/ \E w \in Workers, r \in Runs : Begin(w, r)
    \/ \E t \in Turns : \/ Step(t) \/ EndTurn(t) \/ FailTurn(t) \/ CancelTurn(t) \/ Unwind(t)
                        \/ SetGoal(t) \/ ReadGoal(t) \/ WriteGoal(t)
                        \/ Rest(t) \/ Nudge(t) \/ NudgeFails(t)
    \/ \E t \in Turns, c \in Children, awaited \in BOOLEAN : Spawn(t, c, awaited)
    \/ \E c \in Children : EndChild(c) \/ Look(c) \/ StopWaiting(c) \/ Claim(c) \/ Release(c)
                             \/ Elapse(c)
    \/ \E w \in Workers : Tick(w) \/ Crash(w)
    \/ \E w \in Workers, c \in Children : Handing(w, c) \/ Pass(w, c)
    \/ \E r \in Runs : Recover(r)

Spec == Init /\ [][Next]_vars

\* Executors start what is queued; turns end, by their budgets or the watchdog; a waiting call
\* polls on; time passes; the dead are recovered.  A behaviour has finitely many of these steps.
Progress ==
    \/ \E r \in Runs : Recover(r) \/ \E w \in Workers : Begin(w, r)
    \/ \E t \in Turns : \/ EndTurn(t) \/ Unwind(t) \/ WriteGoal(t)
                        \/ Rest(t) \/ Nudge(t) \/ NudgeFails(t)
    \/ \E c \in Children : \/ status[c] = "running" /\ EndChild(c)
                           \/ Look(c) \/ Claim(c) \/ Release(c) \/ Elapse(c)

\* Some process ticks on and looks at what it read.
Dispatch == \E w \in Workers : Tick(w) \/ \E c \in Children : Handing(w, c) \/ Pass(w, c)

\* The transaction of a report that could be handed on fails (a full profile, the database).
Refuse(w, c) == Handable(c) /\ ~Gone(by[c]) /\ Pass(w, c)

\* A refused report is tried again at each tick, and the refusals do not go on for ever.
Fairness == /\ WF_vars(Progress) /\ WF_vars(Dispatch)
            /\ <>[][~\E w \in Workers, c \in Children : Refuse(w, c)]_vars

LiveSpec == Spec /\ Fairness

---------------------------------------------------------------------------
\* A report leaves its subagent once, as a waiting call's result, in a running turn, as a new
\* turn or dropped with a cancelled principal, and only when the subagent is over: awaitReport
\* and any number of processes' reportWorker may look at it at the same time.
Delivery == INSTANCE Handoff WITH
              over <- {c \in Children : status[c] = "ended"},
              handed <- given
OnceOver == Delivery!Spec

\* A report whose conversation still exists is handed on at last, also when the turn that waited
\* for it dies with its hold.
ReportsArrive == \A c \in Children : Finished(c) ~> (reported[c] \/ Gone(by[c]))

\* Parents that wait in every slot for children that need one let go: every child starts.
ChildrenStart == \A c \in Children : (status[c] = "queued") ~> (status[c] # "queued")

\* "Open objectives must not wait for the owner to say continue": where an objective is open and
\* nothing is at work or about to be, the last turn did not complete, the nudge was refused or
\* died with its process, or somebody opened the objective without a message.  However turns,
\* nudges, reports and messages meet, no completed turn leaves its objective behind.
GoesOn == \A s \in Conversations :
    objective[s].status = "open" /\ AtWork(s) = {} => s \in stalled

\* An agent that never closes its objective is stopped: the gateway sends no more than MaxNudges
\* in a row, joined or started, while neither a person nor a tool says anything of it.
NudgesEnd == \A s \in Conversations : nudged[s] <= MaxNudges

\* No completed turn leaves an open objective behind, and its follow-ups end.
ReportsSafety == TypeOK /\ GoesOn /\ NudgesEnd

\* "a crash cannot lose ... the principal's wake-up": no report dies with the turn it was given to.
WakeUpKept == lost = {}

\* A goal is blocked or closed by a turn that read that goal: its tools read and write apart, so
\* they take a newer goal away with the one they read.
GoalsKept == [][\A s \in Conversations : objective'[s].text < objective[s].text
                                            => objective'[s] = NoObjective]_vars
============================================================================
