----------------------------- MODULE Schedules -----------------------------
(***************************************************************************)
(* Schedules (schedules/service.ts, repository.ts, timing.ts).  Every       *)
(* worker process looks for due schedules every 15 seconds, outside any     *)
(* lock, and for each starts a run, records it and moves the schedule on,   *)
(* in three separate transactions; the owner edits schedules meanwhile and  *)
(* a process may die between two of them.                                   *)
(***************************************************************************)
EXTENDS Integers, FiniteSets

CONSTANTS
    Workers,    \* processes that run fireDue
    Ids,        \* schedules the owner may create; an id is used once
    Period,     \* a repetition is due at the multiples of Period (cron)
    DoneAfter,  \* DONE_DAYS: how long a single time that ran is kept
    HistoryFor, \* HISTORY_DAYS: how long the entry of a time is kept
    MaxClock    \* bound: the last instant

ASSUME SchedulesAssumption ==
    Period \in Nat \ {0} /\ DoneAfter \in Nat /\ HistoryFor \in Nat
    /\ MaxClock \in Nat \ {0}

VARIABLES
    clock,
    rows,      \* the `schedules` table
    runs,      \* the runs schedules started: schedule, due time, request key, when they were looked for
    history,   \* the `schedule_runs` table: one entry per time a schedule was due, and when it was made
    worker,    \* fireDue in each process
    passed,    \* history: the times schedules moved past by firing
    retimed    \* history: schedules whose time or switch the owner changed, that he edited when due, or removed

vars == <<clock, rows, runs, history, worker, passed, retimed>>

Never == 0
Times == 1..MaxClock
Kinds == {"once", "every"}
Row == [kind : Kinds \cup {"unused", "removed"}, time : Times \cup {Never},
        enabled : BOOLEAN, next : Nat, lastRun : Times \cup {Never}]
Unused == [kind |-> "unused", time |-> Never, enabled |-> FALSE, next |-> Never, lastRun |-> Never]
Removed == [Unused EXCEPT !.kind = "removed"]
\* The entry of a time, and its createdAt.  Of an entry that was deleted `made` stays for the
\* properties alone: the code finds no row.
Entry == {e \in [outcome : {"none", "run", "error"}, made : Times \cup {Never}] :
            e.outcome # "none" => e.made # Never}
NoHistory == [t \in Times |-> [outcome |-> "none", made |-> Never]]
Kept(s) == rows[s].kind \in Kinds

Idle == [pc |-> "idle", now |-> Never, due |-> {}, id |-> {}, ran |-> FALSE]

Init == /\ clock = 1
        /\ rows = [s \in Ids |-> Unused]
        /\ runs = {}
        /\ history = [s \in Ids |-> NoHistory]
        /\ worker = [w \in Workers |-> Idle]
        /\ passed = {}
        /\ retimed = {}

TypeOK ==
    /\ clock \in Times
    /\ rows \in [Ids -> Row]
    /\ runs \subseteq [id : Ids, due : Times, key : Times, now : Times]
    /\ history \in [Ids -> [Times -> Entry]]
    /\ worker \in [Workers -> [pc : {"idle", "looping", "tried", "recorded"}, now : Times \cup {Never},
                               due : SUBSET [id : Ids, row : Row], id : SUBSET Ids, ran : BOOLEAN]]
    /\ passed \subseteq Ids \X Times
    /\ retimed \subseteq Ids

---------------------------------------------------------------------------
(* Timing *)

\* nextRun: a single time only while it is still ahead, a repetition's first time after `after`.
NextRun(row, after) ==
    IF row.kind = "every" THEN Period * (after \div Period) + Period
    ELSE IF row.time > after THEN row.time ELSE Never

Switched(row, enabled, now) ==
    LET on == [row EXCEPT !.enabled = enabled] IN
    [on EXCEPT !.next = IF enabled THEN NextRun(on, now) ELSE Never]

---------------------------------------------------------------------------
(* What the owner does; each is one transaction. *)

\* A single time must be ahead (validate).
Timings == {[kind |-> "every", time |-> Never]} \cup [kind : {"once"}, time : clock + 1 .. MaxClock]
Timed(row, timing) == [row EXCEPT !.kind = timing.kind, !.time = timing.time]

Due(s, now) == Kept(s) /\ rows[s].enabled /\ rows[s].next # Never /\ rows[s].next <= now

Create(s, timing, enabled) ==
    /\ rows[s].kind = "unused"
    /\ rows' = [rows EXCEPT ![s] = Switched(Timed(Unused, timing), enabled, clock)]
    /\ UNCHANGED <<clock, runs, history, worker, passed, retimed>>

\* update: whatever was edited, when it runs next is computed again from now.
Rename(s) ==
    /\ Kept(s)
    /\ rows' = [rows EXCEPT ![s] = Switched(@, @.enabled, clock)]
    /\ retimed' = IF Due(s, clock) THEN retimed \cup {s} ELSE retimed
    /\ UNCHANGED <<clock, runs, history, worker, passed>>

Retime(s, timing, enabled) ==
    /\ Kept(s)
    /\ rows' = [rows EXCEPT ![s] = Switched(Timed(@, timing), enabled, clock)]
    /\ retimed' = retimed \cup {s}
    /\ UNCHANGED <<clock, runs, history, worker, passed>>

Switch(s) ==
    /\ Kept(s)
    /\ rows' = [rows EXCEPT ![s] = Switched(@, ~@.enabled, clock)]
    /\ retimed' = retimed \cup {s}
    /\ UNCHANGED <<clock, runs, history, worker, passed>>

\* A deleted schedule takes its history with it.
Remove(s) ==
    /\ Kept(s)
    /\ rows' = [rows EXCEPT ![s] = Removed]
    /\ history' = [history EXCEPT ![s] = NoHistory]
    /\ retimed' = retimed \cup {s}
    /\ UNCHANGED <<clock, runs, worker, passed>>

---------------------------------------------------------------------------
(* fireDue *)

\* A single time that ran long enough ago is forgotten.
Done(s, now) == /\ rows[s].kind = "once" /\ ~rows[s].enabled
                /\ rows[s].lastRun # Never /\ rows[s].lastRun < now - DoneAfter

\* A plausible bug: history is forgotten by when the schedule was due.
OldByDue(s, t, now) == history[s][t].outcome # "none" /\ t < now - HistoryFor
\* History made long enough ago is forgotten.
Old(s, t, now) == history[s][t].outcome # "none" /\ history[s][t].made < now - HistoryFor

\* pruneSchedules: what it leaves of the history of schedule s.
Pruned(s, now) ==
    IF Done(s, now) THEN NoHistory
    ELSE [t \in Times |-> IF Old(s, t, now) THEN [history[s][t] EXCEPT !.outcome = "none"]
                          ELSE history[s][t]]

\* The tick: old history and done schedules are pruned and the due ones read, outside any lock.
Look(w) ==
    /\ worker[w].pc = "idle"
    /\ \E s \in Ids : Due(s, clock) \/ Done(s, clock) \/ \E t \in Times : Old(s, t, clock)
    /\ rows' = [s \in Ids |-> IF Done(s, clock) THEN Removed ELSE rows[s]]
    /\ history' = [s \in Ids |-> Pruned(s, clock)]
    /\ worker' = [worker EXCEPT ![w] =
         [Idle EXCEPT !.pc = "looping", !.now = clock,
                      !.due = {[id |-> s, row |-> rows[s]] : s \in {x \in Ids : Due(x, clock)}}]]
    /\ UNCHANGED <<clock, runs, passed, retimed>>

\* The schedule the loop is at: the oldest due first.
Current(w, entry) == /\ entry \in worker[w].due
                     /\ \A other \in worker[w].due : entry.row.next <= other.row.next
                     /\ worker[w].id \subseteq {entry.id}

\* A plausible bug: the run is keyed by when it was looked for.
RequestKeyByNow(entry, now) == now
\* The run is keyed by the time it was due: a second worker, or a retry, finds the same run.
RequestKey(entry, now) == entry.row.next

Goto(w, entry, pc, ran) ==
    worker' = [worker EXCEPT ![w] = [@ EXCEPT !.pc = pc, !.id = {entry.id}, !.ran = ran]]

\* A plausible bug: a run that was refused is not recorded.
StartUnrecorded(w) == \E entry \in worker[w].due :
    /\ worker[w].pc = "looping" /\ Current(w, entry)
    /\ runs' = runs /\ Goto(w, entry, "recorded", FALSE)
    /\ UNCHANGED <<clock, rows, history, passed, retimed>>

\* submit: an existing key returns its run; a run may be refused.
Start(w) == \E entry \in worker[w].due :
    /\ worker[w].pc = "looping" /\ Current(w, entry)
    /\ LET run == [id |-> entry.id, due |-> entry.row.next,
                   key |-> RequestKey(entry, worker[w].now), now |-> worker[w].now]
           known == \E r \in runs : r.id = run.id /\ r.key = run.key
       IN \/ runs' = (IF known THEN runs ELSE runs \cup {run}) /\ Goto(w, entry, "tried", TRUE)
          \/ runs' = runs /\ Goto(w, entry, "tried", FALSE)
    /\ UNCHANGED <<clock, rows, history, passed, retimed>>

\* recordScheduleRun: one entry per time; the entry of a removed schedule is refused, which ends the tick.
Record(w) == \E entry \in worker[w].due :
    LET outcome == IF worker[w].ran THEN "run" ELSE "error" IN
    /\ worker[w].pc = "tried" /\ Current(w, entry)
    /\ IF Kept(entry.id)
       THEN /\ history' = [history EXCEPT ![entry.id][entry.row.next] =
                             IF @.outcome = "none" THEN [outcome |-> outcome, made |-> clock] ELSE @]
            /\ Goto(w, entry, "recorded", worker[w].ran)
       ELSE worker' = [worker EXCEPT ![w] = Idle] /\ UNCHANGED history
    /\ UNCHANGED <<clock, rows, runs, passed, retimed>>

Latest(a, b) == IF a > b THEN a ELSE b

\* Its next time after now, however many were missed.
NextFrom(entry, now) == NextRun(entry.row, Latest(now, entry.row.next))

\* A plausible bug: only a schedule due at this very instant is moved on.
UnmovedNow(entry, now) == Kept(entry.id) /\ rows[entry.id].next = now
\* Nobody moved the schedule since it was read.
Unmoved(entry, now) == Kept(entry.id) /\ rows[entry.id].next = entry.row.next

Finished(w, entry) ==
    LET rest == worker[w].due \ {entry} IN
    worker' = [worker EXCEPT ![w] =
      IF rest = {} THEN Idle
      ELSE [Idle EXCEPT !.pc = "looping", !.now = worker[w].now, !.due = rest]]

\* advanceSchedule: a single time is done once it ran, a repetition stays on.
Advance(w) == \E entry \in worker[w].due :
    /\ worker[w].pc = "recorded" /\ Current(w, entry)
    /\ IF Unmoved(entry, worker[w].now)
       THEN /\ rows' = [rows EXCEPT ![entry.id] =
                 [@ EXCEPT !.next = NextFrom(entry, worker[w].now),
                           !.enabled = entry.row.kind = "every",
                           !.lastRun = worker[w].now]]
            /\ passed' = passed \cup {<<entry.id, entry.row.next>>}
       ELSE UNCHANGED <<rows, passed>>
    /\ Finished(w, entry)
    /\ UNCHANGED <<clock, runs, history, retimed>>

Crash(w) ==
    /\ worker[w].pc # "idle"
    /\ worker' = [worker EXCEPT ![w] = Idle]
    /\ UNCHANGED <<clock, rows, runs, history, passed, retimed>>

Elapse ==
    /\ clock < MaxClock
    /\ clock' = clock + 1
    /\ UNCHANGED <<rows, runs, history, worker, passed, retimed>>

Next ==
    \/ \E s \in Ids :
         \/ \E timing \in Timings, enabled \in BOOLEAN :
              Create(s, timing, enabled) \/ Retime(s, timing, enabled)
         \/ Rename(s) \/ Switch(s) \/ Remove(s)
    \/ \E w \in Workers : Look(w) \/ Start(w) \/ Record(w) \/ Advance(w) \/ Crash(w)
    \/ Elapse

Spec == Init /\ [][Next]_vars

\* Every process ticks and its loop goes on; one that dies is started again, and does not die at
\* the same point for ever.
Fairness == \A w \in Workers : SF_vars(Look(w)) /\ SF_vars(Start(w)) /\ SF_vars(Record(w))
                                 /\ SF_vars(Advance(w))
LiveSpec == Spec /\ Fairness

---------------------------------------------------------------------------
\* One run for each time a schedule was due, although several processes find it due, read it
\* before the owner edits it, or die after starting the run and find it due again.
OncePerDue == \A r, q \in runs : r.id = q.id /\ r.due = q.due => r = q

\* Time t of schedule s was put in its history: it is there, or was made too long ago to be.
Recorded(s, t) ==
    LET entry == history[s][t] IN
    entry.outcome # "none" \/ (entry.made # Never /\ entry.made < clock - HistoryFor)

\* A schedule moves past the time it was due only with that time in its history, where it stays
\* for as long as history is kept: a process that dies half-way leaves it due, never silently done.
PassedIsRecorded == \A p \in passed : Kept(p[1]) => Recorded(p[1], p[2])

\* A time that was due is run once, and is put in the history before the schedule moves on.
SchedulesSafety == TypeOK /\ OncePerDue /\ PassedIsRecorded

\* A due schedule does not stay due: some process moves it on, however the others died half-way.
DueMovesOn == \A s \in Ids : []<>~Due(s, clock)

\* "Each one runs once for the time it was due, however late the gateway is to it": a time that
\* came goes only by being tried, or with an edit of the owner's: a new time, a switch, a removal,
\* but also a mere new name, if it comes before the tick.
DueIsTried == [][\A s \in Ids, t \in Times :
    rows[s].next = t /\ Due(s, clock) /\ ~(Due(s, clock)' /\ rows'[s].next = t)
      => Recorded(s, t)' \/ s \in retimed']_vars
============================================================================
