-------------------------- MODULE SchedulesProofs --------------------------
(***************************************************************************)
(* Theorems about Schedules for every number of processes, schedules and    *)
(* instants: each time a schedule was due is run once, and no schedule      *)
(* moves past a time that was not put in its history, where only its age    *)
(* takes it out again.                                                      *)
(***************************************************************************)
EXTENDS Schedules, TLAPS

DueEntry == [id : Ids, row : Row]
Loop == [pc : {"idle", "looping", "tried", "recorded"}, now : Times \cup {Never},
         due : SUBSET DueEntry, id : SUBSET Ids, ran : BOOLEAN]

\* What a process has in hand: schedules that were there and due, each once.
InHand == \A w \in Workers : worker[w].pc # "idle" =>
    /\ worker[w].now \in Times
    /\ \A e \in worker[w].due : e.row.next \in Times /\ rows[e.id].kind # "unused"
    /\ \A e, f \in worker[w].due : e.id = f.id => e = f

\* Before it moves a schedule on, the time is in its history, unless the schedule is gone.
HandRecorded == \A w \in Workers : worker[w].pc = "recorded" =>
    /\ worker[w].id # {}
    /\ \A e \in worker[w].due : e.id \in worker[w].id /\ Kept(e.id) => Recorded(e.id, e.row.next)

\* A run's key is the time it was due, and keys are unique to a schedule.
KeyIsDue == \A r \in runs : r.key = r.due

PassedWereUsed == \A p \in passed : rows[p[1]].kind # "unused"

SInv == /\ TypeOK /\ InHand /\ HandRecorded /\ KeyIsDue /\ OncePerDue /\ PassedWereUsed
        /\ PassedIsRecorded

\* What no step does: bring a schedule back, or drop an entry of the history of one that is kept,
\* but for its age.
Aged == \A s \in Ids :
    /\ rows[s].kind # "unused" => rows'[s].kind # "unused"
    /\ rows[s].kind = "removed" => rows'[s].kind = "removed"
    /\ rows'[s].kind \in Kinds => \A t \in Times : Recorded(s, t) => Recorded(s, t)'

---------------------------------------------------------------------------
(* Rows *)

LEMMA NextRunType ==
    ASSUME NEW row \in Row, NEW after \in Nat PROVE NextRun(row, after) \in Nat
<1>1. after \div Period \in Nat
  BY SchedulesAssumption
<1>2. ASSUME NEW q \in Nat PROVE Period * q + Period \in Nat
  BY SchedulesAssumption
<1>3. Period * (after \div Period) + Period \in Nat
  BY <1>1, <1>2
<1> QED
  BY <1>3 DEF NextRun, Row, Times, Never

LEMMA SwitchedType ==
    ASSUME NEW row \in Row, NEW enabled \in BOOLEAN, NEW now \in Nat
    PROVE  Switched(row, enabled, now) \in Row /\ Switched(row, enabled, now).kind = row.kind
<1> DEFINE on == [row EXCEPT !.enabled = enabled]
<1>1. on \in Row /\ on.kind = row.kind
  BY DEF Row
<1> HIDE DEF on
<1>2. (IF enabled THEN NextRun(on, now) ELSE Never) \in Nat
  BY <1>1, NextRunType DEF Never
<1>3. [on EXCEPT !.next = IF enabled THEN NextRun(on, now) ELSE Never] \in Row
      /\ [on EXCEPT !.next = IF enabled THEN NextRun(on, now) ELSE Never].kind = row.kind
  BY <1>1, <1>2 DEF Row
<1> QED
  BY <1>3 DEF Switched, on

LEMMA TimedType ==
    ASSUME NEW row \in Row, clock \in Times, NEW timing \in Timings
    PROVE  Timed(row, timing) \in Row /\ Timed(row, timing).kind \in Kinds
<1>1. timing.kind \in Kinds /\ timing.time \in Times \cup {Never}
  BY SchedulesAssumption DEF Timings, Kinds, Times, Never
<1> QED
  BY <1>1 DEF Timed, Row

\* The row of a schedule that is moved on.
Advanced(row, next, enabled, now) ==
    [row EXCEPT !.next = next, !.enabled = enabled, !.lastRun = now]

LEMMA AdvancedType ==
    ASSUME NEW row \in Row, NEW next \in Nat, NEW enabled \in BOOLEAN, NEW now \in Times
    PROVE  /\ Advanced(row, next, enabled, now) \in Row
           /\ Advanced(row, next, enabled, now).kind = row.kind
BY DEF Advanced, Row

LEMMA RowTypes == Unused \in Row /\ Removed \in Row
BY DEF Unused, Removed, Row, Kinds, Times, Never

---------------------------------------------------------------------------
(* History *)

\* An entry that was made stays as it is.
Made(entry, outcome) ==
    IF entry.outcome = "none" THEN [outcome |-> outcome, made |-> clock] ELSE entry

LEMMA MadeType ==
    ASSUME clock \in Times, NEW entry \in Entry, NEW outcome \in {"run", "error"}
    PROVE  Made(entry, outcome) \in Entry /\ Made(entry, outcome).outcome # "none"
           /\ (entry.outcome # "none" => Made(entry, outcome) = entry)
BY DEF Made, Entry, Times, Never

LEMMA NoHistoryType == NoHistory \in [Times -> Entry]
BY DEF NoHistory, Entry

\* A deleted entry keeps when it was made.
Forgotten(entry) == [entry EXCEPT !.outcome = "none"]

LEMMA ForgottenType ==
    ASSUME NEW entry \in Entry
    PROVE  Forgotten(entry) \in Entry /\ Forgotten(entry).made = entry.made
BY DEF Forgotten, Entry

LEMMA PrunedType ==
    ASSUME TypeOK, NEW s \in Ids
    PROVE  /\ Pruned(s, clock) \in [Times -> Entry]
           /\ ~Done(s, clock) => \A t \in Times :
                Pruned(s, clock)[t] = IF Old(s, t, clock) THEN Forgotten(history[s][t]) ELSE history[s][t]
<1>1. \A t \in Times : history[s][t] \in Entry
  BY DEF TypeOK
<1>2. CASE Done(s, clock)
  BY <1>2, NoHistoryType DEF Pruned
<1>3. CASE ~Done(s, clock)
  <2>1. Pruned(s, clock) =
          [t \in Times |-> IF Old(s, t, clock) THEN Forgotten(history[s][t]) ELSE history[s][t]]
    BY <1>3 DEF Pruned, Forgotten
  <2> QED
    BY <1>1, <1>3, <2>1, ForgottenType
<1> QED
  BY <1>2, <1>3

\* An entry that was put in the history and is not taken back counts as put there ever after.
LEMMA StaysRecorded ==
    ASSUME TypeOK, NEW s \in Ids, NEW t \in Times, Recorded(s, t), clock' \in Nat, clock' >= clock,
           \/ history'[s][t] = history[s][t]
           \/ Old(s, t, clock) /\ history'[s][t] = Forgotten(history[s][t])
    PROVE  Recorded(s, t)'
<1>1. history[s][t] \in Entry /\ clock \in Nat
  BY SchedulesAssumption DEF TypeOK, Times
<1>2. history[s][t].made \in Nat
  BY <1>1 DEF Entry, Times, Never
<1>3. HistoryFor \in Nat
  BY SchedulesAssumption
<1>4. CASE history'[s][t] = history[s][t]
  BY <1>2, <1>3, <1>4, <1>1 DEF Recorded
<1>5. CASE Old(s, t, clock) /\ history'[s][t] = Forgotten(history[s][t])
  <2>1. history'[s][t].made = history[s][t].made
    BY <1>1, <1>5, ForgottenType
  <2>2. history[s][t].made < clock - HistoryFor
    BY <1>5 DEF Old
  <2>3. history[s][t].made # Never
    BY <1>1, <1>5 DEF Old, Entry
  <2> QED
    BY <1>1, <1>2, <1>3, <2>1, <2>2, <2>3 DEF Recorded
<1> QED
  BY <1>4, <1>5

---------------------------------------------------------------------------
(* Loops *)

Moved(loop, pc, id, ran) == [loop EXCEPT !.pc = pc, !.id = id, !.ran = ran]

LEMMA MovedType ==
    ASSUME NEW loop \in Loop, NEW pc \in {"looping", "tried", "recorded"},
           NEW id \in SUBSET Ids, NEW ran \in BOOLEAN
    PROVE  /\ Moved(loop, pc, id, ran) \in Loop
           /\ Moved(loop, pc, id, ran).pc = pc
           /\ Moved(loop, pc, id, ran).now = loop.now
           /\ Moved(loop, pc, id, ran).due = loop.due
           /\ Moved(loop, pc, id, ran).id = id
BY DEF Moved, Loop

LEMMA GotoLoop ==
    ASSUME worker \in [Workers -> Loop], NEW w \in Workers, NEW e \in worker[w].due,
           NEW pc \in {"looping", "tried", "recorded"}, NEW ran \in BOOLEAN, Goto(w, e, pc, ran)
    PROVE  /\ worker' \in [Workers -> Loop]
           /\ \A v \in Workers : v # w => worker'[v] = worker[v]
           /\ worker'[w].pc = pc /\ worker'[w].now = worker[w].now
           /\ worker'[w].due = worker[w].due /\ worker'[w].id = {e.id}
<1> DEFINE new == Moved(worker[w], pc, {e.id}, ran)
<1>1. worker' = [worker EXCEPT ![w] = new]
  BY DEF Goto, Moved
<1>2. worker[w] \in Loop /\ {e.id} \in SUBSET Ids
  BY DEF Loop, DueEntry
<1>3. /\ new \in Loop /\ new.pc = pc /\ new.now = worker[w].now
      /\ new.due = worker[w].due /\ new.id = {e.id}
  BY <1>2, MovedType
<1> HIDE DEF new
<1> QED
  BY <1>1, <1>3

LEMMA IdleType == Idle \in Loop /\ Idle.pc = "idle" /\ Idle.due = {}
BY DEF Idle, Loop, Never, Times
Looped(now, due) == [Idle EXCEPT !.pc = "looping", !.now = now, !.due = due]

LEMMA LoopedType ==
    ASSUME NEW now \in Times, NEW due \in SUBSET DueEntry
    PROVE  /\ Looped(now, due) \in Loop
           /\ Looped(now, due).pc = "looping"
           /\ Looped(now, due).now = now
           /\ Looped(now, due).due = due
BY DEF Looped, Idle, Loop, Never, Times

LEMMA FinishedLoop ==
    ASSUME worker \in [Workers -> Loop], NEW w \in Workers, NEW e \in worker[w].due,
           worker[w].now \in Times, Finished(w, e)
    PROVE  /\ worker' \in [Workers -> Loop]
           /\ \A v \in Workers : v # w => worker'[v] = worker[v]
           /\ worker'[w].pc = "idle" \/ (worker'[w].pc = "looping" /\ worker'[w].now = worker[w].now)
           /\ worker'[w].due \subseteq worker[w].due
<1> DEFINE rest == worker[w].due \ {e}
           looped == Looped(worker[w].now, rest)
<1>1. worker' = [worker EXCEPT ![w] = IF rest = {} THEN Idle ELSE looped]
  BY Zenon DEF Finished, Looped
<1>2. rest \in SUBSET DueEntry /\ rest \subseteq worker[w].due
  BY DEF Loop
<1>3. looped \in Loop /\ looped.pc = "looping" /\ looped.now = worker[w].now /\ looped.due = rest
  BY <1>2, LoopedType
<1> HIDE DEF looped, rest
<1> QED
  BY <1>1, <1>2, <1>3, IdleType

---------------------------------------------------------------------------
(* Steps *)

\* An edit of the owner's gives schedule s another row.
Edited(s) ==
    /\ rows[s].kind # "removed"
    /\ \E row \in Row : row.kind \in Kinds /\ rows' = [rows EXCEPT ![s] = row]
    /\ retimed' \in SUBSET Ids
    /\ UNCHANGED <<clock, runs, history, worker, passed>>

LEMMA Edits ==
    ASSUME TypeOK, NEW s \in Ids
    PROVE  /\ Rename(s) \/ Switch(s) => Edited(s)
           /\ \A timing \in Timings, enabled \in BOOLEAN :
                Create(s, timing, enabled) \/ Retime(s, timing, enabled) => Edited(s)
<1> clock \in Nat /\ clock \in Times
  BY SchedulesAssumption DEF TypeOK, Times
<1> rows[s] \in Row /\ retimed \subseteq Ids /\ Unused \in Row
  BY RowTypes DEF TypeOK
<1>k. Kept(s) => rows[s].kind \in Kinds /\ rows[s].kind # "removed"
  BY DEF Kept, Kinds
<1>1. ASSUME Rename(s) PROVE Edited(s)
  <2>1. Switched(rows[s], rows[s].enabled, clock) \in Row
        /\ Switched(rows[s], rows[s].enabled, clock).kind = rows[s].kind
    <3>1. rows[s].enabled \in BOOLEAN
      BY DEF Row
    <3> QED
      BY <3>1, SwitchedType
  <2> QED
    BY <1>1, <1>k, <2>1 DEF Rename, Edited
<1>2. ASSUME Switch(s) PROVE Edited(s)
  <2>1. Switched(rows[s], ~rows[s].enabled, clock) \in Row
        /\ Switched(rows[s], ~rows[s].enabled, clock).kind = rows[s].kind
    BY SwitchedType DEF Row
  <2> QED
    BY <1>2, <1>k, <2>1 DEF Switch, Edited
<1>3. ASSUME NEW timing \in Timings, NEW enabled \in BOOLEAN, Create(s, timing, enabled) PROVE Edited(s)
  <2>1. Timed(Unused, timing) \in Row /\ Timed(Unused, timing).kind \in Kinds
    BY TimedType
  <2>2. Switched(Timed(Unused, timing), enabled, clock) \in Row
        /\ Switched(Timed(Unused, timing), enabled, clock).kind \in Kinds
    BY <2>1, SwitchedType
  <2> QED
    BY <1>3, <2>2 DEF Create, Edited
<1>4. ASSUME NEW timing \in Timings, NEW enabled \in BOOLEAN, Retime(s, timing, enabled) PROVE Edited(s)
  <2>1. Timed(rows[s], timing) \in Row /\ Timed(rows[s], timing).kind \in Kinds
    BY TimedType
  <2>2. Switched(Timed(rows[s], timing), enabled, clock) \in Row
        /\ Switched(Timed(rows[s], timing), enabled, clock).kind \in Kinds
    BY <2>1, SwitchedType
  <2> QED
    BY <1>4, <1>k, <2>2 DEF Retime, Edited
<1> QED
  BY <1>1, <1>2, <1>3, <1>4

\* The steps by what they change.
LEMMA Steps ==
    ASSUME TypeOK, [Next]_vars
    PROVE  \/ \E s \in Ids : Edited(s) \/ Remove(s)
           \/ \E w \in Workers : Look(w) \/ Start(w) \/ Record(w) \/ Advance(w) \/ Crash(w)
           \/ Elapse
           \/ UNCHANGED vars
BY Edits DEF Next

\* A schedule is moved on with a row of its kind, and what the process did with it is over.
LEMMA AdvanceRows ==
    ASSUME TypeOK, InHand, NEW w \in Workers, Advance(w)
    PROVE  \E e \in worker[w].due :
             /\ worker[w].pc = "recorded" /\ Current(w, e) /\ Finished(w, e)
             /\ UNCHANGED <<clock, runs, history, retimed>>
             /\ \/ UNCHANGED <<rows, passed>>
                \/ /\ Kept(e.id)
                   /\ \E row \in Row : row.kind = rows[e.id].kind /\ rows' = [rows EXCEPT ![e.id] = row]
                   /\ passed' = passed \cup {<<e.id, e.row.next>>}
<1>1. PICK e \in worker[w].due :
        /\ worker[w].pc = "recorded" /\ Current(w, e) /\ Finished(w, e)
        /\ UNCHANGED <<clock, runs, history, retimed>>
        /\ \/ UNCHANGED <<rows, passed>>
           \/ /\ Kept(e.id)
              /\ rows' = [rows EXCEPT ![e.id] =
                    Advanced(rows[e.id], NextFrom(e, worker[w].now), e.row.kind = "every", worker[w].now)]
              /\ passed' = passed \cup {<<e.id, e.row.next>>}
  BY Zenon DEF Advance, Unmoved, Advanced
<1>2. e \in DueEntry /\ worker[w].now \in Times
  BY <1>1 DEF TypeOK, InHand, DueEntry
<1>3. NextFrom(e, worker[w].now) \in Nat
  <2>1. Latest(worker[w].now, e.row.next) \in Nat
    BY <1>2 DEF Latest, DueEntry, Row, Times
  <2> QED
    BY <1>2, <2>1, NextRunType DEF NextFrom, DueEntry
<1>4. (e.row.kind = "every") \in BOOLEAN /\ rows[e.id] \in Row
  BY <1>2 DEF DueEntry, TypeOK
<1>5. DEFINE row == Advanced(rows[e.id], NextFrom(e, worker[w].now), e.row.kind = "every", worker[w].now)
<1>6. row \in Row /\ row.kind = rows[e.id].kind
  BY <1>2, <1>3, <1>4, AdvancedType
<1> QED
  BY <1>1, <1>6, Zenon

LEMMA ClockStep == ASSUME TypeOK, [Next]_vars PROVE clock' \in Nat /\ clock' >= clock
<1> clock \in Nat
  BY SchedulesAssumption DEF TypeOK, Times
<1>1. ASSUME NEW s \in Ids PROVE Edited(s) \/ Remove(s) => UNCHANGED clock
  BY DEF Edited, Remove
<1>2. ASSUME NEW w \in Workers
      PROVE  Look(w) \/ Start(w) \/ Record(w) \/ Advance(w) \/ Crash(w) => UNCHANGED clock
  BY DEF Look, Start, Record, Advance, Crash
<1> QED
  BY <1>1, <1>2, Steps DEF Elapse, vars

\* What a process records of a time is put in the history at that time, or was there.
LEMMA RecordHistory ==
    ASSUME TypeOK, InHand, NEW w \in Workers, Record(w)
    PROVE  /\ UNCHANGED <<clock, rows>>
           /\ \/ UNCHANGED history
              \/ \E e \in worker[w].due, outcome \in {"run", "error"} :
                   /\ e.id \in Ids /\ e.row.next \in Times
                   /\ history' = [history EXCEPT ![e.id][e.row.next] = Made(@, outcome)]
<1>1. PICK e \in worker[w].due, outcome \in {"run", "error"} :
        /\ worker[w].pc = "tried" /\ UNCHANGED <<clock, rows>>
        /\ \/ UNCHANGED history
           \/ history' = [history EXCEPT ![e.id][e.row.next] = Made(@, outcome)]
  BY Zenon DEF Record, Made
<1>2. e.id \in Ids /\ e.row.next \in Times
  BY <1>1 DEF InHand, TypeOK
<1> QED
  BY <1>1, <1>2

\* No entry of a schedule that is kept is lost in a step, but to its age.
LEMMA HistoryStep ==
    ASSUME TypeOK, InHand, [Next]_vars, NEW s \in Ids, rows'[s].kind \in Kinds, NEW t \in Times, Recorded(s, t)
    PROVE  Recorded(s, t)'
<1>0. history \in [Ids -> [Times -> Entry]] /\ clock \in Times /\ clock' \in Nat /\ clock' >= clock
  BY ClockStep DEF TypeOK
<1>1. history'[s][t] = history[s][t] => Recorded(s, t)'
  BY <1>0, StaysRecorded
<1>2. ASSUME NEW q \in Ids, Edited(q) PROVE history'[s][t] = history[s][t]
  BY <1>2 DEF Edited
<1>3. ASSUME NEW q \in Ids, Remove(q) PROVE history'[s][t] = history[s][t]
  <2>1. q # s
    BY <1>3 DEF Remove, Removed, Unused, Kinds, TypeOK
  <2> QED
    BY <1>0, <1>3, <2>1 DEF Remove
<1>4. ASSUME NEW w \in Workers, Look(w) PROVE Recorded(s, t)'
  <2>1. ~Done(s, clock)
    BY <1>4 DEF Look, Removed, Unused, Kinds
  <2>2. history'[s] = Pruned(s, clock)
    BY <1>4 DEF Look
  <2>3. \/ history'[s][t] = history[s][t]
        \/ Old(s, t, clock) /\ history'[s][t] = Forgotten(history[s][t])
    BY <2>1, <2>2, PrunedType
  <2> QED
    BY <1>0, <2>3, StaysRecorded
<1>5. ASSUME NEW w \in Workers, Record(w) PROVE Recorded(s, t)'
  <2>1. CASE UNCHANGED history
    BY <1>1, <2>1
  <2>2. CASE ~UNCHANGED history
    <3>1. PICK e \in worker[w].due, outcome \in {"run", "error"} :
            /\ e.id \in Ids /\ e.row.next \in Times
            /\ history' = [history EXCEPT ![e.id][e.row.next] = Made(@, outcome)]
      BY <1>5, <2>2, RecordHistory
    <3>2. \/ history'[s][t] = history[s][t]
          \/ history'[s][t] = Made(history[s][t], outcome)
      BY <1>0, <3>1
    <3>3. history'[s][t] = history[s][t] \/ history'[s][t].outcome # "none"
      BY <1>0, <3>2, MadeType
    <3> QED
      BY <1>1, <3>3 DEF Recorded
  <2> QED
    BY <2>1, <2>2
<1>6. ASSUME NEW w \in Workers PROVE Start(w) \/ Advance(w) \/ Crash(w) => UNCHANGED history
  BY DEF Start, Advance, Crash
<1>7. Elapse \/ UNCHANGED vars => UNCHANGED history
  BY DEF Elapse, vars
<1> QED
  BY <1>1, <1>2, <1>3, <1>4, <1>5, <1>6, <1>7, Steps

LEMMA Ages ==
    ASSUME TypeOK, InHand, [Next]_vars PROVE Aged
<1> USE DEF TypeOK, Kinds
<1> SUFFICES ASSUME NEW s \in Ids
             PROVE  /\ rows[s].kind # "unused" => rows'[s].kind # "unused"
                    /\ rows[s].kind = "removed" => rows'[s].kind = "removed"
  BY HistoryStep, Zenon DEF Aged
<1> DEFINE Goal == /\ rows[s].kind # "unused" => rows'[s].kind # "unused"
                   /\ rows[s].kind = "removed" => rows'[s].kind = "removed"
<1>1. ASSUME NEW q \in Ids, Edited(q) PROVE Goal
  BY <1>1 DEF Edited
<1>2. ASSUME NEW q \in Ids, Remove(q) PROVE Goal
  BY <1>2 DEF Remove, Removed, Unused
<1>3. ASSUME NEW w \in Workers, Look(w) PROVE Goal
  BY <1>3 DEF Look, Done, Removed, Unused
<1>4. ASSUME NEW w \in Workers PROVE Start(w) \/ Record(w) \/ Crash(w) => Goal
  BY DEF Start, Record, Crash
<1>6. ASSUME NEW w \in Workers, Advance(w) PROVE Goal
  BY <1>6, AdvanceRows DEF Kept, DueEntry
<1>7. Elapse \/ UNCHANGED vars => Goal
  BY DEF Elapse, vars
<1> QED
  BY <1>1, <1>2, <1>3, <1>4, <1>6, <1>7, Steps
---------------------------------------------------------------------------
(* The invariant *)

LEMMA InitHolds == Init => SInv
<1> SUFFICES ASSUME Init PROVE SInv
  OBVIOUS
<1>1. clock \in Times
  BY SchedulesAssumption DEF Init, Times
<1>2. worker \in [Workers -> Loop] /\ \A w \in Workers : worker[w].pc = "idle"
  BY IdleType DEF Init
<1>3. TypeOK
  BY <1>1, <1>2, RowTypes, NoHistoryType DEF Init, TypeOK, Loop, DueEntry
<1> QED
  BY <1>2, <1>3 DEF Init, SInv, InHand, HandRecorded, KeyIsDue, OncePerDue, PassedWereUsed, PassedIsRecorded

\* What Look leaves in the process's hands.
LEMMA LookLoop ==
    ASSUME TypeOK, NEW w \in Workers, Look(w)
    PROVE  /\ worker' \in [Workers -> Loop]
           /\ \A v \in Workers : v # w => worker'[v] = worker[v]
           /\ worker'[w].pc = "looping" /\ worker'[w].now = clock
           /\ \A e \in worker'[w].due : Due(e.id, clock) /\ e.row = rows[e.id]
<1> DEFINE due == {[id |-> s, row |-> rows[s]] : s \in {x \in Ids : Due(x, clock)}}
           looped == Looped(clock, due)
<1>1. worker' = [worker EXCEPT ![w] = looped]
  BY Zenon DEF Look, Looped
<1>2. due \in SUBSET DueEntry /\ \A e \in due : Due(e.id, clock) /\ e.row = rows[e.id]
  BY DEF DueEntry, TypeOK
<1>3. clock \in Times /\ worker \in [Workers -> Loop]
  BY DEF TypeOK, Loop, DueEntry
<1>4. looped \in Loop /\ looped.pc = "looping" /\ looped.now = clock /\ looped.due = due
  BY <1>2, <1>3, LoopedType
<1> HIDE DEF looped, due
<1> QED
  BY <1>1, <1>2, <1>3, <1>4

\* What Start and Record leave there.
LEMMA TryLoop ==
    ASSUME TypeOK, NEW w \in Workers, Start(w) \/ Record(w)
    PROVE  /\ worker' \in [Workers -> Loop]
           /\ \A v \in Workers : v # w => worker'[v] = worker[v]
           /\ worker'[w].pc \in {"idle", "tried", "recorded"}
           /\ worker'[w].pc # "idle" => /\ worker[w].pc # "idle"
                                       /\ worker'[w].now = worker[w].now
                                       /\ worker'[w].due = worker[w].due
<1> worker \in [Workers -> Loop]
  BY DEF TypeOK, Loop, DueEntry
<1>1. CASE Start(w)
  <2>1. PICK e \in worker[w].due, ran \in BOOLEAN : worker[w].pc = "looping" /\ Goto(w, e, "tried", ran)
    BY <1>1, Zenon DEF Start
  <2> QED
    BY <2>1, GotoLoop
<1>2. CASE Record(w)
  <2>1. PICK e \in worker[w].due :
          /\ worker[w].pc = "tried"
          /\ Goto(w, e, "recorded", worker[w].ran) \/ worker' = [worker EXCEPT ![w] = Idle]
    BY <1>2, Zenon DEF Record
  <2>2. worker[w].ran \in BOOLEAN
    BY DEF Loop
  <2>3. CASE Goto(w, e, "recorded", worker[w].ran)
    BY <2>1, <2>2, <2>3, GotoLoop
  <2>4. CASE worker' = [worker EXCEPT ![w] = Idle]
    BY <2>4, IdleType
  <2> QED
    BY <2>1, <2>3, <2>4
<1> QED
  BY <1>1, <1>2

LEMMA CrashLoop ==
    ASSUME TypeOK, NEW w \in Workers, Crash(w)
    PROVE  /\ worker' \in [Workers -> Loop]
           /\ \A v \in Workers : v # w => worker'[v] = worker[v]
           /\ worker'[w].pc = "idle"
BY IdleType DEF TypeOK, Loop, DueEntry, Crash
\* Whatever happens, a process that is in its loop read what it has in hand at the tick, or had it.
LEMMA Hands ==
    ASSUME TypeOK, InHand, [Next]_vars
    PROVE  /\ worker' \in [Workers -> Loop]
           /\ \A v \in Workers : worker'[v].pc # "idle" =>
                \/ /\ worker[v].pc # "idle" /\ worker'[v].now = worker[v].now
                   /\ worker'[v].due \subseteq worker[v].due
                \/ /\ worker'[v].pc = "looping" /\ worker'[v].now = clock
                   /\ \A e \in worker'[v].due : Due(e.id, clock) /\ e.row = rows[e.id]
<1> DEFINE Goal == /\ worker' \in [Workers -> Loop]
                   /\ \A v \in Workers : worker'[v].pc # "idle" =>
                        \/ /\ worker[v].pc # "idle" /\ worker'[v].now = worker[v].now
                           /\ worker'[v].due \subseteq worker[v].due
                        \/ /\ worker'[v].pc = "looping" /\ worker'[v].now = clock
                           /\ \A e \in worker'[v].due : Due(e.id, clock) /\ e.row = rows[e.id]
<1>t. worker \in [Workers -> Loop]
  BY DEF TypeOK, Loop, DueEntry
<1>1. ASSUME UNCHANGED worker PROVE Goal
  BY <1>1, <1>t
<1>2. ASSUME NEW w \in Workers, Look(w) PROVE Goal
  BY <1>2, LookLoop
<1>3. ASSUME NEW w \in Workers, Start(w) \/ Record(w) PROVE Goal
  BY <1>3, TryLoop
<1>4. ASSUME NEW w \in Workers, Advance(w) PROVE Goal
  <2>1. PICK e \in worker[w].due : worker[w].pc = "recorded" /\ Finished(w, e)
    BY <1>4, AdvanceRows
  <2>2. worker[w].now \in Times
    BY <2>1 DEF InHand
  <2> QED
    BY <1>t, <2>1, <2>2, FinishedLoop
<1>5. ASSUME NEW w \in Workers, Crash(w) PROVE Goal
  BY <1>5, CrashLoop
<1>6. (\E s \in Ids : Edited(s) \/ Remove(s)) \/ Elapse \/ UNCHANGED vars => UNCHANGED worker
  BY DEF Edited, Remove, Elapse, vars
<1> QED
  BY <1>1, <1>2, <1>3, <1>4, <1>5, <1>6, Steps

LEMMA InHandStep ==
    ASSUME TypeOK, InHand, [Next]_vars PROVE InHand'
<1> SUFFICES ASSUME NEW v \in Workers, worker'[v].pc # "idle"
             PROVE  /\ worker'[v].now \in Times
                    /\ \A e \in worker'[v].due : e.row.next \in Times /\ rows'[e.id].kind # "unused"
                    /\ \A e, f \in worker'[v].due : e.id = f.id => e = f
  BY DEF InHand
<1>1. Aged /\ worker \in [Workers -> Loop] /\ worker' \in [Workers -> Loop] /\ rows \in [Ids -> Row]
  BY Ages, Hands DEF TypeOK, Loop, DueEntry
<1>2. CASE /\ worker[v].pc # "idle" /\ worker'[v].now = worker[v].now
           /\ worker'[v].due \subseteq worker[v].due
  <2>1. \A e \in worker[v].due : e.id \in Ids
    BY <1>1 DEF Loop, DueEntry
  <2> QED
    BY <1>1, <1>2, <2>1 DEF InHand, Aged
<1>3. CASE /\ worker'[v].pc = "looping" /\ worker'[v].now = clock
           /\ \A e \in worker'[v].due : Due(e.id, clock) /\ e.row = rows[e.id]
  <2>1. \A e \in worker'[v].due : e \in DueEntry
    BY <1>1 DEF Loop
  <2>2. clock \in Times
    BY DEF TypeOK
  <2>3. ASSUME NEW e \in worker'[v].due PROVE e.row.next \in Times /\ rows'[e.id].kind # "unused"
    <3>1. e.id \in Ids /\ rows[e.id].next \in Nat /\ e.row.next = rows[e.id].next
      BY <1>1, <1>3, <2>1 DEF DueEntry, Row
    <3>2. rows[e.id].kind \in Kinds /\ rows[e.id].next # Never /\ rows[e.id].next <= clock
      BY <1>3 DEF Due, Kept
    <3> QED
      BY <1>1, <2>2, <3>1, <3>2, SchedulesAssumption DEF Aged, Kinds, Times, Never
  <2>4. ASSUME NEW e \in worker'[v].due, NEW f \in worker'[v].due, e.id = f.id PROVE e = f
    BY <1>3, <2>1, <2>4 DEF DueEntry
  <2> QED
    BY <1>3, <2>2, <2>3, <2>4
<1> QED
  BY <1>2, <1>3, Hands

LEMMA TypeStep ==
    ASSUME TypeOK, InHand, [Next]_vars PROVE TypeOK'
<1>w. worker' \in [Workers -> Loop]
  BY Hands
<1>0. worker' \in [Workers -> [pc : {"idle", "looping", "tried", "recorded"}, now : Times \cup {Never},
                               due : SUBSET [id : Ids, row : Row], id : SUBSET Ids, ran : BOOLEAN]]
  BY <1>w DEF Loop, DueEntry
<1> HIDE <1>w
<1>1. ASSUME NEW s \in Ids, Edited(s) PROVE TypeOK'
  BY <1>0, <1>1 DEF Edited, TypeOK
<1>2. ASSUME NEW s \in Ids, Remove(s) PROVE TypeOK'
  BY <1>0, <1>2, RowTypes, NoHistoryType DEF Remove, TypeOK
<1>3. ASSUME NEW w \in Workers, Look(w) PROVE TypeOK'
  <2>1. history' \in [Ids -> [Times -> Entry]]
    BY <1>3, PrunedType DEF Look
  <2> QED
    BY <1>0, <1>3, <2>1, RowTypes DEF Look, TypeOK
<1>4. ASSUME NEW w \in Workers, Start(w) PROVE TypeOK'
  <2>1. PICK e \in worker[w].due : worker[w].pc = "looping" /\
          \/ UNCHANGED runs
          \/ runs' = runs \cup {[id |-> e.id, due |-> e.row.next, key |-> RequestKey(e, worker[w].now),
                                 now |-> worker[w].now]}
    BY <1>4, Zenon DEF Start
  <2>2. e.id \in Ids /\ e.row.next \in Times /\ worker[w].now \in Times
    BY <2>1 DEF InHand, TypeOK
  <2>3. runs' \subseteq [id : Ids, due : Times, key : Times, now : Times]
    BY <2>1, <2>2 DEF RequestKey, TypeOK
  <2> QED
    BY <1>0, <1>4, <2>3 DEF Start, TypeOK
<1>5. ASSUME NEW w \in Workers, Record(w) PROVE TypeOK'
  <2>1. PICK e \in worker[w].due : \E outcome \in {"run", "error"} : worker[w].pc = "tried" /\
          \/ UNCHANGED history
          \/ history' = [history EXCEPT ![e.id][e.row.next] = Made(@, outcome)]
    BY <1>5, Zenon DEF Record, Made
  <2>2. e.id \in Ids /\ e.row.next \in Times
    BY <2>1 DEF InHand, TypeOK
  <2>3. history' \in [Ids -> [Times -> Entry]]
    <3>1. PICK outcome \in {"run", "error"} :
            \/ UNCHANGED history
            \/ history' = [history EXCEPT ![e.id][e.row.next] = Made(history[e.id][e.row.next], outcome)]
      BY <2>1, Zenon
    <3>2. clock \in Times /\ history[e.id][e.row.next] \in Entry
      BY <2>2 DEF TypeOK
    <3>3. Made(history[e.id][e.row.next], outcome) \in Entry
      BY <3>2, MadeType
    <3> QED
      BY <2>2, <3>1, <3>3 DEF TypeOK
  <2> QED
    BY <1>0, <1>5, <2>3 DEF Record, TypeOK
<1>6. ASSUME NEW w \in Workers, Advance(w) PROVE TypeOK'
  <2>1. PICK e \in worker[w].due :
             /\ worker[w].pc = "recorded"
             /\ UNCHANGED <<clock, runs, history, retimed>>
             /\ \/ UNCHANGED <<rows, passed>>
                \/ /\ \E row \in Row : rows' = [rows EXCEPT ![e.id] = row]
                   /\ passed' = passed \cup {<<e.id, e.row.next>>}
    BY <1>6, AdvanceRows
  <2>2. e.id \in Ids /\ e.row.next \in Times
    BY <2>1 DEF InHand, TypeOK
  <2>3. rows' \in [Ids -> Row] /\ passed' \subseteq Ids \X Times
    BY <2>1, <2>2 DEF TypeOK
  <2>4. UNCHANGED <<clock, runs, history, retimed>>
    BY <2>1
  <2> QED
    BY <1>0, <2>3, <2>4 DEF TypeOK
<1>7. ASSUME NEW w \in Workers, Crash(w) PROVE TypeOK'
  BY <1>0, <1>7 DEF Crash, TypeOK
<1>8. CASE Elapse
  BY <1>0, <1>8, SchedulesAssumption DEF Elapse, TypeOK, Times
<1>9. CASE UNCHANGED vars
  BY <1>0, <1>9 DEF vars, TypeOK
<1> QED
  BY <1>1, <1>2, <1>3, <1>4, <1>5, <1>6, <1>7, <1>8, <1>9, Steps

\* What is recorded stays so; only Record, of the schedule it is at, says a time is in the history.
LEMMA RecordedStep ==
    ASSUME TypeOK, InHand, HandRecorded, [Next]_vars PROVE HandRecorded'
<1> SUFFICES ASSUME NEW v \in Workers, worker'[v].pc = "recorded"
             PROVE  /\ worker'[v].id # {}
                    /\ \A e \in worker'[v].due : e.id \in worker'[v].id /\ Kept(e.id)' =>
                         Recorded(e.id, e.row.next)'
  BY DEF HandRecorded
<1> DEFINE Goal == /\ worker'[v].id # {}
                   /\ \A e \in worker'[v].due : e.id \in worker'[v].id /\ Kept(e.id)' =>
                         Recorded(e.id, e.row.next)'
<1>0. Aged /\ worker \in [Workers -> Loop] /\ worker' \in [Workers -> Loop]
  BY Ages, Hands DEF TypeOK, Loop, DueEntry
<1>1. ASSUME worker'[v] = worker[v] PROVE Goal
  <2>1. \A e \in worker[v].due : e.id \in Ids /\ e.row.next \in Times
    BY <1>0, <1>1 DEF Loop, DueEntry, InHand
  <2>2. \A e \in worker[v].due : Kept(e.id)' => Kept(e.id)
    <3>1. ASSUME NEW e \in worker[v].due, Kept(e.id)' PROVE Kept(e.id)
      <4>1. rows[e.id].kind # "unused" /\ rows[e.id] \in Row
        BY <1>1, <2>1 DEF InHand, TypeOK
      <4>2. rows[e.id].kind # "removed"
        BY <1>0, <2>1, <3>1 DEF Aged, Kept, Kinds
      <4> QED
        BY <4>1, <4>2 DEF Row, Kept
    <3> QED
      BY <3>1
  <2> QED
    BY <1>0, <1>1, <2>1, <2>2 DEF HandRecorded, Aged, Kept
<1>2. ASSUME NEW w \in Workers, Record(w), v = w PROVE Goal
  <2>1. PICK e \in worker[w].due : \E outcome \in {"run", "error"} :
          /\ worker[w].pc = "tried"
          /\ \/ /\ history' = [history EXCEPT ![e.id][e.row.next] = Made(@, outcome)]
                /\ Goto(w, e, "recorded", worker[w].ran)
             \/ worker' = [worker EXCEPT ![w] = Idle]
    BY <1>2, Zenon DEF Record, Made
  <2>2. Goto(w, e, "recorded", worker[w].ran)
    BY <1>0, <1>2, <2>1, IdleType
  <2>3. worker[w].ran \in BOOLEAN
    BY <1>0 DEF Loop
  <2>4. worker'[v].due = worker[w].due /\ worker'[v].id = {e.id}
    BY <1>0, <1>2, <2>2, <2>3, GotoLoop
  <2>5. Recorded(e.id, e.row.next)'
    <3>1. e.id \in Ids /\ e.row.next \in Times
      BY <1>0, <2>1 DEF Loop, DueEntry, InHand
    <3>2. worker' # [worker EXCEPT ![w] = Idle]
      BY <1>0, <1>2, IdleType
    <3>3. history'[e.id][e.row.next].outcome # "none"
      BY <2>1, <3>1, <3>2, MadeType DEF TypeOK
    <3> QED
      BY <3>3 DEF Recorded
  <2>6. \A f \in worker[w].due : f.id = e.id => f = e
    BY <2>1 DEF InHand
  <2> QED
    BY <2>4, <2>5, <2>6
<1>3. ASSUME NEW w \in Workers, v # w, Look(w) \/ Start(w) \/ Record(w) \/ Advance(w) \/ Crash(w)
      PROVE  worker'[v] = worker[v]
  <2>1. CASE Look(w)
    BY <1>3, <2>1, LookLoop
  <2>2. CASE Start(w) \/ Record(w)
    BY <1>3, <2>2, TryLoop
  <2>3. CASE Advance(w)
    <3>1. PICK e \in worker[w].due : worker[w].pc = "recorded" /\ Finished(w, e)
      BY <2>3, AdvanceRows
    <3> QED
      BY <1>0, <1>3, <3>1, FinishedLoop DEF InHand
  <2>4. CASE Crash(w)
    BY <1>3, <2>4, CrashLoop
  <2> QED
    BY <1>3, <2>1, <2>2, <2>3, <2>4
<1>4. ASSUME NEW w \in Workers, v = w, Look(w) \/ Start(w) \/ Advance(w) \/ Crash(w) PROVE FALSE
  <2>1. CASE Look(w)
    BY <1>4, <2>1, LookLoop
  <2>2. CASE Start(w)
    <3>1. PICK e \in worker[w].due, ran \in BOOLEAN : Goto(w, e, "tried", ran)
      BY <2>2, Zenon DEF Start
    <3> QED
      BY <1>0, <1>4, <3>1, GotoLoop
  <2>3. CASE Advance(w)
    <3>1. PICK e \in worker[w].due : worker[w].pc = "recorded" /\ Finished(w, e)
      BY <2>3, AdvanceRows
    <3> QED
      BY <1>0, <1>4, <3>1, FinishedLoop DEF InHand
  <2>4. CASE Crash(w)
    BY <1>4, <2>4, CrashLoop
  <2> QED
    BY <1>4, <2>1, <2>2, <2>3, <2>4
<1>5. (\E s \in Ids : Edited(s) \/ Remove(s)) \/ Elapse \/ UNCHANGED vars => worker' = worker
  BY DEF Edited, Remove, Elapse, vars
<1> QED
  BY <1>1, <1>2, <1>3, <1>4, <1>5, Steps

\* A run is added only for a time no run of its schedule was for.
LEMMA RunsStep ==
    ASSUME TypeOK, InHand, KeyIsDue, OncePerDue, [Next]_vars
    PROVE  KeyIsDue' /\ OncePerDue'
<1>1. ASSUME NEW w \in Workers, Start(w) PROVE KeyIsDue' /\ OncePerDue'
  <2>1. PICK e \in worker[w].due :
          \/ UNCHANGED runs
          \/ /\ ~\E r \in runs : r.id = e.id /\ r.key = e.row.next
             /\ runs' = runs \cup {[id |-> e.id, due |-> e.row.next, key |-> e.row.next, now |-> worker[w].now]}
    BY <1>1, Zenon DEF Start, RequestKey
  <2> QED
    BY <2>1 DEF KeyIsDue, OncePerDue
<1>2. (\E s \in Ids : Edited(s) \/ Remove(s)) \/ Elapse \/ UNCHANGED vars => UNCHANGED runs
  BY DEF Edited, Remove, Elapse, vars
<1>3. ASSUME NEW w \in Workers PROVE Look(w) \/ Record(w) \/ Advance(w) \/ Crash(w) => UNCHANGED runs
  BY DEF Look, Record, Advance, Crash
<1>4. UNCHANGED runs => KeyIsDue' /\ OncePerDue'
  BY DEF KeyIsDue, OncePerDue
<1> QED
  BY <1>1, <1>2, <1>3, <1>4, Steps

\* A time a schedule was moved past.
Past(p) == rows[p[1]].kind # "unused" /\ (Kept(p[1]) => Recorded(p[1], p[2]))

\* It stays recorded as long as the schedule is there.
LEMMA PastStays ==
    ASSUME TypeOK, InHand, [Next]_vars, NEW p \in Ids \X Times, Past(p) PROVE Past(p)'
<1>1. Aged /\ rows[p[1]] \in Row /\ p[1] \in Ids /\ p[2] \in Times
  BY Ages DEF TypeOK
<1>2. Kept(p[1])' => Kept(p[1])
  BY <1>1 DEF Past, Aged, Kept, Kinds, Row
<1> QED
  BY <1>1, <1>2 DEF Past, Aged, Kept

\* A schedule moves on only from a time that was put in its history.
LEMMA PassedStep ==
    ASSUME TypeOK, InHand, HandRecorded, PassedWereUsed, PassedIsRecorded, [Next]_vars
    PROVE  PassedWereUsed' /\ PassedIsRecorded'
<1>1. \A p \in passed : Past(p)
  BY Zenon DEF PassedWereUsed, PassedIsRecorded, Past
<1>2. \A p \in passed' : p \in Ids \X Times /\ Past(p)
  <2>0. passed \subseteq Ids \X Times /\ worker \in [Workers -> Loop]
    BY DEF TypeOK, Loop, DueEntry
  <2>1. ASSUME NEW w \in Workers, Advance(w) PROVE \A p \in passed' : p \in Ids \X Times /\ Past(p)
    <3>1. PICK e \in worker[w].due :
            /\ worker[w].pc = "recorded" /\ Current(w, e)
            /\ \/ UNCHANGED passed
               \/ Kept(e.id) /\ passed' = passed \cup {<<e.id, e.row.next>>}
      BY <2>1, AdvanceRows
    <3>2. e.id \in Ids /\ e.row.next \in Times /\ rows[e.id].kind # "unused"
      BY <2>0, <3>1 DEF Loop, DueEntry, InHand
    <3>3. Kept(e.id) => Recorded(e.id, e.row.next)
      BY <3>1 DEF HandRecorded, Current
    <3>4. Past(<<e.id, e.row.next>>) /\ <<e.id, e.row.next>> \in Ids \X Times
      BY <3>2, <3>3 DEF Past
    <3> QED
      BY <1>1, <2>0, <3>1, <3>4, Zenon
  <2>2. (\E s \in Ids : Edited(s) \/ Remove(s)) \/ Elapse \/ UNCHANGED vars => UNCHANGED passed
    BY DEF Edited, Remove, Elapse, vars
  <2>3. ASSUME NEW w \in Workers PROVE Look(w) \/ Start(w) \/ Record(w) \/ Crash(w) => UNCHANGED passed
    BY DEF Look, Start, Record, Crash
  <2>4. UNCHANGED passed => \A p \in passed' : p \in Ids \X Times /\ Past(p)
    BY <1>1, <2>0, Zenon
  <2> QED
    BY <2>1, <2>2, <2>3, <2>4, Steps
<1>3. \A p \in passed' : Past(p)'
  BY <1>2, PastStays, Zenon
<1> QED
  BY <1>3, Zenon DEF PassedWereUsed, PassedIsRecorded, Past

---------------------------------------------------------------------------
(* A time that was due *)

\* The time schedule s is due at goes by in this step only if it was recorded, or by an edit
\* of the owner's.
TriedOrEdited(s, t) ==
    rows[s].next = t /\ Due(s, clock) /\ ~(Due(s, clock)' /\ rows'[s].next = t)
      => Recorded(s, t)' \/ s \in retimed'

LEMMA UntouchedStaysDue ==
    ASSUME TypeOK, NEW s \in Ids, rows'[s] = rows[s], clock' \in Nat, clock' >= clock, Due(s, clock)
    PROVE  Due(s, clock)' /\ rows'[s].next = rows[s].next
<1>1. rows[s].next \in Nat /\ clock \in Nat
  BY SchedulesAssumption DEF TypeOK, Row, Times
<1> QED
  BY <1>1 DEF Due, Kept

\* An edit of a schedule that is due says so.
LEMMA EditsAreSaid ==
    ASSUME TypeOK, NEW q \in Ids, Due(q, clock), NEW s \in Ids,
           \/ \E timing \in Timings, enabled \in BOOLEAN :
                Create(s, timing, enabled) \/ Retime(s, timing, enabled)
           \/ Rename(s) \/ Switch(s) \/ Remove(s)
    PROVE  clock' = clock /\ (rows'[q] = rows[q] \/ q \in retimed')
<1>0. rows \in [Ids -> Row] /\ Kept(q)
  BY DEF TypeOK, Due
<1>1. ASSUME NEW timing \in Timings, NEW enabled \in BOOLEAN, Create(s, timing, enabled)
      PROVE  clock' = clock /\ rows'[q] = rows[q]
  <2>1. q # s
    BY <1>0, <1>1 DEF Create, Kept, Kinds
  <2>2. PICK row : rows' = [rows EXCEPT ![s] = row]
    BY <1>1, Zenon DEF Create
  <2> QED
    BY <1>0, <1>1, <2>1, <2>2 DEF Create
<1>2. ASSUME \/ \E timing \in Timings, enabled \in BOOLEAN : Retime(s, timing, enabled)
             \/ Rename(s) \/ Switch(s) \/ Remove(s)
      PROVE  clock' = clock /\ (rows'[q] = rows[q] \/ q \in retimed')
  <2>1. PICK row : rows' = [rows EXCEPT ![s] = row] /\ clock' = clock
    BY <1>2, Zenon DEF Retime, Rename, Switch, Remove
  <2>2. q = s => q \in retimed'
    BY <1>2 DEF Retime, Rename, Switch, Remove
  <2> QED
    BY <1>0, <2>1, <2>2
<1> QED
  BY <1>1, <1>2

\* A process moves on only the schedule it is at, from the time that it recorded.
LEMMA AdvancesAreTried ==
    ASSUME TypeOK, HandRecorded, NEW w \in Workers, Advance(w), NEW q \in Ids, Due(q, clock),
           NEW t \in Times, rows[q].next = t
    PROVE  clock' = clock /\ (rows'[q] = rows[q] \/ Recorded(q, t)')
<1>0. rows \in [Ids -> Row] /\ Kept(q)
  BY DEF TypeOK, Due
<1>1. PICK e \in worker[w].due : \E row :
        /\ worker[w].pc = "recorded" /\ Current(w, e)
        /\ UNCHANGED <<clock, history>>
        /\ \/ UNCHANGED rows
           \/ rows[e.id].next = e.row.next /\ rows' = [rows EXCEPT ![e.id] = row]
  BY Zenon DEF Advance, Unmoved
<1>2. CASE q = e.id
  <2>1. Recorded(e.id, e.row.next)
    BY <1>0, <1>1, <1>2 DEF HandRecorded, Current
  <2>2. rows'[q] = rows[q] \/ e.row.next = t
    BY <1>1, <1>2
  <2> QED
    BY <1>1, <1>2, <2>1, <2>2 DEF Recorded
<1>3. CASE q # e.id
  BY <1>0, <1>1, <1>3
<1> QED
  BY <1>2, <1>3

LEMMA DueStep ==
    ASSUME TypeOK, HandRecorded, [Next]_vars, NEW q \in Ids, NEW t \in Times PROVE TriedOrEdited(q, t)
<1> SUFFICES ASSUME Due(q, clock), rows[q].next = t
             PROVE  \/ Due(q, clock)' /\ rows'[q].next = rows[q].next
                    \/ Recorded(q, t)'
                    \/ q \in retimed'
  BY DEF TriedOrEdited
<1>c. clock \in Nat
  BY SchedulesAssumption DEF TypeOK, Times
<1>0. clock' = clock /\ rows'[q] = rows[q] => Due(q, clock)' /\ rows'[q].next = rows[q].next
  BY <1>c, UntouchedStaysDue
<1>1. ASSUME NEW s \in Ids,
             \/ \E timing \in Timings, enabled \in BOOLEAN :
                  Create(s, timing, enabled) \/ Retime(s, timing, enabled)
             \/ Rename(s) \/ Switch(s) \/ Remove(s)
      PROVE  clock' = clock /\ (rows'[q] = rows[q] \/ q \in retimed')
  BY <1>1, EditsAreSaid
<1>2. ASSUME NEW w \in Workers, Look(w) PROVE clock' = clock /\ rows'[q] = rows[q]
  BY <1>2 DEF Look, Done, Due
<1>3. ASSUME NEW w \in Workers, Start(w) \/ Record(w) \/ Crash(w)
      PROVE  clock' = clock /\ rows'[q] = rows[q]
  BY <1>3 DEF Start, Record, Crash
<1>4. ASSUME NEW w \in Workers, Advance(w)
      PROVE  clock' = clock /\ (rows'[q] = rows[q] \/ Recorded(q, t)')
  BY <1>4, AdvancesAreTried
<1>5. CASE Elapse
  BY <1>c, <1>5, UntouchedStaysDue DEF Elapse
<1>6. CASE UNCHANGED vars
  BY <1>0, <1>6 DEF vars
<1> QED
  BY <1>0, <1>1, <1>2, <1>3, <1>4, <1>5, <1>6 DEF Next

---------------------------------------------------------------------------
(* Theorems *)

\* Every reachable state satisfies the inductive invariant: what the processes have in hand was
\* read due and is recorded before it is moved on.
THEOREM Invariance == Spec => []SInv
<1>1. SInv /\ [Next]_vars => SInv'
  BY InHandStep, TypeStep, RecordedStep, RunsStep, PassedStep DEF SInv
<1> QED
  BY <1>1, InitHolds, PTL DEF Spec

\* However many processes find a schedule due, and wherever they die, a time that was due is run
\* once, and the schedule moves past it only with that time in its history, where it stays until
\* it is older than history is kept for or the schedule goes.
THEOREM SchedulesSafe == Spec => []SchedulesSafety
<1>1. SInv => SchedulesSafety
  BY DEF SInv, SchedulesSafety
<1> QED
  BY <1>1, Invariance, PTL
\* However late the gateway is to a time a schedule was due, whoever moves the schedule on, and
\* whoever dies first: the time goes by only tried and put in the history, or with an edit.
THEOREM NoneIsSkipped == Spec => DueIsTried
<1>1. SInv /\ [Next]_vars =>
        [\A s \in Ids, t \in Times :
           rows[s].next = t /\ Due(s, clock) /\ ~(Due(s, clock)' /\ rows'[s].next = t)
             => Recorded(s, t)' \/ s \in retimed']_vars
  BY DueStep DEF SInv, TriedOrEdited
<1> QED
  BY <1>1, Invariance, PTL DEF Spec, DueIsTried
=============================================================================
