------------------------------ MODULE RunTurns ------------------------------
(***************************************************************************)
(* A worker executing runs: AgentRuntime.execute (agent/runtime.ts) over    *)
(* the lease operations of runs/lifecycle.ts.  A turn is cut at its awaits: *)
(* every store call is a step, and between two of them a person may cancel, *)
(* another worker may recover the run, the lease may lapse or the process   *)
(* may die.  A worker owns a run under a token made for that one turn, so   *)
(* the pair of worker and run stands for the token.                         *)
(***************************************************************************)
EXTENDS RunRecords

At(w, r, pc) == turns[w][r].pc = pc
Goto(w, r, pc) == Turned(w, r, Later(turns[w][r], pc))
Stop(w, r) == Turned(w, r, Aborted(turns[w][r]))
LeaveMarked(w, r) == Goto(w, r, "ended")   \* a plausible bug
Leave(w, r) == Turned(w, r, NoTurn)
Holding(turn, texts) == [turn EXCEPT !.held = texts]
InTurn(w, r) == ~At(w, r, "none")
Leased(row, w) == [row EXCEPT !.status = "running", !.owner = w, !.lease = "live"]
WithLease(row, lease) == [row EXCEPT !.lease = lease]
Renew(r) == Write(r, WithLease(runs[r], "live"))

\* A plausible bug: a running row whose lease ran out is taken over.
ClaimExpired(w, r) ==
    /\ runs[r].status = "queued" \/ runs[r].lease = "lapsed"
    /\ Write(r, Leased(runs[r], w))
    /\ Turned(w, r, Later(NoTurn, "begun"))
    /\ UNCHANGED <<joined, ran, heard>>

\* claim: only a queued run is taken, under the lock, and its turn begins.
Claim(w, r) ==
    /\ runs[r].status = "queued"
    /\ Write(r, Leased(runs[r], w))
    /\ Turned(w, r, Later(NoTurn, "begun"))
    /\ UNCHANGED <<joined, ran, heard>>

---------------------------------------------------------------------------
(* The action an approval let through, before the model is called. *)

\* readRunAction, outside the lock.
ReadAction(w, r) ==
    /\ At(w, r, "begun")
    /\ Goto(w, r, IF runs[r].action = "approved" THEN "spending" ELSE "stepping")
    /\ UNCHANGED <<runs, joined, ran, heard>>

\* writeRunAction(null), outside the lock and whoever holds the lease: spent before it starts.
Spent(row) == [row EXCEPT !.action = "none"]
SpendAction(w, r) ==
    /\ At(w, r, "spending")
    /\ Write(r, Spent(runs[r]))
    /\ Goto(w, r, "spent")
    /\ UNCHANGED <<joined, ran, heard>>

\* The guarded call renews and checks the lease, and records that it starts; one that may not
\* start, or whose tool is gone, becomes an error the model is told of.
StartApproved(w, r) ==
    /\ At(w, r, "spent")
    /\ \/ Owned(w, r) /\ ~turns[w][r].aborted /\ Renew(r) /\ Goto(w, r, "acting")
       \/ UNCHANGED runs /\ Goto(w, r, "stepping")
    /\ UNCHANGED <<joined, ran, heard>>

\* The tool itself; a call whose outcome is uncertain interrupts the turn.
RunApproved(w, r) ==
    /\ At(w, r, "acting")
    /\ ran' = [ran EXCEPT ![r] = @ + 1]
    /\ Goto(w, r, "stepping") \/ Goto(w, r, "failing")
    /\ UNCHANGED <<runs, joined, heard>>

---------------------------------------------------------------------------
(* The steps of the agent loop. *)

\* prepareStep: an aborted turn, or one whose beat finds the lease gone, throws.
PrepareStep(w, r) ==
    /\ At(w, r, "stepping")
    /\ IF Owned(w, r) /\ ~turns[w][r].aborted
       THEN Renew(r) /\ Goto(w, r, "steering")
       ELSE UNCHANGED runs /\ Goto(w, r, "failing")
    /\ UNCHANGED <<joined, ran, heard>>

\* takeSteer, first statement: read what waits, if this turn still owns the row.
ReadSteer(w, r) ==
    /\ At(w, r, "steering")
    /\ IF runs[r].owner = w /\ runs[r].steer # <<>>
       THEN Turned(w, r, Later(Holding(turns[w][r], runs[r].steer), "clearing"))
       ELSE Goto(w, r, "thinking")
    /\ UNCHANGED <<runs, joined, ran, heard>>

\* A plausible bug: the column is cleared whatever it holds by now.
ClearSteerAlways(w, r) ==
    LET held == turns[w][r].held IN
    /\ At(w, r, "clearing")
    /\ Write(r, [runs[r] EXCEPT !.steer = <<>>])
    /\ heard' = heard \cup {held[i] : i \in DOMAIN held}
    /\ Turned(w, r, Later(Holding(turns[w][r], <<>>), "thinking"))
    /\ UNCHANGED <<joined, ran>>

\* takeSteer, second statement: cleared only if it still holds exactly what was read.
Cleared(row, held) == [row EXCEPT !.steer = IF @ = held THEN <<>> ELSE @]
ClearSteer(w, r) ==
    LET held == turns[w][r].held IN
    /\ At(w, r, "clearing")
    /\ Write(r, Cleared(runs[r], held))
    /\ heard' = heard \cup {held[i] : i \in DOMAIN held}
    /\ Turned(w, r, Later(Holding(turns[w][r], <<>>), "thinking"))
    /\ UNCHANGED <<joined, ran>>

\* onStepEnd: the usage and the step's checkpoint are written under the lease.
EndStep(w, r) ==
    /\ At(w, r, "thinking")
    /\ Goto(w, r, IF Owned(w, r) THEN "stepping" ELSE "failing")
    /\ UNCHANGED <<runs, joined, ran, heard>>

\* ask_user runs like any tool, under a renewed lease, and an action that needs approval stops
\* before its call starts; both abort the turn's own stream.
Pause(w, r) ==
    /\ At(w, r, "thinking") /\ ~turns[w][r].aborted
    /\ \/ /\ Owned(w, r) /\ Renew(r)
          /\ Turned(w, r, Later(Aborted(turns[w][r]), "asking"))
       \/ /\ UNCHANGED runs
          /\ Turned(w, r, Later(Aborted(turns[w][r]), "parking"))
    /\ UNCHANGED <<joined, ran, heard>>

\* The last step's text is the answer.
Answer(w, r) ==
    /\ At(w, r, "thinking")
    /\ Goto(w, r, "finishing")
    /\ UNCHANGED <<runs, joined, ran, heard>>

\* Anything may throw: the provider, a store call, an aborted or stalled stream.
Fail(w, r) ==
    /\ turns[w][r].pc \in {"begun", "spending", "stepping", "steering", "clearing", "thinking"}
    /\ Goto(w, r, "failing")
    /\ UNCHANGED <<runs, joined, ran, heard>>

---------------------------------------------------------------------------
(* How a turn ends. *)

\* What wait and waitForApproval make of the row: parked, without a lease.
ParkedWithoutAction(row, asks) == [Unowned(row, "waiting") EXCEPT !.asks = asks]   \* a plausible bug
Kept(row, asks) == IF asks = "approval" THEN "pending" ELSE row.action
Parked(row, asks) == Asking(Unowned(row, "waiting"), asks, Kept(row, asks))

\* A turn that lost its lease by now stops in silence.
Park(w, r) ==
    /\ \E pc \in {"asking", "parking"} :
         /\ At(w, r, pc)
         /\ IF Owned(w, r)
            THEN Write(r, Parked(runs[r], IF pc = "asking" THEN "question" ELSE "approval"))
            ELSE UNCHANGED runs
    /\ Leave(w, r)
    /\ UNCHANGED <<joined, ran, heard>>

\* finish("completed"); a lease found gone here throws into the catch below.
Complete(w, r) ==
    /\ At(w, r, "finishing")
    /\ IF Owned(w, r)
       THEN Write(r, Unowned(runs[r], "completed")) /\ Leave(w, r)
       ELSE UNCHANGED runs /\ Goto(w, r, "failing")
    /\ UNCHANGED <<joined, ran, heard>>

\* The catch: a run still running and owned is closed; finish's own refusal is swallowed.
Settle(w, r) ==
    /\ At(w, r, "failing")
    /\ \E status \in IF turns[w][r].aborted THEN {"interrupted"} ELSE {"interrupted", "failed"} :
         IF Owned(w, r) THEN Write(r, Unowned(runs[r], status)) ELSE UNCHANGED runs
    /\ Leave(w, r)
    /\ UNCHANGED <<joined, ran, heard>>

---------------------------------------------------------------------------
(* Beside the turn. *)

\* The pulse: a refused renewal aborts the turn.
Pulse(w, r) ==
    /\ InTurn(w, r)
    /\ IF Owned(w, r)
       THEN Renew(r) /\ UNCHANGED turns
       ELSE UNCHANGED runs /\ Stop(w, r)
    /\ UNCHANGED <<joined, ran, heard>>

\* The stall watchdog, or the process stopping gracefully.
Abort(w, r) ==
    /\ InTurn(w, r)
    /\ Stop(w, r)
    /\ UNCHANGED <<runs, joined, ran, heard>>

\* Sixty seconds pass without a renewal.
Lapse(r) ==
    /\ runs[r].status = "running" /\ runs[r].lease = "live"
    /\ Write(r, WithLease(runs[r], "lapsed"))
    /\ UNCHANGED <<joined, turns, ran, heard>>

\* A plausible bug: the row is not read again under the lock.
RecoverUnread(w, r) ==
    /\ runs[r].status # "absent" /\ runs[r].lease # "live"
    /\ IF runs[r].owner = w /\ InTurn(w, r)
       THEN Renew(r)
       ELSE Write(r, Unowned(runs[r], "interrupted"))
    /\ UNCHANGED <<joined, turns, ran, heard>>

\* A plausible bug: an owner's name keeps its lease alive after its turn is gone.
RecoverOwn(w, r) ==
    /\ runs[r].status = "running" /\ runs[r].lease # "live"
    /\ IF runs[r].owner = w
       THEN Renew(r)
       ELSE Write(r, Unowned(runs[r], "interrupted"))
    /\ UNCHANGED <<joined, turns, ran, heard>>

\* recover, for one expired run: this process's own live turn is renewed, another is interrupted.
Recover(w, r) ==
    /\ runs[r].status = "running" /\ runs[r].lease # "live"
    /\ IF runs[r].owner = w /\ InTurn(w, r)
       THEN Renew(r)
       ELSE Write(r, Unowned(runs[r], "interrupted"))
    /\ UNCHANGED <<joined, turns, ran, heard>>

\* The process dies and starts again: its turns are gone, its rows stay.
Crash(w) ==
    /\ \E r \in RunIds : InTurn(w, r)
    /\ turns' = [turns EXCEPT ![w] = [r \in RunIds |-> NoTurn]]
    /\ UNCHANGED <<runs, joined, ran, heard>>

TurnStep(w, r) ==
    \/ ReadAction(w, r) \/ SpendAction(w, r) \/ StartApproved(w, r) \/ RunApproved(w, r)
    \/ PrepareStep(w, r) \/ ReadSteer(w, r) \/ ClearSteer(w, r)
    \/ EndStep(w, r) \/ Pause(w, r) \/ Answer(w, r) \/ Fail(w, r)
    \/ Park(w, r) \/ Complete(w, r) \/ Settle(w, r)
    \/ Pulse(w, r) \/ Abort(w, r)

Execution ==
    \/ \E w \in Workers, r \in RunIds : Claim(w, r) \/ TurnStep(w, r) \/ Recover(w, r)
    \/ \E r \in RunIds : Lapse(r)
    \/ \E w \in Workers : Crash(w)
===========================================================================
