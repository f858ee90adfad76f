---------------------------- MODULE LinkedDevices ----------------------------
(***************************************************************************)
(* A WhatsApp account linked to a channel (channels/whatsapp/connections.ts, *)
(* repository.ts and the callbacks of driver.ts).  The row of the connection *)
(* says which process holds the device, for 30 seconds at a time; a device  *)
(* acts for the generation and fence it was opened under.  Processes tick,  *)
(* stall, stop and die, devices drop and are logged out, the owner connects *)
(* and disconnects, pauses and resumes, and each of these is one transaction *)
(* among the others.  Everybody who writes was let in by the owner.         *)
(***************************************************************************)
EXTENDS Integers, Sequences, FiniteSets

CONSTANTS
    Workers,     \* processes that may hold the device
    Nobody,      \* the owner of a row nobody holds
    Messages,    \* what the phone may receive
    Accounts,    \* phones that may scan the code
    Lease,       \* LEASE_MS, in steps of the clock
    SendTime,    \* DEVICE_SEND_TIMEOUT_MS, in the same steps
    Scopes       \* bound: what one run explores, see Limits

\* What happens in a behaviour: who ticks, what is received, of it what no agent can take, how much
\* the inbox holds, how many pairings, moves of their keys, generations and fences there are, how
\* often the owner pauses or resumes, and whether there may be no model to answer with, devices drop,
\* phones log out, parts are sent, processes end.
Limits == [workers : SUBSET Workers, messages : SUBSET Messages, refused : SUBSET Messages,
           capacity : Nat, pairings : Nat, moves : Nat, gens : Nat, fences : Nat,
           pauses : Nat, modelless : BOOLEAN, drops : BOOLEAN, logouts : BOOLEAN,
           sends : BOOLEAN, stops : BOOLEAN]

ASSUME LinkedDevicesAssumption ==
    /\ Scopes \subseteq Limits
    /\ Nobody \notin Workers \cup Accounts
    /\ Lease \in Nat /\ SendTime \in Nat /\ SendTime < Lease

VARIABLES
    scope,     \* the member of Scopes this behaviour stays within
    row,       \* the row of `channel_connections`
    session,   \* `channel_auth`: the pairing saved and how far its keys had moved on
    inbox,     \* `channel_inbox`, oldest first
    enabled,   \* the channel answers, or its owner paused it
    paused,    \* `channels.automation_paused_at`: how often the channel was switched
    devs,      \* every device opened, in order, and whether it closed between a look and a claim
    local,     \* the device each process has in its map, 0 for none
    proc,      \* "up", "leaving" or "gone"
    tick,      \* what each process's tick has read and where it is
    sending,   \* the part each process is sending: its device and the time it has left
    paired,    \* history: the pairings made, with the account and the generation
    unlinked,  \* history: pairings the phone ended
    spoke,     \* history: who answered as which account in each generation
    turns,     \* history: the inbox items that became turns, in order
    unanswered, \* items kept in the conversation for want of a model, with no turn
    muted      \* history: items a pause, or a resume, put aside

vars == <<scope, row, session, inbox, enabled, paused, devs, local, proc, tick, sending,
          paired, unlinked, spoke, turns, unanswered, muted>>

NoRow == [desired |-> FALSE, gen |-> 0, fence |-> 0, status |-> "disconnected",
          owner |-> Nobody, lease |-> 0, retry |-> FALSE, account |-> Nobody]
NoSession == [pairing |-> 0, moved |-> 0]
NoTick == [pc |-> "idle", seen |-> NoRow, gen |-> 0, fence |-> 0, logout |-> FALSE,
           items |-> {}, paused |-> 0, as |-> "pending"]
NoSend == [dev |-> 0, left |-> 0]

Init == /\ scope \in Scopes
        /\ row = NoRow /\ session = NoSession
        /\ inbox = <<>> /\ devs = <<>> /\ paired = <<>> /\ turns = <<>>
        /\ enabled = TRUE /\ paused = 0
        /\ local = [w \in Workers |-> 0]
        /\ proc = [w \in Workers |-> IF w \in scope.workers THEN "up" ELSE "gone"]
        /\ tick = [w \in Workers |-> NoTick]
        /\ sending = [w \in Workers |-> NoSend]
        /\ unlinked = {} /\ spoke = {} /\ unanswered = {} /\ muted = {}

Rows == [desired : BOOLEAN, gen : Nat, fence : Nat,
         status : {"disconnected", "connecting", "connected", "error"},
         owner : Workers \cup {Nobody}, lease : 0..Lease, retry : BOOLEAN,
         account : Accounts \cup {Nobody}]

Sessions == [pairing : Nat, moved : Nat]
Items == [message : Messages, gen : Nat, status : {"pending", "submitted", "discarded"}]
Devices == [worker : Workers, gen : Nat, fence : Nat, pairing : Nat, moved : Nat,
            stored : BOOLEAN, missed : BOOLEAN,
            state : {"live", "dropping", "clearing", "forgetting", "closed", "gone"}]
Ticks == [pc : {"idle", "looking", "stopping", "claiming", "opening", "listing", "checking",
                "receiving", "accepting", "submitting", "withoutModel", "settling"},
          seen : Rows, gen : Nat, fence : Nat, logout : BOOLEAN, items : SUBSET Nat, paused : Nat,
          as : {"pending", "submitted", "discarded"}]
Sends == [dev : Nat, left : 0..SendTime]
Pairings == [account : Accounts, gen : Nat]

TypeOK ==
    /\ scope \in Scopes
    /\ row \in Rows
    /\ session \in Sessions /\ session.pairing <= Len(paired)
    /\ inbox \in Seq(Items)
    /\ enabled \in BOOLEAN /\ paused \in Nat
    /\ devs \in Seq(Devices) /\ \A d \in DOMAIN devs : devs[d].pairing <= Len(paired)
    /\ local \in [Workers -> 0..Len(devs)]
    /\ proc \in [Workers -> {"up", "leaving", "gone"}]
    /\ tick \in [Workers -> Ticks] /\ \A w \in Workers : tick[w].items \subseteq DOMAIN inbox
    /\ sending \in [Workers -> Sends] /\ \A w \in Workers : sending[w].dev <= Len(devs)
    /\ paired \in Seq(Pairings)
    /\ unlinked \subseteq DOMAIN paired
    /\ spoke \subseteq [gen : Nat, account : Accounts]
    /\ turns \in Seq(DOMAIN inbox)
    /\ unanswered \subseteq DOMAIN inbox /\ muted \subseteq DOMAIN inbox

\* bound: what makes a process open a device again happens this often.
Room == row.fence < scope.fences

---------------------------------------------------------------------------
(* The owner *)

Connect ==
    /\ ~row.desired /\ Room
    /\ row' = [NoRow EXCEPT !.desired = TRUE, !.status = "connecting", !.account = row.account,
                            !.gen = IF row.gen = 0 THEN 1 ELSE row.gen, !.fence = row.fence + 1]
    /\ UNCHANGED <<scope, session, inbox, enabled, paused, devs, local, proc, tick, sending,
                   paired, unlinked, spoke, turns, unanswered, muted>>

\* A plausible bug: the row forgets the device, the saved pairing stays.
DisconnectKeeping == UNCHANGED session
\* disconnect empties the saved pairing in the transaction that moves the generation on.
Emptied == session' = NoSession

Disconnect ==
    /\ row.gen < scope.gens
    /\ row' = [NoRow EXCEPT !.gen = row.gen + 1]
    /\ Emptied
    /\ UNCHANGED <<scope, inbox, enabled, paused, devs, local, proc, tick, sending,
                   paired, unlinked, spoke, turns, unanswered, muted>>

Pending == {i \in DOMAIN inbox : inbox[i].status = "pending"}

\* A plausible bug: what waits in the inbox is left there.
DiscardNothing == UNCHANGED <<inbox, muted>>
\* discardInbox: what was not answered yet is old work.
DiscardInbox ==
    /\ inbox' = [i \in DOMAIN inbox |-> IF i \in Pending THEN [inbox[i] EXCEPT !.status = "discarded"]
                                        ELSE inbox[i]]
    /\ muted' = muted \cup Pending

\* update: pausing and resuming both move `automation_paused_at` on and discard.
Switch ==
    /\ paused < scope.pauses
    /\ enabled' = ~enabled /\ paused' = paused + 1
    /\ DiscardInbox
    /\ UNCHANGED <<scope, row, session, devs, local, proc, tick, sending,
                   paired, unlinked, spoke, turns, unanswered>>

---------------------------------------------------------------------------
(* A device and its callbacks, each with a transaction that asks for ownership. *)

\* A plausible bug: the fence is not compared.
OwnedUnfenced(w, gen, fence) == row.desired /\ row.owner = w /\ row.gen = gen /\ row.lease > 0
\* ownership: mine, unexpired, and still the generation and fence it was opened under.
Owned(w, gen, fence) ==
    /\ row.desired /\ row.owner = w /\ row.lease > 0
    /\ row.gen = gen /\ row.fence = fence

Holds(d) == Owned(devs[d].worker, devs[d].gen, devs[d].fence)
Live(d) == devs[d].state = "live"
\* Closed, but a callback it began may still land.
Late(d) == devs[d].state \notin {"live", "gone"}
Become(d, state) == devs' = [devs EXCEPT ![d].state = state]
\* history: the process has read the row for this tick and not yet claimed it.
Unseen(d) == tick[devs[d].worker].pc \in {"looking", "claiming"}
Shut(d) == devs' = [devs EXCEPT ![d].state = "closed", ![d].missed = Unseen(d)]
\* A part on its way is over for its sender once the device is closed.
Unsent(D) == sending' = [w \in Workers |-> IF sending[w].dev \in D THEN NoSend ELSE sending[w]]

\* failed: the row gives the connection up, and the device is closed.
Failed(d) ==
    /\ row' = IF Live(d) /\ Holds(d) THEN [row EXCEPT !.desired = FALSE, !.status = "error"] ELSE row
    /\ IF Live(d) THEN Shut(d) ELSE UNCHANGED devs
    /\ Unsent({d})

\* The code is scanned on a device that loaded no session.
Pair(d) == \E a \in Accounts :
    /\ Live(d) /\ devs[d].pairing = 0 /\ Len(paired) < scope.pairings
    /\ paired' = Append(paired, [account |-> a, gen |-> devs[d].gen])
    /\ devs' = [devs EXCEPT ![d].pairing = Len(paired) + 1, ![d].moved = 1]
    /\ UNCHANGED <<scope, row, session, inbox, enabled, paused, local, proc, tick, sending,
                   unlinked, spoke, turns, unanswered, muted>>

\* Its keys move on with what it receives and sends.
MoveOn(d) ==
    /\ Live(d) /\ devs[d].pairing # 0 /\ devs[d].moved < scope.moves
    /\ devs' = [devs EXCEPT ![d].moved = @ + 1]
    /\ UNCHANGED <<scope, row, session, inbox, enabled, paused, local, proc, tick, sending,
                   paired, unlinked, spoke, turns, unanswered, muted>>

Saved(d) == [pairing |-> devs[d].pairing, moved |-> devs[d].moved]

\* The session is saved, a moment after it changed; a save may land after its device was closed.
Save(d) ==
    /\ devs[d].pairing # 0 /\ session # Saved(d)
    /\ Live(d) \/ (Late(d) /\ Holds(d))
    /\ IF Holds(d)
       THEN /\ session' = Saved(d)
            /\ devs' = [devs EXCEPT ![d].stored = TRUE]
            /\ UNCHANGED <<row, sending>>
       ELSE Failed(d) /\ UNCHANGED session
    /\ UNCHANGED <<scope, inbox, enabled, paused, local, proc, tick, paired, unlinked, spoke,
                   turns, unanswered, muted>>

\* A plausible bug: any phone is accepted.
ExpectedAny(account) == TRUE
\* The account the row already has, or the first.
Expected(account) == row.account \in {Nobody, account}

\* opened: connected, once the pairing is saved.
Ready(d) ==
    /\ Live(d) /\ devs[d].stored /\ devs[d].pairing \notin unlinked
    /\ LET account == paired[devs[d].pairing].account IN
       IF Holds(d) /\ Expected(account)
       THEN /\ row' = [row EXCEPT !.status = "connected", !.account = account]
            /\ spoke' = spoke \cup {[gen |-> row.gen, account |-> account]}
            /\ UNCHANGED <<devs, sending>>
       ELSE Failed(d) /\ UNCHANGED spoke
    /\ UNCHANGED <<scope, session, inbox, enabled, paused, local, proc, tick, paired, unlinked,
                   turns, unanswered, muted>>

Heard(m) == \E i \in DOMAIN inbox : inbox[i].message = m

\* enqueue: once per message, and nothing kept of it while the channel is paused.
Enqueue(d) == \E m \in scope.messages :
    /\ Live(d) \/ (Late(d) /\ Holds(d))
    /\ IF Holds(d) /\ (Heard(m) \/ ~enabled \/ Cardinality(Pending) < scope.capacity)
       THEN /\ inbox' = IF Heard(m) THEN inbox
                        ELSE Append(inbox, [message |-> m, gen |-> devs[d].gen,
                                            status |-> IF enabled THEN "pending" ELSE "discarded"])
            /\ muted' = IF Heard(m) \/ enabled THEN muted ELSE muted \cup {Len(inbox) + 1}
            /\ UNCHANGED <<row, devs, sending>>
       ELSE Failed(d) /\ UNCHANGED <<inbox, muted>>
    /\ UNCHANGED <<scope, session, enabled, paused, local, proc, tick, paired, unlinked, spoke,
                   turns, unanswered>>

\* dropped: what is left to save is saved and the device is closed.
Close(d) ==
    /\ Live(d) /\ scope.drops /\ Room
    /\ session' = IF Holds(d) /\ devs[d].pairing # 0 THEN Saved(d) ELSE session
    /\ Become(d, "dropping") /\ Unsent({d})
    /\ UNCHANGED <<scope, row, inbox, enabled, paused, local, proc, tick, paired, unlinked, spoke,
                   turns, unanswered, muted>>

\* disconnected(false): then the row is free again, in five seconds.
Dropped(d) ==
    /\ devs[d].state = "dropping"
    /\ row' = IF Holds(d) THEN [row EXCEPT !.status = "connecting", !.owner = Nobody,
                                           !.lease = 0, !.retry = TRUE] ELSE row
    /\ Shut(d)
    /\ UNCHANGED <<scope, session, inbox, enabled, paused, local, proc, tick, sending,
                   paired, unlinked, spoke, turns, unanswered, muted>>

\* The phone ended the pairing: closed, ...
LogOut(d) ==
    /\ Live(d) /\ devs[d].pairing # 0 /\ scope.logouts /\ row.gen <= scope.gens
    /\ unlinked' = unlinked \cup {devs[d].pairing}
    /\ Become(d, "clearing") /\ Unsent({d})
    /\ UNCHANGED <<scope, row, session, inbox, enabled, paused, local, proc, tick, paired, spoke,
                   turns, unanswered, muted>>

\* ... the session emptied, ...
Clear(d) ==
    /\ devs[d].state = "clearing"
    /\ session' = IF Holds(d) THEN NoSession ELSE session
    /\ IF Holds(d) THEN Become(d, "forgetting") ELSE Shut(d)
    /\ UNCHANGED <<scope, row, inbox, enabled, paused, local, proc, tick, sending,
                   paired, unlinked, spoke, turns, unanswered, muted>>

\* ... and in a transaction of its own the row moved to the next generation.
Forget(d) ==
    /\ devs[d].state = "forgetting"
    /\ row' = IF Holds(d) THEN [NoRow EXCEPT !.gen = row.gen + 1, !.fence = row.fence, !.retry = TRUE]
              ELSE row
    /\ Shut(d)
    /\ UNCHANGED <<scope, session, inbox, enabled, paused, local, proc, tick, sending,
                   paired, unlinked, spoke, turns, unanswered, muted>>

---------------------------------------------------------------------------
(* The tick of a process *)

Up(w) == proc[w] = "up"
At(w, pc) == tick[w].pc = pc
Goto(w, pc) == tick' = [tick EXCEPT ![w].pc = pc]
Idle(w) == tick' = [tick EXCEPT ![w] = NoTick]
Claimed(w) == Owned(w, tick[w].gen, tick[w].fence)

\* Of the row only what the tick decides by.
Read == [row EXCEPT !.status = NoRow.status, !.account = Nobody]

Snapshot(w) ==
    /\ Up(w) /\ At(w, "idle") /\ row.gen # 0
    /\ tick' = [tick EXCEPT ![w] = [NoTick EXCEPT !.pc = "looking", !.seen = Read]]
    /\ UNCHANGED <<scope, row, session, inbox, enabled, paused, devs, local, proc, sending,
                   paired, unlinked, spoke, turns, unanswered, muted>>

\* A plausible bug: a device of the same generation is kept.
LostUnfenced(w) == LET seen == tick[w].seen IN LET d == devs[local[w]] IN
    ~seen.desired \/ seen.owner # w \/ seen.lease = 0 \/ seen.gen # d.gen
\* What the row as it was read says of a device this process has.
Lost(w) == LET seen == tick[w].seen IN LET d == devs[local[w]] IN
    ~seen.desired \/ seen.owner # w \/ seen.lease = 0 \/ seen.gen # d.gen \/ seen.fence # d.fence
Wanted(w) == tick[w].seen.desired /\ ~tick[w].seen.retry
Onward(w) == tick' = [tick EXCEPT ![w] = IF Wanted(w) THEN [NoTick EXCEPT !.pc = "claiming"] ELSE NoTick]

\* A device that is no longer this process's leaves the map and is stopped.
Look(w) ==
    /\ At(w, "looking")
    /\ IF local[w] # 0 /\ Lost(w)
       THEN /\ tick' = [tick EXCEPT ![w].pc = "stopping",
                          ![w].logout = ~tick[w].seen.desired \/ tick[w].seen.gen # devs[local[w]].gen]
            /\ Become(local[w], IF Live(local[w]) THEN "closed" ELSE devs[local[w]].state)
            /\ Unsent({local[w]})
       ELSE Onward(w) /\ UNCHANGED <<devs, sending>>
    /\ UNCHANGED <<scope, row, session, inbox, enabled, paused, local, proc,
                   paired, unlinked, spoke,
                   turns, unanswered, muted>>

\* stop: emptied when it was given up, saved a last time otherwise, if the row is still its own.
Stop(w) == LET d == local[w] IN
    /\ At(w, "stopping")
    /\ session' = IF ~Holds(d) THEN session
                  ELSE IF tick[w].logout THEN NoSession
                  ELSE IF devs[d].pairing # 0 THEN Saved(d) ELSE session
    /\ local' = [local EXCEPT ![w] = 0]
    /\ Onward(w)
    /\ UNCHANGED <<scope, row, inbox, enabled, paused, devs, proc, sending,
                   paired, unlinked, spoke, turns, unanswered, muted>>

\* claimConnection: mine already, or its lease ran out.
Free(w) == row.desired /\ (row.owner = w \/ row.lease = 0)

\* A process without the device starts a new fence.
Claim(w) ==
    /\ At(w, "claiming")
    /\ IF ~Free(w) THEN Idle(w) /\ UNCHANGED row
       ELSE LET fence == IF local[w] = 0 THEN row.fence + 1 ELSE row.fence IN
            /\ row' = [row EXCEPT !.owner = w, !.lease = Lease, !.fence = fence,
                                  !.status = IF local[w] = 0 THEN "connecting" ELSE @]
            /\ tick' = [tick EXCEPT ![w] = [NoTick EXCEPT !.gen = row.gen, !.fence = fence,
                                      !.pc = IF local[w] = 0 THEN "opening" ELSE "listing"]]
    /\ UNCHANGED <<scope, session, inbox, enabled, paused, devs, local, proc, sending,
                   paired, unlinked, spoke, turns, unanswered, muted>>

\* open: the device starts from the session saved; one that cannot be loaded is given up.
Open(w) ==
    /\ At(w, "opening")
    /\ IF Claimed(w)
       THEN /\ devs' = Append(devs, [worker |-> w, gen |-> tick[w].gen, fence |-> tick[w].fence,
                                     pairing |-> session.pairing, moved |-> session.moved,
                                     stored |-> session.pairing # 0, missed |-> FALSE, state |-> "live"])
            /\ local' = [local EXCEPT ![w] = Len(devs) + 1]
       ELSE UNCHANGED <<devs, local>>
    /\ Goto(w, "listing")
    /\ UNCHANGED <<scope, row, session, inbox, enabled, paused, proc, sending,
                   paired, unlinked, spoke, turns, unanswered, muted>>

OpenFails(w) ==
    /\ At(w, "opening") /\ Claimed(w) /\ scope.drops
    /\ row' = [row EXCEPT !.desired = FALSE, !.status = "error"]
    /\ Goto(w, "listing")
    /\ UNCHANGED <<scope, session, inbox, enabled, paused, devs, local, proc, sending,
                   paired, unlinked, spoke, turns, unanswered, muted>>

Proceed(w, items) ==
    tick' = [tick EXCEPT ![w] = IF items = {} THEN NoTick
                                ELSE [@ EXCEPT !.pc = "checking", !.items = items, !.as = "pending"]]
Settling(w, as) == tick' = [tick EXCEPT ![w].pc = "settling", ![w].as = as]

\* listPendingInbox.
List(w) ==
    /\ At(w, "listing")
    /\ Proceed(w, Pending)
    /\ UNCHANGED <<scope, row, session, inbox, enabled, paused, devs, local, proc, sending,
                   paired, unlinked, spoke, turns, unanswered, muted>>

\* The item the tick is at: oldest first.
Current(w) == {i \in tick[w].items : \A j \in tick[w].items : i <= j}

\* A plausible bug: it is left for the generation it came in.
OtherGenerationWaits(w) == Idle(w)
\* A message of an earlier generation is discarded.
OtherGeneration(w) == Settling(w, "discarded")

\* Without the row the tick ends.
Check(w) == \E i \in Current(w) :
    /\ At(w, "checking")
    /\ IF ~Claimed(w) THEN Idle(w)
       ELSE IF inbox[i].gen # tick[w].gen THEN OtherGeneration(w)
       ELSE Goto(w, "receiving")
    /\ UNCHANGED <<scope, row, session, inbox, enabled, paused, devs, local, proc, sending,
                   paired, unlinked, spoke, turns, unanswered, muted>>

\* receiveLinked: of the generation the row has now, and of a channel that answers.
Receive(w) ==
    /\ At(w, "receiving")
    /\ IF ~row.desired \/ row.gen # tick[w].gen THEN Settling(w, "discarded")
       ELSE IF ~enabled THEN Settling(w, "submitted")
       ELSE tick' = [tick EXCEPT ![w].pc = "accepting", ![w].paused = paused]
    /\ UNCHANGED <<scope, row, session, inbox, enabled, paused, devs, local, proc, sending,
                   paired, unlinked, spoke, turns, unanswered, muted>>

\* The channel answers, and was not switched since it was read.
Same(w) == enabled /\ paused = tick[w].paused

\* The transaction of accept looks at the channel and the item again; what it does not take in is
\* done with.
Accept(w) == \E i \in Current(w) :
    /\ At(w, "accepting")
    /\ IF Same(w) /\ i \in Pending THEN Goto(w, "submitting") ELSE Settling(w, "submitted")
    /\ UNCHANGED <<scope, row, session, inbox, enabled, paused, devs, local, proc, sending,
                   paired, unlinked, spoke, turns, unanswered, muted>>

Made(i) == \E j \in DOMAIN turns : turns[j] = i
\* The request key admits one turn.
Turn(i) == turns' = IF Made(i) THEN turns ELSE Append(turns, i)

\* submit makes the turn, unless the channel was switched meanwhile, or refuses a message it can
\* never take.
Submit(w) == \E i \in Current(w) :
    /\ At(w, "submitting")
    /\ IF inbox[i].message \in scope.refused THEN Settling(w, "discarded") /\ UNCHANGED turns
       ELSE Settling(w, "submitted") /\ IF Same(w) THEN Turn(i) ELSE UNCHANGED turns
    /\ UNCHANGED <<scope, row, session, inbox, enabled, paused, devs, local, proc, sending,
                   paired, unlinked, spoke, unanswered, muted>>

\* NoModelAvailable: no model is set up, none can be picked, and the key has no turn yet.
NoModel(w) == \E i \in Current(w) :
    /\ At(w, "submitting") /\ scope.modelless
    /\ inbox[i].message \notin scope.refused /\ Same(w) /\ ~Made(i)
    /\ Goto(w, "withoutModel")
    /\ UNCHANGED <<scope, row, session, inbox, enabled, paused, devs, local, proc, sending,
                   paired, unlinked, spoke, turns, unanswered, muted>>

\* withoutModel: the message is kept for the owner, unless the channel was switched meanwhile, and
\* the item is done with, or it would hold back every message behind it until a model exists.
WithoutModel(w) == \E i \in Current(w) :
    /\ At(w, "withoutModel")
    /\ unanswered' = IF Same(w) THEN unanswered \cup {i} ELSE unanswered
    /\ Settling(w, "submitted")
    /\ UNCHANGED <<scope, row, session, inbox, enabled, paused, devs, local, proc, sending,
                   paired, unlinked, spoke, turns, muted>>

\* A plausible bug: the next message is tried while this one waits.
SkipBusy(w) == Proceed(w, tick[w].items \ Current(w))
\* A plausible bug: the message is crossed off whatever the error.
BusySettled(w) == Settling(w, "submitted")
\* Any other error ends the tick, and the message is first in line at the next one.
Busy(w) == Idle(w)

SubmitFails(w) ==
    /\ At(w, "submitting") \/ At(w, "withoutModel")
    /\ Busy(w)
    /\ UNCHANGED <<scope, row, session, inbox, enabled, paused, devs, local, proc, sending,
                   paired, unlinked, spoke, turns, unanswered, muted>>

\* The item is settled by the process that still holds the row.
Settle(w) == \E i \in Current(w) :
    /\ At(w, "settling")
    /\ IF Claimed(w)
       THEN /\ inbox' = [inbox EXCEPT ![i].status = tick[w].as]
            /\ Proceed(w, tick[w].items \ {i})
       ELSE Idle(w) /\ UNCHANGED inbox
    /\ UNCHANGED <<scope, row, session, enabled, paused, devs, local, proc, sending,
                   paired, unlinked, spoke, turns, unanswered, muted>>

---------------------------------------------------------------------------
(* Sending, time and the end of a process *)

\* A plausible bug: the lease only has to be running.
TimeToSendAny == row.lease > 0
\* Enough of the lease is left for the bounded attempt.
TimeToSend == row.lease > SendTime

\* canSend, before each part.
Send(w) == LET d == local[w] IN
    /\ scope.sends /\ d # 0 /\ Live(d) /\ sending[w] = NoSend
    /\ row.desired /\ row.status = "connected" /\ row.owner = w /\ TimeToSend
    /\ devs[d].gen = row.gen /\ devs[d].fence = row.fence
    /\ sending' = [sending EXCEPT ![w] = [dev |-> d, left |-> SendTime]]
    /\ UNCHANGED <<scope, row, session, inbox, enabled, paused, devs, local, proc, tick,
                   paired, unlinked, spoke, turns, unanswered, muted>>

Sent(w) ==
    /\ sending[w] # NoSend
    /\ sending' = [sending EXCEPT ![w] = NoSend]
    /\ UNCHANGED <<scope, row, session, inbox, enabled, paused, devs, local, proc, tick,
                   paired, unlinked, spoke, turns, unanswered, muted>>

Less(n) == IF n = 0 THEN 0 ELSE n - 1
Aged(r) == [r EXCEPT !.lease = Less(@), !.retry = FALSE]

\* The clock moves on, for the row and for what was read of it; no part is sent past its limit.
Pass ==
    /\ row.lease = 1 => Room
    /\ row # Aged(row) \/ \E w \in Workers : tick[w].seen # Aged(tick[w].seen)
    /\ \A w \in Workers : sending[w] # NoSend => sending[w].left > 0
    /\ row' = Aged(row)
    /\ tick' = [w \in Workers |-> [tick[w] EXCEPT !.seen = Aged(@)]]
    /\ sending' = [w \in Workers |-> [sending[w] EXCEPT !.left = Less(@)]]
    /\ UNCHANGED <<scope, session, inbox, enabled, paused, devs, local, proc,
                   paired, unlinked, spoke, turns, unanswered, muted>>

Mine(w) == {d \in DOMAIN devs : devs[d].worker = w}
CloseMine(w, state) ==
    /\ devs' = [d \in DOMAIN devs |-> IF d \in Mine(w) THEN [devs[d] EXCEPT !.state = state] ELSE devs[d]]
    /\ Unsent(Mine(w))
    /\ local' = [local EXCEPT ![w] = 0]

\* bound: one process is left.
Expendable(w) == scope.stops /\ Room /\ Up(w) /\ \E v \in Workers : v # w /\ Up(v)

\* The process dies; another one has another name.
Crash(w) ==
    /\ Expendable(w)
    /\ proc' = [proc EXCEPT ![w] = "gone"]
    /\ CloseMine(w, "gone") /\ Idle(w)
    /\ UNCHANGED <<scope, row, session, inbox, enabled, paused, paired, unlinked, spoke,
                   turns, unanswered, muted>>

\* stop: after the tick the devices are stopped, saved a last time, ...
Leave(w) == LET d == local[w] IN
    /\ Expendable(w) /\ At(w, "idle")
    /\ proc' = [proc EXCEPT ![w] = "leaving"]
    /\ session' = IF d # 0 /\ Holds(d) /\ devs[d].pairing # 0 THEN Saved(d) ELSE session
    /\ CloseMine(w, "closed")
    /\ UNCHANGED <<scope, row, inbox, enabled, paused, tick, paired, unlinked, spoke,
                   turns, unanswered, muted>>

\* ... and the row is released.
Release(w) ==
    /\ proc[w] = "leaving"
    /\ proc' = [proc EXCEPT ![w] = "gone"]
    /\ row' = IF row.owner # w THEN row
              ELSE [row EXCEPT !.owner = Nobody, !.lease = 0,
                               !.status = IF row.desired THEN "connecting" ELSE @]
    /\ CloseMine(w, "gone")
    /\ UNCHANGED <<scope, session, inbox, enabled, paused, tick,
                   paired, unlinked, spoke, turns, unanswered, muted>>

TickStep(w) ==
    \/ Snapshot(w) \/ Look(w) \/ Stop(w) \/ Claim(w) \/ Open(w) \/ OpenFails(w) \/ List(w)
    \/ Check(w) \/ Receive(w) \/ Accept(w) \/ Submit(w) \/ NoModel(w) \/ WithoutModel(w)
    \/ SubmitFails(w) \/ Settle(w)

Ending(d) == Dropped(d) \/ Clear(d) \/ Forget(d)
DeviceStep(d) ==
    \/ Pair(d) \/ MoveOn(d) \/ Save(d) \/ Ready(d) \/ Enqueue(d) \/ Close(d) \/ LogOut(d)
    \/ Ending(d)

Next ==
    \/ Connect \/ Disconnect \/ Switch \/ Pass
    \/ \E w \in Workers : TickStep(w) \/ Send(w) \/ Sent(w) \/ Crash(w) \/ Leave(w) \/ Release(w)
    \/ \E d \in DOMAIN devs : DeviceStep(d)

Spec == Init /\ [][Next]_vars

\* Processes tick and leave, the clock runs, a callback that began ends, and the agents are not
\* busy for ever.
Fairness ==
    /\ \A w \in Workers : WF_vars(TickStep(w)) /\ WF_vars(Release(w)) /\ WF_vars(Sent(w))
    /\ WF_vars(Pass) /\ WF_vars(\E d \in DOMAIN devs : Ending(d))
    /\ <>[][\A w \in Workers : ~SubmitFails(w)]_vars
LiveSpec == Spec /\ Fairness

---------------------------------------------------------------------------
\* A device of a pairing that was disconnected, or replaced, saves nothing: the session kept is of
\* the generation the row is in, except for one the phone itself ended, whose last save may land
\* between the two transactions that forget it.
SessionIsCurrent ==
    session.pairing # 0 /\ paired[session.pairing].gen # row.gen => session.pairing \in unlinked

\* The phone a conversation is answered from changes only with the generation, which the replies
\* already queued carry: "a different phone requires an explicit disconnect".
OneAccount == \A x, y \in spoke : x.gen = y.gen => x.account = y.account

\* While a part is being sent no other process has opened the device: the lease outlasts the part,
\* however the processes stall, and whoever gives the row up closes the device first.
SendsAlone == \A v, w \in Workers : sending[w] # NoSend /\ local[v] # 0 /\ v # w =>
    LET d == devs[sending[w].dev] IN LET e == devs[local[v]] IN
    ~(Live(local[v]) /\ e.gen = d.gen /\ e.fence > d.fence)

\* The keys of a saved pairing never go back: of two processes that had the device, the one that
\* lost it cannot overwrite what the other saved since, which would unpair the phone.
NeverGoBack == [][session'.pairing = session.pairing => session'.moved >= session.moved]_vars

\* What a phone says becomes turns in the order it came, although a process that lost the row in
\* the middle of its tick goes on with the message it had begun, but for one that another process
\* settled meanwhile for want of a model.
TurnsInOrder == \A j, k \in DOMAIN turns :
    j < k /\ inbox[turns[j]].gen = inbox[turns[k]].gen
    => turns[j] < turns[k] \/ turns[k] \in unanswered

\* No message is crossed off without a turn, unless it is kept in the conversation because there was
\* no model, or a pause or a resume put it aside.
NoneLost == \A i \in DOMAIN inbox :
    inbox[i].status = "submitted" => Made(i) \/ i \in unanswered \cup muted

\* One phone and one session to a generation, one sender at a time, and an inbox that
\* becomes turns in order and without loss.
LinkedDevicesSafety == TypeOK /\ SessionIsCurrent /\ OneAccount /\ SendsAlone /\ TurnsInOrder /\ NoneLost

\* While the phone is wanted, every message it received is settled.
Settles == \A m \in Messages :
    (\E i \in DOMAIN inbox : inbox[i].message = m /\ inbox[i].status = "pending")
      ~> (~row.desired \/ \A i \in DOMAIN inbox : inbox[i].message = m => inbox[i].status # "pending")

Serves(w) == local[w] # 0 /\ Live(local[w]) /\ Holds(local[w])
\* A process that keeps renewing its hold on a device that closed between its look and its claim.
Stuck(w) == local[w] # 0 /\ devs[local[w]].missed /\ Holds(local[w])

\* A phone that is wanted is held again, whatever dropped, stalled, stopped or died, but for a
\* process that read the row before its device dropped and claimed it after.
HeldAgain == []<>(~row.desired \/ \E w \in Workers : Serves(w) \/ Stuck(w))

\* A device that dropped gives its row up: no process goes on holding it.
NeverStuck == \A w \in Workers : []<>~Stuck(w)
=============================================================================
