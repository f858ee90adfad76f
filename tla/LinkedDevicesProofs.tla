--------------------------- MODULE LinkedDevicesProofs ---------------------------
(***************************************************************************)
(* Theorems about LinkedDevices for any number of processes, messages and   *)
(* pairings and every length of the lease: one phone and one session to a   *)
(* generation, one sender at a time, keys that never go back, and an inbox  *)
(* that becomes turns in order and without loss.                            *)
(***************************************************************************)
EXTENDS LinkedDevices, TLAPS

\* The row is still at the generation and the fence the device was opened under.
Cur(d) == row.gen = devs[d].gen /\ row.fence = devs[d].fence
Before(gen, fence) == gen < row.gen \/ (gen = row.gen /\ fence <= row.fence)
Ended == {"clearing", "forgetting"}

\* Where the map and the tick of a process stand.
InPlace == \A w \in Workers :
    /\ local[w] # 0 => devs[local[w]].worker = w
    /\ At(w, "opening") => local[w] = 0
    /\ At(w, "stopping") => local[w] # 0 /\ ~Live(local[w])
    /\ proc[w] # "up" => At(w, "idle")

\* A generation and a fence are one device's, or one tick's that has yet to open it.
Fenced ==
    /\ row.gen = 0 => ~row.desired /\ session = NoSession
    /\ \A d \in DOMAIN devs : Before(devs[d].gen, devs[d].fence)
    /\ \A d, e \in DOMAIN devs : devs[d].gen = devs[e].gen /\ devs[d].fence = devs[e].fence => d = e
    /\ \A w \in Workers : At(w, "opening") =>
         /\ Before(tick[w].gen, tick[w].fence)
         /\ \A d \in DOMAIN devs : ~(devs[d].gen = tick[w].gen /\ devs[d].fence = tick[w].fence)
         /\ \A v \in Workers :
              At(v, "opening") /\ tick[v].gen = tick[w].gen /\ tick[v].fence = tick[w].fence => v = w

\* What a device may save is of its generation, and no older than what is saved.
Kept ==
    /\ session.pairing = 0 => session.moved = 0
    /\ \A d \in DOMAIN devs :
         /\ devs[d].stored => devs[d].pairing # 0
         /\ devs[d].pairing # 0 => paired[devs[d].pairing].gen = devs[d].gen \/ devs[d].pairing \in unlinked
         /\ devs[d].state \in Ended => devs[d].pairing \in unlinked
         /\ Cur(d) /\ devs[d].state = "forgetting" => session.pairing = 0 \/ session.pairing \in unlinked
         /\ Cur(d) /\ session.pairing = devs[d].pairing => session.moved <= devs[d].moved

\* The row remembers who spoke in its generation.
Spoken == \A x \in spoke : x.gen <= row.gen /\ (x.gen = row.gen => row.account = x.account)

\* Who sends has the row for longer than the part takes, or its generation is over.
AloneAt(w) ==
    /\ sending[w].dev = local[w] /\ local[w] # 0 /\ Live(local[w])
    /\ row.gen = devs[local[w]].gen =>
         Cur(local[w]) /\ row.desired /\ row.owner = w /\ row.lease > sending[w].left
    /\ \A e \in DOMAIN devs : devs[e].gen = devs[local[w]].gen => devs[e].fence <= devs[local[w]].fence
Alone == \A w \in Workers : sending[w] # NoSend => AloneAt(w)

DInv == TypeOK /\ InPlace /\ Fenced /\ Kept /\ SessionIsCurrent /\ Spoken /\ OneAccount /\ Alone

Refused(i) == inbox[i].message \in scope.refused
Gone(i) == Made(i) \/ i \in unanswered \cup muted \/ Refused(i)
Taking == {"accepting", "submitting", "withoutModel"}
Taken == Taking \cup {"receiving"}

\* Why an item is crossed off.
CrossedOff ==
    /\ ~enabled => Pending = {}
    /\ muted \cap Pending = {}
    /\ \A i \in DOMAIN inbox :
         /\ inbox[i].gen <= row.gen
         /\ inbox[i].status = "discarded" => Refused(i) \/ i \in muted \/ inbox[i].gen < row.gen

\* No turn overtook an item before it.
InTurn == \A i, j \in DOMAIN inbox : Made(i) /\ j < i /\ inbox[j].gen = inbox[i].gen => Gone(j)

\* What the tick listed is still to do, unless it lost the row.
ListedAt(w) ==
    /\ tick[w].paused <= paused
    /\ \A i \in tick[w].items :
         /\ Claimed(w) => i \in Pending \/ i \in muted
         /\ \A j \in Pending : j < i => j \in tick[w].items

\* What a tick knows of the item it is at.
InHandAt(w, i) ==
    /\ tick[w].pc \in Taken => /\ inbox[i].gen = tick[w].gen
                               /\ \A j \in DOMAIN inbox : j < i /\ inbox[j].gen = tick[w].gen => Gone(j)
    /\ tick[w].pc \in Taking =>
         IF tick[w].paused = paused THEN enabled ELSE Claimed(w) => i \in muted
    /\ tick[w].pc \in {"submitting", "withoutModel"} /\ tick[w].paused = paused => i \notin muted
    /\ tick[w].pc = "settling" =>
         \/ ~Claimed(w)
         \/ tick[w].as = "submitted" /\ (Made(i) \/ i \in unanswered \cup muted)
         \/ tick[w].as = "discarded" /\ (Refused(i) \/ inbox[i].gen # tick[w].gen)

Known(w) == ListedAt(w) /\ \A i \in Current(w) : InHandAt(w, i)

Orderly == CrossedOff /\ InTurn /\ NoneLost /\ TurnsInOrder
XInv == Orderly /\ \A w \in Workers : Known(w)
LInv == DInv /\ XInv

---------------------------------------------------------------------------
(* What the operations write *)

TickIs(w, pc, gen, fence, items, switched, as) ==
    /\ tick' \in [Workers -> Ticks]
    /\ \A v \in Workers : v # w => tick'[v] = tick[v]
    /\ tick'[w].pc = pc /\ tick'[w].gen = gen /\ tick'[w].fence = fence
    /\ tick'[w].items = items /\ tick'[w].paused = switched /\ tick'[w].as = as
TickGoes(w, pc) == TickIs(w, pc, tick[w].gen, tick[w].fence, tick[w].items, tick[w].paused, tick[w].as)
TickRests(w, pc) == TickIs(w, pc, 0, 0, {}, 0, "pending")

DevIs(d, pairing, moved, state) ==
    /\ devs' \in Seq(Devices) /\ Len(devs') = Len(devs)
    /\ \A e \in DOMAIN devs : e # d => devs'[e] = devs[e]
    /\ devs'[d].worker = devs[d].worker /\ devs'[d].gen = devs[d].gen /\ devs'[d].fence = devs[d].fence
    /\ devs'[d].pairing = pairing /\ devs'[d].moved = moved /\ devs'[d].state = state
    /\ devs'[d].stored => devs[d].stored \/ pairing # 0
DevEnds(d, state) == DevIs(d, devs[d].pairing, devs[d].moved, state)

RowIs(desired, gen, fence, owner, lease, account) ==
    /\ row' \in Rows
    /\ row'.desired = desired /\ row'.gen = gen /\ row'.fence = fence
    /\ row'.owner = owner /\ row'.lease = lease /\ row'.account = account
GivenUp == RowIs(FALSE, row.gen, row.fence, row.owner, row.lease, row.account)

\* The parts of some devices are over.
Silent(D) ==
    /\ sending' \in [Workers -> Sends]
    /\ \A w \in Workers : sending'[w] = IF sending[w].dev \in D THEN NoSend ELSE sending[w]

Pcs == {"idle", "looking", "stopping", "claiming", "opening", "listing", "checking",
        "receiving", "accepting", "submitting", "withoutModel", "settling"}
States == {"live", "dropping", "clearing", "forgetting", "closed", "gone"}

LEMMA Constants == /\ Lease \in Nat /\ SendTime \in Nat /\ SendTime < Lease
                   /\ Nobody \notin Workers /\ Nobody \notin Accounts
BY LinkedDevicesAssumption

LEMMA Nothing == NoRow \in Rows /\ NoSession \in Sessions /\ NoTick \in Ticks /\ NoSend \in Sends
<1>1. NoRow \in Rows
  BY Constants DEF NoRow, Rows
<1> QED
  BY <1>1, Constants DEF NoSession, NoTick, NoSend, Sessions, Ticks, Sends

LEMMA GotoGoes ==
    ASSUME tick \in [Workers -> Ticks], NEW w \in Workers, NEW pc \in Pcs, Goto(w, pc)
    PROVE  TickGoes(w, pc)
<1> DEFINE r == [tick[w] EXCEPT !.pc = pc]
<1>1. r \in Ticks /\ r.pc = pc /\ r.gen = tick[w].gen /\ r.fence = tick[w].fence
      /\ r.items = tick[w].items /\ r.paused = tick[w].paused /\ r.as = tick[w].as
  BY DEF Ticks, Pcs
<1>2. tick' = [tick EXCEPT ![w] = r]
  BY DEF Goto
<1> QED
  BY <1>1, <1>2 DEF TickGoes, TickIs

LEMMA IdleRests ==
    ASSUME tick \in [Workers -> Ticks], NEW w \in Workers, Idle(w) PROVE TickRests(w, "idle")
BY Nothing DEF Idle, TickRests, TickIs, NoTick

LEMMA OnwardRests ==
    ASSUME tick \in [Workers -> Ticks], NEW w \in Workers, Onward(w)
    PROVE  TickRests(w, "claiming") \/ TickRests(w, "idle")
<1> DEFINE r == IF Wanted(w) THEN [NoTick EXCEPT !.pc = "claiming"] ELSE NoTick
<1>1. r \in Ticks /\ r.pc \in {"claiming", "idle"} /\ r.gen = 0 /\ r.fence = 0 /\ r.items = {}
      /\ r.paused = 0 /\ r.as = "pending"
  BY Nothing DEF NoTick, Ticks
<1>2. tick' = [tick EXCEPT ![w] = r]
  BY DEF Onward
<1> HIDE DEF r
<1> QED
  BY <1>1, <1>2 DEF TickRests, TickIs

LEMMA SettlingIs ==
    ASSUME tick \in [Workers -> Ticks], NEW w \in Workers, NEW as \in {"submitted", "discarded"},
           Settling(w, as)
    PROVE  TickIs(w, "settling", tick[w].gen, tick[w].fence, tick[w].items, tick[w].paused, as)
<1> DEFINE r == [tick[w] EXCEPT !.pc = "settling", !.as = as]
<1>1. r \in Ticks /\ r.pc = "settling" /\ r.gen = tick[w].gen /\ r.fence = tick[w].fence
      /\ r.items = tick[w].items /\ r.paused = tick[w].paused /\ r.as = as
  BY DEF Ticks
<1>2. tick' = [tick EXCEPT ![w] = r]
  BY DEF Settling
<1> HIDE DEF r
<1> QED
  BY <1>1, <1>2 DEF TickIs

LEMMA ProceedIs ==
    ASSUME tick \in [Workers -> Ticks], NEW w \in Workers, NEW items \in SUBSET Nat, Proceed(w, items)
    PROVE  \/ TickRests(w, "idle")
           \/ TickIs(w, "checking", tick[w].gen, tick[w].fence, items, tick[w].paused, "pending")
<1>1. CASE items = {}
  <2>1. Idle(w)
    BY <1>1 DEF Proceed, Idle
  <2> QED
    BY <2>1, IdleRests
<1>2. CASE items # {}
  <2> DEFINE r == [tick[w] EXCEPT !.pc = "checking", !.items = items, !.as = "pending"]
  <2>1. r \in Ticks /\ r.pc = "checking" /\ r.gen = tick[w].gen /\ r.fence = tick[w].fence
        /\ r.items = items /\ r.paused = tick[w].paused /\ r.as = "pending"
    BY DEF Ticks
  <2>2. tick' = [tick EXCEPT ![w] = r]
    BY <1>2 DEF Proceed
  <2> HIDE DEF r
  <2> QED
    BY <2>1, <2>2 DEF TickIs
<1> QED
  BY <1>1, <1>2

LEMMA BecomeEnds ==
    ASSUME devs \in Seq(Devices), NEW d \in DOMAIN devs, NEW state \in States, Become(d, state)
    PROVE  DevEnds(d, state)
<1> DEFINE r == [devs[d] EXCEPT !.state = state]
<1>0. devs[d] \in Devices
  OBVIOUS
<1>1. r \in Devices /\ r.worker = devs[d].worker /\ r.gen = devs[d].gen /\ r.fence = devs[d].fence
      /\ r.pairing = devs[d].pairing /\ r.moved = devs[d].moved /\ r.state = state
      /\ r.stored = devs[d].stored
  BY <1>0 DEF Devices, States
<1>2. devs' = [devs EXCEPT ![d] = r]
  BY DEF Become
<1> HIDE DEF r
<1> QED
  BY <1>1, <1>2 DEF DevEnds, DevIs

LEMMA ShutEnds ==
    ASSUME devs \in Seq(Devices), NEW d \in DOMAIN devs, Shut(d) PROVE DevEnds(d, "closed")
<1> DEFINE r == [devs[d] EXCEPT !.state = "closed", !.missed = Unseen(d)]
<1>1. Unseen(d) \in BOOLEAN /\ devs[d] \in Devices
  BY DEF Unseen
<1>2. r \in Devices /\ r.worker = devs[d].worker /\ r.gen = devs[d].gen /\ r.fence = devs[d].fence
      /\ r.pairing = devs[d].pairing /\ r.moved = devs[d].moved /\ r.state = "closed"
      /\ r.stored = devs[d].stored
  BY <1>1 DEF Devices
<1>3. devs' = [devs EXCEPT ![d] = r]
  BY DEF Shut
<1> HIDE DEF r
<1> QED
  BY <1>2, <1>3 DEF DevEnds, DevIs

LEMMA UnsentSilent ==
    ASSUME sending \in [Workers -> Sends], NEW D, Unsent(D) PROVE Silent(D)
BY Nothing DEF Unsent, Silent

LEMMA GivesUp ==
    ASSUME row \in Rows, row' = [row EXCEPT !.desired = FALSE, !.status = "error"] PROVE GivenUp
BY DEF GivenUp, RowIs, Rows

\* A device that failed gives the row up, if it still has it, and sends no more.
LEMMA FailedEnds ==
    ASSUME TypeOK, NEW d \in DOMAIN devs, Failed(d)
    PROVE  /\ row' = row \/ (Live(d) /\ Holds(d) /\ GivenUp)
           /\ devs' = devs \/ (Live(d) /\ DevEnds(d, "closed"))
           /\ Silent({d})
BY ShutEnds, UnsentSilent, GivesUp DEF Failed, TypeOK

MineEnd(w, state) ==
    /\ devs' \in Seq(Devices) /\ Len(devs') = Len(devs)
    /\ \A d \in DOMAIN devs :
         /\ devs'[d].worker = devs[d].worker /\ devs'[d].gen = devs[d].gen
         /\ devs'[d].fence = devs[d].fence /\ devs'[d].pairing = devs[d].pairing
         /\ devs'[d].moved = devs[d].moved /\ devs'[d].stored = devs[d].stored
         /\ devs'[d].state = IF devs[d].worker = w THEN state ELSE devs[d].state

LEMMA CloseMineEnds ==
    ASSUME devs \in Seq(Devices), sending \in [Workers -> Sends], NEW w \in Workers, NEW state \in States,
           CloseMine(w, state)
    PROVE  MineEnd(w, state) /\ Silent(Mine(w)) /\ local' = [local EXCEPT ![w] = 0]
<1> DEFINE r(d) == [devs[d] EXCEPT !.state = state]
<1>1. ASSUME NEW d \in DOMAIN devs
      PROVE  /\ r(d) \in Devices /\ r(d).worker = devs[d].worker /\ r(d).gen = devs[d].gen
             /\ r(d).fence = devs[d].fence /\ r(d).pairing = devs[d].pairing
             /\ r(d).moved = devs[d].moved /\ r(d).state = state /\ r(d).stored = devs[d].stored
  <2>1. devs[d] \in Devices
    OBVIOUS
  <2> QED
    BY <2>1 DEF Devices, States
<1>2. devs' = [d \in DOMAIN devs |-> IF devs[d].worker = w THEN r(d) ELSE devs[d]]
  BY DEF CloseMine, Mine
<1> HIDE DEF r
<1>3. \A d \in DOMAIN devs : devs'[d] = IF devs[d].worker = w THEN r(d) ELSE devs[d]
  BY <1>2
<1>4. devs' \in Seq(Devices) /\ Len(devs') = Len(devs)
  <2>1. DOMAIN devs = 1..Len(devs) /\ Len(devs) \in Nat
    OBVIOUS
  <2>2. \A d \in 1..Len(devs) : (IF devs[d].worker = w THEN r(d) ELSE devs[d]) \in Devices
    BY <2>1, <1>1
  <2> QED
    BY <2>1, <2>2, <1>2
<1>5. MineEnd(w, state)
  BY <1>1, <1>3, <1>4 DEF MineEnd
<1> QED
  BY <1>5, UnsentSilent DEF CloseMine

---------------------------------------------------------------------------
(* What each action does *)

LEMMA ConnectDoes ==
    ASSUME TypeOK, Connect
    PROVE  /\ ~row.desired
           /\ RowIs(TRUE, IF row.gen = 0 THEN 1 ELSE row.gen, row.fence + 1, Nobody, 0, row.account)
<1> DEFINE gen == IF row.gen = 0 THEN 1 ELSE row.gen
<1>1. gen \in Nat /\ row.fence + 1 \in Nat /\ row.account \in Accounts \cup {Nobody}
  BY DEF TypeOK, Rows
<1>2. row' = [desired |-> TRUE, gen |-> gen, fence |-> row.fence + 1, status |-> "connecting",
              owner |-> Nobody, lease |-> 0, retry |-> FALSE, account |-> row.account]
  BY DEF Connect, NoRow
<1> HIDE DEF gen
<1>3. RowIs(TRUE, gen, row.fence + 1, Nobody, 0, row.account)
  BY <1>1, <1>2, Constants DEF RowIs, Rows
<1> QED
  BY <1>3 DEF Connect, gen

LEMMA DisconnectDoes ==
    ASSUME TypeOK, Disconnect
    PROVE  RowIs(FALSE, row.gen + 1, 0, Nobody, 0, Nobody) /\ session' = NoSession
<1>1. row.gen + 1 \in Nat
  BY DEF TypeOK, Rows
<1>2. row' = [desired |-> FALSE, gen |-> row.gen + 1, fence |-> 0, status |-> "disconnected",
              owner |-> Nobody, lease |-> 0, retry |-> FALSE, account |-> Nobody]
  BY DEF Disconnect, NoRow
<1>3. RowIs(FALSE, row.gen + 1, 0, Nobody, 0, Nobody)
  BY <1>1, <1>2, Constants DEF RowIs, Rows
<1> QED
  BY <1>3 DEF Disconnect, Emptied

LEMMA ForgetDoes ==
    ASSUME TypeOK, NEW d \in DOMAIN devs, Forget(d)
    PROVE  /\ devs[d].state = "forgetting" /\ DevEnds(d, "closed")
           /\ IF Holds(d) THEN RowIs(FALSE, row.gen + 1, row.fence, Nobody, 0, Nobody) ELSE row' = row
<1>1. CASE Holds(d)
  <2>1. row.gen + 1 \in Nat /\ row.fence \in Nat
    BY DEF TypeOK, Rows
  <2>2. row' = [desired |-> FALSE, gen |-> row.gen + 1, fence |-> row.fence, status |-> "disconnected",
                owner |-> Nobody, lease |-> 0, retry |-> TRUE, account |-> Nobody]
    BY <1>1 DEF Forget, NoRow
  <2>3. RowIs(FALSE, row.gen + 1, row.fence, Nobody, 0, Nobody)
    BY <2>1, <2>2, Constants DEF RowIs, Rows
  <2> QED
    BY <1>1, <2>3, ShutEnds DEF Forget, TypeOK
<1>2. CASE ~Holds(d)
  BY <1>2, ShutEnds DEF Forget, TypeOK
<1> QED
  BY <1>1, <1>2

LEMMA DroppedDoes ==
    ASSUME TypeOK, NEW d \in DOMAIN devs, Dropped(d)
    PROVE  /\ devs[d].state = "dropping" /\ DevEnds(d, "closed")
           /\ IF Holds(d) THEN RowIs(row.desired, row.gen, row.fence, Nobody, 0, row.account)
              ELSE row' = row
<1>1. CASE Holds(d)
  <2>1. row.desired \in BOOLEAN /\ row.gen \in Nat /\ row.fence \in Nat /\ row.account \in Accounts \cup {Nobody}
    BY DEF TypeOK, Rows
  <2>2. row' = [desired |-> row.desired, gen |-> row.gen, fence |-> row.fence, status |-> "connecting",
                owner |-> Nobody, lease |-> 0, retry |-> TRUE, account |-> row.account]
    <3>1. row' = [row EXCEPT !.status = "connecting", !.owner = Nobody, !.lease = 0, !.retry = TRUE]
      BY <1>1 DEF Dropped
    <3> QED
      BY <3>1 DEF TypeOK, Rows
  <2>3. RowIs(row.desired, row.gen, row.fence, Nobody, 0, row.account)
    BY <2>1, <2>2, Constants DEF RowIs, Rows
  <2> QED
    BY <1>1, <2>3, ShutEnds DEF Dropped, TypeOK
<1>2. CASE ~Holds(d)
  BY <1>2, ShutEnds DEF Dropped, TypeOK
<1> QED
  BY <1>1, <1>2

LEMMA ReadyDoes ==
    ASSUME TypeOK, Kept, NEW d \in DOMAIN devs, Ready(d)
    PROVE  \/ \E account \in Accounts :
                /\ row.account \in {Nobody, account} /\ Holds(d)
                /\ RowIs(row.desired, row.gen, row.fence, row.owner, row.lease, account)
                /\ spoke' = spoke \cup {[gen |-> row.gen, account |-> account]}
                /\ UNCHANGED <<devs, sending>>
           \/ Failed(d) /\ UNCHANGED spoke
<1> DEFINE account == paired[devs[d].pairing].account
<1>1. CASE Holds(d) /\ Expected(account)
  <2>1. row' = [row EXCEPT !.status = "connected", !.account = account]
        /\ spoke' = spoke \cup {[gen |-> row.gen, account |-> account]} /\ UNCHANGED <<devs, sending>>
    BY <1>1 DEF Ready
  <2>2. devs[d].pairing \in Nat /\ devs[d].pairing # 0 /\ devs[d].pairing <= Len(paired)
    <3>1. devs[d] \in Devices
      BY DEF TypeOK
    <3> QED
      BY <3>1 DEF TypeOK, Kept, Ready, Devices
  <2>3. account \in Accounts
    <3>1. paired[devs[d].pairing] \in Pairings
      BY <2>2 DEF TypeOK
    <3> QED
      BY <3>1 DEF Pairings
  <2> HIDE DEF account
  <2>4. RowIs(row.desired, row.gen, row.fence, row.owner, row.lease, account)
    BY <2>1, <2>3 DEF TypeOK, Rows, RowIs
  <2> QED
    BY <1>1, <2>1, <2>3, <2>4 DEF Expected
<1>2. CASE ~(Holds(d) /\ Expected(account))
  BY <1>2 DEF Ready
<1> QED
  BY <1>1, <1>2

LEMMA PairDoes ==
    ASSUME TypeOK, NEW d \in DOMAIN devs, Pair(d)
    PROVE  \E a \in Accounts :
             /\ Live(d) /\ devs[d].pairing = 0
             /\ paired' = Append(paired, [account |-> a, gen |-> devs[d].gen])
             /\ DevIs(d, Len(paired) + 1, 1, "live")
<1>1. PICK a \in Accounts :
        /\ Live(d) /\ devs[d].pairing = 0
        /\ paired' = Append(paired, [account |-> a, gen |-> devs[d].gen])
        /\ devs' = [devs EXCEPT ![d].pairing = Len(paired) + 1, ![d].moved = 1]
  BY DEF Pair
<1> DEFINE r == [devs[d] EXCEPT !.pairing = Len(paired) + 1, !.moved = 1]
<1>2. devs[d] \in Devices /\ Len(paired) + 1 \in Nat /\ Len(paired) + 1 # 0 /\ devs \in Seq(Devices)
  BY DEF TypeOK
<1>3. r \in Devices /\ r.worker = devs[d].worker /\ r.gen = devs[d].gen /\ r.fence = devs[d].fence
      /\ r.pairing = Len(paired) + 1 /\ r.moved = 1 /\ r.state = devs[d].state
      /\ r.stored = devs[d].stored
  BY <1>2 DEF Devices
<1>4. devs' = [devs EXCEPT ![d] = r] /\ devs[d].state = "live"
  BY <1>1 DEF Live
<1> DEFINE p == Len(paired) + 1
<1> HIDE DEF r, p
<1>5. DevIs(d, p, 1, "live")
  BY <1>2, <1>3, <1>4 DEF DevIs, p
<1> QED
  BY <1>1, <1>5 DEF p

LEMMA MoveOnDoes ==
    ASSUME TypeOK, NEW d \in DOMAIN devs, MoveOn(d)
    PROVE  /\ Live(d) /\ devs[d].pairing # 0
           /\ DevIs(d, devs[d].pairing, devs[d].moved + 1, "live")
<1> DEFINE r == [devs[d] EXCEPT !.moved = @ + 1]
<1>2. devs[d] \in Devices
  BY DEF TypeOK
<1>3. r \in Devices /\ r.worker = devs[d].worker /\ r.gen = devs[d].gen /\ r.fence = devs[d].fence
      /\ r.pairing = devs[d].pairing /\ r.moved = devs[d].moved + 1 /\ r.state = devs[d].state
      /\ r.stored = devs[d].stored
  BY <1>2 DEF Devices
<1>4. devs' = [devs EXCEPT ![d] = r] /\ Live(d) /\ devs[d].pairing # 0
  BY DEF MoveOn
<1> HIDE DEF r
<1> QED
  BY <1>3, <1>4 DEF DevIs, TypeOK, Live

LEMMA SaveDoes ==
    ASSUME TypeOK, NEW d \in DOMAIN devs, Save(d)
    PROVE  \/ /\ Holds(d) /\ devs[d].pairing # 0 /\ session' = Saved(d)
              /\ DevEnds(d, devs[d].state) /\ UNCHANGED <<row, sending>>
           \/ Failed(d) /\ UNCHANGED session
<1>1. CASE Holds(d)
  <2> DEFINE r == [devs[d] EXCEPT !.stored = TRUE]
  <2>2. devs[d] \in Devices
    BY DEF TypeOK
  <2>3. r \in Devices /\ r.worker = devs[d].worker /\ r.gen = devs[d].gen /\ r.fence = devs[d].fence
        /\ r.pairing = devs[d].pairing /\ r.moved = devs[d].moved /\ r.state = devs[d].state
        /\ r.stored = TRUE
    BY <2>2 DEF Devices
  <2>4. devs' = [devs EXCEPT ![d] = r] /\ session' = Saved(d) /\ devs[d].pairing # 0 /\ UNCHANGED <<row, sending>>
    BY <1>1 DEF Save
  <2> HIDE DEF r
  <2>5. DevEnds(d, devs[d].state)
    BY <2>3, <2>4 DEF DevEnds, DevIs, TypeOK
  <2> QED
    BY <1>1, <2>4, <2>5
<1>2. CASE ~Holds(d)
  BY <1>2 DEF Save
<1> QED
  BY <1>1, <1>2

LEMMA CloseDoes ==
    ASSUME TypeOK, NEW d \in DOMAIN devs, Close(d)
    PROVE  /\ Live(d) /\ DevEnds(d, "dropping") /\ Silent({d})
           /\ session' = IF Holds(d) /\ devs[d].pairing # 0 THEN Saved(d) ELSE session
BY BecomeEnds, UnsentSilent DEF Close, TypeOK, States

LEMMA LogOutDoes ==
    ASSUME TypeOK, NEW d \in DOMAIN devs, LogOut(d)
    PROVE  /\ Live(d) /\ DevEnds(d, "clearing") /\ Silent({d})
           /\ devs[d].pairing # 0 /\ unlinked' = unlinked \cup {devs[d].pairing}
BY BecomeEnds, UnsentSilent DEF LogOut, TypeOK, States

LEMMA ClearDoes ==
    ASSUME TypeOK, NEW d \in DOMAIN devs, Clear(d)
    PROVE  /\ devs[d].state = "clearing"
           /\ IF Holds(d) THEN session' = NoSession /\ DevEnds(d, "forgetting")
              ELSE session' = session /\ DevEnds(d, "closed")
BY BecomeEnds, ShutEnds DEF Clear, TypeOK, States

LEMMA SnapshotDoes ==
    ASSUME TypeOK, NEW w \in Workers, Snapshot(w)
    PROVE  Up(w) /\ At(w, "idle") /\ TickRests(w, "looking")
<1> DEFINE seen == Read
<1>1. seen \in Rows
  <2>1. row \in Rows
    BY DEF TypeOK
  <2> QED
    BY <2>1 DEF Read, Rows, NoRow
<1> HIDE DEF seen
<1> DEFINE r == [NoTick EXCEPT !.pc = "looking", !.seen = seen]
<1>2. r \in Ticks /\ r.pc = "looking" /\ r.gen = 0 /\ r.fence = 0 /\ r.items = {} /\ r.paused = 0
      /\ r.as = "pending"
  BY <1>1, Nothing DEF NoTick, Ticks
<1>3. tick' = [tick EXCEPT ![w] = r]
  BY DEF Snapshot, seen
<1> HIDE DEF r
<1>4. TickRests(w, "looking")
  BY <1>2, <1>3 DEF TickRests, TickIs, TypeOK
<1> QED
  BY <1>4 DEF Snapshot

LEMMA LookDoes ==
    ASSUME TypeOK, NEW w \in Workers, Look(w)
    PROVE  /\ At(w, "looking")
           /\ \/ /\ local[w] # 0 /\ TickGoes(w, "stopping") /\ Silent({local[w]})
                 /\ DevEnds(local[w], IF Live(local[w]) THEN "closed" ELSE devs[local[w]].state)
              \/ /\ TickRests(w, "claiming") \/ TickRests(w, "idle")
                 /\ UNCHANGED <<devs, sending>>
<1>1. CASE local[w] # 0 /\ Lost(w)
  <2> DEFINE logout == ~tick[w].seen.desired \/ tick[w].seen.gen # devs[local[w]].gen
             r == [tick[w] EXCEPT !.pc = "stopping", !.logout = logout]
             state == IF Live(local[w]) THEN "closed" ELSE devs[local[w]].state
  <2>1. logout \in BOOLEAN
    OBVIOUS
  <2>2. tick' = [tick EXCEPT ![w] = r] /\ Become(local[w], state) /\ Unsent({local[w]})
    BY <1>1 DEF Look
  <2>3. local[w] \in DOMAIN devs
    BY <1>1 DEF TypeOK
  <2>4. state \in States
    <3>1. devs[local[w]] \in Devices
      BY <2>3 DEF TypeOK
    <3> QED
      BY <3>1 DEF Devices, States
  <2> HIDE DEF logout, state
  <2>5. r \in Ticks /\ r.pc = "stopping" /\ r.gen = tick[w].gen /\ r.fence = tick[w].fence
        /\ r.items = tick[w].items /\ r.paused = tick[w].paused /\ r.as = tick[w].as
    BY <2>1, ZenonT(30) DEF TypeOK, Ticks
  <2> HIDE DEF r
  <2>6. TickGoes(w, "stopping")
    BY <2>2, <2>5 DEF TickGoes, TickIs, TypeOK
  <2>7. DevEnds(local[w], state) /\ Silent({local[w]})
    BY <2>2, <2>3, <2>4, BecomeEnds, UnsentSilent DEF TypeOK
  <2> QED
    BY <1>1, <2>6, <2>7 DEF Look, state
<1>2. CASE ~(local[w] # 0 /\ Lost(w))
  <2>1. Onward(w) /\ UNCHANGED <<devs, sending>> /\ At(w, "looking")
    BY <1>2 DEF Look
  <2> QED
    BY <2>1, OnwardRests DEF TypeOK
<1> QED
  BY <1>1, <1>2

LEMMA StopDoes ==
    ASSUME TypeOK, NEW w \in Workers, Stop(w)
    PROVE  /\ At(w, "stopping") /\ local' = [local EXCEPT ![w] = 0]
           /\ TickRests(w, "claiming") \/ TickRests(w, "idle")
           /\ session' \in {session, NoSession}
                \/ (Holds(local[w]) /\ devs[local[w]].pairing # 0 /\ session' = Saved(local[w]))
BY OnwardRests DEF Stop, TypeOK

LEMMA ClaimDoes ==
    ASSUME TypeOK, NEW w \in Workers, Claim(w)
    PROVE  /\ At(w, "claiming")
           /\ \/ TickRests(w, "idle") /\ UNCHANGED row
              \/ /\ Free(w) /\ row.desired /\ local[w] = 0
                 /\ RowIs(TRUE, row.gen, row.fence + 1, w, Lease, row.account)
                 /\ TickIs(w, "opening", row.gen, row.fence + 1, {}, 0, "pending")
              \/ /\ Free(w) /\ row.desired /\ local[w] # 0
                 /\ RowIs(TRUE, row.gen, row.fence, w, Lease, row.account)
                 /\ TickIs(w, "listing", row.gen, row.fence, {}, 0, "pending")
<1> DEFINE fence == IF local[w] = 0 THEN row.fence + 1 ELSE row.fence
           pc == IF local[w] = 0 THEN "opening" ELSE "listing"
           status == IF local[w] = 0 THEN "connecting" ELSE row.status
           r == [row EXCEPT !.owner = w, !.lease = Lease, !.fence = fence, !.status = status]
           t == [NoTick EXCEPT !.gen = row.gen, !.fence = fence, !.pc = pc]
<1>1. CASE ~Free(w)
  BY <1>1, IdleRests DEF Claim, TypeOK
<1>2. CASE Free(w)
  <2>1. row' = r /\ tick' = [tick EXCEPT ![w] = t] /\ At(w, "claiming") /\ row.desired
    BY <1>2 DEF Claim, Free
  <2>2. /\ row.fence \in Nat /\ row.gen \in Nat /\ fence \in Nat
        /\ status \in {"disconnected", "connecting", "connected", "error"}
        /\ row \in Rows /\ pc \in {"opening", "listing"} /\ Lease \in 0..Lease
    BY Constants DEF TypeOK, Rows
  <2>3. CASE local[w] = 0
    <3>1. fence = row.fence + 1 /\ pc = "opening"
      BY <2>3
    <3> HIDE DEF fence, pc, status
    <3>2. RowIs(TRUE, row.gen, fence, w, Lease, row.account)
      BY <2>1, <2>2 DEF RowIs, Rows
    <3>3. t \in Ticks /\ t.pc = pc /\ t.gen = row.gen /\ t.fence = fence /\ t.items = {}
          /\ t.paused = 0 /\ t.as = "pending"
      BY <2>2, Nothing DEF NoTick, Ticks
    <3> HIDE DEF t
    <3>4. TickIs(w, pc, row.gen, fence, {}, 0, "pending")
      BY <2>1, <3>3 DEF TickIs, TypeOK
    <3> QED
      BY <1>2, <2>1, <2>3, <3>1, <3>2, <3>4
  <2>4. CASE local[w] # 0
    <3>1. fence = row.fence /\ pc = "listing"
      BY <2>4
    <3> HIDE DEF fence, pc, status
    <3>2. RowIs(TRUE, row.gen, fence, w, Lease, row.account)
      BY <2>1, <2>2 DEF RowIs, Rows
    <3>3. t \in Ticks /\ t.pc = pc /\ t.gen = row.gen /\ t.fence = fence /\ t.items = {}
          /\ t.paused = 0 /\ t.as = "pending"
      BY <2>2, Nothing DEF NoTick, Ticks
    <3> HIDE DEF t
    <3>4. TickIs(w, pc, row.gen, fence, {}, 0, "pending")
      BY <2>1, <3>3 DEF TickIs, TypeOK
    <3> QED
      BY <1>2, <2>1, <2>4, <3>1, <3>2, <3>4
  <2> QED
    BY <2>3, <2>4
<1> QED
  BY <1>1, <1>2

\* A device that was opened starts from the session saved.
Opened(w) ==
    LET d == Len(devs) + 1 IN
    /\ devs' \in Seq(Devices) /\ Len(devs') = d
    /\ \A e \in DOMAIN devs : devs'[e] = devs[e]
    /\ devs'[d].worker = w /\ devs'[d].gen = tick[w].gen /\ devs'[d].fence = tick[w].fence
    /\ devs'[d].pairing = session.pairing /\ devs'[d].moved = session.moved
    /\ devs'[d].stored = (session.pairing # 0) /\ devs'[d].state = "live"
    /\ local' = [local EXCEPT ![w] = d]

LEMMA OpenDoes ==
    ASSUME TypeOK, NEW w \in Workers, Open(w)
    PROVE  /\ At(w, "opening") /\ TickGoes(w, "listing")
           /\ (Claimed(w) /\ Opened(w)) \/ UNCHANGED <<devs, local>>
<1>1. At(w, "opening") /\ TickGoes(w, "listing")
  BY GotoGoes DEF Open, TypeOK, Pcs
<1>2. CASE Claimed(w)
  <2> DEFINE stored == session.pairing # 0
             r == [worker |-> w, gen |-> tick[w].gen, fence |-> tick[w].fence,
                   pairing |-> session.pairing, moved |-> session.moved,
                   stored |-> stored, missed |-> FALSE, state |-> "live"]
  <2>1. devs' = Append(devs, r) /\ local' = [local EXCEPT ![w] = Len(devs) + 1]
    BY <1>2 DEF Open
  <2>2. stored \in BOOLEAN /\ tick[w].gen \in Nat /\ tick[w].fence \in Nat /\ session.pairing \in Nat
        /\ session.moved \in Nat
    BY DEF TypeOK, Ticks, Sessions
  <2> HIDE DEF stored
  <2>3. r \in Devices
    BY <2>2 DEF Devices
  <2>4. r.worker = w /\ r.gen = tick[w].gen /\ r.fence = tick[w].fence /\ r.pairing = session.pairing
        /\ r.moved = session.moved /\ r.stored = stored /\ r.state = "live"
    OBVIOUS
  <2> HIDE DEF r
  <2>5. Opened(w)
    BY <2>1, <2>3, <2>4 DEF Opened, TypeOK, stored
  <2> QED
    BY <1>1, <1>2, <2>5
<1>3. CASE ~Claimed(w)
  BY <1>1, <1>3 DEF Open
<1> QED
  BY <1>2, <1>3

LEMMA OpenFailsDoes ==
    ASSUME TypeOK, NEW w \in Workers, OpenFails(w)
    PROVE  At(w, "opening") /\ Claimed(w) /\ TickGoes(w, "listing") /\ GivenUp
BY GotoGoes, GivesUp DEF OpenFails, TypeOK, Pcs

LEMMA ListDoes ==
    ASSUME TypeOK, NEW w \in Workers, List(w)
    PROVE  /\ At(w, "listing")
           /\ \/ TickRests(w, "idle")
              \/ TickIs(w, "checking", tick[w].gen, tick[w].fence, Pending, tick[w].paused, "pending")
<1>1. Pending \in SUBSET Nat
  BY DEF Pending, TypeOK
<1> QED
  BY <1>1, ProceedIs DEF List, TypeOK

LEMMA CheckDoes ==
    ASSUME TypeOK, NEW w \in Workers, Check(w)
    PROVE  \E i \in Current(w) :
             /\ At(w, "checking")
             /\ \/ TickRests(w, "idle")
                \/ /\ inbox[i].gen # tick[w].gen
                   /\ TickIs(w, "settling", tick[w].gen, tick[w].fence, tick[w].items, tick[w].paused, "discarded")
                \/ Claimed(w) /\ inbox[i].gen = tick[w].gen /\ TickGoes(w, "receiving")
BY GotoGoes, SettlingIs, IdleRests DEF Check, TypeOK, Pcs, OtherGeneration

LEMMA ReceiveDoes ==
    ASSUME TypeOK, NEW w \in Workers, Receive(w)
    PROVE  /\ At(w, "receiving")
           /\ \/ /\ ~row.desired \/ row.gen # tick[w].gen
                 /\ TickIs(w, "settling", tick[w].gen, tick[w].fence, tick[w].items, tick[w].paused, "discarded")
              \/ /\ ~enabled
                 /\ TickIs(w, "settling", tick[w].gen, tick[w].fence, tick[w].items, tick[w].paused, "submitted")
              \/ /\ enabled
                 /\ TickIs(w, "accepting", tick[w].gen, tick[w].fence, tick[w].items, paused, tick[w].as)
<1>1. CASE ~row.desired \/ row.gen # tick[w].gen
  BY <1>1, SettlingIs DEF Receive, TypeOK
<1>2. CASE ~(~row.desired \/ row.gen # tick[w].gen) /\ ~enabled
  BY <1>2, SettlingIs DEF Receive, TypeOK
<1>3. CASE ~(~row.desired \/ row.gen # tick[w].gen) /\ enabled
  <2> DEFINE r == [tick[w] EXCEPT !.pc = "accepting", !.paused = paused]
  <2>1. tick[w] \in Ticks /\ paused \in Nat
    BY DEF TypeOK
  <2>2. r \in Ticks /\ r.pc = "accepting" /\ r.gen = tick[w].gen /\ r.fence = tick[w].fence
        /\ r.items = tick[w].items /\ r.paused = paused /\ r.as = tick[w].as
    BY <2>1 DEF Ticks
  <2>3. tick' = [tick EXCEPT ![w] = r] /\ At(w, "receiving")
    BY <1>3 DEF Receive
  <2> HIDE DEF r
  <2>4. TickIs(w, "accepting", tick[w].gen, tick[w].fence, tick[w].items, paused, tick[w].as)
    BY <2>2, <2>3 DEF TickIs, TypeOK
  <2> QED
    BY <1>3, <2>3, <2>4
<1> QED
  BY <1>1, <1>2, <1>3

LEMMA AcceptDoes ==
    ASSUME TypeOK, NEW w \in Workers, Accept(w)
    PROVE  \E i \in Current(w) :
             /\ At(w, "accepting")
             /\ \/ Same(w) /\ i \in Pending /\ TickGoes(w, "submitting")
                \/ /\ ~(Same(w) /\ i \in Pending)
                   /\ TickIs(w, "settling", tick[w].gen, tick[w].fence, tick[w].items, tick[w].paused, "submitted")
BY GotoGoes, SettlingIs DEF Accept, TypeOK, Pcs

LEMMA SubmitDoes ==
    ASSUME TypeOK, NEW w \in Workers, Submit(w)
    PROVE  \E i \in Current(w) :
             /\ At(w, "submitting")
             /\ \/ /\ Refused(i) /\ UNCHANGED turns
                   /\ TickIs(w, "settling", tick[w].gen, tick[w].fence, tick[w].items, tick[w].paused, "discarded")
                \/ /\ ~Refused(i) /\ Same(w) /\ Turn(i)
                   /\ TickIs(w, "settling", tick[w].gen, tick[w].fence, tick[w].items, tick[w].paused, "submitted")
                \/ /\ ~Same(w) /\ UNCHANGED turns
                   /\ TickIs(w, "settling", tick[w].gen, tick[w].fence, tick[w].items, tick[w].paused, "submitted")
BY SettlingIs DEF Submit, TypeOK, Refused

LEMMA NoModelDoes ==
    ASSUME TypeOK, NEW w \in Workers, NoModel(w)
    PROVE  \E i \in Current(w) :
             /\ At(w, "submitting") /\ ~Refused(i) /\ Same(w)
             /\ TickGoes(w, "withoutModel")
BY GotoGoes DEF NoModel, TypeOK, Pcs, Refused

LEMMA WithoutModelDoes ==
    ASSUME TypeOK, NEW w \in Workers, WithoutModel(w)
    PROVE  \E i \in Current(w) :
             /\ At(w, "withoutModel")
             /\ unanswered' = IF Same(w) THEN unanswered \cup {i} ELSE unanswered
             /\ TickIs(w, "settling", tick[w].gen, tick[w].fence, tick[w].items, tick[w].paused, "submitted")
BY SettlingIs DEF WithoutModel, TypeOK

LEMMA SubmitFailsDoes ==
    ASSUME TypeOK, NEW w \in Workers, SubmitFails(w)
    PROVE  (At(w, "submitting") \/ At(w, "withoutModel")) /\ TickRests(w, "idle")
BY IdleRests DEF SubmitFails, Busy, TypeOK

LEMMA SettleDoes ==
    ASSUME TypeOK, NEW w \in Workers, Settle(w)
    PROVE  /\ At(w, "settling")
           /\ \/ TickRests(w, "idle") /\ UNCHANGED inbox
              \/ \E i \in Current(w) :
                   /\ Claimed(w)
                   /\ inbox' = [inbox EXCEPT ![i].status = tick[w].as]
                   /\ \/ TickRests(w, "idle")
                      \/ TickIs(w, "checking", tick[w].gen, tick[w].fence, tick[w].items \ {i}, tick[w].paused, "pending")
<1>1. PICK i \in Current(w) :
        /\ At(w, "settling")
        /\ IF Claimed(w)
           THEN /\ inbox' = [inbox EXCEPT ![i].status = tick[w].as]
                /\ Proceed(w, tick[w].items \ {i})
           ELSE Idle(w) /\ UNCHANGED inbox
  BY DEF Settle
<1>2. tick \in [Workers -> Ticks] /\ tick[w].items \ {i} \in SUBSET Nat
  BY DEF TypeOK, Ticks
<1> QED
  BY <1>1, <1>2, ProceedIs, IdleRests

LEMMA SendDoes ==
    ASSUME TypeOK, NEW w \in Workers, Send(w)
    PROVE  /\ local[w] # 0 /\ Live(local[w]) /\ Cur(local[w])
           /\ row.desired /\ row.owner = w /\ row.lease > SendTime
           /\ sending' = [sending EXCEPT ![w] = [dev |-> local[w], left |-> SendTime]]
BY DEF Send, TimeToSend, Cur

\* The clock moves on for everything at once.
LEMMA PassDoes ==
    ASSUME TypeOK, Pass
    PROVE  /\ RowIs(row.desired, row.gen, row.fence, row.owner, Less(row.lease), row.account)
           /\ tick' \in [Workers -> Ticks]
           /\ \A w \in Workers :
                /\ tick'[w].pc = tick[w].pc /\ tick'[w].gen = tick[w].gen /\ tick'[w].fence = tick[w].fence
                /\ tick'[w].items = tick[w].items /\ tick'[w].paused = tick[w].paused
                /\ tick'[w].as = tick[w].as
           /\ sending' \in [Workers -> Sends]
           /\ \A w \in Workers : /\ sending[w] # NoSend => sending[w].left > 0
                                 /\ sending'[w].dev = sending[w].dev
                                 /\ sending'[w].left = Less(sending[w].left)
                                 /\ sending[w] = NoSend => sending'[w] = NoSend
<1>1. ASSUME NEW r \in Rows
      PROVE  /\ Aged(r) \in Rows /\ Aged(r).desired = r.desired /\ Aged(r).gen = r.gen
             /\ Aged(r).fence = r.fence /\ Aged(r).owner = r.owner /\ Aged(r).lease = Less(r.lease)
             /\ Aged(r).account = r.account
  <2>1. Less(r.lease) \in 0..Lease
    BY Constants DEF Rows, Less
  <2> DEFINE l == Less(r.lease)
  <2>2. Aged(r) = [r EXCEPT !.lease = l, !.retry = FALSE]
    BY DEF Aged
  <2> HIDE DEF l
  <2>3. l \in 0..Lease
    BY <2>1 DEF l
  <2> QED
    BY <2>2, <2>3 DEF Rows, l
<1>2. RowIs(row.desired, row.gen, row.fence, row.owner, Less(row.lease), row.account)
  BY <1>1 DEF Pass, TypeOK, RowIs
<1> DEFINE t(w) == [tick[w] EXCEPT !.seen = Aged(@)]
<1>3. ASSUME NEW w \in Workers
      PROVE  /\ t(w) \in Ticks /\ t(w).pc = tick[w].pc /\ t(w).gen = tick[w].gen /\ t(w).fence = tick[w].fence
             /\ t(w).items = tick[w].items /\ t(w).paused = tick[w].paused /\ t(w).as = tick[w].as
  <2>1. tick[w] \in Ticks
    BY DEF TypeOK
  <2>2. Aged(tick[w].seen) \in Rows
    BY <2>1, <1>1 DEF Ticks
  <2> QED
    BY <2>1, <2>2 DEF Ticks
<1>4. tick' = [w \in Workers |-> t(w)]
  BY DEF Pass
<1> HIDE DEF t
<1> DEFINE s(w) == [sending[w] EXCEPT !.left = Less(@)]
<1>5. ASSUME NEW w \in Workers
      PROVE  /\ s(w) \in Sends /\ s(w).dev = sending[w].dev /\ s(w).left = Less(sending[w].left)
             /\ sending[w] = NoSend => s(w) = NoSend
  <2>1. sending[w] \in Sends
    BY DEF TypeOK
  <2>2. Less(sending[w].left) \in 0..SendTime
    BY <2>1, Constants DEF Sends, Less
  <2> QED
    BY <2>1, <2>2 DEF Sends, NoSend, Less
<1>6. sending' = [w \in Workers |-> s(w)]
      /\ \A w \in Workers : sending[w] # NoSend => sending[w].left > 0
  BY DEF Pass
<1> HIDE DEF s
<1> QED
  BY <1>2, <1>3, <1>4, <1>5, <1>6

LEMMA CrashDoes ==
    ASSUME TypeOK, NEW w \in Workers, Crash(w)
    PROVE  /\ proc' = [proc EXCEPT ![w] = "gone"] /\ TickRests(w, "idle")
           /\ MineEnd(w, "gone") /\ Silent(Mine(w)) /\ local' = [local EXCEPT ![w] = 0]
BY CloseMineEnds, IdleRests DEF Crash, TypeOK, States

LEMMA LeaveDoes ==
    ASSUME TypeOK, NEW w \in Workers, Leave(w)
    PROVE  /\ At(w, "idle") /\ proc' = [proc EXCEPT ![w] = "leaving"]
           /\ session' = session \/ (/\ local[w] # 0 /\ Holds(local[w]) /\ devs[local[w]].pairing # 0
                                     /\ session' = Saved(local[w]))
           /\ MineEnd(w, "closed") /\ Silent(Mine(w)) /\ local' = [local EXCEPT ![w] = 0]
BY CloseMineEnds DEF Leave, TypeOK, States

LEMMA ReleaseDoes ==
    ASSUME TypeOK, NEW w \in Workers, Release(w)
    PROVE  /\ proc[w] = "leaving" /\ proc' = [proc EXCEPT ![w] = "gone"]
           /\ \/ row.owner # w /\ row' = row
              \/ row.owner = w /\ RowIs(row.desired, row.gen, row.fence, Nobody, 0, row.account)
           /\ MineEnd(w, "gone") /\ Silent(Mine(w)) /\ local' = [local EXCEPT ![w] = 0]
<1>1. CASE row.owner # w
  BY <1>1, CloseMineEnds DEF Release, TypeOK, States
<1>2. CASE row.owner = w
  <2> DEFINE status == IF row.desired THEN "connecting" ELSE row.status
  <2>1. status \in {"disconnected", "connecting", "connected", "error"} /\ row.desired \in BOOLEAN
        /\ row.gen \in Nat /\ row.fence \in Nat /\ row.account \in Accounts \cup {Nobody}
        /\ row.retry \in BOOLEAN
    BY DEF TypeOK, Rows
  <2>2. row' = [desired |-> row.desired, gen |-> row.gen, fence |-> row.fence, status |-> status,
                owner |-> Nobody, lease |-> 0, retry |-> row.retry, account |-> row.account]
    <3>1. row' = [row EXCEPT !.owner = Nobody, !.lease = 0, !.status = status]
      BY <1>2 DEF Release
    <3> HIDE DEF status
    <3> QED
      BY <3>1 DEF TypeOK, Rows
  <2> HIDE DEF status
  <2>3. RowIs(row.desired, row.gen, row.fence, Nobody, 0, row.account)
    BY <2>1, <2>2, Constants DEF RowIs, Rows
  <2> QED
    BY <1>2, <2>3, CloseMineEnds DEF Release, TypeOK, States
<1> QED
  BY <1>1, <1>2

LEMMA SwitchDoes ==
    ASSUME TypeOK, Switch
    PROVE  /\ enabled' = ~enabled /\ paused' = paused + 1 /\ muted' = muted \cup Pending
           /\ inbox' \in Seq(Items) /\ Len(inbox') = Len(inbox)
           /\ \A i \in DOMAIN inbox :
                /\ inbox'[i].message = inbox[i].message /\ inbox'[i].gen = inbox[i].gen
                /\ inbox'[i].status = IF i \in Pending THEN "discarded" ELSE inbox[i].status
<1> DEFINE r(i) == IF i \in Pending THEN [inbox[i] EXCEPT !.status = "discarded"] ELSE inbox[i]
<1>1. ASSUME NEW i \in DOMAIN inbox
      PROVE  /\ r(i) \in Items /\ r(i).message = inbox[i].message /\ r(i).gen = inbox[i].gen
             /\ r(i).status = IF i \in Pending THEN "discarded" ELSE inbox[i].status
  <2>1. inbox[i] \in Items
    BY DEF TypeOK
  <2> QED
    BY <2>1 DEF Items
<1>2. inbox' = [i \in DOMAIN inbox |-> r(i)]
  BY DEF Switch, DiscardInbox
<1> HIDE DEF r
<1>3. inbox' \in Seq(Items) /\ Len(inbox') = Len(inbox)
  <2>1. DOMAIN inbox = 1..Len(inbox) /\ Len(inbox) \in Nat
    BY DEF TypeOK
  <2> QED
    BY <2>1, <1>1, <1>2
<1> QED
  BY <1>1, <1>2, <1>3 DEF Switch, DiscardInbox

LEMMA EnqueueDoes ==
    ASSUME TypeOK, NEW d \in DOMAIN devs, Enqueue(d)
    PROVE  \/ UNCHANGED <<row, devs, sending, inbox, muted>>
           \/ \E m \in Messages :
                /\ Holds(d) /\ UNCHANGED <<row, devs, sending>>
                /\ inbox' = Append(inbox, [message |-> m, gen |-> devs[d].gen,
                                           status |-> IF enabled THEN "pending" ELSE "discarded"])
                /\ muted' = IF enabled THEN muted ELSE muted \cup {Len(inbox) + 1}
           \/ Failed(d) /\ UNCHANGED <<inbox, muted>>
<1>1. scope.messages \subseteq Messages
  BY LinkedDevicesAssumption DEF TypeOK, Limits
<1>2. PICK m \in scope.messages :
        IF Holds(d) /\ (Heard(m) \/ ~enabled \/ Cardinality(Pending) < scope.capacity)
        THEN /\ inbox' = IF Heard(m) THEN inbox
                         ELSE Append(inbox, [message |-> m, gen |-> devs[d].gen,
                                             status |-> IF enabled THEN "pending" ELSE "discarded"])
             /\ muted' = IF Heard(m) \/ enabled THEN muted ELSE muted \cup {Len(inbox) + 1}
             /\ UNCHANGED <<row, devs, sending>>
        ELSE Failed(d) /\ UNCHANGED <<inbox, muted>>
  BY DEF Enqueue
<1>3. CASE Heard(m)
  BY <1>2, <1>3
<1>4. CASE ~Heard(m)
  BY <1>1, <1>2, <1>4
<1> QED
  BY <1>3, <1>4

---------------------------------------------------------------------------
(* Types *)

DeviceTypes ==
    /\ row \in Rows /\ session \in Sessions /\ session.pairing <= Len(paired)
    /\ devs \in Seq(Devices) /\ \A d \in DOMAIN devs : devs[d].pairing <= Len(paired)
    /\ local \in [Workers -> 0..Len(devs)]
    /\ proc \in [Workers -> {"up", "leaving", "gone"}]
    /\ sending \in [Workers -> Sends] /\ \A w \in Workers : sending[w].dev <= Len(devs)
    /\ paired \in Seq(Pairings)
    /\ unlinked \subseteq DOMAIN paired
    /\ spoke \subseteq [gen : Nat, account : Accounts]

InboxTypes ==
    /\ inbox \in Seq(Items)
    /\ enabled \in BOOLEAN /\ paused \in Nat
    /\ tick \in [Workers -> Ticks] /\ \A w \in Workers : tick[w].items \subseteq DOMAIN inbox
    /\ turns \in Seq(DOMAIN inbox)
    /\ unanswered \subseteq DOMAIN inbox /\ muted \subseteq DOMAIN inbox

LEMMA Types == TypeOK <=> scope \in Scopes /\ DeviceTypes /\ InboxTypes
BY DEF TypeOK, DeviceTypes, InboxTypes

LEMMA Frames ==
    /\ DeviceTypes /\ UNCHANGED <<row, session, devs, local, proc, sending, paired, unlinked, spoke>>
         => DeviceTypes'
    /\ InboxTypes /\ UNCHANGED <<inbox, enabled, paused, tick, turns, unanswered, muted>> => InboxTypes'
BY DEF DeviceTypes, InboxTypes

\* A device changed; whoever sent over it may have stopped.
LEMMA DevTyped ==
    ASSUME DeviceTypes, NEW d \in DOMAIN devs, NEW pairing, NEW moved, NEW state,
           DevIs(d, pairing, moved, state), pairing <= Len(paired)
    PROVE  devs' \in Seq(Devices) /\ Len(devs') = Len(devs)
           /\ \A e \in DOMAIN devs' : devs'[e].pairing <= Len(paired)
<1>1. DOMAIN devs' = DOMAIN devs
  BY DEF DevIs, DeviceTypes
<1> QED
  BY <1>1 DEF DevIs, DeviceTypes

LEMMA SilentTyped ==
    ASSUME DeviceTypes, NEW D, Silent(D)
    PROVE  sending' \in [Workers -> Sends] /\ \A w \in Workers : sending'[w].dev <= Len(devs)
<1>1. Len(devs) \in Nat /\ \A w \in Workers : sending[w].dev <= Len(devs)
  BY DEF DeviceTypes
<1>2. ASSUME NEW w \in Workers PROVE sending'[w].dev <= Len(devs)
  BY <1>1 DEF Silent, NoSend
<1> QED
  BY <1>2 DEF Silent

\* The device writes its part of the state only, and leaves the types.
LEMMA EndsTyped ==
    ASSUME DeviceTypes, NEW d \in DOMAIN devs, NEW state,
           row' \in Rows, session' \in {session, NoSession, Saved(d)},
           devs' = devs \/ DevEnds(d, state), UNCHANGED <<local, proc, paired>>,
           sending' = sending \/ Silent({d}), unlinked' \subseteq DOMAIN paired,
           spoke' \subseteq [gen : Nat, account : Accounts]
    PROVE  DeviceTypes'
<1>1. devs[d] \in Devices /\ devs[d].pairing <= Len(paired)
  BY DEF DeviceTypes
<1>2. session' \in Sessions /\ session'.pairing <= Len(paired)
  <2>1. Saved(d) \in Sessions /\ Saved(d).pairing = devs[d].pairing
    BY <1>1 DEF Saved, Sessions, Devices
  <2>2. Len(paired) \in Nat
    BY DEF DeviceTypes
  <2> QED
    BY <1>1, <2>1, <2>2, Nothing DEF DeviceTypes, NoSession
<1>3. devs' \in Seq(Devices) /\ Len(devs') = Len(devs) /\ \A e \in DOMAIN devs' : devs'[e].pairing <= Len(paired)
  <2>1. CASE devs' = devs
    BY <2>1 DEF DeviceTypes
  <2>2. CASE DevEnds(d, state)
    BY <2>2, <1>1, DevTyped DEF DevEnds
  <2> QED
    BY <2>1, <2>2
<1>4. sending' \in [Workers -> Sends] /\ \A w \in Workers : sending'[w].dev <= Len(devs)
  BY SilentTyped DEF DeviceTypes
<1> QED
  BY <1>2, <1>3, <1>4 DEF DeviceTypes

LEMMA DeviceTyped ==
    ASSUME TypeOK, Kept, NEW d \in DOMAIN devs, DeviceStep(d) PROVE DeviceTypes'
<1> USE Types
<1>1. CASE Pair(d)
  <2>1. PICK a \in Accounts :
          /\ Live(d) /\ devs[d].pairing = 0
          /\ paired' = Append(paired, [account |-> a, gen |-> devs[d].gen])
          /\ DevIs(d, Len(paired) + 1, 1, "live")
    BY <1>1, PairDoes
  <2> DEFINE x == [account |-> a, gen |-> devs[d].gen]
  <2>2. x \in Pairings
    <3>1. devs[d] \in Devices
      BY DEF TypeOK
    <3> QED
      BY <3>1 DEF Devices, Pairings
  <2>3. paired' = Append(paired, x)
    BY <2>1
  <2> HIDE DEF x
  <2>4. paired' \in Seq(Pairings) /\ Len(paired') = Len(paired) + 1 /\ Len(paired) \in Nat
    BY <2>2, <2>3 DEF TypeOK
  <2>5. \A e \in DOMAIN devs' : devs'[e].pairing <= Len(paired')
    <3>1. DOMAIN devs' = DOMAIN devs
      BY <2>1 DEF DevIs, TypeOK
    <3>2. \A e \in DOMAIN devs : devs[e].pairing \in Nat /\ devs[e].pairing <= Len(paired)
      <4>1. ASSUME NEW e \in DOMAIN devs PROVE devs[e].pairing \in Nat /\ devs[e].pairing <= Len(paired)
        <5>1. devs[e] \in Devices
          BY DEF TypeOK
        <5> QED
          BY <5>1 DEF TypeOK, Devices
      <4> QED
        BY <4>1
    <3>3. \A e \in DOMAIN devs : e # d => devs'[e] = devs[e]
      BY <2>1 DEF DevIs
    <3>4. devs'[d].pairing = Len(paired) + 1
      BY <2>1 DEF DevIs
    <3> QED
      BY <2>4, <3>1, <3>2, <3>3, <3>4
  <2>6. unlinked \subseteq DOMAIN paired' /\ session.pairing <= Len(paired')
    <3>1. DOMAIN paired' = 1..Len(paired') /\ DOMAIN paired = 1..Len(paired)
      BY <2>4 DEF TypeOK
    <3> QED
      BY <2>4, <3>1 DEF TypeOK, Sessions
  <2>7. UNCHANGED <<row, session, local, proc, sending, unlinked, spoke>>
    BY <1>1 DEF Pair
  <2> QED
    BY <2>1, <2>4, <2>5, <2>6, <2>7 DEF DevIs, DeviceTypes
<1>2. CASE MoveOn(d)
  <2>1. DevIs(d, devs[d].pairing, devs[d].moved + 1, "live")
    BY <1>2, MoveOnDoes
  <2>2. devs' \in Seq(Devices) /\ Len(devs') = Len(devs) /\ \A e \in DOMAIN devs' : devs'[e].pairing <= Len(paired)
    <3>1. devs[d].pairing <= Len(paired)
      BY DEF TypeOK
    <3> QED
      BY <2>1, <3>1, DevTyped
  <2> QED
    BY <1>2, <2>2 DEF MoveOn, DeviceTypes
<1>3. ASSUME Failed(d), row' = row \/ (Live(d) /\ Holds(d) /\ GivenUp),
             UNCHANGED <<session, local, proc, paired, unlinked, spoke>>
      PROVE  DeviceTypes'
  <2>1. row' \in Rows
    BY <1>3 DEF GivenUp, RowIs, DeviceTypes
  <2>2. (devs' = devs \/ DevEnds(d, "closed")) /\ Silent({d})
    BY <1>3, FailedEnds
  <2>3. unlinked' \subseteq DOMAIN paired /\ spoke' \subseteq [gen : Nat, account : Accounts]
    BY <1>3 DEF DeviceTypes
  <2> QED
    BY <1>3, <2>1, <2>2, <2>3, EndsTyped
<1>4. CASE Save(d)
  <2>1. UNCHANGED <<local, proc, paired, unlinked, spoke>>
    BY <1>4 DEF Save
  <2>2. CASE session' = Saved(d) /\ DevEnds(d, devs[d].state) /\ UNCHANGED <<row, sending>>
    <3>1. row' \in Rows /\ unlinked' \subseteq DOMAIN paired /\ spoke' \subseteq [gen : Nat, account : Accounts]
      BY <2>1, <2>2 DEF DeviceTypes
    <3> QED
      BY <2>1, <2>2, <3>1, EndsTyped
  <2>3. CASE Failed(d) /\ UNCHANGED session
    BY <2>1, <2>3, <1>3, FailedEnds
  <2> QED
    BY <1>4, <2>2, <2>3, SaveDoes
<1>5. CASE Ready(d)
  <2>1. UNCHANGED <<session, local, proc, paired, unlinked>>
    BY <1>5 DEF Ready
  <2>2. ASSUME NEW account \in Accounts,
               RowIs(row.desired, row.gen, row.fence, row.owner, row.lease, account),
               spoke' = spoke \cup {[gen |-> row.gen, account |-> account]},
               UNCHANGED <<devs, sending>>
        PROVE  DeviceTypes'
    <3>1. row' \in Rows
      BY <2>2 DEF RowIs
    <3>2. spoke' \subseteq [gen : Nat, account : Accounts]
      BY <2>2 DEF DeviceTypes, Rows
    <3>3. unlinked' \subseteq DOMAIN paired
      BY <2>1 DEF DeviceTypes
    <3> QED
      BY <2>1, <2>2, <3>1, <3>2, <3>3, EndsTyped
  <2>3. CASE Failed(d) /\ UNCHANGED spoke
    BY <2>1, <2>3, <1>3, FailedEnds
  <2> QED
    BY <1>5, <2>2, <2>3, ReadyDoes
<1>6. CASE Enqueue(d)
  <2>1. UNCHANGED <<session, local, proc, paired, unlinked, spoke>>
    BY <1>6 DEF Enqueue
  <2>2. CASE UNCHANGED <<row, devs, sending>>
    BY <2>1, <2>2, Frames
  <2>3. CASE Failed(d)
    BY <2>1, <2>3, <1>3, FailedEnds
  <2> QED
    BY <1>6, <2>2, <2>3, EnqueueDoes
<1>7. ASSUME NEW state, DevEnds(d, state), row' \in Rows, session' \in {session, NoSession, Saved(d)},
             UNCHANGED <<local, proc, paired, spoke>>, sending' = sending \/ Silent({d}),
             unlinked' \in {unlinked, unlinked \cup {devs[d].pairing}}, devs[d].pairing # 0 \/ unlinked' = unlinked
      PROVE  DeviceTypes'
  <2>1. devs[d].pairing \in Nat /\ devs[d].pairing <= Len(paired)
    <3>1. devs[d] \in Devices
      BY DEF TypeOK
    <3> QED
      BY <3>1 DEF TypeOK, Devices
  <2>2. unlinked' \subseteq DOMAIN paired
    <3>1. DOMAIN paired = 1..Len(paired) /\ unlinked \subseteq DOMAIN paired /\ Len(paired) \in Nat
      BY DEF TypeOK
    <3> QED
      BY <2>1, <3>1, <1>7
  <2>3. spoke' \subseteq [gen : Nat, account : Accounts]
    BY <1>7 DEF DeviceTypes
  <2> QED
    BY <1>7, <2>2, <2>3, EndsTyped
<1>8. CASE Close(d)
  <2>1. DevEnds(d, "dropping") /\ Silent({d}) /\ session' \in {session, Saved(d)}
    BY <1>8, CloseDoes
  <2>2. row' \in Rows /\ UNCHANGED <<local, proc, paired, spoke, unlinked>>
    BY <1>8 DEF Close, DeviceTypes
  <2> QED
    BY <2>1, <2>2, <1>7
<1>9. CASE LogOut(d)
  <2>1. row' \in Rows /\ UNCHANGED <<local, proc, paired, spoke, session>>
    BY <1>9 DEF LogOut, DeviceTypes
  <2> QED
    BY <1>9, <2>1, <1>7, LogOutDoes
<1>10. CASE Dropped(d)
  <2>1. UNCHANGED <<local, proc, paired, spoke, session, sending, unlinked>>
    BY <1>10 DEF Dropped
  <2>2. row' \in Rows /\ DevEnds(d, "closed")
    BY <1>10, DroppedDoes DEF RowIs, DeviceTypes
  <2> QED
    BY <2>1, <2>2, <1>7
<1>11. CASE Clear(d)
  <2>1. UNCHANGED <<local, proc, paired, spoke, sending, unlinked>> /\ row' \in Rows
    BY <1>11 DEF Clear, DeviceTypes
  <2>2. session' \in {session, NoSession} /\ (DevEnds(d, "forgetting") \/ DevEnds(d, "closed"))
    BY <1>11, ClearDoes
  <2> QED
    BY <2>1, <2>2, <1>7
<1>12. CASE Forget(d)
  <2>1. UNCHANGED <<local, proc, paired, spoke, session, sending, unlinked>>
    BY <1>12 DEF Forget
  <2>2. row' \in Rows /\ DevEnds(d, "closed")
    BY <1>12, ForgetDoes DEF RowIs, DeviceTypes
  <2> QED
    BY <2>1, <2>2, <1>7
<1> QED
  BY <1>1, <1>2, <1>4, <1>5, <1>6, <1>8, <1>9, <1>10, <1>11, <1>12 DEF DeviceStep, Ending

LEMMA MineTyped ==
    ASSUME DeviceTypes, NEW w \in Workers, NEW state, MineEnd(w, state), Silent(Mine(w)),
           local' = [local EXCEPT ![w] = 0]
    PROVE  /\ devs' \in Seq(Devices) /\ Len(devs') = Len(devs)
           /\ \A d \in DOMAIN devs' : devs'[d].pairing <= Len(paired)
           /\ local' \in [Workers -> 0..Len(devs)]
           /\ sending' \in [Workers -> Sends] /\ \A v \in Workers : sending'[v].dev <= Len(devs)
<1>1. DOMAIN devs' = DOMAIN devs /\ Len(devs) \in Nat
  BY DEF MineEnd, DeviceTypes
<1>2. \A d \in DOMAIN devs' : devs'[d].pairing <= Len(paired)
  BY <1>1 DEF MineEnd, DeviceTypes
<1>3. local' \in [Workers -> 0..Len(devs)]
  BY <1>1 DEF DeviceTypes
<1> QED
  BY <1>2, <1>3, SilentTyped DEF MineEnd

LEMMA SavedTyped ==
    ASSUME DeviceTypes, NEW d \in DOMAIN devs
    PROVE  Saved(d) \in Sessions /\ Saved(d).pairing <= Len(paired)
<1>1. devs[d] \in Devices /\ devs[d].pairing <= Len(paired)
  BY DEF DeviceTypes
<1> QED
  BY <1>1 DEF Saved, Sessions, Devices

LEMMA OthersTyped ==
    ASSUME TypeOK, InPlace, Next PROVE DeviceTypes' \/ \E d \in DOMAIN devs : DeviceStep(d)
<1> USE Types
<1>0. Len(devs) \in Nat /\ Len(paired) \in Nat /\ NoSession \in Sessions /\ NoSession.pairing = 0
  BY Nothing DEF DeviceTypes, NoSession
<1>1. CASE Connect
  BY <1>1, ConnectDoes DEF Connect, RowIs, DeviceTypes
<1>2. CASE Disconnect
  <2>1. UNCHANGED <<devs, local, proc, sending, paired, unlinked, spoke>>
    BY <1>2 DEF Disconnect
  <2>2. row' \in Rows /\ session' = NoSession
    BY <1>2, DisconnectDoes DEF RowIs
  <2> QED
    BY <1>0, <2>1, <2>2 DEF DeviceTypes
<1>3. CASE Switch
  BY <1>3, Frames DEF Switch
<1>4. CASE Pass
  <2>1. row' \in Rows /\ sending' \in [Workers -> Sends] /\ \A w \in Workers : sending'[w].dev <= Len(devs)
    BY <1>4, PassDoes DEF RowIs, DeviceTypes
  <2>2. UNCHANGED <<session, devs, local, proc, paired, unlinked, spoke>>
    BY <1>4 DEF Pass
  <2> QED
    BY <2>1, <2>2 DEF DeviceTypes
<1>5. ASSUME NEW w \in Workers, TickStep(w) PROVE DeviceTypes'
  <2>1. CASE \/ Snapshot(w) \/ List(w) \/ Check(w) \/ Receive(w) \/ Accept(w)
             \/ Submit(w) \/ NoModel(w) \/ WithoutModel(w) \/ SubmitFails(w) \/ Settle(w)
    BY <2>1, Frames DEF Snapshot, List, Check, Receive, Accept, Submit, NoModel, WithoutModel,
       SubmitFails, Settle
  <2>2. CASE Look(w)
    <3>1. UNCHANGED <<row, session, local, proc, paired, unlinked, spoke>>
      BY <2>2 DEF Look
    <3>2. CASE local[w] # 0 /\ Silent({local[w]})
               /\ DevEnds(local[w], IF Live(local[w]) THEN "closed" ELSE devs[local[w]].state)
      <4>1. local[w] \in DOMAIN devs
        BY <3>2 DEF DeviceTypes
      <4>2. row' \in Rows /\ unlinked' \subseteq DOMAIN paired /\ spoke' \subseteq [gen : Nat, account : Accounts]
        BY <3>1 DEF DeviceTypes
      <4> QED
        BY <3>1, <3>2, <4>1, <4>2, EndsTyped
    <3>3. CASE UNCHANGED <<devs, sending>>
      BY <3>1, <3>3, Frames
    <3> QED
      BY <2>2, <3>2, <3>3, LookDoes
  <2>3. CASE Stop(w)
    <3>1. UNCHANGED <<row, devs, proc, sending, paired, unlinked, spoke>>
      BY <2>3 DEF Stop
    <3>2. local[w] \in DOMAIN devs
      BY <2>3, StopDoes DEF InPlace, DeviceTypes
    <3>3. session' \in Sessions /\ session'.pairing <= Len(paired)
      <4>1. session' \in {session, NoSession, Saved(local[w])}
        BY <2>3, StopDoes
      <4>2. Saved(local[w]) \in Sessions /\ Saved(local[w]).pairing <= Len(paired)
        BY <3>2, SavedTyped
      <4> QED
        BY <1>0, <4>1, <4>2 DEF DeviceTypes
    <3>4. local' \in [Workers -> 0..Len(devs)]
      BY <1>0, <2>3, StopDoes DEF DeviceTypes
    <3> QED
      BY <3>1, <3>3, <3>4 DEF DeviceTypes
  <2>4. CASE Claim(w)
    <3>1. row' \in Rows
      BY <2>4, ClaimDoes DEF RowIs, DeviceTypes
    <3> QED
      BY <2>4, <3>1 DEF Claim, DeviceTypes
  <2>5. CASE Open(w)
    <3>1. UNCHANGED <<row, session, proc, sending, paired, unlinked, spoke>>
      BY <2>5 DEF Open
    <3>2. CASE Opened(w)
      <4>1. devs' \in Seq(Devices) /\ Len(devs') = Len(devs) + 1
        BY <3>2 DEF Opened
      <4>2. DOMAIN devs' = DOMAIN devs \cup {Len(devs) + 1}
        BY <4>1, <1>0 DEF DeviceTypes
      <4>3. \A e \in DOMAIN devs' : devs'[e].pairing <= Len(paired)
        BY <4>2, <3>2 DEF Opened, DeviceTypes
      <4>4. local' \in [Workers -> 0..Len(devs')]
        BY <4>1, <1>0, <3>2 DEF Opened, DeviceTypes
      <4>5. \A v \in Workers : sending'[v].dev <= Len(devs')
        BY <4>1, <1>0, <3>1 DEF DeviceTypes, Sends
      <4> QED
        BY <3>1, <4>1, <4>3, <4>4, <4>5 DEF DeviceTypes
    <3>3. CASE UNCHANGED <<devs, local>>
      BY <3>1, <3>3, Frames
    <3> QED
      BY <2>5, <3>2, <3>3, OpenDoes
  <2>6. CASE OpenFails(w)
    <3>1. row' \in Rows
      BY <2>6, OpenFailsDoes DEF GivenUp, RowIs
    <3> QED
      BY <2>6, <3>1 DEF OpenFails, DeviceTypes
  <2> QED
    BY <1>5, <2>1, <2>2, <2>3, <2>4, <2>5, <2>6 DEF TickStep
<1>6. ASSUME NEW w \in Workers, Send(w) PROVE DeviceTypes'
  <2> DEFINE s == [dev |-> local[w], left |-> SendTime]
  <2>1. s \in Sends /\ s.dev <= Len(devs)
    BY <1>0, Constants DEF DeviceTypes, Sends
  <2>2. sending' = [sending EXCEPT ![w] = s]
    BY <1>6, SendDoes
  <2> HIDE DEF s
  <2>3. sending' \in [Workers -> Sends] /\ \A v \in Workers : sending'[v].dev <= Len(devs)
    BY <2>1, <2>2 DEF DeviceTypes
  <2> QED
    BY <1>6, <2>3 DEF Send, DeviceTypes
<1>7. ASSUME NEW w \in Workers, Sent(w) PROVE DeviceTypes'
  <2>1. NoSend \in Sends /\ NoSend.dev <= Len(devs)
    BY <1>0, Nothing DEF NoSend
  <2>2. sending' = [sending EXCEPT ![w] = NoSend]
    BY <1>7 DEF Sent
  <2>3. sending' \in [Workers -> Sends] /\ \A v \in Workers : sending'[v].dev <= Len(devs)
    BY <2>1, <2>2 DEF DeviceTypes
  <2> QED
    BY <1>7, <2>3 DEF Sent, DeviceTypes
<1>8. ASSUME NEW w \in Workers, Crash(w) PROVE DeviceTypes'
  <2>1. UNCHANGED <<row, session, paired, unlinked, spoke>> /\ proc' \in [Workers -> {"up", "leaving", "gone"}]
    BY <1>8 DEF Crash, DeviceTypes
  <2> QED
    BY <1>8, <2>1, CrashDoes, MineTyped DEF DeviceTypes
<1>9. ASSUME NEW w \in Workers, Leave(w) PROVE DeviceTypes'
  <2>1. UNCHANGED <<row, paired, unlinked, spoke>> /\ proc' \in [Workers -> {"up", "leaving", "gone"}]
    BY <1>9 DEF Leave, DeviceTypes
  <2>2. session' \in Sessions /\ session'.pairing <= Len(paired)
    <3>1. local[w] # 0 => local[w] \in DOMAIN devs
      BY DEF DeviceTypes
    <3> QED
      BY <1>9, <3>1, LeaveDoes, SavedTyped DEF DeviceTypes
  <2> QED
    BY <1>9, <2>1, <2>2, LeaveDoes, MineTyped DEF DeviceTypes
<1>10. ASSUME NEW w \in Workers, Release(w) PROVE DeviceTypes'
  <2>1. UNCHANGED <<session, paired, unlinked, spoke>> /\ proc' \in [Workers -> {"up", "leaving", "gone"}]
    BY <1>10 DEF Release, DeviceTypes
  <2>2. row' \in Rows
    BY <1>10, ReleaseDoes DEF DeviceTypes, RowIs
  <2> QED
    BY <1>10, <2>1, <2>2, ReleaseDoes, MineTyped DEF DeviceTypes
<1> QED
  BY <1>1, <1>2, <1>3, <1>4, <1>5, <1>6, <1>7, <1>8, <1>9, <1>10 DEF Next

\* One tick moves, with a list of items that are there.
TickMoves(w) ==
    /\ \A v \in Workers : v # w => tick'[v] = tick[v]
    /\ tick' \in [Workers -> Ticks] /\ \A v \in Workers : tick'[v].items \subseteq DOMAIN inbox

LEMMA TickTyped ==
    ASSUME InboxTypes, NEW w \in Workers, NEW pc, NEW gen, NEW fence, NEW items, NEW switched, NEW as,
           TickIs(w, pc, gen, fence, items, switched, as), items \subseteq DOMAIN inbox
    PROVE  TickMoves(w)
BY DEF TickIs, InboxTypes, TickMoves

LEMMA RestsTyped == ASSUME InboxTypes, NEW w \in Workers, NEW pc, TickRests(w, pc) PROVE TickMoves(w)
BY DEF TickRests, TickIs, InboxTypes, TickMoves

LEMMA GoesTyped == ASSUME InboxTypes, NEW w \in Workers, NEW pc, TickGoes(w, pc) PROVE TickMoves(w)
BY DEF TickGoes, TickIs, InboxTypes, TickMoves

LEMMA TicksTyped == ASSUME TypeOK, NEW w \in Workers, TickStep(w) PROVE TickMoves(w)
<1> USE Types
<1>1. /\ {} \subseteq DOMAIN inbox /\ Pending \subseteq DOMAIN inbox /\ tick[w].items \subseteq DOMAIN inbox
      /\ \A i : tick[w].items \ {i} \subseteq DOMAIN inbox
  BY DEF Pending, InboxTypes
<1>2. ASSUME NEW pc, NEW gen, NEW fence, NEW switched, NEW as,
             TickIs(w, pc, gen, fence, tick[w].items, switched, as) PROVE TickMoves(w)
  BY <1>1, <1>2, TickTyped
<1>3. CASE Snapshot(w) \/ Stop(w) \/ SubmitFails(w)
  BY <1>3, SnapshotDoes, StopDoes, SubmitFailsDoes, RestsTyped
<1>4. CASE Look(w)
  BY <1>4, LookDoes, RestsTyped, GoesTyped
<1>5. CASE Open(w) \/ OpenFails(w)
  BY <1>5, OpenDoes, OpenFailsDoes, GoesTyped
<1>6. CASE Claim(w)
  <2>1. CASE TickRests(w, "idle")
    BY <2>1, RestsTyped
  <2>2. CASE TickIs(w, "opening", row.gen, row.fence + 1, {}, 0, "pending")
    BY <2>2, <1>1, TickTyped
  <2>3. CASE TickIs(w, "listing", row.gen, row.fence, {}, 0, "pending")
    BY <2>3, <1>1, TickTyped
  <2> QED
    BY <1>6, <2>1, <2>2, <2>3, ClaimDoes
<1>7. CASE List(w)
  <2>1. CASE TickIs(w, "checking", tick[w].gen, tick[w].fence, Pending, tick[w].paused, "pending")
    BY <2>1, <1>1, TickTyped
  <2> QED
    BY <1>7, <2>1, ListDoes, RestsTyped
<1>8. CASE Check(w) \/ Receive(w)
  BY <1>8, <1>2, CheckDoes, ReceiveDoes, RestsTyped, GoesTyped
<1>9. CASE Accept(w) \/ Submit(w)
  BY <1>9, <1>2, AcceptDoes, SubmitDoes, GoesTyped
<1>11. CASE NoModel(w) \/ WithoutModel(w)
  BY <1>11, <1>2, NoModelDoes, WithoutModelDoes, GoesTyped
<1>10. CASE Settle(w)
  <2>1. ASSUME NEW i,
               TickIs(w, "checking", tick[w].gen, tick[w].fence, tick[w].items \ {i}, tick[w].paused, "pending")
        PROVE  TickMoves(w)
    <3> DEFINE items == tick[w].items \ {i}
    <3>1. items \subseteq DOMAIN inbox
      BY <1>1
    <3>2. TickIs(w, "checking", tick[w].gen, tick[w].fence, items, tick[w].paused, "pending")
      BY <2>1
    <3> HIDE DEF items
    <3> QED
      BY <3>1, <3>2, TickTyped
  <2> QED
    BY <1>10, <2>1, SettleDoes, RestsTyped
<1> QED
  BY <1>3, <1>4, <1>5, <1>6, <1>7, <1>8, <1>9, <1>10, <1>11 DEF TickStep

\* The inbox grows; what is in it stays where it is.
InboxOn ==
    /\ inbox' \in Seq(Items) /\ Len(inbox') >= Len(inbox)
    /\ turns' \in Seq(DOMAIN inbox)
    /\ unanswered' \subseteq DOMAIN inbox' /\ muted' \subseteq DOMAIN inbox'
    /\ tick' \in [Workers -> Ticks] /\ \A w \in Workers : tick'[w].items \subseteq DOMAIN inbox
    /\ enabled' \in BOOLEAN /\ paused' \in Nat

LEMMA InboxOnTyped == ASSUME InboxTypes, InboxOn PROVE InboxTypes'
<1>1. DOMAIN inbox \subseteq DOMAIN inbox'
  BY DEF InboxOn, InboxTypes
<1>2. turns' \in Seq(DOMAIN inbox')
  <2>1. turns' \in Seq(DOMAIN inbox) /\ Len(turns') \in Nat
    BY DEF InboxOn
  <2>2. \A i \in 1..Len(turns') : turns'[i] \in DOMAIN inbox'
    BY <1>1, <2>1
  <2> QED
    BY <2>1, <2>2
<1> QED
  BY <1>1, <1>2 DEF InboxOn, InboxTypes

LEMMA InboxTyped == ASSUME TypeOK, Next PROVE InboxTypes'
<1> USE Types
<1>0. /\ inbox \in Seq(Items) /\ Len(inbox) \in Nat /\ turns \in Seq(DOMAIN inbox)
      /\ unanswered \subseteq DOMAIN inbox /\ muted \subseteq DOMAIN inbox
      /\ tick \in [Workers -> Ticks] /\ (\A w \in Workers : tick[w].items \subseteq DOMAIN inbox)
      /\ enabled \in BOOLEAN /\ paused \in Nat
  BY DEF InboxTypes
<1>1. CASE Connect \/ Disconnect
  BY <1>1, Frames DEF Connect, Disconnect
<1>2. CASE Switch
  <2>1. UNCHANGED <<tick, turns, unanswered>>
    BY <1>2 DEF Switch
  <2>2. Pending \subseteq DOMAIN inbox
    BY DEF Pending
  <2>3. unanswered' \subseteq DOMAIN inbox' /\ muted' \subseteq DOMAIN inbox'
    <3>1. DOMAIN inbox' = DOMAIN inbox
      BY <1>0, <1>2, SwitchDoes
    <3> QED
      BY <1>0, <1>2, <2>1, <2>2, <3>1, SwitchDoes
  <2>4. InboxOn
    BY <1>0, <1>2, <2>1, <2>3, SwitchDoes DEF InboxOn
  <2> QED
    BY <2>4, InboxOnTyped
<1>3. CASE Pass
  <2>1. UNCHANGED <<inbox, enabled, paused, turns, unanswered, muted>>
    BY <1>3 DEF Pass
  <2>2. InboxOn
    BY <1>0, <1>3, <2>1, PassDoes DEF InboxOn
  <2> QED
    BY <2>2, InboxOnTyped
<1>4. ASSUME NEW w \in Workers, TickStep(w) PROVE InboxTypes'
  <2>1. tick' \in [Workers -> Ticks] /\ \A v \in Workers : tick'[v].items \subseteq DOMAIN inbox
    BY <1>4, TicksTyped DEF TickMoves
  <2>2. CASE UNCHANGED <<inbox, enabled, paused, turns, unanswered, muted>>
    BY <1>0, <2>1, <2>2, InboxOnTyped DEF InboxOn
  <2>3. CASE Submit(w)
    <3>1. UNCHANGED <<inbox, enabled, paused, unanswered, muted>>
      BY <2>3 DEF Submit
    <3>2. PICK i \in Current(w) : turns' = turns \/ Turn(i)
      BY <2>3, SubmitDoes
    <3>3. i \in DOMAIN inbox
      BY <1>0, <3>2 DEF Current
    <3>4. turns' \in Seq(DOMAIN inbox)
      <4>1. turns' = turns \/ turns' = Append(turns, i)
        BY <3>2 DEF Turn
      <4> DEFINE D == DOMAIN inbox
      <4>2. turns \in Seq(D) /\ i \in D
        BY <1>0, <3>3
      <4> HIDE DEF D
      <4>3. turns' \in Seq(D)
        BY <4>1, <4>2
      <4> QED
        BY <4>3 DEF D
    <3> QED
      BY <1>0, <2>1, <3>1, <3>4, InboxOnTyped DEF InboxOn
  <2>4. CASE Settle(w)
    <3>1. UNCHANGED <<turns, enabled, paused, unanswered, muted>>
      BY <2>4 DEF Settle
    <3>2. inbox' = inbox \/ \E i \in Current(w) : inbox' = [inbox EXCEPT ![i].status = tick[w].as]
      BY <2>4, SettleDoes
    <3>3. tick[w].as \in {"pending", "submitted", "discarded"}
      <4>1. tick[w] \in Ticks
        BY <1>0
      <4> QED
        BY <4>1 DEF Ticks
    <3>4. ASSUME NEW i \in Current(w), inbox' = [inbox EXCEPT ![i].status = tick[w].as]
          PROVE  inbox' \in Seq(Items) /\ Len(inbox') = Len(inbox)
      <4> DEFINE r == [inbox[i] EXCEPT !.status = tick[w].as]
      <4>1. i \in DOMAIN inbox
        BY <1>0 DEF Current
      <4>2. r \in Items
        <5>1. inbox[i] \in Items
          BY <4>1, <1>0
        <5> QED
          BY <5>1, <3>3 DEF Items
      <4>3. inbox' = [inbox EXCEPT ![i] = r]
        BY <3>4
      <4> HIDE DEF r
      <4> QED
        BY <1>0, <4>1, <4>2, <4>3
    <3>5. inbox' \in Seq(Items) /\ Len(inbox') = Len(inbox)
      BY <1>0, <3>2, <3>4
    <3>6. unanswered' \subseteq DOMAIN inbox' /\ muted' \subseteq DOMAIN inbox'
      <4>1. DOMAIN inbox' = 1..Len(inbox') /\ DOMAIN inbox = 1..Len(inbox)
        BY <1>0, <3>5
      <4> QED
        BY <1>0, <3>1, <3>5, <4>1
    <3>7. InboxOn
      BY <1>0, <2>1, <3>1, <3>5, <3>6 DEF InboxOn
    <3> QED
      BY <3>7, InboxOnTyped
  <2>5. CASE WithoutModel(w)
    <3>1. UNCHANGED <<inbox, turns, enabled, paused, muted>>
      BY <2>5 DEF WithoutModel
    <3>2. unanswered' \subseteq DOMAIN inbox
      <4>1. tick[w].items \subseteq DOMAIN inbox
        BY <1>0
      <4>2. unanswered' = unanswered \/ \E i \in tick[w].items : unanswered' = unanswered \cup {i}
        BY <2>5, WithoutModelDoes DEF Current
      <4> QED
        BY <1>0, <4>1, <4>2
    <3> QED
      BY <1>0, <2>1, <3>1, <3>2, InboxOnTyped DEF InboxOn
  <2> QED
    BY <1>4, <2>2, <2>3, <2>4, <2>5 DEF TickStep, Snapshot, Look, Stop, Claim, Open, OpenFails, List, Check,
       Receive, Accept, NoModel, SubmitFails
<1>5. ASSUME NEW w \in Workers, Send(w) \/ Sent(w) \/ Leave(w) \/ Release(w) PROVE InboxTypes'
  BY <1>5, Frames DEF Send, Sent, Leave, Release
<1>6. ASSUME NEW w \in Workers, Crash(w) PROVE InboxTypes'
  <2>1. UNCHANGED <<inbox, enabled, paused, turns, unanswered, muted>>
    BY <1>6 DEF Crash
  <2>2. tick' \in [Workers -> Ticks] /\ \A v \in Workers : tick'[v].items \subseteq DOMAIN inbox
    <3>1. {} \subseteq DOMAIN inbox
      OBVIOUS
    <3> QED
      BY <1>6, <3>1, CrashDoes, RestsTyped DEF TickMoves
  <2> QED
    BY <1>0, <2>1, <2>2, InboxOnTyped DEF InboxOn
<1>7. ASSUME NEW d \in DOMAIN devs, DeviceStep(d) PROVE InboxTypes'
  <2>1. UNCHANGED <<tick, turns, unanswered, enabled, paused>>
    BY <1>7 DEF DeviceStep, Ending, Pair, MoveOn, Save, Ready, Enqueue, Close, LogOut, Dropped, Clear, Forget
  <2>2. CASE UNCHANGED <<inbox, muted>>
    BY <2>1, <2>2, Frames
  <2>3. ASSUME NEW m \in Messages,
               inbox' = Append(inbox, [message |-> m, gen |-> devs[d].gen,
                                       status |-> IF enabled THEN "pending" ELSE "discarded"]),
               muted' = IF enabled THEN muted ELSE muted \cup {Len(inbox) + 1}
        PROVE  InboxTypes'
    <3> DEFINE status == IF enabled THEN "pending" ELSE "discarded"
               r == [message |-> m, gen |-> devs[d].gen, status |-> status]
    <3>1. r \in Items
      <4>1. devs[d] \in Devices
        BY DEF TypeOK
      <4> QED
        BY <4>1 DEF Devices, Items
    <3>2. inbox' = Append(inbox, r)
      BY <2>3
    <3> HIDE DEF r
    <3>3. inbox' \in Seq(Items) /\ Len(inbox') = Len(inbox) + 1
      BY <1>0, <3>1, <3>2
    <3>4. unanswered' \subseteq DOMAIN inbox' /\ muted' \subseteq DOMAIN inbox'
      <4>1. DOMAIN inbox' = 1..Len(inbox') /\ DOMAIN inbox = 1..Len(inbox)
        BY <1>0, <3>3
      <4> QED
        BY <1>0, <2>1, <2>3, <3>3, <4>1
    <3>5. InboxOn
      BY <1>0, <2>1, <3>3, <3>4 DEF InboxOn
    <3> QED
      BY <3>5, InboxOnTyped
  <2>4. CASE Enqueue(d)
    BY <2>2, <2>3, <2>4, EnqueueDoes
  <2> QED
    BY <1>7, <2>2, <2>4 DEF DeviceStep, Ending, Pair, MoveOn, Save, Ready, Close, LogOut, Dropped, Clear, Forget
<1> QED
  BY <1>1, <1>2, <1>3, <1>4, <1>5, <1>6, <1>7 DEF Next

LEMMA TypesStep == ASSUME TypeOK, InPlace, Kept, Next PROVE TypeOK'
<1>1. scope' = scope
  <2>1. CASE Connect \/ Disconnect \/ Switch \/ Pass
    BY <2>1 DEF Connect, Disconnect, Switch, Pass
  <2>2. ASSUME NEW w \in Workers, TickStep(w) PROVE scope' = scope
    BY <2>2 DEF TickStep, Snapshot, Look, Stop, Claim, Open, OpenFails, List, Check, Receive, Accept,
       Submit, NoModel, WithoutModel, SubmitFails, Settle
  <2>3. ASSUME NEW w \in Workers, Send(w) \/ Sent(w) \/ Crash(w) \/ Leave(w) \/ Release(w)
        PROVE  scope' = scope
    BY <2>3 DEF Send, Sent, Crash, Leave, Release
  <2>4. ASSUME NEW d \in DOMAIN devs, DeviceStep(d) PROVE scope' = scope
    BY <2>4 DEF DeviceStep, Ending, Pair, MoveOn, Save, Ready, Enqueue, Close, LogOut, Dropped, Clear, Forget
  <2> QED
    BY <2>1, <2>2, <2>3, <2>4 DEF Next
<1>2. DeviceTypes'
  BY OthersTyped, DeviceTyped
<1> QED
  BY <1>1, <1>2, InboxTyped, Types DEF TypeOK, DeviceTypes, InboxTypes

---------------------------------------------------------------------------
(* Generations and fences *)

Past(gen, fence) == gen < row'.gen \/ (gen = row'.gen /\ fence <= row'.fence)
RowOn == row'.gen > row.gen \/ (row'.gen = row.gen /\ row'.fence >= row.fence)
DevsOn ==
    /\ Len(devs') = Len(devs) /\ devs' \in Seq(Devices)
    /\ \A d \in DOMAIN devs :
         /\ devs'[d].worker = devs[d].worker /\ devs'[d].gen = devs[d].gen /\ devs'[d].fence = devs[d].fence
         /\ devs'[d].state = "live" => Live(d)
\* No tick is about to open a device that was not, or has other devices to stop.
TicksOn == \A w \in Workers :
    /\ local'[w] \in {local[w], 0}
    /\ At(w, "opening")' => At(w, "opening") /\ tick'[w].gen = tick[w].gen /\ tick'[w].fence = tick[w].fence
    /\ At(w, "stopping")' => /\ local'[w] = local[w]
                             /\ At(w, "stopping") \/ (local[w] # 0 /\ devs'[local[w]].state # "live")
    /\ proc'[w] # "up" => At(w, "idle")'
Begun == row'.gen = 0 => ~row'.desired /\ session' = NoSession
Steady == RowOn /\ DevsOn /\ TicksOn /\ Begun

LEMMA Domains == ASSUME DevsOn, TypeOK PROVE DOMAIN devs' = DOMAIN devs
BY DEF DevsOn, TypeOK

LEMMA SteadyKeeps ==
    ASSUME TypeOK, TypeOK', InPlace, Fenced, Steady PROVE InPlace' /\ Fenced'
<1>1. InPlace'
  <2> SUFFICES ASSUME NEW w \in Workers
               PROVE  /\ local'[w] # 0 => devs'[local'[w]].worker = w
                      /\ At(w, "opening")' => local'[w] = 0
                      /\ At(w, "stopping")' => local'[w] # 0 /\ devs'[local'[w]].state # "live"
                      /\ proc'[w] # "up" => At(w, "idle")'
    BY DEF InPlace, Live
  <2>1. local[w] # 0 => local[w] \in DOMAIN devs
    BY DEF TypeOK
  <2> QED
    BY <2>1 DEF InPlace, Steady, DevsOn, TicksOn, Live, At
<1>2. /\ DOMAIN devs' = DOMAIN devs
      /\ row.gen \in Nat /\ row.fence \in Nat /\ row'.gen \in Nat /\ row'.fence \in Nat
  BY Domains DEF Steady, TypeOK, Rows
<1>3. ASSUME NEW d \in DOMAIN devs PROVE devs[d].gen \in Nat /\ devs[d].fence \in Nat
  <2>1. devs[d] \in Devices
    BY DEF TypeOK
  <2> QED
    BY <2>1 DEF Devices
<1>4. ASSUME NEW w \in Workers PROVE tick[w].gen \in Nat /\ tick[w].fence \in Nat
  <2>1. tick[w] \in Ticks
    BY DEF TypeOK
  <2> QED
    BY <2>1 DEF Ticks
<1>5. ASSUME NEW g \in Nat, NEW f \in Nat, Before(g, f) PROVE Past(g, f)
  BY <1>2, <1>5 DEF Before, Past, Steady, RowOn
<1>6. \A d \in DOMAIN devs : devs'[d].gen = devs[d].gen /\ devs'[d].fence = devs[d].fence
  BY DEF Steady, DevsOn
<1>7. \A w \in Workers :
        tick'[w].pc = "opening" =>
          tick[w].pc = "opening" /\ tick'[w].gen = tick[w].gen /\ tick'[w].fence = tick[w].fence
  BY DEF Steady, TicksOn, At
<1>8. \A d \in DOMAIN devs : Past(devs'[d].gen, devs'[d].fence)
  BY <1>3, <1>5, <1>6 DEF Fenced
<1>9. \A w \in Workers : tick'[w].pc = "opening" => Past(tick'[w].gen, tick'[w].fence)
  BY <1>4, <1>5, <1>7 DEF Fenced, At
<1>10. \A d, e \in DOMAIN devs : devs'[d].gen = devs'[e].gen /\ devs'[d].fence = devs'[e].fence => d = e
  BY <1>6 DEF Fenced
<1>11. \A w \in Workers : tick'[w].pc = "opening" =>
         /\ \A d \in DOMAIN devs : ~(devs'[d].gen = tick'[w].gen /\ devs'[d].fence = tick'[w].fence)
         /\ \A v \in Workers : tick'[v].pc = "opening" /\ tick'[v].gen = tick'[w].gen
                                /\ tick'[v].fence = tick'[w].fence => v = w
  BY <1>6, <1>7 DEF Fenced, At
<1>12. row'.gen = 0 => ~row'.desired /\ session' = NoSession
  BY DEF Steady, Begun
<1>13. Fenced'
  BY <1>2, <1>8, <1>9, <1>10, <1>11, <1>12 DEF Fenced, Before, Past, At
<1> QED
  BY <1>1, <1>13

LEMMA DevsStay ==
    ASSUME TypeOK PROVE devs' = devs => DevsOn
BY DEF DevsOn, TypeOK, Live

LEMMA EndsOn ==
    ASSUME TypeOK, NEW d \in DOMAIN devs, NEW pairing, NEW moved, NEW state, DevIs(d, pairing, moved, state),
           state = "live" => Live(d)
    PROVE  DevsOn
BY DEF DevIs, DevsOn, Live

LEMMA MineOn ==
    ASSUME TypeOK, NEW w \in Workers, NEW state, MineEnd(w, state), state # "live" PROVE DevsOn
BY DEF MineEnd, DevsOn, Live

\* What a device does moves no tick, and leaves the row where it is or ahead.
LEMMA DeviceSteady ==
    ASSUME TypeOK, InPlace, Fenced, Kept, NEW d \in DOMAIN devs, DeviceStep(d) PROVE Steady
<1>0. row.gen \in Nat /\ row.fence \in Nat
  BY DEF TypeOK, Rows
<1>1. UNCHANGED <<local, tick, proc>>
  BY DEF DeviceStep, Ending, Pair, MoveOn, Save, Ready, Enqueue, Close, LogOut, Dropped, Clear, Forget
<1>2. TicksOn
  BY <1>1 DEF TicksOn, InPlace, At
<1>3. row.gen = 0 => ~row.desired /\ session = NoSession /\ ~Holds(d)
  BY DEF Fenced, Holds, Owned
<1>4. ASSUME Failed(d) PROVE RowOn /\ DevsOn /\ (row'.gen = row.gen /\ (row'.desired => row.desired))
  <2>1. row' = row \/ GivenUp
    BY <1>4, FailedEnds
  <2>2. DevsOn
    BY <1>4, FailedEnds, DevsStay, EndsOn DEF DevEnds
  <2> QED
    BY <1>0, <2>1, <2>2 DEF RowOn, GivenUp, RowIs
<1>5. CASE Pair(d) \/ MoveOn(d)
  <2>1. UNCHANGED <<row, session>>
    BY <1>5 DEF Pair, MoveOn
  <2>2. DevsOn
    <3>1. CASE Pair(d)
      BY <3>1, PairDoes, EndsOn
    <3>2. CASE MoveOn(d)
      BY <3>2, MoveOnDoes, EndsOn
    <3> QED
      BY <1>5, <3>1, <3>2
  <2> QED
    BY <1>0, <1>2, <1>3, <2>1, <2>2 DEF Steady, RowOn, Begun
<1>6. CASE Save(d)
  <2>1. CASE Failed(d) /\ UNCHANGED session
    BY <1>2, <1>3, <1>4, <2>1 DEF Steady, Begun
  <2>2. CASE Holds(d) /\ DevEnds(d, devs[d].state) /\ UNCHANGED <<row, sending>>
    <3>1. DevsOn
      BY <2>2, EndsOn DEF DevEnds, Live
    <3> QED
      BY <1>0, <1>2, <1>3, <2>2, <3>1 DEF Steady, RowOn, Begun
  <2> QED
    BY <1>6, <2>1, <2>2, SaveDoes
<1>7. CASE Ready(d)
  <2>1. UNCHANGED session
    BY <1>7 DEF Ready
  <2>2. CASE Failed(d)
    BY <1>2, <1>3, <1>4, <2>1, <2>2 DEF Steady, Begun
  <2>3. ASSUME NEW account, RowIs(row.desired, row.gen, row.fence, row.owner, row.lease, account),
               UNCHANGED <<devs, sending>>
        PROVE  Steady
    <3>1. row'.gen = row.gen /\ row'.fence = row.fence /\ row'.desired = row.desired
      BY <2>3 DEF RowIs
    <3> QED
      BY <1>0, <1>2, <1>3, <2>1, <2>3, <3>1, DevsStay DEF Steady, RowOn, Begun
  <2> QED
    BY <1>7, <2>2, <2>3, ReadyDoes
<1>8. CASE Enqueue(d)
  <2>1. UNCHANGED session
    BY <1>8 DEF Enqueue
  <2>2. CASE Failed(d)
    BY <1>2, <1>3, <1>4, <2>1, <2>2 DEF Steady, Begun
  <2>3. CASE UNCHANGED <<row, devs, sending>>
    BY <1>0, <1>2, <1>3, <2>1, <2>3, DevsStay DEF Steady, RowOn, Begun
  <2> QED
    BY <1>8, <2>2, <2>3, EnqueueDoes
<1>9. CASE Close(d)
  <2>1. UNCHANGED row
    BY <1>9 DEF Close
  <2>2. DevsOn
    BY <1>9, CloseDoes, EndsOn DEF DevEnds
  <2>3. row.gen = 0 => session' = NoSession
    BY <1>3, <1>9, CloseDoes
  <2> QED
    BY <1>0, <1>2, <1>3, <2>1, <2>2, <2>3 DEF Steady, RowOn, Begun
<1>10. CASE LogOut(d)
  <2>1. UNCHANGED <<row, session>>
    BY <1>10 DEF LogOut
  <2>2. DevsOn
    BY <1>10, LogOutDoes, EndsOn DEF DevEnds
  <2> QED
    BY <1>0, <1>2, <1>3, <2>1, <2>2 DEF Steady, RowOn, Begun
<1>11. CASE Dropped(d)
  <2>1. UNCHANGED session
    BY <1>11 DEF Dropped
  <2>2. DevsOn
    BY <1>11, DroppedDoes, EndsOn DEF DevEnds
  <2>3. row'.gen = row.gen /\ row'.fence = row.fence /\ row'.desired = row.desired
    BY <1>11, DroppedDoes DEF RowIs
  <2> QED
    BY <1>0, <1>2, <1>3, <2>1, <2>2, <2>3 DEF Steady, RowOn, Begun
<1>12. CASE Clear(d)
  <2>1. UNCHANGED row
    BY <1>12 DEF Clear
  <2>2. DevsOn
    BY <1>12, ClearDoes, EndsOn DEF DevEnds
  <2>3. row.gen = 0 => session' = NoSession
    BY <1>3, <1>12, ClearDoes
  <2> QED
    BY <1>0, <1>2, <1>3, <2>1, <2>2, <2>3 DEF Steady, RowOn, Begun
<1>13. CASE Forget(d)
  <2>1. UNCHANGED session
    BY <1>13 DEF Forget
  <2>2. DevsOn
    <3>1. DevIs(d, devs[d].pairing, devs[d].moved, "closed")
      BY <1>13, ForgetDoes DEF DevEnds
    <3> QED
      BY <3>1, EndsOn
  <2>3. row' = row \/ row'.gen = row.gen + 1
    BY <1>13, ForgetDoes DEF RowIs
  <2> QED
    BY <1>0, <1>2, <1>3, <2>1, <2>2, <2>3 DEF Steady, RowOn, Begun
<1> QED
  BY <1>5, <1>6, <1>7, <1>8, <1>9, <1>10, <1>11, <1>12, <1>13 DEF DeviceStep, Ending

\* So do the other steps, but for a claim and the device opened on it.
LEMMA OthersSteady ==
    ASSUME TypeOK, InPlace, Fenced, Next
    PROVE  Steady \/ (\E w \in Workers : Claim(w) \/ Open(w)) \/ (\E d \in DOMAIN devs : DeviceStep(d))
<1>0. row.gen \in Nat /\ row.fence \in Nat /\ (row.gen = 0 => ~row.desired /\ session = NoSession)
      /\ local \in [Workers -> 0..Len(devs)] /\ proc \in [Workers -> {"up", "leaving", "gone"}]
      /\ tick \in [Workers -> Ticks]
  BY DEF TypeOK, Rows, Fenced
<1>1. ASSUME UNCHANGED row PROVE RowOn
  BY <1>0, <1>1 DEF RowOn
<1>2. ASSUME UNCHANGED row, UNCHANGED session PROVE Begun
  BY <1>0, <1>2 DEF Begun
<1>3. ASSUME UNCHANGED <<devs, local, tick, proc>> PROVE TicksOn /\ DevsOn
  BY <1>3, DevsStay DEF TicksOn, InPlace, At
<1>4. CASE Connect
  <2>1. row'.gen = (IF row.gen = 0 THEN 1 ELSE row.gen) /\ row'.fence = row.fence + 1
    BY <1>4, ConnectDoes DEF RowIs
  <2> QED
    BY <1>0, <1>3, <1>4, <2>1 DEF Connect, Steady, RowOn, Begun
<1>5. CASE Disconnect
  <2>1. row'.gen = row.gen + 1
    BY <1>5, DisconnectDoes DEF RowIs
  <2> QED
    BY <1>0, <1>3, <1>5, <2>1 DEF Disconnect, Steady, RowOn, Begun
<1>6. CASE Switch
  BY <1>1, <1>2, <1>3, <1>6 DEF Switch, Steady
<1>7. CASE Pass
  <2>1. row'.gen = row.gen /\ row'.fence = row.fence /\ row'.desired = row.desired
    BY <1>7, PassDoes DEF RowIs
  <2>2. UNCHANGED <<devs, session, local, proc>>
    BY <1>7 DEF Pass
  <2>3. \A w \in Workers : tick'[w].pc = tick[w].pc /\ tick'[w].gen = tick[w].gen /\ tick'[w].fence = tick[w].fence
    BY <1>7, PassDoes
  <2>4. TicksOn
    BY <2>2, <2>3 DEF TicksOn, InPlace, At
  <2> QED
    BY <1>0, <2>1, <2>2, <2>4, DevsStay DEF Steady, RowOn, Begun
<1>8. ASSUME NEW w \in Workers, UNCHANGED proc, proc[w] = "up" \/ At(w, "idle")', local'[w] \in {local[w], 0},
             \A v \in Workers : v # w => tick'[v] = tick[v] /\ local'[v] = local[v],
             ~At(w, "opening")',
             At(w, "stopping")' => local'[w] = local[w] /\ local[w] # 0 /\ devs'[local[w]].state # "live"
      PROVE  TicksOn
  BY <1>8 DEF TicksOn, InPlace, At
<1>9. ASSUME NEW w \in Workers, TickStep(w) PROVE Steady \/ Claim(w) \/ Open(w)
  <2>0. UNCHANGED proc /\ (proc[w] = "up" \/ Snapshot(w))
    BY <1>9 DEF TickStep, Snapshot, Look, Stop, Claim, Open, OpenFails, List, Check, Receive, Accept,
       Submit, NoModel, WithoutModel, SubmitFails, Settle, InPlace, At
  <2>1. \A v \in Workers : v # w => tick'[v] = tick[v]
    BY <1>9, TicksTyped DEF TickMoves
  <2>2. CASE Snapshot(w)
    <3>1. UNCHANGED <<row, session, devs, local>> /\ proc[w] = "up" /\ At(w, "looking")'
      BY <2>2, SnapshotDoes DEF Snapshot, Up, TickRests, TickIs, At
    <3> QED
      BY <1>1, <1>2, <1>8, <2>0, <2>1, <3>1, DevsStay DEF Steady, At
  <2>3. CASE Look(w)
    <3>1. UNCHANGED <<row, session, local>>
      BY <2>3 DEF Look
    <3>2. CASE local[w] # 0 /\ TickGoes(w, "stopping")
               /\ DevEnds(local[w], IF Live(local[w]) THEN "closed" ELSE devs[local[w]].state)
      <4>1. local[w] \in DOMAIN devs
        BY <3>2 DEF TypeOK
      <4>2. DevsOn /\ devs'[local[w]].state # "live"
        BY <3>2, <4>1, EndsOn DEF DevEnds, DevIs, Live
      <4>3. At(w, "stopping")'
        BY <3>2 DEF TickGoes, TickIs, At
      <4>4. TicksOn
        <5>1. proc[w] = "up"
          BY <2>0, <2>3 DEF Snapshot, Look, At
        <5>2. ~At(w, "opening")'
          BY <4>3 DEF At
        <5> QED
          BY <1>8, <2>0, <2>1, <3>1, <3>2, <4>2, <5>1, <5>2
      <4> QED
        BY <1>1, <1>2, <3>1, <4>2, <4>4 DEF Steady
    <3>3. CASE (TickRests(w, "claiming") \/ TickRests(w, "idle")) /\ UNCHANGED <<devs, sending>>
      <4>1. tick'[w].pc \in {"claiming", "idle"}
        BY <3>3 DEF TickRests, TickIs
      <4>2. TicksOn
        BY <1>8, <2>0, <2>1, <3>1, <4>1, <2>3 DEF At, Snapshot, Look
      <4> QED
        BY <1>1, <1>2, <3>1, <3>3, <4>2, DevsStay DEF Steady
    <3> QED
      BY <2>3, <3>2, <3>3, LookDoes
  <2>4. CASE Stop(w)
    <3>1. UNCHANGED <<row, devs>> /\ local' = [local EXCEPT ![w] = 0] /\ At(w, "stopping")
      BY <2>4 DEF Stop
    <3>2. tick'[w].pc \in {"claiming", "idle"}
      BY <2>4, StopDoes DEF TickRests, TickIs
    <3>3. TicksOn
      <4>1. proc[w] = "up"
        BY <2>0, <3>1 DEF Snapshot, At
      <4>2. ~At(w, "opening")' /\ ~At(w, "stopping")'
        BY <3>2 DEF At
      <4>3. local'[w] = 0 /\ \A v \in Workers : v # w => local'[v] = local[v]
        BY <1>0, <3>1
      <4> QED
        BY <1>8, <2>0, <2>1, <4>1, <4>2, <4>3
    <3>4. row.gen = 0 => session' = NoSession
      BY <1>0, <2>4, StopDoes DEF Holds, Owned
    <3> QED
      BY <1>0, <1>1, <3>1, <3>3, <3>4, DevsStay DEF Steady, Begun
  <2>5. CASE OpenFails(w)
    <3>1. UNCHANGED <<session, devs, local>> /\ At(w, "opening")
      BY <2>5 DEF OpenFails
    <3>2. tick'[w].pc = "listing" /\ row'.gen = row.gen /\ row'.fence = row.fence /\ ~row'.desired
      BY <2>5, OpenFailsDoes DEF TickGoes, TickIs, GivenUp, RowIs
    <3>3. TicksOn
      BY <1>8, <2>0, <2>1, <3>1, <3>2 DEF At, Snapshot
    <3> QED
      BY <1>0, <3>1, <3>2, <3>3, DevsStay DEF Steady, RowOn, Begun
  <2>6. CASE \/ List(w) \/ Check(w) \/ Receive(w) \/ Accept(w)
             \/ Submit(w) \/ NoModel(w) \/ WithoutModel(w) \/ SubmitFails(w) \/ Settle(w)
    <3>1. UNCHANGED <<row, session, devs, local>> /\ ~Snapshot(w)
      BY <2>6 DEF List, Check, Receive, Accept, Submit, NoModel, WithoutModel, SubmitFails, Settle, Snapshot, At
    <3>2. tick'[w].pc \in {"idle", "checking", "settling", "receiving", "accepting", "submitting", "withoutModel"}
      BY <2>6, ListDoes, CheckDoes, ReceiveDoes, AcceptDoes, SubmitDoes, NoModelDoes, WithoutModelDoes,
         SubmitFailsDoes, SettleDoes
         DEF TickRests, TickGoes, TickIs
    <3>3. TicksOn
      BY <1>8, <2>0, <2>1, <3>1, <3>2 DEF At
    <3> QED
      BY <1>1, <1>2, <3>1, <3>3, DevsStay DEF Steady
  <2> QED
    BY <1>9, <2>2, <2>3, <2>4, <2>5, <2>6 DEF TickStep
<1>10. ASSUME NEW w \in Workers, Send(w) \/ Sent(w) PROVE Steady
  BY <1>1, <1>2, <1>3, <1>10 DEF Send, Sent, Steady
<1>11. ASSUME NEW w \in Workers, Crash(w) \/ Leave(w) \/ Release(w) PROVE Steady
  <2>1. DevsOn /\ local' = [local EXCEPT ![w] = 0]
    BY <1>11, CrashDoes, LeaveDoes, ReleaseDoes, MineOn
  <2>2. row'.gen = row.gen /\ row'.fence = row.fence /\ row'.desired = row.desired
    BY <1>11, ReleaseDoes DEF Crash, Leave, RowIs
  <2>3. row.gen = 0 => session' = NoSession
    <3>1. CASE Crash(w) \/ Release(w)
      BY <1>0, <3>1 DEF Crash, Release
    <3>2. CASE Leave(w)
      BY <1>0, <3>2, LeaveDoes DEF Holds, Owned
    <3> QED
      BY <1>11, <3>1, <3>2
  <2>4. At(w, "idle")'
    BY <1>11, CrashDoes, ReleaseDoes DEF Leave, Release, TickRests, TickIs, InPlace, At
  <2>5. \A v \in Workers : v # w => tick'[v] = tick[v] /\ proc'[v] = proc[v]
    BY <1>0, <1>11, CrashDoes, ReleaseDoes DEF Leave, Release, TickRests, TickIs
  <2>6. TicksOn
    BY <1>0, <2>1, <2>4, <2>5 DEF TicksOn, InPlace, At
  <2> QED
    BY <1>0, <2>1, <2>2, <2>3, <2>6 DEF Steady, RowOn, Begun
<1> QED
  BY <1>4, <1>5, <1>6, <1>7, <1>9, <1>10, <1>11 DEF Next

\* A claim takes the next fence, which no device and no other tick has.
LEMMA ClaimFences ==
    ASSUME TypeOK, TypeOK', InPlace, Fenced, NEW w \in Workers, Claim(w) PROVE InPlace' /\ Fenced'
<1>0. /\ row.gen \in Nat /\ row.fence \in Nat /\ tick \in [Workers -> Ticks]
      /\ \A d \in DOMAIN devs : devs[d].gen \in Nat /\ devs[d].fence \in Nat
      /\ \A v \in Workers : tick[v].gen \in Nat /\ tick[v].fence \in Nat
  <2>1. ASSUME NEW d \in DOMAIN devs PROVE devs[d].gen \in Nat /\ devs[d].fence \in Nat
    <3>1. devs[d] \in Devices
      BY DEF TypeOK
    <3> QED
      BY <3>1 DEF Devices
  <2>2. ASSUME NEW v \in Workers PROVE tick[v].gen \in Nat /\ tick[v].fence \in Nat
    <3>1. tick[v] \in Ticks
      BY DEF TypeOK
    <3> QED
      BY <3>1 DEF Ticks
  <2> QED
    BY <2>1, <2>2 DEF TypeOK, Rows
<1>1. UNCHANGED <<session, devs, local, proc>> /\ At(w, "claiming")
  BY DEF Claim
<1>2. proc[w] = "up"
  BY <1>1 DEF InPlace, At
<1>3. \A v \in Workers : v # w => tick'[v] = tick[v]
  BY ClaimDoes, <1>0 DEF TickRests, TickIs
<1>4. CASE ~At(w, "opening")'
  <2>1. row'.gen = row.gen /\ row'.fence >= row.fence /\ (row'.desired => row.desired)
    <3>1. CASE RowIs(TRUE, row.gen, row.fence + 1, w, Lease, row.account) /\ row.desired
      BY <1>0, <3>1 DEF RowIs
    <3>2. CASE RowIs(TRUE, row.gen, row.fence, w, Lease, row.account) /\ row.desired
      BY <1>0, <3>2 DEF RowIs
    <3>3. CASE UNCHANGED row
      BY <1>0, <3>3
    <3> QED
      BY <3>1, <3>2, <3>3, ClaimDoes
  <2>2. ~At(w, "stopping")'
    BY ClaimDoes DEF TickRests, TickIs, At
  <2>3. TicksOn
    BY <1>1, <1>2, <1>3, <1>4, <2>2 DEF TicksOn, InPlace, At
  <2>4. Steady
    BY <1>0, <1>1, <2>1, <2>3, DevsStay DEF Steady, RowOn, Begun, Fenced
  <2> QED
    BY <2>4, SteadyKeeps
<1>5. CASE At(w, "opening")'
  <2>1. /\ local[w] = 0 /\ row.desired /\ row'.gen = row.gen /\ row'.fence = row.fence + 1
        /\ tick'[w].gen = row.gen /\ tick'[w].fence = row.fence + 1 /\ tick'[w].pc = "opening"
    BY <1>5, ClaimDoes DEF TickRests, TickIs, At, RowIs
  <2>2. InPlace'
    BY <1>1, <1>2, <1>3, <2>1 DEF InPlace, At, Live
  <2>3. ASSUME NEW d \in DOMAIN devs
        PROVE  /\ Past(devs'[d].gen, devs'[d].fence)
               /\ ~(devs'[d].gen = tick'[w].gen /\ devs'[d].fence = tick'[w].fence)
    BY <1>0, <1>1, <2>1 DEF Fenced, Before, Past
  <2>4. \A d, e \in DOMAIN devs : devs'[d].gen = devs'[e].gen /\ devs'[d].fence = devs'[e].fence => d = e
    BY <1>1 DEF Fenced
  <2>5. ASSUME NEW v \in Workers, tick'[v].pc = "opening"
        PROVE  /\ Past(tick'[v].gen, tick'[v].fence)
               /\ \A d \in DOMAIN devs : ~(devs'[d].gen = tick'[v].gen /\ devs'[d].fence = tick'[v].fence)
               /\ v # w => ~(tick'[v].gen = tick'[w].gen /\ tick'[v].fence = tick'[w].fence)
    <3>1. CASE v = w
      BY <1>0, <2>1, <2>3, <3>1 DEF Past
    <3>2. CASE v # w
      <4>1. tick'[v] = tick[v] /\ At(v, "opening")
        BY <1>3, <2>5, <3>2 DEF At
      <4> QED
        BY <1>0, <1>1, <2>1, <4>1 DEF Fenced, Before, Past
    <3> QED
      BY <3>1, <3>2
  <2>6. ASSUME NEW v \in Workers, NEW u \in Workers, tick'[v].pc = "opening", tick'[u].pc = "opening",
               tick'[v].gen = tick'[u].gen, tick'[v].fence = tick'[u].fence
        PROVE  v = u
    <3>1. CASE v = w \/ u = w
      BY <2>5, <2>6, <3>1
    <3>2. CASE v # w /\ u # w
      BY <1>3, <2>6, <3>2 DEF Fenced, At
    <3> QED
      BY <3>1, <3>2
  <2>7. DOMAIN devs' = DOMAIN devs
    BY <1>1
  <2>8. row'.gen # 0
    BY <2>1 DEF Fenced
  <2>9. Fenced'
    BY <2>3, <2>4, <2>5, <2>6, <2>7, <2>8 DEF Fenced, Before, Past, At
  <2> QED
    BY <2>2, <2>9
<1> QED
  BY <1>4, <1>5

\* The device opened takes the generation and the fence of the tick.
LEMMA OpenFences ==
    ASSUME TypeOK, TypeOK', InPlace, Fenced, NEW w \in Workers, Open(w) PROVE InPlace' /\ Fenced'
<1>0. tick \in [Workers -> Ticks] /\ Len(devs) \in Nat /\ DOMAIN devs = 1..Len(devs)
  BY DEF TypeOK
<1>1. UNCHANGED <<row, session, proc>> /\ At(w, "opening") /\ local[w] = 0 /\ proc[w] = "up"
  BY DEF Open, InPlace, At
<1>2. (\A v \in Workers : v # w => tick'[v] = tick[v]) /\ tick'[w].pc = "listing"
  BY OpenDoes DEF TickGoes, TickIs
<1>3. CASE UNCHANGED <<devs, local>>
  <2>1. TicksOn
    BY <1>1, <1>2, <1>3 DEF TicksOn, InPlace, At
  <2>2. Steady
    BY <1>1, <1>3, <2>1, DevsStay DEF Steady, RowOn, Begun, Fenced, TypeOK, Rows
  <2> QED
    BY <2>2, SteadyKeeps
<1>4. CASE Opened(w)
  <2> DEFINE n == Len(devs) + 1
  <2>1. /\ Len(devs') = n /\ n \notin DOMAIN devs /\ n # 0
        /\ \A e \in DOMAIN devs : devs'[e] = devs[e]
        /\ devs'[n].worker = w /\ devs'[n].gen = tick[w].gen /\ devs'[n].fence = tick[w].fence
        /\ local' = [local EXCEPT ![w] = n]
    BY <1>0, <1>4 DEF Opened
  <2>2. DOMAIN devs' = DOMAIN devs \cup {n}
    BY <1>0, <1>4 DEF Opened
  <2> HIDE DEF n
  <2>3. ASSUME NEW v \in Workers
        PROVE  /\ local'[v] # 0 => devs'[local'[v]].worker = v
               /\ tick'[v].pc = "opening" => local'[v] = 0
               /\ tick'[v].pc = "stopping" => local'[v] # 0 /\ devs'[local'[v]].state # "live"
               /\ proc'[v] # "up" => tick'[v].pc = "idle"
    <3>1. CASE v = w
      BY <1>1, <1>2, <2>1, <3>1 DEF TypeOK
    <3>2. CASE v # w
      <4>1. local'[v] = local[v] /\ tick'[v] = tick[v]
        BY <1>2, <2>1, <3>2 DEF TypeOK
      <4>2. local[v] # 0 => local[v] \in DOMAIN devs
        BY DEF TypeOK
      <4> QED
        BY <1>1, <2>1, <4>1, <4>2 DEF InPlace, At, Live
    <3> QED
      BY <3>1, <3>2
  <2>4. InPlace'
    BY <2>3 DEF InPlace, At, Live
  <2>5. \A v \in Workers : tick'[v].pc = "opening" => v # w /\ tick'[v] = tick[v] /\ At(v, "opening")
    BY <1>2 DEF At
  <2>6. \A d \in DOMAIN devs' : Past(devs'[d].gen, devs'[d].fence)
    BY <1>1, <2>1, <2>2 DEF Fenced, Before, Past
  <2>7. \A d, e \in DOMAIN devs' : devs'[d].gen = devs'[e].gen /\ devs'[d].fence = devs'[e].fence => d = e
    BY <1>1, <2>1, <2>2 DEF Fenced
  <2>8. ASSUME NEW v \in Workers, tick'[v].pc = "opening"
        PROVE  /\ Past(tick'[v].gen, tick'[v].fence)
               /\ \A d \in DOMAIN devs' : ~(devs'[d].gen = tick'[v].gen /\ devs'[d].fence = tick'[v].fence)
               /\ \A u \in Workers : tick'[u].pc = "opening" /\ tick'[u].gen = tick'[v].gen
                                     /\ tick'[u].fence = tick'[v].fence => u = v
    BY <1>1, <2>1, <2>2, <2>5, <2>8 DEF Fenced, Before, Past
  <2>9. row'.gen = 0 => ~row'.desired /\ session' = NoSession
    BY <1>1 DEF Fenced
  <2>10. Fenced'
    BY <2>6, <2>7, <2>8, <2>9 DEF Fenced, Before, Past, At
  <2> QED
    BY <2>4, <2>10
<1> QED
  BY <1>3, <1>4, OpenDoes

LEMMA FencedStep ==
    ASSUME TypeOK, TypeOK', InPlace, Fenced, Kept, Next PROVE InPlace' /\ Fenced'
BY OthersSteady, DeviceSteady, SteadyKeeps, ClaimFences, OpenFences

---------------------------------------------------------------------------
(* The session that is saved *)

\* Pairings are only added to.
PairingsOn ==
    /\ Len(paired') >= Len(paired) /\ \A p \in DOMAIN paired : paired'[p] = paired[p]
    /\ unlinked \subseteq unlinked'
\* A device keeps its pairing, whose keys move on, or gets a new one.
DevKept(d) ==
    /\ devs'[d].gen = devs[d].gen /\ devs'[d].fence = devs[d].fence
    /\ devs'[d].stored => devs[d].stored \/ devs'[d].pairing # 0
    /\ \/ devs'[d].pairing = devs[d].pairing /\ devs'[d].moved >= devs[d].moved
       \/ /\ devs[d].pairing = 0 /\ Live(d) /\ devs'[d].state = "live"
          /\ devs'[d].pairing = Len(paired) + 1 /\ paired'[Len(paired) + 1].gen = devs[d].gen
    /\ devs'[d].state \in Ended => devs[d].state \in Ended \/ devs[d].pairing \in unlinked'
    /\ devs'[d].state = "forgetting" => devs[d].state = "forgetting" \/ session'.pairing = 0
DevsKept == Len(devs') = Len(devs) /\ \A d \in DOMAIN devs : DevKept(d)
SessionOn ==
    \/ session' \in {session, NoSession}
    \/ \E d \in DOMAIN devs : Cur(d) /\ devs[d].pairing # 0 /\ session' = Saved(d)
GenOn == row'.gen # row.gen => session'.pairing = 0 \/ session'.pairing \in unlinked
SavesOn == PairingsOn /\ DevsKept /\ SessionOn /\ GenOn

LEMMA RowForward == ASSUME TypeOK, InPlace, Fenced, Kept, Next PROVE RowOn
<1>1. row.gen \in Nat /\ row.fence \in Nat
  BY DEF TypeOK, Rows
<1>2. ASSUME NEW w \in Workers, Claim(w) PROVE RowOn
  <2>1. CASE RowIs(TRUE, row.gen, row.fence + 1, w, Lease, row.account)
    BY <1>1, <2>1 DEF RowIs, RowOn
  <2>2. CASE RowIs(TRUE, row.gen, row.fence, w, Lease, row.account)
    BY <1>1, <2>2 DEF RowIs, RowOn
  <2>3. CASE UNCHANGED row
    BY <1>1, <2>3 DEF RowOn
  <2> QED
    BY <1>2, <2>1, <2>2, <2>3, ClaimDoes
<1>3. ASSUME NEW w \in Workers, Open(w) PROVE RowOn
  BY <1>1, <1>3 DEF Open, RowOn
<1> QED
  BY <1>2, <1>3, OthersSteady, DeviceSteady DEF Steady

LEMMA DevTypes ==
    ASSUME TypeOK, NEW d \in DOMAIN devs
    PROVE  /\ devs[d] \in Devices /\ devs[d].gen \in Nat /\ devs[d].fence \in Nat /\ devs[d].pairing \in Nat
           /\ devs[d].moved \in Nat /\ devs[d].pairing <= Len(paired) /\ Saved(d) \in Sessions
           /\ Saved(d).pairing = devs[d].pairing /\ Saved(d).moved = devs[d].moved
<1>1. devs[d] \in Devices /\ devs[d].pairing <= Len(paired)
  BY DEF TypeOK
<1> QED
  BY <1>1 DEF Devices, Saved, Sessions

\* The row does not come back to a generation and fence it left.
LEMMA CurBack ==
    ASSUME TypeOK, TypeOK', Fenced, RowOn, NEW d \in DOMAIN devs,
           row'.gen = devs[d].gen, row'.fence = devs[d].fence
    PROVE  Cur(d)
<1>1. devs[d].gen \in Nat /\ devs[d].fence \in Nat /\ row.gen \in Nat /\ row.fence \in Nat
  BY DevTypes DEF TypeOK, Rows
<1> QED
  BY <1>1 DEF Fenced, Before, RowOn, Cur

LEMMA SavesKeep ==
    ASSUME TypeOK, TypeOK', Fenced, Kept, SessionIsCurrent, RowOn, SavesOn
    PROVE  /\ Kept' /\ SessionIsCurrent'
           /\ session'.pairing = session.pairing => session'.moved >= session.moved
<1>0. /\ row.gen \in Nat /\ row'.gen \in Nat /\ Len(paired) \in Nat /\ Len(paired') \in Nat
      /\ DOMAIN paired = 1..Len(paired)
      /\ session.pairing \in Nat /\ session.moved \in Nat /\ session.pairing <= Len(paired)
      /\ session'.pairing \in Nat /\ session'.moved \in Nat
      /\ unlinked \subseteq DOMAIN paired
  <2>1. row.gen \in Nat /\ row'.gen \in Nat
    BY DEF TypeOK, Rows
  <2>2. session \in Sessions /\ session' \in Sessions
    BY DEF TypeOK
  <2>3. paired \in Seq(Pairings) /\ paired' \in Seq(Pairings)
        /\ session.pairing <= Len(paired) /\ unlinked \subseteq DOMAIN paired
    BY DEF TypeOK
  <2> QED
    BY <2>1, <2>2, <2>3 DEF Sessions
<1>1. DOMAIN devs' = DOMAIN devs
  BY DEF SavesOn, DevsKept, TypeOK
<1>2. ASSUME NEW d \in DOMAIN devs PROVE devs'[d].moved \in Nat /\ devs'[d].pairing \in Nat
  <2>1. devs'[d] \in Devices
    BY <1>1 DEF TypeOK
  <2> QED
    BY <2>1 DEF Devices
<1>3. ASSUME NEW d \in DOMAIN devs, NEW e \in DOMAIN devs, Cur(d), Cur(e) PROVE d = e
  BY <1>3 DEF Cur, Fenced
<1>4. ASSUME NEW d \in DOMAIN devs, row'.gen = devs'[d].gen, row'.fence = devs'[d].fence PROVE Cur(d)
  BY <1>4, CurBack DEF SavesOn, DevsKept, DevKept
<1>5. session'.pairing <= Len(paired)
  BY <1>0, DevTypes DEF SavesOn, SessionOn, NoSession
<1>6. session'.pairing = 0 => session'.moved = 0
  BY DevTypes DEF SavesOn, SessionOn, NoSession, Kept
<1>7. ASSUME NEW d \in DOMAIN devs, devs'[d].stored PROVE devs'[d].pairing # 0
  BY <1>0, <1>7 DEF SavesOn, DevsKept, DevKept, Kept
<1>8. ASSUME NEW d \in DOMAIN devs, devs'[d].pairing # 0
      PROVE  paired'[devs'[d].pairing].gen = devs'[d].gen \/ devs'[d].pairing \in unlinked'
  <2>1. CASE devs'[d].pairing = devs[d].pairing
    <3>1. devs[d].pairing \in DOMAIN paired
      BY <1>0, <1>8, <2>1, DevTypes
    <3> QED
      BY <1>8, <2>1, <3>1 DEF SavesOn, DevsKept, DevKept, PairingsOn, Kept
  <2>2. CASE devs'[d].pairing # devs[d].pairing
    BY <2>2 DEF SavesOn, DevsKept, DevKept
  <2> QED
    BY <2>1, <2>2
<1>9. ASSUME NEW d \in DOMAIN devs, devs'[d].state \in Ended PROVE devs'[d].pairing \in unlinked'
  <2>1. devs'[d].pairing = devs[d].pairing
    BY <1>9 DEF SavesOn, DevsKept, DevKept, Ended
  <2> QED
    BY <1>9, <2>1 DEF SavesOn, DevsKept, DevKept, PairingsOn, Kept
<1>10. ASSUME NEW d \in DOMAIN devs, Cur(d), devs'[d].state = "forgetting"
       PROVE  session'.pairing = 0 \/ session'.pairing \in unlinked'
  <2>1. CASE devs[d].state = "forgetting"
    <3>1. CASE session' \in {session, NoSession}
      BY <1>10, <2>1, <3>1 DEF SavesOn, PairingsOn, Kept, NoSession
    <3>2. ASSUME NEW e \in DOMAIN devs, Cur(e), session' = Saved(e)
          PROVE  session'.pairing \in unlinked'
      BY <1>3, <1>10, <2>1, <3>2, DevTypes DEF SavesOn, PairingsOn, Kept, Ended
    <3> QED
      BY <3>1, <3>2 DEF SavesOn, SessionOn
  <2>2. CASE devs[d].state # "forgetting"
    BY <1>10, <2>2 DEF SavesOn, DevsKept, DevKept
  <2> QED
    BY <2>1, <2>2
<1>11. ASSUME NEW d \in DOMAIN devs, Cur(d), session'.pairing = devs'[d].pairing
       PROVE  session'.moved <= devs'[d].moved
  <2>1. devs'[d].pairing = devs[d].pairing /\ devs'[d].moved >= devs[d].moved
    BY <1>0, <1>5, <1>11 DEF SavesOn, DevsKept, DevKept
  <2>2. CASE session' = session
    BY <1>0, <1>2, <1>11, <2>1, <2>2, DevTypes DEF Kept
  <2>3. CASE session' = NoSession
    BY <1>2, <2>3 DEF NoSession
  <2>4. ASSUME NEW e \in DOMAIN devs, Cur(e), session' = Saved(e) PROVE session'.moved <= devs'[d].moved
    BY <1>2, <1>3, <1>11, <2>1, <2>4, DevTypes
  <2> QED
    BY <2>2, <2>3, <2>4 DEF SavesOn, SessionOn
<1>12. Kept'
  BY <1>1, <1>4, <1>6, <1>7, <1>8, <1>9, <1>10, <1>11 DEF Kept, Cur
<1>13. SessionIsCurrent'
  <2> SUFFICES ASSUME session'.pairing # 0, paired'[session'.pairing].gen # row'.gen
               PROVE  session'.pairing \in unlinked'
    BY DEF SessionIsCurrent
  <2>1. session'.pairing \in DOMAIN paired
    BY <1>0, <1>5
  <2>2. paired'[session'.pairing] = paired[session'.pairing]
    BY <2>1 DEF SavesOn, PairingsOn
  <2>3. CASE row'.gen # row.gen
    BY <2>3 DEF SavesOn, GenOn, PairingsOn
  <2>4. CASE row'.gen = row.gen /\ session' = session
    BY <2>2, <2>4 DEF SessionIsCurrent, SavesOn, PairingsOn
  <2>5. CASE row'.gen = row.gen /\ session' # session
    <3>1. PICK d \in DOMAIN devs : Cur(d) /\ devs[d].pairing # 0 /\ session' = Saved(d)
      BY <2>5 DEF SavesOn, SessionOn, NoSession
    <3> QED
      BY <2>2, <2>5, <3>1, DevTypes DEF Kept, Cur, SavesOn, PairingsOn
  <2> QED
    BY <2>3, <2>4, <2>5
<1>14. session'.pairing = session.pairing => session'.moved >= session.moved
  <2> SUFFICES ASSUME session'.pairing = session.pairing PROVE session'.moved >= session.moved
    OBVIOUS
  <2>1. CASE session' \in {session, NoSession}
    BY <1>0, <2>1 DEF NoSession, Kept
  <2>2. ASSUME NEW d \in DOMAIN devs, Cur(d), session' = Saved(d) PROVE session'.moved >= session.moved
    BY <1>0, <2>2, DevTypes DEF Kept
  <2> QED
    BY <2>1, <2>2 DEF SavesOn, SessionOn
<1> QED
  BY <1>12, <1>13, <1>14

LEMMA SameDevKept == ASSUME TypeOK, NEW e \in DOMAIN devs, devs'[e] = devs[e] PROVE DevKept(e)
BY DevTypes DEF DevKept

\* What leaves the pairings and the row's generation alone.
LEMMA EndsKept ==
    ASSUME TypeOK, NEW d \in DOMAIN devs, NEW moved, NEW state, DevIs(d, devs[d].pairing, moved, state),
           moved \in Nat, moved >= devs[d].moved,
           state \in Ended => devs[d].state \in Ended \/ devs[d].pairing \in unlinked',
           state = "forgetting" => devs[d].state = "forgetting" \/ session'.pairing = 0
    PROVE  DevsKept
<1>1. DevKept(d)
  <2>1. /\ devs'[d].gen = devs[d].gen /\ devs'[d].fence = devs[d].fence
        /\ devs'[d].pairing = devs[d].pairing /\ devs'[d].moved = moved /\ devs'[d].state = state
    BY DEF DevIs
  <2>2. devs'[d].stored => devs[d].stored \/ devs'[d].pairing # 0
    BY DEF DevIs
  <2> QED
    BY <2>1, <2>2 DEF DevKept
<1>2. ASSUME NEW e \in DOMAIN devs, e # d PROVE DevKept(e)
  BY <1>2, SameDevKept DEF DevIs
<1> QED
  BY <1>1, <1>2 DEF DevsKept, DevIs

LEMMA SameKept == ASSUME TypeOK, UNCHANGED devs PROVE DevsKept
BY DevTypes DEF DevKept, DevsKept

LEMMA MineKept ==
    ASSUME TypeOK, NEW w \in Workers, NEW state, MineEnd(w, state), state \notin Ended PROVE DevsKept
<1>1. ASSUME NEW e \in DOMAIN devs PROVE DevKept(e)
  <2>1. devs[e].moved \in Nat /\ devs[e].moved >= devs[e].moved
    BY DevTypes
  <2>2. /\ devs'[e].gen = devs[e].gen /\ devs'[e].fence = devs[e].fence
        /\ devs'[e].pairing = devs[e].pairing /\ devs'[e].moved = devs[e].moved
        /\ devs'[e].stored = devs[e].stored /\ devs'[e].state \in {state, devs[e].state}
    BY DEF MineEnd
  <2>3. devs'[e].state = "forgetting" => devs[e].state = "forgetting"
    BY <2>2 DEF Ended
  <2>4. devs'[e].state \in Ended => devs[e].state \in Ended
    BY <2>2
  <2>5. devs'[e].pairing = devs[e].pairing /\ devs'[e].moved >= devs[e].moved
    BY <2>1, <2>2
  <2>6. devs'[e].stored => devs[e].stored \/ devs'[e].pairing # 0
    BY <2>2
  <2> QED
    BY <2>2, <2>3, <2>4, <2>5, <2>6 DEF DevKept
<1> QED
  BY <1>1 DEF DevsKept, MineEnd

LEMMA SamePairings == ASSUME TypeOK, UNCHANGED <<paired, unlinked>> PROVE PairingsOn
BY DEF PairingsOn, TypeOK

LEMMA HoldsCur == ASSUME NEW d, Holds(d) PROVE Cur(d)
BY DEF Holds, Owned, Cur

LEMMA DeviceSaves ==
    ASSUME TypeOK, TypeOK', InPlace, Fenced, Kept, NEW d \in DOMAIN devs, DeviceStep(d) PROVE SavesOn
<1>0. devs[d].moved \in Nat /\ devs[d].moved >= devs[d].moved
  BY DevTypes
<1>1. ASSUME Failed(d) PROVE DevsKept /\ row'.gen = row.gen
  <2>1. row' = row \/ GivenUp
    BY <1>1, FailedEnds
  <2>2. DevsKept
    BY <1>0, <1>1, FailedEnds, SameKept, EndsKept DEF DevEnds, Ended
  <2> QED
    BY <2>1, <2>2 DEF GivenUp, RowIs
<1>2. CASE Pair(d)
  <2>1. UNCHANGED <<row, session, unlinked>>
    BY <1>2 DEF Pair
  <2>2. PICK a \in Accounts :
          /\ Live(d) /\ devs[d].pairing = 0
          /\ paired' = Append(paired, [account |-> a, gen |-> devs[d].gen])
          /\ DevIs(d, Len(paired) + 1, 1, "live")
    BY <1>2, PairDoes
  <2> DEFINE x == [account |-> a, gen |-> devs[d].gen]
  <2>3. paired' = Append(paired, x) /\ x.gen = devs[d].gen
    BY <2>2
  <2> HIDE DEF x
  <2>4. PairingsOn /\ paired'[Len(paired) + 1] = x /\ Len(paired) \in Nat
    BY <2>1, <2>3 DEF PairingsOn, TypeOK
  <2>5. ASSUME NEW e \in DOMAIN devs PROVE DevKept(e)
    <3>1. CASE e = d
      <4>1. /\ devs'[e].gen = devs[e].gen /\ devs'[e].fence = devs[e].fence
            /\ devs'[e].pairing = Len(paired) + 1 /\ devs'[e].state = "live"
        BY <2>2, <3>1 DEF DevIs
      <4>2. devs'[e].pairing # 0
        BY <2>4, <4>1
      <4> QED
        BY <2>2, <2>3, <2>4, <3>1, <4>1, <4>2 DEF DevKept, Ended
    <3>2. CASE e # d
      <4>1. devs'[e] = devs[e]
        BY <2>2, <3>2 DEF DevIs
      <4> QED
        BY <4>1, SameDevKept
    <3> QED
      BY <3>1, <3>2
  <2>6. DevsKept
    BY <2>2, <2>5 DEF DevsKept, DevIs
  <2> QED
    BY <2>1, <2>4, <2>6 DEF SavesOn, SessionOn, GenOn
<1>3. CASE MoveOn(d)
  <2>1. UNCHANGED <<row, session, paired, unlinked>>
    BY <1>3 DEF MoveOn
  <2>2. DevsKept
    <3>1. devs[d].moved + 1 \in Nat /\ devs[d].moved + 1 >= devs[d].moved
      BY <1>0
    <3> QED
      BY <1>3, <3>1, MoveOnDoes, EndsKept DEF Ended
  <2> QED
    BY <2>1, <2>2, SamePairings DEF SavesOn, SessionOn, GenOn
<1>4. CASE Save(d)
  <2>1. UNCHANGED <<paired, unlinked>>
    BY <1>4 DEF Save
  <2>2. CASE Failed(d) /\ UNCHANGED session
    BY <1>1, <2>1, <2>2, SamePairings DEF SavesOn, SessionOn, GenOn
  <2>3. CASE /\ Holds(d) /\ devs[d].pairing # 0 /\ session' = Saved(d)
             /\ DevEnds(d, devs[d].state) /\ UNCHANGED <<row, sending>>
    <3>1. DevIs(d, devs[d].pairing, devs[d].moved, devs[d].state)
      BY <2>3 DEF DevEnds
    <3>2. DevsKept
      BY <1>0, <3>1, EndsKept
    <3> QED
      BY <2>1, <2>3, <3>2, SamePairings, HoldsCur DEF SavesOn, SessionOn, GenOn
  <2> QED
    BY <1>4, <2>2, <2>3, SaveDoes
<1>5. CASE Ready(d)
  <2>1. UNCHANGED <<session, paired, unlinked>>
    BY <1>5 DEF Ready
  <2>2. DevsKept /\ row'.gen = row.gen
    BY <1>1, <1>5, ReadyDoes, SameKept DEF RowIs
  <2> QED
    BY <2>1, <2>2, SamePairings DEF SavesOn, SessionOn, GenOn
<1>6. CASE Enqueue(d)
  <2>1. UNCHANGED <<session, paired, unlinked>>
    BY <1>6 DEF Enqueue
  <2>2. DevsKept /\ row'.gen = row.gen
    BY <1>1, <1>6, EnqueueDoes, SameKept
  <2> QED
    BY <2>1, <2>2, SamePairings DEF SavesOn, SessionOn, GenOn
<1>7. CASE Close(d)
  <2>1. UNCHANGED <<row, paired, unlinked>>
    BY <1>7 DEF Close
  <2>2. DevsKept
    BY <1>0, <1>7, CloseDoes, EndsKept DEF DevEnds, Ended
  <2>3. SessionOn
    BY <1>7, CloseDoes, HoldsCur DEF SessionOn
  <2> QED
    BY <2>1, <2>2, <2>3, SamePairings DEF SavesOn, GenOn
<1>8. CASE LogOut(d)
  <2>1. UNCHANGED <<row, session, paired>>
    BY <1>8 DEF LogOut
  <2>2. unlinked' = unlinked \cup {devs[d].pairing} /\ DevEnds(d, "clearing")
    BY <1>8, LogOutDoes
  <2>3. DevsKept
    <3>1. DevIs(d, devs[d].pairing, devs[d].moved, "clearing") /\ devs[d].pairing \in unlinked'
      BY <2>2 DEF DevEnds
    <3> QED
      BY <1>0, <3>1, EndsKept
  <2>4. PairingsOn
    BY <2>1, <2>2 DEF PairingsOn, TypeOK
  <2> QED
    BY <2>1, <2>3, <2>4 DEF SavesOn, SessionOn, GenOn
<1>9. CASE Dropped(d)
  <2>1. UNCHANGED <<session, paired, unlinked>>
    BY <1>9 DEF Dropped
  <2>2. DevsKept
    BY <1>0, <1>9, DroppedDoes, EndsKept DEF DevEnds, Ended
  <2>3. row'.gen = row.gen
    BY <1>9, DroppedDoes DEF RowIs
  <2> QED
    BY <2>1, <2>2, <2>3, SamePairings DEF SavesOn, SessionOn, GenOn
<1>10. CASE Clear(d)
  <2>1. UNCHANGED <<row, paired, unlinked>>
    BY <1>10 DEF Clear
  <2>2. devs[d].state \in Ended /\ session' \in {session, NoSession}
    BY <1>10, ClearDoes DEF Ended
  <2>3. DevsKept
    <3>1. CASE session' = NoSession /\ DevEnds(d, "forgetting")
      <4>1. session'.pairing = 0
        BY <3>1 DEF NoSession
      <4> QED
        BY <1>0, <2>2, <3>1, <4>1, EndsKept DEF DevEnds
    <3>2. CASE DevEnds(d, "closed")
      BY <1>0, <2>2, <3>2, EndsKept DEF DevEnds
    <3> QED
      BY <1>10, <3>1, <3>2, ClearDoes
  <2> QED
    BY <2>1, <2>2, <2>3, SamePairings DEF SavesOn, SessionOn, GenOn
<1>11. CASE Forget(d)
  <2>1. UNCHANGED <<session, paired, unlinked>>
    BY <1>11 DEF Forget
  <2>2. DevsKept
    BY <1>0, <1>11, ForgetDoes, EndsKept DEF DevEnds, Ended
  <2>3. CASE Holds(d)
    <3>1. GenOn
      BY <1>11, <2>1, <2>3, ForgetDoes, HoldsCur DEF GenOn, Kept
    <3> QED
      BY <2>1, <2>2, <3>1, SamePairings DEF SavesOn, SessionOn
  <2>4. CASE ~Holds(d)
    <3>1. row' = row
      BY <1>11, <2>4, ForgetDoes
    <3> QED
      BY <2>1, <2>2, <3>1, SamePairings DEF SavesOn, SessionOn, GenOn
  <2> QED
    BY <2>3, <2>4
<1> QED
  BY <1>2, <1>3, <1>4, <1>5, <1>6, <1>7, <1>8, <1>9, <1>10, <1>11 DEF DeviceStep, Ending

LEMMA OthersSave ==
    ASSUME TypeOK, TypeOK', InPlace, Fenced, Kept, Next
    PROVE  SavesOn \/ (\E w \in Workers : Open(w)) \/ (\E d \in DOMAIN devs : DeviceStep(d))
<1>1. ASSUME UNCHANGED <<session, devs, paired, unlinked>>, row'.gen = row.gen PROVE SavesOn
  BY <1>1, SameKept, SamePairings DEF SavesOn, SessionOn, GenOn
<1>2. CASE Connect
  <2>1. UNCHANGED <<session, devs, paired, unlinked>>
    BY <1>2 DEF Connect
  <2>2. row'.gen # row.gen => session.pairing = 0
    BY <1>2, ConnectDoes DEF RowIs, Fenced, NoSession
  <2> QED
    BY <2>1, <2>2, SameKept, SamePairings DEF SavesOn, SessionOn, GenOn
<1>3. CASE Disconnect
  <2>1. UNCHANGED <<devs, paired, unlinked>> /\ session' = NoSession
    BY <1>3, DisconnectDoes DEF Disconnect
  <2> QED
    BY <2>1, SameKept, SamePairings DEF SavesOn, SessionOn, GenOn, NoSession
<1>4. CASE Switch \/ Pass
  BY <1>1, <1>4, PassDoes DEF Switch, Pass, RowIs
<1>5. ASSUME NEW w \in Workers, TickStep(w) PROVE SavesOn \/ Open(w)
  <2>1. CASE \/ Snapshot(w) \/ List(w) \/ Check(w) \/ Receive(w) \/ Accept(w)
             \/ Submit(w) \/ NoModel(w) \/ WithoutModel(w) \/ SubmitFails(w) \/ Settle(w)
    BY <1>1, <2>1 DEF Snapshot, List, Check, Receive, Accept, Submit, NoModel, WithoutModel, SubmitFails, Settle
  <2>2. CASE Look(w)
    <3>1. UNCHANGED <<row, session, paired, unlinked>>
      BY <2>2 DEF Look
    <3>2. DevsKept
      <4>1. CASE local[w] # 0 /\ DevEnds(local[w], IF Live(local[w]) THEN "closed" ELSE devs[local[w]].state)
        <5> DEFINE d == local[w]
                   state == IF Live(d) THEN "closed" ELSE devs[d].state
        <5>1. d \in DOMAIN devs /\ state \in {"closed", devs[d].state}
          BY <4>1 DEF TypeOK
        <5>2. devs[d].moved \in Nat /\ devs[d].moved >= devs[d].moved
          BY <5>1, DevTypes
        <5>3. DevIs(d, devs[d].pairing, devs[d].moved, state)
          BY <4>1 DEF DevEnds
        <5> HIDE DEF d, state
        <5> QED
          BY <5>1, <5>2, <5>3, EndsKept DEF Ended
      <4>2. CASE UNCHANGED <<devs, sending>>
        BY <4>2, SameKept
      <4> QED
        BY <2>2, <4>1, <4>2, LookDoes
    <3> QED
      BY <3>1, <3>2, SamePairings DEF SavesOn, SessionOn, GenOn
  <2>3. CASE Stop(w)
    <3>1. UNCHANGED <<row, devs, paired, unlinked>>
      BY <2>3 DEF Stop
    <3>2. local[w] \in DOMAIN devs
      BY <2>3, StopDoes DEF InPlace, TypeOK
    <3>3. SessionOn
      BY <2>3, <3>2, StopDoes, HoldsCur DEF SessionOn
    <3> QED
      BY <3>1, <3>3, SameKept, SamePairings DEF SavesOn, GenOn
  <2>4. CASE Claim(w)
    <3>1. UNCHANGED <<session, devs, paired, unlinked>>
      BY <2>4 DEF Claim
    <3>2. row'.gen = row.gen
      <4>1. CASE RowIs(TRUE, row.gen, row.fence + 1, w, Lease, row.account)
        BY <4>1 DEF RowIs
      <4>2. CASE RowIs(TRUE, row.gen, row.fence, w, Lease, row.account)
        BY <4>2 DEF RowIs
      <4> QED
        BY <2>4, <4>1, <4>2, ClaimDoes
    <3> QED
      BY <1>1, <3>1, <3>2
  <2>5. CASE OpenFails(w)
    <3>1. row'.gen = row.gen /\ UNCHANGED <<session, devs, paired, unlinked>>
      BY <2>5, OpenFailsDoes DEF OpenFails, GivenUp, RowIs
    <3> QED
      BY <1>1, <3>1
  <2> QED
    BY <1>5, <2>1, <2>2, <2>3, <2>4, <2>5 DEF TickStep
<1>6. ASSUME NEW w \in Workers, Send(w) \/ Sent(w) PROVE SavesOn
  BY <1>1, <1>6 DEF Send, Sent
<1>7. ASSUME NEW w \in Workers, Crash(w) \/ Leave(w) \/ Release(w) PROVE SavesOn
  <2>1. UNCHANGED <<paired, unlinked>> /\ row'.gen = row.gen
    BY <1>7, ReleaseDoes DEF Crash, Leave, Release, RowIs
  <2>2. DevsKept
    BY <1>7, CrashDoes, LeaveDoes, ReleaseDoes, MineKept DEF Ended
  <2>3. SessionOn
    <3>1. local[w] # 0 => local[w] \in DOMAIN devs
      BY DEF TypeOK
    <3> QED
      BY <1>7, <3>1, LeaveDoes, HoldsCur DEF Crash, Release, SessionOn
  <2> QED
    BY <2>1, <2>2, <2>3, SamePairings DEF SavesOn, GenOn
<1> QED
  BY <1>2, <1>3, <1>4, <1>5, <1>6, <1>7 DEF Next

\* A device starts from the session of its generation.
LEMMA OpenKeeps ==
    ASSUME TypeOK, TypeOK', InPlace, Fenced, Kept, SessionIsCurrent, NEW w \in Workers, Open(w)
    PROVE  Kept' /\ SessionIsCurrent' /\ session' = session
<1>1. UNCHANGED <<row, session, paired, unlinked>> /\ session.moved \in Nat
  BY DEF Open, TypeOK, Sessions
<1>2. CASE UNCHANGED <<devs, local>>
  BY <1>1, <1>2 DEF Kept, SessionIsCurrent, Cur
<1>3. CASE Claimed(w) /\ Opened(w)
  <2> DEFINE n == Len(devs) + 1
  <2>1. /\ n \notin DOMAIN devs /\ DOMAIN devs' = DOMAIN devs \cup {n}
        /\ \A e \in DOMAIN devs : devs'[e] = devs[e]
        /\ devs'[n].gen = row.gen /\ devs'[n].pairing = session.pairing
        /\ devs'[n].moved = session.moved /\ devs'[n].stored = (session.pairing # 0)
        /\ devs'[n].state = "live"
    BY <1>3 DEF Opened, Claimed, Owned, TypeOK
  <2> HIDE DEF n
  <2>2. ASSUME NEW d \in DOMAIN devs'
        PROVE  /\ devs'[d].stored => devs'[d].pairing # 0
               /\ devs'[d].pairing # 0 => paired[devs'[d].pairing].gen = devs'[d].gen \/ devs'[d].pairing \in unlinked
               /\ devs'[d].state \in Ended => devs'[d].pairing \in unlinked
               /\ row.gen = devs'[d].gen /\ row.fence = devs'[d].fence =>
                    /\ devs'[d].state = "forgetting" => session.pairing = 0 \/ session.pairing \in unlinked
                    /\ session.pairing = devs'[d].pairing => session.moved <= devs'[d].moved
    <3>1. CASE d = n
      <4>1. devs'[d].stored => devs'[d].pairing # 0
        BY <2>1, <3>1
      <4>2. devs'[d].gen = row.gen /\ devs'[d].pairing = session.pairing /\ devs'[d].moved = session.moved
            /\ devs'[d].state = "live"
        BY <2>1, <3>1
      <4>3. session.pairing # 0 => paired[session.pairing].gen = row.gen \/ session.pairing \in unlinked
        BY DEF SessionIsCurrent
      <4>4. session.moved <= devs'[d].moved
        BY <1>1, <4>2
      <4>5. devs'[d].state \notin Ended /\ devs'[d].state # "forgetting"
        BY <4>2 DEF Ended
      <4> QED
        BY <4>1, <4>2, <4>3, <4>4, <4>5
    <3>2. CASE d # n
      <4>1. d \in DOMAIN devs /\ devs'[d] = devs[d]
        BY <2>1, <3>2
      <4> QED
        BY <4>1 DEF Kept, Cur
    <3> QED
      BY <3>1, <3>2
  <2>3. Kept'
    BY <1>1, <2>2 DEF Kept, Cur
  <2> QED
    BY <1>1, <2>3 DEF SessionIsCurrent
<1> QED
  BY <1>1, <1>2, <1>3, OpenDoes

LEMMA KeptStep ==
    ASSUME TypeOK, TypeOK', InPlace, Fenced, Kept, SessionIsCurrent, Next
    PROVE  /\ Kept' /\ SessionIsCurrent'
           /\ session'.pairing = session.pairing => session'.moved >= session.moved
<1>1. session.moved \in Nat
  BY DEF TypeOK, Sessions
<1> QED
  BY <1>1, RowForward, OthersSave, DeviceSaves, SavesKeep, OpenKeeps

---------------------------------------------------------------------------
(* The phone of a generation *)

AccountOn ==
    \/ row'.gen > row.gen /\ spoke' = spoke
    \/ row'.gen = row.gen /\ row'.account = row.account /\ spoke' = spoke
    \/ \E account \in Accounts :
         /\ row'.gen = row.gen /\ row.account \in {Nobody, account} /\ row'.account = account
         /\ spoke' = spoke \cup {[gen |-> row.gen, account |-> account]}

LEMMA AccountKept ==
    ASSUME TypeOK, TypeOK', Spoken, OneAccount, AccountOn PROVE Spoken' /\ OneAccount'
<1>0. /\ row.gen \in Nat /\ row'.gen \in Nat
      /\ \A x \in spoke : x.gen \in Nat /\ x.account \in Accounts
      /\ Nobody \notin Accounts
  BY Constants DEF TypeOK, Rows
<1>1. CASE row'.gen > row.gen /\ spoke' = spoke
  BY <1>0, <1>1 DEF Spoken, OneAccount
<1>2. CASE row'.gen = row.gen /\ row'.account = row.account /\ spoke' = spoke
  BY <1>2 DEF Spoken, OneAccount
<1>3. ASSUME NEW account \in Accounts, row'.gen = row.gen, row.account \in {Nobody, account},
             row'.account = account, spoke' = spoke \cup {[gen |-> row.gen, account |-> account]}
      PROVE  Spoken' /\ OneAccount'
  <2>1. \A x \in spoke : x.gen = row.gen => x.account = account
    BY <1>0, <1>3 DEF Spoken
  <2> DEFINE y == [gen |-> row.gen, account |-> account]
  <2>2. spoke' = spoke \cup {y} /\ y.gen = row.gen /\ y.account = account
    BY <1>3
  <2> HIDE DEF y
  <2>3. \A x \in spoke' : x.gen <= row.gen /\ (x.gen = row.gen => x.account = account)
    BY <1>0, <2>1, <2>2 DEF Spoken
  <2>4. Spoken'
    BY <1>3, <2>3 DEF Spoken
  <2>5. \A x, z \in spoke' : x.gen = z.gen => x.account = z.account
    BY <2>1, <2>2 DEF OneAccount
  <2> QED
    BY <2>4, <2>5 DEF OneAccount
<1> QED
  BY <1>1, <1>2, <1>3 DEF AccountOn

LEMMA AccountStep == ASSUME TypeOK, Fenced, Kept, Next PROVE AccountOn
<1>0. row.gen \in Nat
  BY DEF TypeOK, Rows
<1>1. ASSUME UNCHANGED row, UNCHANGED spoke PROVE AccountOn
  BY <1>1 DEF AccountOn
<1>2. ASSUME GivenUp, UNCHANGED spoke PROVE AccountOn
  BY <1>2 DEF AccountOn, GivenUp, RowIs
<1>3. CASE Connect
  <2>1. row'.gen = (IF row.gen = 0 THEN 1 ELSE row.gen) /\ row'.account = row.account
    BY <1>3, ConnectDoes DEF RowIs
  <2> QED
    BY <1>0, <1>3, <2>1 DEF Connect, AccountOn
<1>4. CASE Disconnect
  <2>1. row'.gen = row.gen + 1
    BY <1>4, DisconnectDoes DEF RowIs
  <2> QED
    BY <1>0, <1>4, <2>1 DEF Disconnect, AccountOn
<1>5. CASE Switch \/ Pass
  <2>1. row'.gen = row.gen /\ row'.account = row.account
    BY <1>5, PassDoes DEF Switch, RowIs
  <2> QED
    BY <1>5, <2>1 DEF Switch, Pass, AccountOn
<1>6. ASSUME NEW w \in Workers, TickStep(w) PROVE AccountOn
  <2>1. UNCHANGED spoke
    BY <1>6 DEF TickStep, Snapshot, Look, Stop, Claim, Open, OpenFails, List, Check, Receive, Accept,
       Submit, NoModel, WithoutModel, SubmitFails, Settle
  <2>2. CASE Claim(w)
    <3>1. CASE RowIs(TRUE, row.gen, row.fence + 1, w, Lease, row.account)
      BY <2>1, <3>1 DEF RowIs, AccountOn
    <3>2. CASE RowIs(TRUE, row.gen, row.fence, w, Lease, row.account)
      BY <2>1, <3>2 DEF RowIs, AccountOn
    <3>3. CASE UNCHANGED row
      BY <1>1, <2>1, <3>3
    <3> QED
      BY <2>2, <3>1, <3>2, <3>3, ClaimDoes
  <2>3. CASE OpenFails(w)
    BY <1>2, <2>1, <2>3, OpenFailsDoes
  <2>4. CASE ~Claim(w) /\ ~OpenFails(w)
    <3>1. UNCHANGED row
      BY <1>6, <2>4 DEF TickStep, Snapshot, Look, Stop, Open, List, Check, Receive, Accept,
         Submit, NoModel, WithoutModel, SubmitFails, Settle
    <3> QED
      BY <1>1, <2>1, <3>1
  <2> QED
    BY <2>2, <2>3, <2>4
<1>7. ASSUME NEW w \in Workers, Send(w) \/ Sent(w) \/ Crash(w) \/ Leave(w) \/ Release(w) PROVE AccountOn
  <2>1. UNCHANGED spoke /\ row'.gen = row.gen /\ row'.account = row.account
    BY <1>7, ReleaseDoes DEF Send, Sent, Crash, Leave, Release, RowIs
  <2> QED
    BY <2>1 DEF AccountOn
<1>8. ASSUME NEW d \in DOMAIN devs, DeviceStep(d) PROVE AccountOn
  <2>1. ASSUME Failed(d), UNCHANGED spoke PROVE AccountOn
    BY <1>1, <1>2, <2>1, FailedEnds
  <2>2. CASE Pair(d) \/ MoveOn(d) \/ Close(d) \/ LogOut(d) \/ Clear(d)
    BY <1>1, <2>2 DEF Pair, MoveOn, Close, LogOut, Clear
  <2>3. CASE Save(d)
    <3>1. UNCHANGED spoke
      BY <2>3 DEF Save
    <3> QED
      BY <1>1, <2>1, <2>3, <3>1, SaveDoes
  <2>4. CASE Ready(d)
    <3>1. ASSUME NEW account \in Accounts, row.account \in {Nobody, account},
                 RowIs(row.desired, row.gen, row.fence, row.owner, row.lease, account),
                 spoke' = spoke \cup {[gen |-> row.gen, account |-> account]}
          PROVE  AccountOn
      BY <3>1 DEF RowIs, AccountOn
    <3> QED
      BY <2>1, <2>4, <3>1, ReadyDoes
  <2>5. CASE Enqueue(d)
    <3>1. UNCHANGED spoke
      BY <2>5 DEF Enqueue
    <3> QED
      BY <1>1, <2>1, <2>5, <3>1, EnqueueDoes
  <2>6. CASE Dropped(d)
    <3>1. UNCHANGED spoke /\ row'.gen = row.gen /\ row'.account = row.account
      BY <2>6, DroppedDoes DEF Dropped, RowIs
    <3> QED
      BY <3>1 DEF AccountOn
  <2>7. CASE Forget(d)
    <3>1. UNCHANGED spoke /\ (row' = row \/ row'.gen = row.gen + 1)
      BY <2>7, ForgetDoes DEF Forget, RowIs
    <3> QED
      BY <1>0, <1>1, <3>1 DEF AccountOn
  <2> QED
    BY <1>8, <2>2, <2>3, <2>4, <2>5, <2>6, <2>7 DEF DeviceStep, Ending
<1> QED
  BY <1>3, <1>4, <1>5, <1>6, <1>7, <1>8 DEF Next

---------------------------------------------------------------------------
(* One sender at a time *)

\* The devices stay who they are; one that is new is of the row's generation and fence.
DevsFresh ==
    /\ DOMAIN devs \subseteq DOMAIN devs'
    /\ \A d \in DOMAIN devs : devs'[d].gen = devs[d].gen /\ devs'[d].fence = devs[d].fence
    /\ \A d \in DOMAIN devs' \ DOMAIN devs : devs'[d].gen = row.gen /\ devs'[d].fence = row.fence

LEMMA SendsOn ==
    ASSUME TypeOK, Fenced, Alone, RowOn, DevsFresh, NEW w \in Workers, sending[w] # NoSend,
           sending'[w].dev = sending[w].dev, local'[w] = local[w], devs'[local[w]].state = "live",
           row'.gen = row.gen /\ row.gen = devs[local[w]].gen =>
             row'.fence = row.fence /\ row'.desired /\ row'.owner = w /\ row'.lease > sending'[w].left
    PROVE  AloneAt(w)'
<1> DEFINE d == local[w]
<1>1. AloneAt(w) /\ d \in DOMAIN devs /\ row.gen \in Nat
  BY DEF Alone, AloneAt, TypeOK, Rows
<1>2. devs'[d].gen = devs[d].gen /\ devs'[d].fence = devs[d].fence
      /\ devs[d].gen \in Nat /\ devs[d].fence \in Nat
  BY <1>1, DevTypes DEF DevsFresh
<1>3. devs[d].gen <= row.gen
  BY <1>1, <1>2 DEF Fenced, Before
<1>4. row'.gen = devs[d].gen => row'.gen = row.gen
  BY <1>1, <1>2, <1>3 DEF RowOn
<1>5. ASSUME NEW e \in DOMAIN devs', devs'[e].gen = devs[d].gen PROVE devs'[e].fence <= devs[d].fence
  <2>1. CASE e \in DOMAIN devs
    BY <1>1, <1>5, <2>1 DEF DevsFresh, AloneAt
  <2>2. CASE e \notin DOMAIN devs
    BY <1>1, <1>2, <1>5, <2>2 DEF DevsFresh, AloneAt, Cur
  <2> QED
    BY <2>1, <2>2
<1>6. sending'[w].dev = local'[w] /\ local'[w] # 0 /\ local'[w] = d /\ devs'[d].state = "live"
  BY <1>1 DEF AloneAt
<1>7. row'.gen = devs'[d].gen =>
        /\ row'.gen = devs'[d].gen /\ row'.fence = devs'[d].fence
        /\ row'.desired /\ row'.owner = w /\ row'.lease > sending'[w].left
  BY <1>1, <1>2, <1>4 DEF AloneAt, Cur
<1> HIDE DEF d
<1> QED
  BY <1>2, <1>5, <1>6, <1>7 DEF AloneAt, Cur, Live

\* Nothing of what the part depends on changed.
LEMMA Undisturbed ==
    ASSUME TypeOK, Fenced, Alone, RowOn, DevsFresh, NEW w \in Workers, sending[w] # NoSend,
           sending'[w] = sending[w], local'[w] = local[w], devs'[local[w]].state = "live",
           row'.fence = row.fence, row'.desired = row.desired, row'.owner = row.owner, row'.lease = row.lease
    PROVE  AloneAt(w)'
<1>1. row.gen = devs[local[w]].gen => row.desired /\ row.owner = w /\ row.lease > sending[w].left
  BY DEF Alone, AloneAt
<1> QED
  BY <1>1, SendsOn

LEMMA OnFresh == ASSUME TypeOK, DevsOn PROVE DevsFresh
BY Domains DEF DevsOn, DevsFresh

\* What is known of who sends: it is the live device in the map of its process.
LEMMA SenderIs ==
    ASSUME TypeOK, InPlace, Alone, NEW w \in Workers, sending[w] # NoSend
    PROVE  /\ local[w] \in DOMAIN devs /\ devs[local[w]].state = "live" /\ devs[local[w]].worker = w
           /\ sending[w].dev = local[w]
BY DEF Alone, AloneAt, TypeOK, InPlace, Live

\* A device that gives its row up was the one that sends, and closed.
LEMMA FailedAlone ==
    ASSUME TypeOK, InPlace, Fenced, Alone, RowOn, NEW w \in Workers, NEW d \in DOMAIN devs,
           Failed(d), UNCHANGED local, sending'[w] # NoSend
    PROVE  AloneAt(w)'
<1>1. sending[w] # NoSend /\ sending'[w] = sending[w] /\ sending[w].dev # d
  BY FailedEnds DEF Silent
<1>2. local[w] # d /\ local[w] \in DOMAIN devs /\ devs[local[w]].state = "live"
  BY <1>1, SenderIs
<1>3. DevsOn /\ devs'[local[w]] = devs[local[w]]
  <2>1. CASE devs' = devs
    BY <2>1, DevsStay
  <2>2. CASE DevEnds(d, "closed")
    <3>1. DevIs(d, devs[d].pairing, devs[d].moved, "closed")
      BY <2>2 DEF DevEnds
    <3>2. devs'[local[w]] = devs[local[w]]
      BY <1>2, <3>1 DEF DevIs
    <3> QED
      BY <3>1, <3>2, EndsOn
  <2> QED
    BY <2>1, <2>2, FailedEnds
<1>4. CASE row' = row
  BY <1>1, <1>2, <1>3, <1>4, OnFresh, Undisturbed
<1>5. CASE Holds(d) /\ GivenUp
  <2>1. row.gen # devs[local[w]].gen
    <3>1. row.gen = devs[d].gen /\ row.fence = devs[d].fence
      BY <1>5 DEF Holds, Owned
    <3>2. row.gen = devs[local[w]].gen => row.fence = devs[local[w]].fence
      BY <1>1 DEF Alone, AloneAt, Cur
    <3> QED
      BY <1>2, <3>1, <3>2 DEF Fenced
  <2> QED
    BY <1>1, <1>2, <1>3, <2>1, OnFresh, SendsOn
<1> QED
  BY <1>4, <1>5, FailedEnds

LEMMA DeviceAlone ==
    ASSUME TypeOK, InPlace, Fenced, Kept, Alone, RowOn, NEW w \in Workers, NEW d \in DOMAIN devs,
           DeviceStep(d), sending'[w] # NoSend
    PROVE  AloneAt(w)'
<1>1. UNCHANGED local
  BY DEF DeviceStep, Ending, Pair, MoveOn, Save, Ready, Enqueue, Close, LogOut, Dropped, Clear, Forget
<1>2. DevsOn
  BY DeviceSteady DEF Steady
<1>3. CASE Failed(d)
  BY <1>1, <1>3, FailedAlone
<1>4. ASSUME UNCHANGED <<row, sending>>, NEW pairing, NEW moved, DevIs(d, pairing, moved, devs[d].state)
      PROVE  AloneAt(w)'
  <2>1. sending[w] # NoSend /\ devs'[local[w]].state = "live"
    BY <1>4, SenderIs DEF DevIs
  <2> QED
    BY <1>1, <1>2, <1>4, <2>1, OnFresh, Undisturbed
<1>5. ASSUME UNCHANGED row, NEW state, DevEnds(d, state), Silent({d}) PROVE AloneAt(w)'
  <2>1. sending[w] # NoSend /\ sending'[w] = sending[w] /\ sending[w].dev # d
    BY <1>5 DEF Silent
  <2>2. devs'[local[w]].state = "live"
    BY <1>5, <2>1, SenderIs DEF DevEnds, DevIs
  <2> QED
    BY <1>1, <1>2, <1>5, <2>1, <2>2, OnFresh, Undisturbed
<1>6. ASSUME ~Live(d), NEW state, DevEnds(d, state), UNCHANGED sending
      PROVE  sending[w] # NoSend /\ local[w] # d /\ devs'[local[w]].state = "live"
  BY <1>6, SenderIs DEF DevEnds, DevIs, Live
<1>7. CASE Pair(d)
  <2>1. DevIs(d, Len(paired) + 1, 1, "live") /\ devs[d].state = "live"
    BY <1>7, PairDoes DEF Live
  <2>2. UNCHANGED <<row, sending>>
    BY <1>7 DEF Pair
  <2>3. DevIs(d, Len(paired) + 1, 1, devs[d].state)
    BY <2>1
  <2> QED
    BY <1>4, <2>2, <2>3
<1>8. CASE MoveOn(d)
  BY <1>4, <1>8, MoveOnDoes DEF MoveOn, Live
<1>9. CASE Save(d)
  BY <1>3, <1>4, <1>9, SaveDoes DEF DevEnds
<1>10. CASE Ready(d)
  <2>1. ASSUME NEW account, RowIs(row.desired, row.gen, row.fence, row.owner, row.lease, account),
               UNCHANGED <<devs, sending>>
        PROVE  AloneAt(w)'
    <3>1. sending[w] # NoSend /\ devs'[local[w]].state = "live"
      BY <2>1, SenderIs
    <3>2. row'.fence = row.fence /\ row'.desired = row.desired /\ row'.owner = row.owner /\ row'.lease = row.lease
      BY <2>1 DEF RowIs
    <3> QED
      BY <1>1, <1>2, <2>1, <3>1, <3>2, OnFresh, Undisturbed
  <2> QED
    BY <1>3, <1>10, <2>1, ReadyDoes
<1>11. CASE Enqueue(d)
  <2>1. CASE UNCHANGED <<row, devs, sending>>
    <3>1. sending[w] # NoSend /\ devs'[local[w]].state = "live"
      BY <2>1, SenderIs
    <3> QED
      BY <1>1, <1>2, <2>1, <3>1, OnFresh, Undisturbed
  <2> QED
    BY <1>3, <1>11, <2>1, EnqueueDoes
<1>12. CASE Close(d)
  BY <1>5, <1>12, CloseDoes DEF Close
<1>13. CASE LogOut(d)
  BY <1>5, <1>13, LogOutDoes DEF LogOut
<1>14. CASE Dropped(d)
  <2>1. ~Live(d) /\ DevEnds(d, "closed") /\ UNCHANGED sending
    BY <1>14, DroppedDoes DEF Live, Dropped
  <2>2. sending[w] # NoSend /\ local[w] # d /\ devs'[local[w]].state = "live"
    BY <1>6, <2>1
  <2>3. CASE ~Holds(d)
    BY <1>1, <1>2, <1>14, <2>1, <2>2, <2>3, DroppedDoes, OnFresh, Undisturbed
  <2>4. CASE Holds(d)
    <3>1. row.gen # devs[local[w]].gen
      <4>1. row.gen = devs[d].gen /\ row.fence = devs[d].fence
        BY <2>4 DEF Holds, Owned
      <4>2. row.gen = devs[local[w]].gen => row.fence = devs[local[w]].fence
        BY <2>2 DEF Alone, AloneAt, Cur
      <4> QED
        BY <2>2, <4>1, <4>2, SenderIs DEF Fenced
    <3> QED
      BY <1>1, <1>2, <2>1, <2>2, <3>1, OnFresh, SendsOn
  <2> QED
    BY <2>3, <2>4
<1>15. CASE Clear(d)
  <2>1. ~Live(d) /\ (DevEnds(d, "closed") \/ DevEnds(d, "forgetting")) /\ UNCHANGED <<row, sending>>
    BY <1>15, ClearDoes DEF Live, Clear
  <2>2. sending[w] # NoSend /\ local[w] # d /\ devs'[local[w]].state = "live"
    BY <1>6, <2>1
  <2> QED
    BY <1>1, <1>2, <2>1, <2>2, OnFresh, Undisturbed
<1>16. CASE Forget(d)
  <2>1. ~Live(d) /\ DevEnds(d, "closed") /\ UNCHANGED sending
    BY <1>16, ForgetDoes DEF Live, Forget
  <2>2. sending[w] # NoSend /\ local[w] # d /\ devs'[local[w]].state = "live"
    BY <1>6, <2>1
  <2>3. CASE row' = row
    BY <1>1, <1>2, <2>1, <2>2, <2>3, OnFresh, Undisturbed
  <2>4. CASE row'.gen = row.gen + 1
    <3>1. row'.gen # row.gen
      BY <2>4 DEF TypeOK, Rows
    <3> QED
      BY <1>1, <1>2, <2>1, <2>2, <3>1, OnFresh, SendsOn
  <2> QED
    BY <1>16, <2>3, <2>4, ForgetDoes DEF RowIs
<1> QED
  BY <1>7, <1>8, <1>9, <1>10, <1>11, <1>12, <1>13, <1>14, <1>15, <1>16 DEF DeviceStep, Ending

LEMMA OthersAlone ==
    ASSUME TypeOK, InPlace, Fenced, Kept, Alone, RowOn, NEW w \in Workers, Next, sending'[w] # NoSend
    PROVE  AloneAt(w)' \/ (\E d \in DOMAIN devs : DeviceStep(d))
<1>0. /\ row.gen \in Nat /\ row.fence \in Nat /\ Lease \in Nat /\ SendTime \in Nat
      /\ row.lease \in 0..Lease /\ local \in [Workers -> 0..Len(devs)]
      /\ sending[w].left \in 0..SendTime
  <2>1. sending[w] \in Sends
    BY DEF TypeOK
  <2> QED
    BY <2>1, Constants DEF TypeOK, Rows, Sends
<1>1. ASSUME UNCHANGED <<row, devs, local, sending>> PROVE AloneAt(w)'
  BY <1>1, SenderIs, DevsStay, OnFresh, Undisturbed
<1>2. ASSUME UNCHANGED <<devs, local, sending>>, row'.gen = row.gen => ~row.desired PROVE AloneAt(w)'
  <2>1. row.gen = devs[local[w]].gen => row.desired
    BY <1>2 DEF Alone, AloneAt
  <2> QED
    BY <1>2, <2>1, SenderIs, DevsStay, OnFresh, SendsOn
<1>3. CASE Connect
  BY <1>2, <1>3, ConnectDoes DEF Connect
<1>4. CASE Disconnect
  <2>1. row'.gen # row.gen
    BY <1>0, <1>4, DisconnectDoes DEF RowIs
  <2> QED
    BY <1>2, <1>4, <2>1 DEF Disconnect
<1>5. CASE Switch
  BY <1>1, <1>5 DEF Switch
<1>6. CASE Pass
  <2>1. /\ sending'[w].dev = sending[w].dev /\ sending'[w].left = Less(sending[w].left)
        /\ sending[w] # NoSend /\ sending[w].left > 0
    BY <1>6, PassDoes
  <2>2. /\ row'.gen = row.gen /\ row'.fence = row.fence /\ row'.desired = row.desired
        /\ row'.owner = row.owner /\ row'.lease = Less(row.lease)
    BY <1>6, PassDoes DEF RowIs
  <2>3. UNCHANGED <<devs, local>>
    BY <1>6 DEF Pass
  <2>4. row.gen = devs[local[w]].gen =>
          row.desired /\ row.owner = w /\ row.lease > sending[w].left
    BY <2>1 DEF Alone, AloneAt
  <2>5. row.lease > sending[w].left => row'.lease > sending'[w].left
    BY <1>0, <2>1, <2>2 DEF Less
  <2> QED
    BY <2>1, <2>2, <2>3, <2>4, <2>5, SenderIs, DevsStay, OnFresh, SendsOn
<1>7. ASSUME NEW v \in Workers, Claim(v) PROVE AloneAt(w)'
  <2>1. UNCHANGED <<devs, local, sending>>
    BY <1>7 DEF Claim
  <2>2. sending[w] # NoSend /\ local[w] # 0
    BY <2>1 DEF Alone, AloneAt
  <2>3. CASE UNCHANGED row
    BY <1>1, <2>1, <2>3
  <2>4. CASE Free(v) /\ row.gen # devs[local[w]].gen
    BY <2>1, <2>2, <2>4, SenderIs, DevsStay, OnFresh, SendsOn
  <2>5. CASE Free(v) /\ row.gen = devs[local[w]].gen
    <3>1. row.owner = w /\ row.lease > sending[w].left
      BY <2>2, <2>5 DEF Alone, AloneAt
    <3>2. v = w
      BY <1>0, <2>5, <3>1 DEF Free
    <3>3. CASE RowIs(TRUE, row.gen, row.fence, w, Lease, row.account)
      <4>1. row'.fence = row.fence /\ row'.desired /\ row'.owner = w /\ row'.lease > sending'[w].left
        BY <1>0, <2>1, <3>1, <3>3 DEF RowIs
      <4> QED
        BY <2>1, <2>2, <4>1, SenderIs, DevsStay, OnFresh, SendsOn
    <3> QED
      BY <1>7, <2>2, <2>3, <3>2, <3>3, ClaimDoes
  <2> QED
    BY <1>7, <2>3, <2>4, <2>5, ClaimDoes
<1>8. ASSUME NEW v \in Workers, Open(v) PROVE AloneAt(w)'
  <2>1. UNCHANGED <<row, sending>> /\ At(v, "opening")
    BY <1>8 DEF Open
  <2>2. sending[w] # NoSend
    BY <2>1
  <2>3. local[w] # 0 /\ v # w
    BY <2>1, <2>2, SenderIs DEF InPlace, TypeOK
  <2>4. CASE UNCHANGED <<devs, local>>
    BY <1>1, <2>1, <2>4
  <2>5. CASE Claimed(v) /\ Opened(v)
    <3> DEFINE n == Len(devs) + 1
    <3>1. /\ \A e \in DOMAIN devs : devs'[e] = devs[e]
          /\ devs'[n].gen = row.gen /\ devs'[n].fence = row.fence
          /\ local' = [local EXCEPT ![v] = n]
          /\ DOMAIN devs' = DOMAIN devs \cup {n}
      BY <2>5 DEF Opened, Claimed, Owned, TypeOK
    <3>2. DevsFresh
      BY <3>1 DEF DevsFresh
    <3>3. local'[w] = local[w]
      BY <1>0, <2>3, <3>1
    <3>4. devs'[local[w]].state = "live"
      BY <2>2, <3>1, SenderIs
    <3> HIDE DEF n
    <3> QED
      BY <2>1, <2>2, <3>2, <3>3, <3>4, Undisturbed
  <2> QED
    BY <1>8, <2>4, <2>5, OpenDoes
<1>9. ASSUME NEW v \in Workers, OpenFails(v) PROVE AloneAt(w)'
  <2>1. UNCHANGED <<devs, local, sending>> /\ At(v, "opening") /\ Claimed(v)
    BY <1>9 DEF OpenFails
  <2>2. row.gen # devs[local[w]].gen
    <3>1. row.gen = tick[v].gen /\ row.fence = tick[v].fence
      BY <2>1 DEF Claimed, Owned
    <3>2. row.gen = devs[local[w]].gen => row.fence = devs[local[w]].fence
      BY <2>1 DEF Alone, AloneAt, Cur
    <3> QED
      BY <2>1, <3>1, <3>2, SenderIs DEF Fenced
  <2> QED
    BY <2>1, <2>2, SenderIs, DevsStay, OnFresh, SendsOn
<1>10. ASSUME NEW v \in Workers, Look(v) PROVE AloneAt(w)'
  <2>1. UNCHANGED <<row, local>>
    BY <1>10 DEF Look
  <2>2. CASE UNCHANGED <<devs, sending>>
    BY <1>1, <2>1, <2>2
  <2>3. CASE local[v] # 0 /\ Silent({local[v]})
             /\ DevEnds(local[v], IF Live(local[v]) THEN "closed" ELSE devs[local[v]].state)
    <3> DEFINE state == IF Live(local[v]) THEN "closed" ELSE devs[local[v]].state
    <3>1. local[v] \in DOMAIN devs /\ sending[w] # NoSend /\ sending'[w] = sending[w] /\ sending[w].dev # local[v]
      BY <1>0, <2>3 DEF Silent, TypeOK
    <3>2. DevIs(local[v], devs[local[v]].pairing, devs[local[v]].moved, state)
      BY <2>3 DEF DevEnds
    <3>3. state # "live"
      BY DEF Live
    <3> HIDE DEF state
    <3>4. DevsOn
      BY <3>1, <3>2, <3>3, EndsOn
    <3>5. devs'[local[w]].state = "live"
      BY <3>1, <3>2, SenderIs DEF DevIs
    <3> QED
      BY <2>1, <3>1, <3>4, <3>5, OnFresh, Undisturbed
  <2> QED
    BY <1>10, <2>2, <2>3, LookDoes
<1>11. ASSUME NEW v \in Workers, Stop(v) PROVE AloneAt(w)'
  <2>1. UNCHANGED <<row, devs, sending>> /\ local' = [local EXCEPT ![v] = 0] /\ At(v, "stopping")
    BY <1>11 DEF Stop
  <2>2. v # w
    BY <2>1, SenderIs DEF InPlace, Live
  <2>3. local'[w] = local[w]
    BY <1>0, <2>1, <2>2
  <2> QED
    BY <1>1, <2>1, <2>3, SenderIs, DevsStay, OnFresh, Undisturbed
<1>12. ASSUME NEW v \in Workers,
              \/ Snapshot(v) \/ List(v) \/ Check(v) \/ Receive(v) \/ Accept(v)
              \/ Submit(v) \/ NoModel(v) \/ WithoutModel(v) \/ SubmitFails(v) \/ Settle(v)
       PROVE  AloneAt(w)'
  <2>1. UNCHANGED <<row, devs, local, sending>>
    BY <1>12 DEF Snapshot, List, Check, Receive, Accept, Submit, NoModel, WithoutModel, SubmitFails, Settle
  <2> QED
    BY <1>1, <2>1
<1>13. ASSUME NEW v \in Workers, Send(v) PROVE AloneAt(w)'
  <2>1. UNCHANGED <<row, devs, local>>
    BY <1>13 DEF Send
  <2>2. CASE v # w
    <3>1. sending'[w] = sending[w]
      BY <1>13, <2>2, SendDoes DEF TypeOK
    <3> QED
      BY <2>1, <3>1, SenderIs, DevsStay, OnFresh, Undisturbed
  <2>3. CASE v = w
    <3> DEFINE d == local[w]
    <3>1. /\ d # 0 /\ Live(d) /\ Cur(d) /\ row.desired /\ row.owner = w /\ row.lease > SendTime
          /\ sending'[w] = [dev |-> d, left |-> SendTime]
      BY <1>13, <2>3, SendDoes DEF TypeOK
    <3>2. ASSUME NEW e \in DOMAIN devs, devs[e].gen = devs[d].gen PROVE devs[e].fence <= devs[d].fence
      BY <1>0, <3>1, <3>2, DevTypes DEF Fenced, Before, Cur
    <3>3. sending'[w].dev = d /\ sending'[w].left = SendTime
      BY <3>1
    <3> HIDE DEF d
    <3>4. local'[w] = d
      BY <2>1 DEF d
    <3> QED
      BY <2>1, <3>1, <3>2, <3>3, <3>4 DEF AloneAt, Cur, Live
  <2> QED
    BY <2>2, <2>3
<1>14. ASSUME NEW v \in Workers, Sent(v) PROVE AloneAt(w)'
  <2>1. UNCHANGED <<row, devs, local>> /\ sending'[w] = sending[w]
    BY <1>14 DEF Sent, TypeOK
  <2> QED
    BY <2>1, SenderIs, DevsStay, OnFresh, Undisturbed
<1>15. ASSUME NEW v \in Workers, Crash(v) \/ Leave(v) \/ Release(v) PROVE AloneAt(w)'
  <2>1. Silent(Mine(v)) /\ local' = [local EXCEPT ![v] = 0]
        /\ (MineEnd(v, "gone") \/ MineEnd(v, "closed"))
    BY <1>15, CrashDoes, LeaveDoes, ReleaseDoes
  <2>2. sending[w] # NoSend /\ sending'[w] = sending[w] /\ sending[w].dev \notin Mine(v)
    BY <2>1 DEF Silent
  <2>3. v # w
    BY <2>2, SenderIs DEF Mine
  <2>4. local'[w] = local[w]
    BY <1>0, <2>1, <2>3
  <2>5. devs'[local[w]].state = "live"
    BY <2>1, <2>2, <2>3, SenderIs DEF MineEnd
  <2>6. DevsOn
    BY <2>1, MineOn
  <2>7. CASE row' = row
    BY <2>2, <2>4, <2>5, <2>6, <2>7, OnFresh, Undisturbed
  <2>8. CASE row.owner = v
    <3>1. row.gen # devs[local[w]].gen
      BY <2>2, <2>3, <2>8 DEF Alone, AloneAt
    <3> QED
      BY <2>2, <2>4, <2>5, <2>6, <3>1, OnFresh, SendsOn
  <2> QED
    BY <1>15, <2>7, <2>8, ReleaseDoes DEF Crash, Leave
<1> QED
  BY <1>3, <1>4, <1>5, <1>6, <1>7, <1>8, <1>9, <1>10, <1>11, <1>12, <1>13, <1>14, <1>15 DEF Next, TickStep

LEMMA AloneStep ==
    ASSUME TypeOK, InPlace, Fenced, Kept, Alone, Next PROVE Alone'
<1>1. RowOn
  BY RowForward
<1>2. ASSUME NEW w \in Workers, sending'[w] # NoSend PROVE AloneAt(w)'
  BY <1>1, <1>2, OthersAlone, DeviceAlone
<1> QED
  BY <1>2 DEF Alone, NoSend

\* Who sends is the newest device of its generation.
LEMMA AloneSends == ASSUME TypeOK, Alone PROVE SendsAlone
<1> SUFFICES ASSUME NEW v \in Workers, NEW w \in Workers, sending[w] # NoSend, local[v] # 0
             PROVE  ~(/\ Live(local[v]) /\ devs[local[v]].gen = devs[sending[w].dev].gen
                      /\ devs[local[v]].fence > devs[sending[w].dev].fence)
  BY DEF SendsAlone
<1>1. local[v] \in DOMAIN devs /\ local[w] \in DOMAIN devs /\ sending[w].dev = local[w]
  BY DEF Alone, AloneAt, TypeOK
<1>2. devs[local[v]].fence \in Nat /\ devs[local[w]].fence \in Nat
  BY <1>1, DevTypes
<1> QED
  BY <1>1, <1>2 DEF Alone, AloneAt

---------------------------------------------------------------------------
(* The inbox *)

\* The inbox, what was put aside, what was kept without a turn and the turns are only added to, and
\* nothing waits again.
InboxKept ==
    /\ scope' = scope /\ DOMAIN inbox \subseteq DOMAIN inbox' /\ muted \subseteq muted'
    /\ unanswered \subseteq unanswered'
    /\ \A i \in DOMAIN inbox :
         /\ inbox'[i].message = inbox[i].message /\ inbox'[i].gen = inbox[i].gen
         /\ inbox'[i].status = "pending" => inbox[i].status = "pending"
         /\ Made(i) => Made(i)'
InboxStays == UNCHANGED <<scope, inbox, unanswered, muted, enabled, paused, turns>>

LEMMA StaysOn == ASSUME TypeOK, InboxStays PROVE InboxKept
BY DEF InboxStays, InboxKept, Made

LEMMA GoneStays == ASSUME InboxKept, NEW i \in DOMAIN inbox, Gone(i) PROVE Gone(i)'
BY DEF InboxKept, Gone, Refused

\* Only a claim makes a process the owner of the row.
LEMMA OwnerIs ==
    ASSUME TypeOK, Kept, Next, NEW w \in Workers, row'.owner = w
    PROVE  \/ Claim(w)
           \/ /\ row.owner = w /\ row'.gen = row.gen /\ row'.fence = row.fence
              /\ (row'.desired => row.desired) /\ row'.lease <= row.lease
<1>0. row.lease \in Nat /\ Nobody \notin Workers
  BY Constants DEF TypeOK, Rows
<1> DEFINE Goal == /\ row.owner = w /\ row'.gen = row.gen /\ row'.fence = row.fence
                   /\ (row'.desired => row.desired) /\ row'.lease <= row.lease
<1>1. ASSUME UNCHANGED row PROVE Goal
  BY <1>0, <1>1
<1>2. ASSUME GivenUp PROVE Goal
  BY <1>0, <1>2 DEF GivenUp, RowIs
<1>3. ASSUME NEW desired, NEW gen, NEW fence, NEW account, RowIs(desired, gen, fence, Nobody, 0, account)
      PROVE  FALSE
  BY <1>0, <1>3 DEF RowIs
<1>4. CASE Connect
  BY <1>3, <1>4, ConnectDoes
<1>5. CASE Disconnect
  BY <1>3, <1>5, DisconnectDoes
<1>6. CASE Switch
  BY <1>1, <1>6 DEF Switch
<1>7. CASE Pass
  BY <1>0, <1>7, PassDoes DEF RowIs, Less
<1>8. ASSUME NEW v \in Workers, Claim(v) PROVE Claim(w) \/ Goal
  <2>1. CASE UNCHANGED row
    BY <1>1, <2>1
  <2>2. CASE row'.owner = v
    BY <1>8, <2>2
  <2> QED
    BY <1>8, <2>1, <2>2, ClaimDoes DEF RowIs
<1>9. ASSUME NEW v \in Workers, OpenFails(v) PROVE Goal
  BY <1>2, <1>9, OpenFailsDoes
<1>10. ASSUME NEW v \in Workers, TickStep(v), ~Claim(v), ~OpenFails(v) PROVE Goal
  <2>1. UNCHANGED row
    BY <1>10 DEF TickStep, Snapshot, Look, Stop, Open, List, Check, Receive, Accept, Submit,
       NoModel, WithoutModel, SubmitFails, Settle
  <2> QED
    BY <1>1, <2>1
<1>11. ASSUME NEW v \in Workers, Send(v) \/ Sent(v) \/ Crash(v) \/ Leave(v) PROVE Goal
  BY <1>1, <1>11 DEF Send, Sent, Crash, Leave
<1>12. ASSUME NEW v \in Workers, Release(v) PROVE Goal
  BY <1>1, <1>3, <1>12, ReleaseDoes
<1>13. ASSUME NEW d \in DOMAIN devs, DeviceStep(d) PROVE Goal
  <2>1. CASE Failed(d)
    BY <1>1, <1>2, <2>1, FailedEnds
  <2>2. CASE Pair(d) \/ MoveOn(d) \/ Close(d) \/ LogOut(d) \/ Clear(d)
    BY <1>1, <2>2 DEF Pair, MoveOn, Close, LogOut, Clear
  <2>3. CASE Save(d)
    BY <1>1, <2>1, <2>3, SaveDoes
  <2>4. CASE Enqueue(d)
    BY <1>1, <2>1, <2>4, EnqueueDoes
  <2>5. CASE Ready(d)
    <3>1. ASSUME NEW account, RowIs(row.desired, row.gen, row.fence, row.owner, row.lease, account)
          PROVE  Goal
      BY <1>0, <3>1 DEF RowIs
    <3> QED
      BY <2>1, <2>5, <3>1, ReadyDoes
  <2>6. CASE Dropped(d)
    BY <1>1, <1>3, <2>6, DroppedDoes
  <2>7. CASE Forget(d)
    BY <1>1, <1>3, <2>7, ForgetDoes
  <2> QED
    BY <1>13, <2>2, <2>3, <2>4, <2>5, <2>6, <2>7 DEF DeviceStep, Ending
<1> HIDE DEF Goal
<1> QED
  BY <1>4, <1>5, <1>6, <1>7, <1>8, <1>9, <1>10, <1>11, <1>12, <1>13 DEF Next, Goal

\* So a tick that lost the row does not get it back.
LEMMA ClaimedWas ==
    ASSUME TypeOK, TypeOK', Fenced, Kept, Next, NEW w \in Workers, ~Claim(w), Claimed(w)',
           \/ tick'[w].gen = tick[w].gen /\ tick'[w].fence = tick[w].fence
           \/ tick'[w].gen = 0
    PROVE  Claimed(w) /\ tick'[w].gen = tick[w].gen
<1>1. /\ row'.desired /\ row'.owner = w /\ row'.lease > 0
      /\ row'.gen = tick'[w].gen /\ row'.fence = tick'[w].fence
  BY DEF Claimed, Owned
<1>2. /\ row.owner = w /\ row'.gen = row.gen /\ row'.fence = row.fence
      /\ row.desired /\ row'.lease <= row.lease
  BY <1>1, OwnerIs
<1>3. row.lease \in 0..Lease /\ row'.lease \in 0..Lease /\ Lease \in Nat
  BY Constants DEF TypeOK, Rows
<1>4. row.lease > 0
  BY <1>1, <1>2, <1>3
<1>5. row.gen # 0
  BY <1>2 DEF Fenced
<1> QED
  BY <1>1, <1>2, <1>4, <1>5 DEF Claimed, Owned

LEMMA InboxIs ==
    ASSUME TypeOK
    PROVE  /\ Len(inbox) \in Nat /\ DOMAIN inbox = 1..Len(inbox)
           /\ \A i \in DOMAIN inbox : inbox[i] \in Items
           /\ \A i \in DOMAIN inbox : inbox[i].gen \in Nat
           /\ \A i \in DOMAIN inbox : inbox[i].status \in {"pending", "submitted", "discarded"}
           /\ \A j \in DOMAIN turns : turns[j] \in DOMAIN inbox
           /\ \A w \in Workers : tick[w].items \subseteq DOMAIN inbox
           /\ \A w \in Workers : tick[w].gen \in Nat /\ tick[w].fence \in Nat /\ tick[w].paused \in Nat
           /\ \A w \in Workers : tick[w].as \in {"pending", "submitted", "discarded"}
           /\ paused \in Nat /\ row.gen \in Nat /\ muted \subseteq DOMAIN inbox
<1>1. ASSUME NEW i \in DOMAIN inbox
      PROVE  inbox[i] \in Items /\ inbox[i].gen \in Nat /\ inbox[i].status \in {"pending", "submitted", "discarded"}
  <2>1. inbox[i] \in Items
    BY DEF TypeOK
  <2> QED
    BY <2>1 DEF Items
<1>2. ASSUME NEW w \in Workers
      PROVE  /\ tick[w].gen \in Nat /\ tick[w].fence \in Nat /\ tick[w].paused \in Nat
             /\ tick[w].as \in {"pending", "submitted", "discarded"}
  <2>1. tick[w] \in Ticks
    BY DEF TypeOK
  <2> QED
    BY <2>1 DEF Ticks
<1>3. \A j \in DOMAIN turns : turns[j] \in DOMAIN inbox
  <2> DEFINE D == DOMAIN inbox
  <2>1. turns \in Seq(D)
    BY DEF TypeOK
  <2> HIDE DEF D
  <2>2. \A j \in DOMAIN turns : turns[j] \in D
    BY <2>1
  <2> QED
    BY <2>2 DEF D
<1>4. Len(inbox) \in Nat /\ DOMAIN inbox = 1..Len(inbox) /\ paused \in Nat /\ row.gen \in Nat
      /\ muted \subseteq DOMAIN inbox /\ \A w \in Workers : tick[w].items \subseteq DOMAIN inbox
  BY DEF TypeOK, Rows
<1> QED
  BY <1>1, <1>2, <1>3, <1>4

\* What no turn was added to.
LEMMA OrderStays ==
    ASSUME TypeOK, TypeOK', InboxKept, UNCHANGED turns, InTurn, TurnsInOrder PROVE InTurn' /\ TurnsInOrder'
<1>1. ASSUME NEW i, Made(i)' PROVE Made(i) /\ i \in DOMAIN inbox
  BY <1>1, InboxIs DEF Made
<1>2. ASSUME NEW i \in DOMAIN inbox', NEW j \in DOMAIN inbox', Made(i)', j < i, inbox'[j].gen = inbox'[i].gen
      PROVE  Gone(j)'
  <2>1. Made(i) /\ i \in DOMAIN inbox
    BY <1>1, <1>2
  <2>2. j \in DOMAIN inbox
    <3>1. i \in 1..Len(inbox) /\ Len(inbox) \in Nat /\ DOMAIN inbox = 1..Len(inbox)
      BY <2>1, InboxIs
    <3>2. j \in Nat \ {0}
      BY <1>2 DEF TypeOK
    <3> QED
      BY <1>2, <3>1, <3>2
  <2>3. Gone(j)
    BY <1>2, <2>1, <2>2 DEF InTurn, InboxKept
  <2> QED
    BY <2>2, <2>3, GoneStays
<1>3. TurnsInOrder'
  BY InboxIs DEF TurnsInOrder, InboxKept
<1> QED
  BY <1>2, <1>3 DEF InTurn

LEMMA OrderlyStays ==
    ASSUME TypeOK, TypeOK', RowOn, Orderly, InboxStays PROVE Orderly'
<1>1. InTurn' /\ TurnsInOrder'
  BY StaysOn, OrderStays DEF Orderly, InboxStays
<1>2. row.gen \in Nat /\ row'.gen \in Nat /\ row.gen <= row'.gen
  BY DEF TypeOK, Rows, RowOn
<1>3. CrossedOff'
  BY <1>2, InboxIs DEF Orderly, CrossedOff, InboxStays, Pending, Refused
<1>4. NoneLost'
  BY DEF Orderly, NoneLost, InboxStays, Made
<1> QED
  BY <1>1, <1>3, <1>4 DEF Orderly

LEMMA SwitchOrderly ==
    ASSUME TypeOK, TypeOK', Orderly, Switch PROVE InboxKept /\ Pending' = {} /\ Orderly'
<1>1. UNCHANGED <<scope, row, turns, unanswered>> /\ muted' = muted \cup Pending
  BY DEF Switch, DiscardInbox
<1>2. DOMAIN inbox' = DOMAIN inbox
  BY SwitchDoes DEF TypeOK
<1>3. \A i \in DOMAIN inbox :
        /\ inbox'[i].message = inbox[i].message /\ inbox'[i].gen = inbox[i].gen
        /\ inbox'[i].status = IF i \in Pending THEN "discarded" ELSE inbox[i].status
  BY SwitchDoes
<1>4. InboxKept
  BY <1>1, <1>2, <1>3 DEF InboxKept, Made, Pending
<1>5. Pending' = {}
  BY <1>2, <1>3 DEF Pending
<1>6. InTurn' /\ TurnsInOrder'
  BY <1>1, <1>4, OrderStays DEF Orderly
<1>7. CrossedOff'
  BY <1>1, <1>2, <1>3, <1>5 DEF Orderly, CrossedOff, Refused
<1>8. NoneLost'
  BY <1>1, <1>2, <1>3 DEF Orderly, NoneLost, Made
<1> QED
  BY <1>4, <1>5, <1>6, <1>7, <1>8 DEF Orderly

\* What enqueue leaves of the inbox.
Enqueued ==
    /\ InboxKept /\ UNCHANGED <<enabled, paused, turns>>
    /\ \A i \in DOMAIN inbox : inbox'[i] = inbox[i] /\ (i \in muted' => i \in muted)

LEMMA EnqueueOrderly ==
    ASSUME TypeOK, TypeOK', RowOn, Orderly, NEW d \in DOMAIN devs, Enqueue(d) PROVE Enqueued /\ Orderly'
<1>1. UNCHANGED <<scope, enabled, paused, turns, unanswered>>
  BY DEF Enqueue
<1>2. CASE UNCHANGED <<inbox, muted>>
  <2>1. InboxStays
    BY <1>1, <1>2 DEF InboxStays
  <2> QED
    BY <1>1, <1>2, <2>1, StaysOn, OrderlyStays DEF Enqueued
<1>3. ASSUME NEW m \in Messages, Holds(d), UNCHANGED <<row, devs, sending>>,
             inbox' = Append(inbox, [message |-> m, gen |-> devs[d].gen,
                                     status |-> IF enabled THEN "pending" ELSE "discarded"]),
             muted' = IF enabled THEN muted ELSE muted \cup {Len(inbox) + 1}
      PROVE  Enqueued /\ Orderly'
  <2> DEFINE n == Len(inbox) + 1
             status == IF enabled THEN "pending" ELSE "discarded"
             x == [message |-> m, gen |-> devs[d].gen, status |-> status]
  <2>1. inbox' = Append(inbox, x) /\ x.gen = row.gen /\ x.status = status
    BY <1>3 DEF Holds, Owned
  <2>2. muted' = IF enabled THEN muted ELSE muted \cup {n}
    BY <1>3
  <2>3. (status = "pending" /\ enabled) \/ (status = "discarded" /\ ~enabled)
    OBVIOUS
  <2> HIDE DEF x, status
  <2>4. /\ DOMAIN inbox' = DOMAIN inbox \cup {n} /\ n \notin DOMAIN inbox /\ inbox'[n] = x
        /\ \A i \in DOMAIN inbox : inbox'[i] = inbox[i]
    BY <2>1 DEF TypeOK
  <2> HIDE DEF n
  <2>5. InboxKept
    BY <1>1, <2>2, <2>4 DEF InboxKept, Made
  <2>6. InTurn' /\ TurnsInOrder'
    BY <1>1, <2>5, OrderStays DEF Orderly
  <2>7. Pending' = IF enabled THEN Pending \cup {n} ELSE Pending
    BY <2>1, <2>3, <2>4 DEF Pending
  <2>8. muted \cap Pending = {} /\ (~enabled => Pending = {}) /\ n \notin Pending /\ n \notin muted
    BY <2>4, InboxIs DEF Orderly, CrossedOff, Pending
  <2>9. (~enabled' => Pending' = {}) /\ muted' \cap Pending' = {}
    BY <1>1, <2>2, <2>7, <2>8
  <2>10. ASSUME NEW i \in DOMAIN inbox'
         PROVE  /\ inbox'[i].gen <= row'.gen
                /\ inbox'[i].status = "discarded" => Refused(i)' \/ i \in muted' \/ inbox'[i].gen < row'.gen
    <3>1. CASE i = n
      BY <1>3, <2>1, <2>2, <2>3, <2>4, <3>1, InboxIs
    <3>2. CASE i \in DOMAIN inbox
      BY <1>1, <1>3, <2>2, <2>4, <3>2 DEF Orderly, CrossedOff, Refused
    <3> QED
      BY <2>4, <3>1, <3>2
  <2>11. CrossedOff'
    BY <2>9, <2>10 DEF CrossedOff
  <2>12. ASSUME NEW i \in DOMAIN inbox', inbox'[i].status = "submitted"
         PROVE  Made(i)' \/ i \in unanswered' \cup muted'
    <3>1. i \in DOMAIN inbox
      BY <2>1, <2>3, <2>4, <2>12
    <3> QED
      BY <1>1, <2>2, <2>4, <2>12, <3>1 DEF Orderly, NoneLost, Made
  <2>13. NoneLost'
    BY <2>12 DEF NoneLost
  <2>14. \A i \in DOMAIN inbox : i \in muted' => i \in muted
    BY <2>2, <2>4
  <2> QED
    BY <1>1, <2>4, <2>5, <2>6, <2>11, <2>13, <2>14 DEF Enqueued, Orderly
<1> QED
  BY <1>2, <1>3, EnqueueDoes

\* A turn is made of the item in hand.
LEMMA SubmitOrderly ==
    ASSUME TypeOK, TypeOK', Orderly, NEW w \in Workers, NEW i \in Current(w), InHandAt(w, i),
           tick[w].pc = "submitting", ~Refused(i), Same(w), Turn(i),
           UNCHANGED <<scope, row, inbox, unanswered, muted, enabled, paused>>
    PROVE  InboxKept /\ Made(i)' /\ Orderly'
<1>0. i \in DOMAIN inbox
  BY InboxIs DEF Current
<1>1. CASE Made(i)
  <2>1. turns' = turns
    BY <1>1 DEF Turn
  <2>2. InboxStays /\ RowOn
    BY <2>1 DEF InboxStays, RowOn, TypeOK, Rows
  <2>3. InboxKept /\ Orderly'
    BY <2>2, StaysOn, OrderlyStays
  <2> QED
    BY <1>1, <2>1, <2>3 DEF Made
<1>2. CASE ~Made(i)
  <2> DEFINE n == Len(turns) + 1
  <2>1. turns' = Append(turns, i)
    BY <1>2 DEF Turn
  <2>2. /\ DOMAIN turns' = DOMAIN turns \cup {n} /\ turns'[n] = i /\ n \notin DOMAIN turns
        /\ \A j \in DOMAIN turns : turns'[j] = turns[j] /\ j < n
    <3> DEFINE D == DOMAIN inbox
    <3>1. turns \in Seq(D)
      BY DEF TypeOK
    <3> HIDE DEF D
    <3> QED
      BY <2>1, <3>1
  <2> HIDE DEF n
  <2>3. \A k : Made(k)' <=> Made(k) \/ k = i
    BY <2>2 DEF Made
  <2>4. InboxKept
    BY <2>3 DEF InboxKept
  <2>5. /\ inbox[i].gen = tick[w].gen /\ i \notin muted
        /\ \A j \in DOMAIN inbox : j < i /\ inbox[j].gen = tick[w].gen => Gone(j)
    BY DEF InHandAt, Taken, Taking, Same
  <2>6. ASSUME NEW k \in DOMAIN inbox, NEW j \in DOMAIN inbox, Made(k)', j < k, inbox[j].gen = inbox[k].gen
        PROVE  Gone(j)'
    <3>1. Gone(j)
      BY <2>3, <2>5, <2>6 DEF Orderly, InTurn
    <3> QED
      BY <2>4, <3>1, GoneStays
  <2>7. InTurn'
    BY <2>6 DEF InTurn
  <2>8. ASSUME NEW j \in DOMAIN turns, inbox[turns[j]].gen = inbox[i].gen
        PROVE  turns[j] < i \/ i \in unanswered
    <3>1. turns[j] \in DOMAIN inbox /\ Made(turns[j])
      BY InboxIs DEF Made
    <3>2. turns[j] # i
      BY <1>2, <3>1
    <3>3. i < turns[j] => i \in unanswered
      BY <1>0, <1>2, <2>5, <2>8, <3>1 DEF Orderly, InTurn, Gone
    <3> QED
      BY <1>0, <3>1, <3>2, <3>3, InboxIs
  <2>9. ASSUME NEW j \in DOMAIN turns', NEW k \in DOMAIN turns', j < k,
               inbox[turns'[j]].gen = inbox[turns'[k]].gen
        PROVE  turns'[j] < turns'[k] \/ turns'[k] \in unanswered
    <3>1. CASE k = n
      <4>1. j \in DOMAIN turns
        BY <2>2, <2>9, <3>1 DEF n, TypeOK
      <4> QED
        BY <2>2, <2>8, <2>9, <3>1, <4>1
    <3>2. CASE k # n
      <4>1. k \in DOMAIN turns
        BY <2>2, <3>2
      <4>2. j # n
        BY <2>2, <2>9, <4>1 DEF n, TypeOK
      <4> QED
        BY <2>2, <2>9, <4>1, <4>2 DEF Orderly, TurnsInOrder
    <3> QED
      BY <3>1, <3>2
  <2>10. TurnsInOrder'
    BY <2>9 DEF TurnsInOrder
  <2>11. CrossedOff' /\ NoneLost'
    BY <2>3 DEF Orderly, CrossedOff, NoneLost, Pending, Refused
  <2> QED
    BY <2>3, <2>4, <2>7, <2>10, <2>11 DEF Orderly
<1> QED
  BY <1>1, <1>2

\* The item in hand is crossed off for a reason.
LEMMA SettleOrderly ==
    ASSUME TypeOK, TypeOK', Orderly, NEW w \in Workers, NEW i \in Current(w), InHandAt(w, i),
           tick[w].pc = "settling", Claimed(w), inbox' = [inbox EXCEPT ![i].status = tick[w].as],
           UNCHANGED <<scope, row, turns, unanswered, muted, enabled, paused>>
    PROVE  InboxKept /\ Pending' = Pending \ {i} /\ Orderly'
<1>0. i \in DOMAIN inbox
  BY InboxIs DEF Current
<1> DEFINE as == tick[w].as
           r == [inbox[i] EXCEPT !.status = as]
<1>1. \/ as = "submitted" /\ (Made(i) \/ i \in unanswered \cup muted)
      \/ as = "discarded" /\ (Refused(i) \/ inbox[i].gen # tick[w].gen)
  BY DEF InHandAt
<1> HIDE DEF as
<1>2. inbox[i] \in Items /\ row.gen = tick[w].gen
  BY <1>0, InboxIs DEF Claimed, Owned
<1>3. r.message = inbox[i].message /\ r.gen = inbox[i].gen /\ r.status = as
  BY <1>2 DEF Items
<1>4. inbox' = [inbox EXCEPT ![i] = r]
  BY DEF as
<1> HIDE DEF r
<1>5. /\ DOMAIN inbox' = DOMAIN inbox /\ inbox'[i] = r
      /\ \A j \in DOMAIN inbox : j # i => inbox'[j] = inbox[j]
  BY <1>0, <1>4 DEF TypeOK
<1>6. as # "pending"
  BY <1>1
<1>7. InboxKept
  BY <1>3, <1>5, <1>6 DEF InboxKept, Made
<1>8. Pending' = Pending \ {i}
  BY <1>3, <1>5, <1>6 DEF Pending
<1>9. InTurn' /\ TurnsInOrder'
  BY <1>7, OrderStays DEF Orderly
<1>10. ASSUME NEW j \in DOMAIN inbox
       PROVE  /\ inbox'[j].gen <= row.gen
              /\ inbox'[j].status = "discarded" => Refused(j)' \/ j \in muted' \/ inbox'[j].gen < row.gen
  <2>1. CASE j = i
    <3>1. inbox[i].gen <= row.gen /\ inbox[i].gen \in Nat /\ row.gen \in Nat
      BY <1>0, InboxIs DEF Orderly, CrossedOff
    <3>2. inbox'[j].gen = inbox[i].gen /\ inbox'[j].status = as /\ (Refused(i) => Refused(j)')
      BY <1>3, <1>5, <2>1 DEF Refused
    <3>3. as = "discarded" => Refused(j)' \/ inbox[i].gen < row.gen
      BY <1>1, <1>2, <3>1, <3>2
    <3> QED
      BY <3>1, <3>2, <3>3
  <2>2. CASE j # i
    <3>1. inbox'[j] = inbox[j]
      BY <1>5, <2>2
    <3> QED
      BY <3>1 DEF Orderly, CrossedOff, Refused
  <2> QED
    BY <2>1, <2>2
<1>11. CrossedOff'
  BY <1>5, <1>8, <1>10 DEF Orderly, CrossedOff
<1>12. ASSUME NEW j \in DOMAIN inbox, inbox'[j].status = "submitted"
       PROVE  Made(j)' \/ j \in unanswered' \cup muted'
  <2>1. Made(j) \/ j \in unanswered \cup muted
    BY <1>1, <1>3, <1>5, <1>12 DEF Orderly, NoneLost
  <2> QED
    BY <2>1 DEF Made
<1>13. NoneLost'
  BY <1>5, <1>12 DEF NoneLost
<1> QED
  BY <1>7, <1>8, <1>9, <1>11, <1>13 DEF Orderly

\* The item in hand is kept without a turn.
LEMMA KeptOrderly ==
    ASSUME TypeOK, TypeOK', Orderly, NEW i \in DOMAIN inbox, unanswered' = unanswered \cup {i},
           UNCHANGED <<scope, row, inbox, turns, muted, enabled, paused>>
    PROVE  InboxKept /\ Orderly'
<1>1. InboxKept
  BY DEF InboxKept, Made
<1>2. InTurn' /\ TurnsInOrder'
  BY <1>1, OrderStays DEF Orderly
<1>3. CrossedOff'
  BY DEF Orderly, CrossedOff, Pending, Refused
<1>4. NoneLost'
  BY DEF Orderly, NoneLost, Made
<1> QED
  BY <1>1, <1>2, <1>3, <1>4 DEF Orderly

---------------------------------------------------------------------------
(* What the ticks know *)

\* What was listed stays listed.
LEMMA ListedStays ==
    ASSUME TypeOK, TypeOK', InboxKept, NEW w \in Workers, ListedAt(w),
           tick'[w].items \subseteq tick[w].items, paused' >= paused,
           \A i \in tick'[w].items : \A j \in Pending' :
             j < i /\ j \in tick[w].items => j \in tick'[w].items,
           tick'[w].paused \in {tick[w].paused, paused'}, Claimed(w)' => Claimed(w),
           Claimed(w)' => \A i \in tick'[w].items : i \in Pending => i \in Pending' \/ i \in muted'
    PROVE  ListedAt(w)'
<1>1. tick'[w].paused <= paused'
  <2>1. paused \in Nat /\ paused' \in Nat /\ tick[w].paused \in Nat
    BY InboxIs DEF TypeOK
  <2> QED
    BY <2>1 DEF ListedAt
<1>2. ASSUME NEW i \in tick'[w].items, Claimed(w)' PROVE i \in Pending' \/ i \in muted'
  BY <1>2 DEF ListedAt, InboxKept
<1>3. ASSUME NEW i \in tick'[w].items, NEW j \in Pending', j < i PROVE j \in tick'[w].items
  <2>1. i \in DOMAIN inbox /\ j \in DOMAIN inbox' /\ inbox'[j].status = "pending"
    BY <1>3, InboxIs DEF Pending
  <2>2. j \in DOMAIN inbox
    <3>1. i \in 1..Len(inbox) /\ Len(inbox) \in Nat /\ DOMAIN inbox = 1..Len(inbox)
      BY <2>1, InboxIs
    <3>2. j \in Nat \ {0}
      BY <2>1 DEF TypeOK
    <3> QED
      BY <1>3, <3>1, <3>2
  <2>3. j \in Pending
    BY <2>1, <2>2 DEF InboxKept, Pending
  <2> QED
    BY <1>3, <2>3 DEF ListedAt
<1> QED
  BY <1>1, <1>2, <1>3 DEF ListedAt

TickSame(w) ==
    /\ tick'[w].pc = tick[w].pc /\ tick'[w].gen = tick[w].gen /\ tick'[w].fence = tick[w].fence
    /\ tick'[w].items = tick[w].items /\ tick'[w].paused = tick[w].paused /\ tick'[w].as = tick[w].as
\* The channel was left as it was, or switched, which puts aside what waited.
Switched ==
    \/ UNCHANGED <<enabled, paused>> /\ \A i \in DOMAIN inbox : i \in muted' => i \in muted
    \/ paused' = paused + 1 /\ Pending' = {}

LEMMA OneCurrent ==
    ASSUME TypeOK, NEW w \in Workers, NEW i \in Current(w)
    PROVE  /\ i \in DOMAIN inbox /\ i \in tick[w].items
           /\ \A j \in Current(w) : j = i
           /\ \A j \in tick[w].items : i <= j
<1>1. \A j \in tick[w].items : j \in Nat
  BY DEF TypeOK
<1> QED
  BY <1>1, InboxIs DEF Current

\* A tick that makes no step knows what it knew.
LEMMA TickWaits ==
    ASSUME TypeOK, TypeOK', InboxKept, Switched, NEW w \in Workers, ListedAt(w), TickSame(w),
           \A i \in Current(w) : InHandAt(w, i), Claimed(w)' => Claimed(w),
           Claimed(w)' => \A i \in tick[w].items : i \in Pending => i \in Pending' \/ i \in muted'
    PROVE  ListedAt(w)' /\ \A i \in Current(w)' : InHandAt(w, i)'
<1>0. paused \in Nat /\ tick[w].paused \in Nat /\ tick[w].paused <= paused
  BY InboxIs DEF ListedAt
<1>1. ListedAt(w)'
  BY <1>0, ListedStays DEF TickSame, Switched
<1>2. ASSUME NEW i \in Current(w)' PROVE InHandAt(w, i)'
  <2>1. i \in Current(w)
    BY <1>2 DEF Current, TickSame
  <2>2. i \in DOMAIN inbox /\ i \in tick[w].items /\ InHandAt(w, i)
    BY <2>1, OneCurrent
  <2>3. inbox'[i].gen = inbox[i].gen /\ (Refused(i) => Refused(i)') /\ (Made(i) => Made(i)')
        /\ (i \in muted => i \in muted') /\ (i \in unanswered => i \in unanswered')
    BY <2>2 DEF InboxKept, Refused
  <2>4. tick[w].pc \in Taken =>
          /\ inbox'[i].gen = tick[w].gen
          /\ \A j \in DOMAIN inbox' : j < i /\ inbox'[j].gen = tick[w].gen => Gone(j)'
    <3> SUFFICES ASSUME tick[w].pc \in Taken
                 PROVE  /\ inbox'[i].gen = tick[w].gen
                        /\ \A j \in DOMAIN inbox' : j < i /\ inbox'[j].gen = tick[w].gen => Gone(j)'
      OBVIOUS
    <3>1. inbox'[i].gen = tick[w].gen
      BY <2>2, <2>3 DEF InHandAt
    <3>2. ASSUME NEW j \in DOMAIN inbox', j < i, inbox'[j].gen = tick[w].gen PROVE Gone(j)'
      <4>1. i \in 1..Len(inbox) /\ Len(inbox) \in Nat /\ DOMAIN inbox = 1..Len(inbox)
        BY <2>2, InboxIs
      <4>2. j \in Nat \ {0}
        BY <3>2 DEF TypeOK
      <4>3. j \in DOMAIN inbox
        BY <3>2, <4>1, <4>2
      <4>4. Gone(j)
        BY <2>2, <3>2, <4>3 DEF InHandAt, InboxKept
      <4> QED
        BY <4>3, <4>4, GoneStays
    <3> QED
      BY <3>1, <3>2
  <2>5. tick[w].pc \in Taking =>
          IF tick[w].paused = paused' THEN enabled' ELSE Claimed(w)' => i \in muted'
    <3>1. CASE UNCHANGED <<enabled, paused>>
      BY <2>2, <2>3, <3>1 DEF InHandAt
    <3>2. CASE paused' = paused + 1 /\ Pending' = {}
      <4>1. tick[w].paused # paused'
        BY <1>0, <3>2
      <4>2. Claimed(w)' => i \in Pending' \/ i \in muted'
        BY <2>2, <2>3 DEF ListedAt
      <4> QED
        BY <3>2, <4>1, <4>2
    <3> QED
      BY <3>1, <3>2 DEF Switched
  <2>6. tick[w].pc \in {"submitting", "withoutModel"} /\ tick[w].paused = paused' => i \notin muted'
    BY <1>0, <2>2 DEF Switched, InHandAt
  <2>7. tick[w].pc = "settling" =>
          \/ ~Claimed(w)'
          \/ tick[w].as = "submitted" /\ (Made(i)' \/ i \in unanswered' \cup muted')
          \/ tick[w].as = "discarded" /\ (Refused(i)' \/ inbox'[i].gen # tick[w].gen)
    BY <2>2, <2>3 DEF InHandAt
  <2> QED
    BY <2>4, <2>5, <2>6, <2>7 DEF InHandAt, TickSame
<1> QED
  BY <1>1, <1>2

LEMMA SameKnows ==
    ASSUME TypeOK, TypeOK', Fenced, Kept, Next, InboxKept, Switched, NEW w \in Workers, Known(w), TickSame(w),
           Claimed(w)' /\ Claimed(w) => \A i \in tick[w].items : i \in Pending => i \in Pending' \/ i \in muted'
    PROVE  Known(w)'
<1>1. ~Claim(w)
  BY ClaimDoes DEF TickSame, TickRests, TickIs, At
<1>2. Claimed(w)' => Claimed(w)
  BY <1>1, ClaimedWas DEF TickSame
<1> QED
  BY <1>2, TickWaits DEF Known

\* A step that leaves the inbox leaves what a tick at rest knows of it.
LEMMA RestKnows ==
    ASSUME TypeOK, TypeOK', Fenced, Kept, Next, InboxStays, NEW w \in Workers, Known(w), TickSame(w)
    PROVE  Known(w)'
<1>1. InboxKept /\ Switched /\ Pending' = Pending
  BY StaysOn DEF InboxStays, Switched, Pending
<1> QED
  BY <1>1, SameKnows

LEMMA EmptyKnows ==
    ASSUME TypeOK', NEW w \in Workers, tick'[w].items = {}, tick'[w].paused = 0 PROVE Known(w)'
BY DEF Known, ListedAt, Current, TypeOK

\* The mover of a tick, while the row and what waits stay.
LEMMA StillListed ==
    ASSUME TypeOK, TypeOK', InboxKept, NEW w \in Workers, ListedAt(w), Pending' = Pending, UNCHANGED <<row, paused>>,
           tick'[w].gen = tick[w].gen, tick'[w].fence = tick[w].fence, tick'[w].items = tick[w].items,
           tick'[w].paused \in {tick[w].paused, paused}
    PROVE  ListedAt(w)' /\ (Claimed(w)' <=> Claimed(w)) /\ Current(w)' = Current(w)
<1>1. Claimed(w)' <=> Claimed(w)
  BY DEF Claimed, Owned
<1>2. paused' >= paused
  BY InboxIs
<1> QED
  BY <1>1, <1>2, ListedStays DEF Current

LEMMA OpeningKnows ==
    ASSUME TypeOK, TypeOK', Fenced, Kept, Next, NEW w \in Workers, Known(w),
           Snapshot(w) \/ Look(w) \/ Stop(w) \/ Claim(w) \/ Open(w) \/ OpenFails(w) \/ SubmitFails(w)
    PROVE  InboxStays /\ Known(w)'
<1>1. InboxStays
  BY DEF InboxStays, Snapshot, Look, Stop, Claim, Open, OpenFails, SubmitFails
<1>2. ASSUME NEW pc, TickRests(w, pc) PROVE Known(w)'
  BY <1>2, EmptyKnows DEF TickRests, TickIs
<1>3. ASSUME NEW pc \in {"stopping", "listing"}, TickGoes(w, pc), ~Claim(w) PROVE Known(w)'
  <2>1. /\ tick'[w].pc = pc /\ tick'[w].gen = tick[w].gen /\ tick'[w].fence = tick[w].fence
        /\ tick'[w].items = tick[w].items /\ tick'[w].paused = tick[w].paused
    BY <1>3 DEF TickGoes, TickIs
  <2>2. Claimed(w)' => Claimed(w)
    BY <1>3, <2>1, ClaimedWas
  <2>3. InboxKept /\ Pending' = Pending /\ paused' >= paused
    BY <1>1, StaysOn, InboxIs DEF InboxStays, Pending
  <2>4. ListedAt(w)'
    BY <2>1, <2>2, <2>3, ListedStays DEF Known
  <2>5. \A i : InHandAt(w, i)'
    BY <1>3, <2>1 DEF InHandAt, Taken, Taking
  <2> QED
    BY <2>4, <2>5 DEF Known
<1>4. CASE Snapshot(w) \/ Stop(w) \/ SubmitFails(w)
  BY <1>1, <1>2, <1>4, SnapshotDoes, StopDoes, SubmitFailsDoes
<1>5. CASE Look(w)
  <2>1. ~Claim(w)
    BY <1>5 DEF Look, Claim, At
  <2> QED
    BY <1>1, <1>2, <1>3, <1>5, <2>1, LookDoes
<1>6. CASE Claim(w)
  BY <1>1, <1>2, <1>6, ClaimDoes, EmptyKnows DEF TickIs
<1>7. CASE Open(w) \/ OpenFails(w)
  <2>1. ~Claim(w)
    BY <1>7 DEF Open, OpenFails, Claim, At
  <2> QED
    BY <1>1, <1>3, <1>7, <2>1, OpenDoes, OpenFailsDoes
<1> QED
  BY <1>4, <1>5, <1>6, <1>7

LEMMA ListKnows ==
    ASSUME TypeOK, TypeOK', Orderly, NEW w \in Workers, Known(w), List(w) PROVE InboxStays /\ Known(w)'
<1>1. InboxStays /\ UNCHANGED row
  BY DEF List, InboxStays
<1>2. CASE TickRests(w, "idle")
  BY <1>1, <1>2, EmptyKnows DEF TickRests, TickIs
<1>3. CASE TickIs(w, "checking", tick[w].gen, tick[w].fence, Pending, tick[w].paused, "pending")
  <2>1. Pending' = Pending /\ paused' = paused
    BY <1>1 DEF InboxStays, Pending
  <2>2. tick'[w].pc = "checking" /\ tick'[w].items = Pending /\ tick'[w].paused = tick[w].paused
    BY <1>3 DEF TickIs
  <2>3. ListedAt(w)'
    BY <2>1, <2>2 DEF Known, ListedAt
  <2>4. \A i : InHandAt(w, i)'
    BY <2>2 DEF InHandAt, Taken, Taking
  <2> QED
    BY <1>1, <2>3, <2>4 DEF Known
<1> QED
  BY <1>2, <1>3, ListDoes

\* What is before the item in hand, and of its generation, is done with.
LEMMA BeforeGone ==
    ASSUME TypeOK, Orderly, NEW w \in Workers, ListedAt(w), Claimed(w), NEW i \in Current(w),
           NEW j \in DOMAIN inbox, j < i, inbox[j].gen = tick[w].gen
    PROVE  Gone(j)
<1>1. i \in tick[w].items /\ \A k \in tick[w].items : i <= k
  BY OneCurrent
<1>2. j \notin Pending
  <2>1. i \in Nat /\ j \in Nat
    BY OneCurrent, InboxIs
  <2> QED
    BY <1>1, <2>1 DEF ListedAt
<1>3. inbox[j].status \in {"submitted", "discarded"}
  BY <1>2, InboxIs DEF Pending
<1>4. ~(inbox[j].gen < row.gen)
  BY InboxIs DEF Claimed, Owned
<1> QED
  BY <1>3, <1>4 DEF Orderly, CrossedOff, NoneLost, Gone

LEMMA CheckKnows ==
    ASSUME TypeOK, TypeOK', Orderly, NEW w \in Workers, Known(w), Check(w) PROVE InboxStays /\ Known(w)'
<1>1. InboxStays /\ UNCHANGED row
  BY DEF Check, InboxStays
<1>2. CASE TickRests(w, "idle")
  BY <1>1, <1>2, EmptyKnows DEF TickRests, TickIs
<1>3. ASSUME NEW i \in Current(w), inbox[i].gen # tick[w].gen,
             TickIs(w, "settling", tick[w].gen, tick[w].fence, tick[w].items, tick[w].paused, "discarded")
      PROVE  Known(w)'
  <2>1. /\ tick'[w].pc = "settling" /\ tick'[w].gen = tick[w].gen /\ tick'[w].fence = tick[w].fence
        /\ tick'[w].items = tick[w].items /\ tick'[w].paused = tick[w].paused /\ tick'[w].as = "discarded"
    BY <1>3 DEF TickIs
  <2>2. ListedAt(w)' /\ Current(w)' = Current(w)
    BY <1>1, <2>1, StaysOn, StillListed DEF Known, InboxStays, Pending
  <2>3. ASSUME NEW k \in Current(w)' PROVE InHandAt(w, k)'
    <3>1. k = i
      BY <2>2, <2>3, OneCurrent
    <3> QED
      BY <1>1, <1>3, <2>1, <3>1 DEF InHandAt, InboxStays, Taken, Taking
  <2> QED
    BY <2>2, <2>3 DEF Known
<1>4. ASSUME NEW i \in Current(w), Claimed(w), inbox[i].gen = tick[w].gen, TickGoes(w, "receiving")
      PROVE  Known(w)'
  <2>1. /\ tick'[w].pc = "receiving" /\ tick'[w].gen = tick[w].gen /\ tick'[w].fence = tick[w].fence
        /\ tick'[w].items = tick[w].items /\ tick'[w].paused = tick[w].paused
    BY <1>4 DEF TickGoes, TickIs
  <2>2. ListedAt(w)' /\ Current(w)' = Current(w)
    BY <1>1, <2>1, StaysOn, StillListed DEF Known, InboxStays, Pending
  <2>3. ASSUME NEW j \in DOMAIN inbox, j < i, inbox[j].gen = tick[w].gen PROVE Gone(j)'
    <3>1. Gone(j)
      BY <1>4, <2>3, BeforeGone DEF Known
    <3> QED
      BY <1>1, <3>1, StaysOn, GoneStays
  <2>4. ASSUME NEW k \in Current(w)' PROVE InHandAt(w, k)'
    <3>1. k = i
      BY <1>4, <2>2, <2>4, OneCurrent
    <3> QED
      BY <1>1, <1>4, <2>1, <2>3, <3>1 DEF InHandAt, InboxStays, Taken, Taking
  <2> QED
    BY <2>2, <2>4 DEF Known
<1> QED
  BY <1>1, <1>2, <1>3, <1>4, CheckDoes

\* The tick goes on with the item in hand.
LEMMA ReceiveKnows ==
    ASSUME TypeOK, TypeOK', Orderly, NEW w \in Workers, Known(w), Receive(w) PROVE InboxStays /\ Known(w)'
<1>1. InboxStays /\ UNCHANGED row /\ tick[w].pc = "receiving"
  BY DEF Receive, InboxStays, At
<1>2. ASSUME NEW pc, NEW switched \in {tick[w].paused, paused}, NEW as,
             TickIs(w, pc, tick[w].gen, tick[w].fence, tick[w].items, switched, as)
      PROVE  /\ tick'[w].pc = pc /\ tick'[w].gen = tick[w].gen /\ tick'[w].paused = switched /\ tick'[w].as = as
             /\ ListedAt(w)' /\ Current(w)' = Current(w) /\ (Claimed(w)' <=> Claimed(w))
  <2>1. /\ tick'[w].pc = pc /\ tick'[w].gen = tick[w].gen /\ tick'[w].fence = tick[w].fence
        /\ tick'[w].items = tick[w].items /\ tick'[w].paused = switched /\ tick'[w].as = as
    BY <1>2 DEF TickIs
  <2> QED
    BY <1>1, <1>2, <2>1, StaysOn, StillListed DEF Known, InboxStays, Pending
<1>3. CASE /\ ~row.desired \/ row.gen # tick[w].gen
           /\ TickIs(w, "settling", tick[w].gen, tick[w].fence, tick[w].items, tick[w].paused, "discarded")
  <2>1. tick'[w].pc = "settling" /\ ListedAt(w)' /\ ~Claimed(w)'
    BY <1>2, <1>3 DEF Claimed, Owned
  <2>2. \A i : InHandAt(w, i)'
    BY <2>1 DEF InHandAt, Taken, Taking
  <2> QED
    BY <1>1, <2>1, <2>2 DEF Known
<1>4. CASE /\ ~enabled
           /\ TickIs(w, "settling", tick[w].gen, tick[w].fence, tick[w].items, tick[w].paused, "submitted")
  <2>1. /\ tick'[w].pc = "settling" /\ tick'[w].as = "submitted" /\ ListedAt(w)' /\ Current(w)' = Current(w)
        /\ (Claimed(w)' <=> Claimed(w))
    <3>1. TickIs(w, "settling", tick[w].gen, tick[w].fence, tick[w].items, tick[w].paused, "submitted")
      BY <1>4
    <3> QED
      BY <1>2, <3>1
  <2>2. ASSUME NEW i \in Current(w), Claimed(w) PROVE i \in muted
    BY <1>4, <2>2, OneCurrent DEF Known, ListedAt, Orderly, CrossedOff
  <2>3. ASSUME NEW i \in Current(w) PROVE InHandAt(w, i)'
    BY <1>1, <2>1, <2>2 DEF InHandAt, Taken, Taking, InboxStays
  <2> QED
    BY <1>1, <2>1, <2>3 DEF Known
<1>5. CASE /\ enabled
           /\ TickIs(w, "accepting", tick[w].gen, tick[w].fence, tick[w].items, paused, tick[w].as)
  <2>1. /\ tick'[w].pc = "accepting" /\ tick'[w].gen = tick[w].gen /\ tick'[w].paused = paused
        /\ ListedAt(w)' /\ Current(w)' = Current(w)
    BY <1>2, <1>5
  <2>2. ASSUME NEW i \in Current(w) PROVE InHandAt(w, i)'
    <3>1. inbox[i].gen = tick[w].gen /\ \A j \in DOMAIN inbox : j < i /\ inbox[j].gen = tick[w].gen => Gone(j)
      BY <1>1 DEF Known, InHandAt, Taken, Taking
    <3>2. \A j \in DOMAIN inbox : Gone(j) => Gone(j)'
      BY <1>1, StaysOn, GoneStays
    <3> QED
      BY <1>1, <1>5, <2>1, <3>1, <3>2 DEF InHandAt, InboxStays, Taken, Taking
  <2> QED
    BY <1>1, <2>1, <2>2 DEF Known
<1> QED
  BY <1>3, <1>4, <1>5, ReceiveDoes

\* What a turn was not made of is settled for a reason.
LEMMA SettlingKnows ==
    ASSUME TypeOK, TypeOK', InboxKept, UNCHANGED <<row, inbox, muted, enabled, paused>>,
           NEW w \in Workers, Known(w), NEW as \in {"submitted", "discarded"}, NEW i \in Current(w),
           TickIs(w, "settling", tick[w].gen, tick[w].fence, tick[w].items, tick[w].paused, as),
           \/ ~Claimed(w)
           \/ as = "submitted" /\ (Made(i)' \/ i \in unanswered' \cup muted)
           \/ as = "discarded" /\ Refused(i)
    PROVE  Known(w)'
<1>1. /\ tick'[w].pc = "settling" /\ tick'[w].gen = tick[w].gen /\ tick'[w].fence = tick[w].fence
      /\ tick'[w].items = tick[w].items /\ tick'[w].paused = tick[w].paused /\ tick'[w].as = as
  BY DEF TickIs
<1>2. ListedAt(w)' /\ Current(w)' = Current(w) /\ (Claimed(w)' <=> Claimed(w))
  BY <1>1, StillListed DEF Known, Pending
<1>3. Refused(i) => Refused(i)'
  BY OneCurrent DEF Refused, InboxKept
<1>4. ASSUME NEW k \in Current(w)' PROVE InHandAt(w, k)'
  <2>1. k = i
    BY <1>2, <1>4, OneCurrent
  <2> QED
    BY <1>1, <1>2, <1>3, <2>1 DEF InHandAt, Taken, Taking
<1> QED
  BY <1>2, <1>4 DEF Known

\* A channel that was switched put the item aside, if the tick still has the row.
LEMMA PutAside ==
    ASSUME TypeOK, NEW w \in Workers, Known(w), NEW i \in Current(w), Claimed(w), ~Same(w),
           tick[w].pc \in Taking
    PROVE  i \in muted
BY DEF Known, InHandAt, Same

LEMMA AcceptKnows ==
    ASSUME TypeOK, TypeOK', Orderly, NEW w \in Workers, Known(w), Accept(w) PROVE InboxStays /\ Known(w)'
<1>1. InboxStays /\ UNCHANGED row /\ tick[w].pc = "accepting"
  BY DEF Accept, InboxStays, At
<1>2. ASSUME NEW i \in Current(w), Same(w), i \in Pending, TickGoes(w, "submitting") PROVE Known(w)'
  <2>1. /\ tick'[w].pc = "submitting" /\ tick'[w].gen = tick[w].gen /\ tick'[w].fence = tick[w].fence
        /\ tick'[w].items = tick[w].items /\ tick'[w].paused = tick[w].paused
    BY <1>2 DEF TickGoes, TickIs
  <2>2. ListedAt(w)' /\ Current(w)' = Current(w)
    BY <1>1, <2>1, StaysOn, StillListed DEF Known, InboxStays, Pending
  <2>3. ASSUME NEW k \in Current(w)' PROVE InHandAt(w, k)'
    <3>1. k = i
      BY <1>2, <2>2, <2>3, OneCurrent
    <3>2. inbox[i].gen = tick[w].gen /\ \A j \in DOMAIN inbox : j < i /\ inbox[j].gen = tick[w].gen => Gone(j)
      BY <1>1, <1>2 DEF Known, InHandAt, Taken, Taking
    <3>3. \A j \in DOMAIN inbox : Gone(j) => Gone(j)'
      BY <1>1, StaysOn, GoneStays
    <3>4. i \notin muted
      BY <1>2 DEF Orderly, CrossedOff
    <3> QED
      BY <1>1, <1>2, <2>1, <3>1, <3>2, <3>3, <3>4 DEF InHandAt, InboxStays, Same, Taken, Taking
  <2> QED
    BY <2>2, <2>3 DEF Known
<1>3. ASSUME NEW i \in Current(w), ~(Same(w) /\ i \in Pending),
             TickIs(w, "settling", tick[w].gen, tick[w].fence, tick[w].items, tick[w].paused, "submitted")
      PROVE  Known(w)'
  <2>1. Claimed(w) => i \in muted
    <3>1. Claimed(w) => i \in Pending \/ i \in muted
      BY <1>3, OneCurrent DEF Known, ListedAt
    <3> QED
      BY <1>1, <1>3, <3>1, PutAside DEF Taking
  <2> QED
    BY <1>1, <1>3, <2>1, StaysOn, SettlingKnows DEF InboxStays
<1> QED
  BY <1>1, <1>2, <1>3, AcceptDoes

LEMMA SubmitKnows ==
    ASSUME TypeOK, TypeOK', Orderly, NEW w \in Workers, Known(w), Submit(w)
    PROVE  InboxKept /\ Orderly' /\ UNCHANGED <<row, inbox, muted, enabled, paused>> /\ Known(w)'
<1>1. UNCHANGED <<scope, row, inbox, unanswered, muted, enabled, paused>> /\ tick[w].pc = "submitting"
  BY DEF Submit, At
<1>2. RowOn
  BY <1>1 DEF RowOn, TypeOK, Rows
<1>3. ASSUME UNCHANGED turns PROVE InboxKept /\ Orderly'
  BY <1>1, <1>2, <1>3, StaysOn, OrderlyStays DEF InboxStays
<1>4. ASSUME NEW i \in Current(w), Refused(i), UNCHANGED turns,
             TickIs(w, "settling", tick[w].gen, tick[w].fence, tick[w].items, tick[w].paused, "discarded")
      PROVE  InboxKept /\ Orderly' /\ Known(w)'
  BY <1>1, <1>3, <1>4, SettlingKnows
<1>5. ASSUME NEW i \in Current(w), ~Refused(i), Same(w), Turn(i),
             TickIs(w, "settling", tick[w].gen, tick[w].fence, tick[w].items, tick[w].paused, "submitted")
      PROVE  InboxKept /\ Orderly' /\ Known(w)'
  <2>1. InboxKept /\ Made(i)' /\ Orderly'
    BY <1>1, <1>5, SubmitOrderly DEF Known
  <2> QED
    BY <1>1, <1>5, <2>1, SettlingKnows
<1>6. ASSUME NEW i \in Current(w), ~Same(w), UNCHANGED turns,
             TickIs(w, "settling", tick[w].gen, tick[w].fence, tick[w].items, tick[w].paused, "submitted")
      PROVE  InboxKept /\ Orderly' /\ Known(w)'
  <2>1. Claimed(w) => i \in muted
    BY <1>1, <1>6, PutAside DEF Taking
  <2> QED
    BY <1>1, <1>3, <1>6, <2>1, SettlingKnows
<1> QED
  BY <1>1, <1>4, <1>5, <1>6, SubmitDoes

\* The tick found no model to answer the item in hand with ...
LEMMA NoModelKnows ==
    ASSUME TypeOK, TypeOK', Orderly, NEW w \in Workers, Known(w), NoModel(w) PROVE InboxStays /\ Known(w)'
<1>1. InboxStays /\ UNCHANGED row /\ tick[w].pc = "submitting"
  BY DEF NoModel, InboxStays, At
<1>2. PICK i \in Current(w) : Same(w) /\ TickGoes(w, "withoutModel")
  BY NoModelDoes
<1>3. /\ tick'[w].pc = "withoutModel" /\ tick'[w].gen = tick[w].gen /\ tick'[w].fence = tick[w].fence
      /\ tick'[w].items = tick[w].items /\ tick'[w].paused = tick[w].paused
  BY <1>2 DEF TickGoes, TickIs
<1>4. ListedAt(w)' /\ Current(w)' = Current(w)
  BY <1>1, <1>3, StaysOn, StillListed DEF Known, InboxStays, Pending
<1>5. ASSUME NEW k \in Current(w)' PROVE InHandAt(w, k)'
  <2>1. k \in Current(w) /\ InHandAt(w, k)
    BY <1>4, <1>5 DEF Known
  <2>2. inbox[k].gen = tick[w].gen /\ \A j \in DOMAIN inbox : j < k /\ inbox[j].gen = tick[w].gen => Gone(j)
    BY <1>1, <2>1 DEF InHandAt, Taken, Taking
  <2>3. \A j \in DOMAIN inbox : Gone(j) => Gone(j)'
    BY <1>1, StaysOn, GoneStays
  <2>4. k \notin muted
    BY <1>1, <1>2, <2>1 DEF InHandAt, Same
  <2> QED
    BY <1>1, <1>2, <1>3, <2>2, <2>3, <2>4 DEF InHandAt, InboxStays, Same, Taken, Taking
<1> QED
  BY <1>1, <1>4, <1>5 DEF Known

\* ... and keeps it in the conversation.
LEMMA WithoutModelKnows ==
    ASSUME TypeOK, TypeOK', Orderly, NEW w \in Workers, Known(w), WithoutModel(w)
    PROVE  InboxKept /\ Orderly' /\ UNCHANGED <<row, inbox, muted, enabled, paused>> /\ Known(w)'
<1>1. UNCHANGED <<scope, row, inbox, turns, muted, enabled, paused>> /\ tick[w].pc = "withoutModel"
  BY DEF WithoutModel, At
<1>2. PICK i \in Current(w) :
        /\ unanswered' = IF Same(w) THEN unanswered \cup {i} ELSE unanswered
        /\ TickIs(w, "settling", tick[w].gen, tick[w].fence, tick[w].items, tick[w].paused, "submitted")
  BY WithoutModelDoes
<1>3. i \in DOMAIN inbox
  BY OneCurrent
<1>4. CASE Same(w)
  <2>1. InboxKept /\ Orderly' /\ i \in unanswered'
    BY <1>1, <1>2, <1>3, <1>4, KeptOrderly
  <2>2. Known(w)'
    BY <1>1, <1>2, <2>1, SettlingKnows
  <2> QED
    BY <1>1, <2>1, <2>2
<1>5. CASE ~Same(w)
  <2>1. InboxStays /\ RowOn
    BY <1>1, <1>2, <1>5 DEF InboxStays, RowOn, TypeOK, Rows
  <2>2. InboxKept /\ Orderly'
    BY <2>1, StaysOn, OrderlyStays
  <2>3. Claimed(w) => i \in muted
    BY <1>1, <1>5, PutAside DEF Taking
  <2>4. Known(w)'
    BY <1>1, <1>2, <2>2, <2>3, SettlingKnows
  <2> QED
    BY <1>1, <2>2, <2>4
<1> QED
  BY <1>4, <1>5

LEMMA SettleKnows ==
    ASSUME TypeOK, TypeOK', Orderly, NEW w \in Workers, Known(w), Settle(w)
    PROVE  /\ InboxKept /\ Orderly' /\ UNCHANGED <<row, muted, enabled, paused>> /\ Known(w)'
           /\ Claimed(w) \/ UNCHANGED inbox
<1>1. UNCHANGED <<scope, row, turns, unanswered, muted, enabled, paused>> /\ tick[w].pc = "settling"
  BY DEF Settle, At
<1>2. CASE TickRests(w, "idle") /\ UNCHANGED inbox
  <2>1. InboxStays /\ RowOn
    BY <1>1, <1>2 DEF InboxStays, RowOn, TypeOK, Rows
  <2>2. Known(w)'
    BY <1>2, EmptyKnows DEF TickRests, TickIs
  <2> QED
    BY <1>1, <1>2, <2>1, <2>2, StaysOn, OrderlyStays
<1>3. ASSUME NEW i \in Current(w), Claimed(w), inbox' = [inbox EXCEPT ![i].status = tick[w].as],
             \/ TickRests(w, "idle")
             \/ TickIs(w, "checking", tick[w].gen, tick[w].fence, tick[w].items \ {i}, tick[w].paused, "pending")
      PROVE  InboxKept /\ Orderly' /\ Known(w)'
  <2>1. InboxKept /\ Pending' = Pending \ {i} /\ Orderly'
    BY <1>1, <1>3, SettleOrderly DEF Known
  <2>2. CASE TickRests(w, "idle")
    BY <2>1, <2>2, EmptyKnows DEF TickRests, TickIs
  <2>3. CASE TickIs(w, "checking", tick[w].gen, tick[w].fence, tick[w].items \ {i}, tick[w].paused, "pending")
    <3>1. /\ tick'[w].pc = "checking" /\ tick'[w].items = tick[w].items \ {i}
          /\ tick'[w].paused = tick[w].paused
      BY <2>3 DEF TickIs
    <3>2. paused' >= paused
      BY <1>1, InboxIs
    <3>3. ListedAt(w)'
      BY <1>3, <2>1, <3>1, <3>2, ListedStays DEF Known
    <3>4. \A k : InHandAt(w, k)'
      BY <3>1 DEF InHandAt, Taken, Taking
    <3> QED
      BY <2>1, <3>3, <3>4 DEF Known
  <2> QED
    BY <1>3, <2>2, <2>3
<1> QED
  BY <1>1, <1>2, <1>3, SettleDoes

\* A step in which no tick moves and the inbox stays.
LEMMA StillKnown ==
    ASSUME TypeOK, TypeOK', InPlace, Fenced, Kept, XInv, Next, InboxStays, \A w \in Workers : TickSame(w) PROVE XInv'
<1>1. RowOn
  BY RowForward
<1>2. Orderly'
  BY <1>1, OrderlyStays DEF XInv
<1>3. ASSUME NEW w \in Workers PROVE Known(w)'
  BY RestKnows DEF XInv
<1> QED
  BY <1>2, <1>3 DEF XInv

LEMMA XStep ==
    ASSUME TypeOK, TypeOK', InPlace, Fenced, Kept, XInv, Next PROVE XInv'
<1>0. RowOn /\ \A w \in Workers : Known(w)
  BY RowForward DEF XInv
<1>1. ASSUME UNCHANGED tick PROVE \A w \in Workers : TickSame(w)
  BY <1>1 DEF TickSame
<1>2. CASE Connect \/ Disconnect \/ (\E w \in Workers : Send(w) \/ Sent(w) \/ Leave(w) \/ Release(w))
  <2>1. InboxStays /\ UNCHANGED tick
    BY <1>2 DEF InboxStays, Connect, Disconnect, Send, Sent, Leave, Release
  <2> QED
    BY <1>1, <2>1, StillKnown
<1>3. CASE Pass
  <2>1. InboxStays
    BY <1>3 DEF InboxStays, Pass
  <2>2. \A w \in Workers : TickSame(w)
    BY <1>3, PassDoes DEF TickSame
  <2> QED
    BY <2>1, <2>2, StillKnown
<1>4. CASE Switch
  <2>1. InboxKept /\ Pending' = {} /\ Orderly'
    BY <1>4, SwitchOrderly DEF XInv
  <2>2. UNCHANGED tick /\ paused' = paused + 1 /\ muted' = muted \cup Pending
    BY <1>4 DEF Switch, DiscardInbox
  <2>3. ASSUME NEW w \in Workers PROVE Known(w)'
    BY <1>0, <1>1, <2>1, <2>2, SameKnows DEF Switched
  <2> QED
    BY <2>1, <2>3 DEF XInv
<1>5. ASSUME NEW d \in DOMAIN devs, Enqueue(d) PROVE XInv'
  <2>1. Enqueued /\ Orderly' /\ UNCHANGED tick
    BY <1>0, <1>5, EnqueueOrderly DEF XInv, Enqueue
  <2>2. InboxKept /\ Switched /\ (\A i \in Pending : i \in Pending')
    BY <2>1 DEF Enqueued, Switched, Pending, InboxKept
  <2>3. ASSUME NEW w \in Workers PROVE Known(w)'
    BY <1>0, <1>1, <2>1, <2>2, SameKnows
  <2> QED
    BY <2>1, <2>3 DEF XInv
<1>6. ASSUME NEW d \in DOMAIN devs, DeviceStep(d), ~Enqueue(d) PROVE XInv'
  <2>1. InboxStays /\ UNCHANGED tick
    BY <1>6 DEF InboxStays, DeviceStep, Ending, Pair, MoveOn, Save, Ready, Close, LogOut, Dropped, Clear, Forget
  <2> QED
    BY <1>1, <2>1, StillKnown
<1>7. ASSUME NEW w \in Workers, Crash(w) PROVE XInv'
  <2>1. InboxStays
    BY <1>7 DEF InboxStays, Crash
  <2>2. TickRests(w, "idle")
    BY <1>7, CrashDoes
  <2>3. Known(w)' /\ \A v \in Workers : v # w => TickSame(v)
    BY <2>2, EmptyKnows DEF TickRests, TickIs, TickSame
  <2>4. \A v \in Workers : v # w => Known(v)'
    BY <1>0, <2>1, <2>3, RestKnows
  <2>5. Orderly'
    BY <1>0, <2>1, OrderlyStays DEF XInv
  <2> QED
    BY <2>3, <2>4, <2>5 DEF XInv
<1>8. ASSUME NEW w \in Workers, TickStep(w) PROVE XInv'
  <2>1. \A v \in Workers : v # w => TickSame(v)
    BY <1>8, TicksTyped DEF TickMoves, TickSame
  <2>2. ASSUME InboxStays, Known(w)' PROVE XInv'
    <3>1. Orderly'
      BY <1>0, <2>2, OrderlyStays DEF XInv
    <3>2. \A v \in Workers : v # w => Known(v)'
      BY <1>0, <2>1, <2>2, RestKnows
    <3> QED
      BY <2>2, <3>1, <3>2 DEF XInv
  <2>3. CASE Snapshot(w) \/ Look(w) \/ Stop(w) \/ Claim(w) \/ Open(w) \/ OpenFails(w) \/ SubmitFails(w)
    BY <1>0, <2>2, <2>3, OpeningKnows
  <2>4. CASE List(w) \/ Check(w) \/ Receive(w) \/ Accept(w) \/ NoModel(w)
    BY <1>0, <2>2, <2>4, ListKnows, CheckKnows, ReceiveKnows, AcceptKnows, NoModelKnows DEF XInv
  <2>5. CASE Submit(w) \/ WithoutModel(w)
    <3>1. InboxKept /\ Orderly' /\ UNCHANGED <<row, inbox, muted, enabled, paused>> /\ Known(w)'
      BY <1>0, <2>5, SubmitKnows, WithoutModelKnows DEF XInv
    <3>2. Switched /\ Pending' = Pending
      BY <3>1 DEF Switched, Pending
    <3>3. \A v \in Workers : v # w => Known(v)'
      BY <1>0, <2>1, <3>1, <3>2, SameKnows
    <3> QED
      BY <3>1, <3>3 DEF XInv
  <2>6. CASE Settle(w)
    <3>1. /\ InboxKept /\ Orderly' /\ UNCHANGED <<row, muted, enabled, paused>> /\ Known(w)'
          /\ Claimed(w) \/ UNCHANGED inbox
      BY <1>0, <2>6, SettleKnows DEF XInv
    <3>2. Switched
      BY <3>1 DEF Switched
    <3>3. ASSUME NEW v \in Workers, v # w PROVE Known(v)'
      <4>1. CASE UNCHANGED inbox
        <5>1. Pending' = Pending
          BY <4>1 DEF Pending
        <5> QED
          BY <1>0, <2>1, <3>1, <3>2, <3>3, <5>1, SameKnows
      <4>2. CASE Claimed(w)
        <5>1. ~Claimed(v)
          BY <3>3, <4>2 DEF Claimed, Owned
        <5> QED
          BY <1>0, <2>1, <3>1, <3>2, <3>3, <5>1, SameKnows
      <4> QED
        BY <3>1, <4>1, <4>2
    <3> QED
      BY <3>1, <3>3 DEF XInv
  <2> QED
    BY <1>8, <2>3, <2>4, <2>5, <2>6 DEF TickStep
<1> QED
  BY <1>2, <1>3, <1>4, <1>5, <1>6, <1>7, <1>8 DEF Next

---------------------------------------------------------------------------
(* The invariant *)

LEMMA Initially == ASSUME Init PROVE LInv
<1>0. /\ row = NoRow /\ session = NoSession /\ inbox = <<>> /\ devs = <<>> /\ paired = <<>> /\ turns = <<>>
      /\ enabled = TRUE /\ paused = 0 /\ unlinked = {} /\ spoke = {} /\ scope \in Scopes
      /\ unanswered = {} /\ muted = {}
      /\ \A w \in Workers : local[w] = 0 /\ tick[w] = NoTick /\ sending[w] = NoSend
  BY DEF Init
<1>1. \A w \in Workers : tick[w].pc = "idle" /\ tick[w].items = {} /\ tick[w].paused = 0
  BY <1>0 DEF NoTick
<1>2. TypeOK
  <2>1. DOMAIN inbox = {} /\ DOMAIN paired = {} /\ DOMAIN devs = {} /\ Len(devs) = 0 /\ Len(paired) = 0
    BY <1>0
  <2>2. inbox \in Seq(Items) /\ devs \in Seq(Devices) /\ paired \in Seq(Pairings) /\ turns \in Seq(DOMAIN inbox)
    BY <1>0
  <2>3. session.pairing = 0 /\ \A w \in Workers : sending[w].dev = 0
    BY <1>0 DEF NoSession, NoSend
  <2>4. local \in [Workers -> 0..Len(devs)]
    BY <2>1 DEF Init
  <2>5. proc \in [Workers -> {"up", "leaving", "gone"}]
    BY DEF Init
  <2>6. tick \in [Workers -> Ticks] /\ sending \in [Workers -> Sends]
    BY Nothing DEF Init
  <2> QED
    BY <1>0, <1>1, <2>1, <2>2, <2>3, <2>4, <2>5, <2>6, Nothing DEF TypeOK
<1>3. row.gen = 0 /\ row.fence = 0 /\ ~row.desired
  BY <1>0 DEF NoRow
<1>4. InPlace
  BY <1>0, <1>1 DEF InPlace, At
<1>5. Fenced
  BY <1>0, <1>1, <1>3 DEF Fenced, At
<1>6. Kept /\ SessionIsCurrent
  BY <1>0 DEF Kept, SessionIsCurrent, NoSession
<1>7. Spoken /\ OneAccount /\ Alone
  BY <1>0 DEF Spoken, OneAccount, Alone
<1>8. Orderly
  BY <1>0 DEF Orderly, CrossedOff, InTurn, NoneLost, TurnsInOrder, Pending
<1>9. ASSUME NEW w \in Workers PROVE Known(w)
  BY <1>0, <1>1 DEF Known, ListedAt, Current
<1> QED
  BY <1>2, <1>4, <1>5, <1>6, <1>7, <1>8, <1>9 DEF LInv, DInv, XInv

LEMMA Stutters == LInv /\ UNCHANGED vars => LInv'
BY DEF LInv, DInv, XInv, TypeOK, InPlace, Fenced, Kept, SessionIsCurrent, Spoken, OneAccount, Alone, AloneAt,
   Orderly, CrossedOff, InTurn, NoneLost, TurnsInOrder, Known, ListedAt, InHandAt, Current, Pending, Gone,
   Made, Refused, Claimed, Owned, Cur, Before, At, Live, vars

LEMMA Steps == LInv /\ [Next]_vars => LInv'
<1> SUFFICES ASSUME LInv, Next PROVE LInv'
  BY Stutters
<1>1. TypeOK /\ InPlace /\ Fenced /\ Kept /\ SessionIsCurrent /\ Spoken /\ OneAccount /\ Alone /\ XInv
  BY DEF LInv, DInv
<1>2. TypeOK'
  BY <1>1, TypesStep
<1>3. InPlace' /\ Fenced'
  BY <1>1, <1>2, FencedStep
<1>4. Kept' /\ SessionIsCurrent'
  BY <1>1, <1>2, KeptStep
<1>5. Spoken' /\ OneAccount'
  BY <1>1, <1>2, AccountStep, AccountKept
<1>6. Alone'
  BY <1>1, AloneStep
<1>7. XInv'
  BY <1>1, <1>2, XStep
<1> QED
  BY <1>2, <1>3, <1>4, <1>5, <1>6, <1>7 DEF LInv, DInv

LEMMA Invariance == Spec => []LInv
BY Initially, Steps, PTL DEF Spec

\* However many processes tick, stall, stop and die, the session kept is of the row's generation or
\* one the phone ended, a generation has one phone, no second process has opened the device while a
\* part is sent, and messages become turns in order, none crossed off without one but by a pause, or
\* kept in the conversation because there was no model.
THEOREM LinkedDevicesSafe == Spec => []LinkedDevicesSafety
<1>1. LInv => LinkedDevicesSafety
  BY AloneSends DEF LInv, DInv, XInv, Orderly, LinkedDevicesSafety
<1> QED
  BY Invariance, <1>1, PTL

\* A process that lost the device cannot save keys older than those saved since, which would unpair
\* the phone.
THEOREM KeysNeverGoBack == Spec => NeverGoBack
<1>1. LInv /\ [Next]_vars => [session'.pairing = session.pairing => session'.moved >= session.moved]_vars
  BY TypesStep, KeptStep DEF LInv, DInv
<1> QED
  BY Invariance, <1>1, PTL DEF Spec, NeverGoBack
=============================================================================
