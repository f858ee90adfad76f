------------------------------- MODULE Intake -------------------------------
(***************************************************************************)
(* What a person writes on WhatsApp Business on its way to a turn           *)
(* (channels/whatsapp-business-inbox.ts: receive, drain; channels/service.ts *)
(* accept, withoutModel, relay, submit, update, approveContact; contacts.ts; *)
(* errands/service.ts).  Every process drains the inbox, one event at a     *)
(* time under a ten minute lease and in several transactions, while the     *)
(* owner pauses the channel, approves or blocks the person, the agent puts  *)
(* a question to them, and processes stall and die.  One channel, one person *)
(* in a direct chat, of a channel that is not disconnected.  Receipts, rooms,  *)
(* reactions and media are left out, and so are the runs, which are Runs'.  *)
(***************************************************************************)
EXTENDS Integers, Sequences, FiniteSets

CONSTANTS
    Workers,     \* processes that drain the inbox
    MaxEvents,   \* bound: messages the person writes, named by the order they arrive in
    Scopes       \* bound: what one run explores, see Limits

Events == 1..MaxEvents

\* What happens in a behaviour: who drains, how many messages, how many a request may hold (its
\* first, whatever its length), how often the owner switches the channel and the contact, whether
\* the owner blocks, anyone may write, how often the agent asks, whether submissions fail, whether
\* there may be no model to answer with, how often processes die.
Limits == [workers : SUBSET Workers, events : 0..MaxEvents, held : Nat \ {0}, switches : Nat, mutes : Nat,
           blocks : BOOLEAN, open : BOOLEAN, asks : Nat, fails : BOOLEAN,
           modelless : BOOLEAN, crashes : Nat]

ASSUME IntakeAssumption == MaxEvents \in Nat /\ Scopes \subseteq Limits

VARIABLES
    scope,      \* the member of Scopes this behaviour stays within
    enabled,    \* `channels.enabled`
    paused,     \* `channels.automation_paused_at`: how often the channel was switched
    arrived,    \* `meta_inbox`: the events received, and the Now of each
    processed,  \* events with a `processed_at`
    leased,     \* events whose `available_at` is ahead
    contact,    \* the row of `contacts`; `ai_paused_at` is how often the contact was switched
    errand,     \* the newest row of `errands` for the contact, and the events that answered one
    turns,      \* submissions that took effect, by request key: runs or steered messages
    unanswered, \* messages kept in the conversation for want of a model, with no turn
    delivered,  \* request keys whose run has its row in `deliveries`
    drain,      \* where each process is in drain and accept
    approval,   \* where the owner's approveContact is
    excused,    \* history: events the owner, or a limit, took out of the way
    crashes     \* bound: how often a process died

vars == <<scope, enabled, paused, arrived, processed, leased, contact, errand, turns,
          unanswered, delivered, drain, approval, excused, crashes>>

\* Keys of submissions: an event's own, or the contact's for a request that lost its first event.
Keys == Events \cup {0}
NoKey == 0

NoContact == [status |-> "none", held |-> {}, key |-> NoKey, seen |-> {}, ai |-> TRUE, aiPaused |-> 0]
NoErrand == [status |-> "none", by |-> {}, late |-> FALSE, count |-> 0]
NoDrain == [pc |-> "idle", event |-> 0, enabled |-> FALSE, paused |-> 0, aiPaused |-> 0]
NoApproval == [pc |-> "idle", held |-> {}, key |-> NoKey, paused |-> 0, aiPaused |-> 0]

\* The pauses so far, of the channel and of the contact.
Now == [paused |-> paused, aiPaused |-> contact.aiPaused]

Init == /\ scope \in Scopes
        /\ enabled = TRUE /\ paused = 0
        /\ arrived = <<>> /\ processed = {} /\ leased = {}
        /\ contact = NoContact /\ errand = NoErrand
        /\ turns = <<>> /\ unanswered = {} /\ delivered = {}
        /\ drain = [w \in Workers |-> NoDrain]
        /\ approval = NoApproval
        /\ excused = {} /\ crashes = 0

Moments == [paused : Nat, aiPaused : Nat]
Contacts == [status : {"none", "pending", "approved", "blocked"}, held : SUBSET Events, key : Keys,
             seen : SUBSET Events, ai : BOOLEAN, aiPaused : Nat]
Errands == [status : {"none", "waiting", "answered", "expired"}, by : SUBSET Events, late : BOOLEAN,
            count : Nat]
Submissions == [way : {"turn", "relay", "approval"}, key : Keys, parts : SUBSET Events, at : Moments]
Drains == [pc : {"idle", "loading", "claiming", "accepting", "answering", "relaying", "relayed",
                 "submitting", "withoutModel", "delivering", "marking"},
           event : Events \cup {0}, enabled : BOOLEAN, paused : Nat, aiPaused : Nat]
Approvals == [pc : {"idle", "loading", "submitting", "delivering", "releasing"},
              held : SUBSET Events, key : Keys, paused : Nat, aiPaused : Nat]

TypeOK ==
    /\ scope \in Scopes
    /\ enabled \in BOOLEAN /\ paused \in Nat
    /\ arrived \in Seq(Moments) /\ Len(arrived) <= scope.events
    /\ processed \subseteq DOMAIN arrived /\ leased \subseteq DOMAIN arrived
    /\ contact \in Contacts /\ Cardinality(contact.held) <= scope.held
    /\ errand \in Errands
    /\ turns \in Seq(Submissions)
    /\ unanswered \subseteq DOMAIN arrived
    /\ delivered \subseteq Keys
    /\ drain \in [Workers -> Drains]
    /\ approval \in Approvals
    /\ excused \subseteq DOMAIN arrived
    /\ crashes \in Nat

---------------------------------------------------------------------------
(* What arrives, and what the owner does *)

\* receive: an event is kept once, already crossed off while the channel or the contact is paused;
\* Meta's retries find it there.
Receive ==
    /\ Len(arrived) < scope.events
    /\ arrived' = Append(arrived, Now)
    /\ LET crossed == IF enabled /\ contact.ai THEN {} ELSE {Len(arrived) + 1}
       IN  processed' = processed \cup crossed /\ excused' = excused \cup crossed
    /\ UNCHANGED <<scope, enabled, paused, leased, contact, errand, turns, unanswered, delivered,
                   drain, approval, crashes>>

\* discardInbox: events not processed yet and what a request holds are old work.
DiscardInbox(row) ==
    /\ contact' = [row EXCEPT !.held = {}, !.key = NoKey]
    /\ processed' = DOMAIN arrived
    /\ excused' = excused \cup contact.held \cup (DOMAIN arrived \ processed)

\* update: pausing and resuming both move `automation_paused_at` on and discard.
Switch ==
    /\ paused < scope.switches
    /\ enabled' = ~enabled /\ paused' = paused + 1
    /\ DiscardInbox(contact)
    /\ UNCHANGED <<scope, arrived, leased, errand, turns, unanswered, delivered, drain, approval,
                   crashes>>

\* updateContact: the same for one person.
Mute ==
    /\ contact.status # "none" /\ contact.aiPaused < scope.mutes
    /\ DiscardInbox([contact EXCEPT !.ai = ~@, !.aiPaused = @ + 1])
    /\ UNCHANGED <<scope, enabled, paused, arrived, leased, errand, turns, unanswered, delivered,
                   drain, approval, crashes>>

\* Contacts.block, of a person who is waiting or already let in.
Block ==
    /\ scope.blocks /\ contact.status \in {"pending", "approved"}
    /\ contact' = [contact EXCEPT !.status = "blocked", !.held = {}, !.key = NoKey]
    /\ excused' = excused \cup contact.held
    /\ UNCHANGED <<scope, enabled, paused, arrived, processed, leased, errand, turns, unanswered,
                   delivered, drain, approval, crashes>>

\* Errands.ask: one open question for the contact, even one that was not answered in time.
Ask ==
    /\ errand.count < scope.asks /\ contact.status = "approved" /\ errand.status # "waiting"
    /\ errand' = [errand EXCEPT !.status = "waiting", !.late = FALSE, !.count = @ + 1]
    /\ UNCHANGED <<scope, enabled, paused, arrived, processed, leased, contact, turns, unanswered,
                   delivered, drain, approval, excused, crashes>>

Elapse ==
    /\ errand.status = "waiting" /\ ~errand.late
    /\ errand' = [errand EXCEPT !.late = TRUE]
    /\ UNCHANGED <<scope, enabled, paused, arrived, processed, leased, contact, turns, unanswered,
                   delivered, drain, approval, excused, crashes>>

---------------------------------------------------------------------------
(* drain *)

At(w, pc) == drain[w].pc = pc
Event(w) == drain[w].event
Goto(w, pc) == drain' = [drain EXCEPT ![w].pc = pc]
Idle(w) == drain' = [drain EXCEPT ![w] = NoDrain]

\* A plausible bug: a head that is leased is passed over.
ReadyPastLeased == {e \in DOMAIN arrived : e \notin processed \cup leased
                                          /\ \A f \in 1..e - 1 : f \in processed \cup leased}
\* The oldest event not processed, and only it: a head that is leased holds the channel up.
Ready == {e \in DOMAIN arrived : e \notin processed \cup leased /\ 1..e - 1 \subseteq processed}

Pick(w) == \E e \in Ready :
    /\ w \in scope.workers /\ At(w, "idle")
    /\ drain' = [drain EXCEPT ![w] = [NoDrain EXCEPT !.pc = "loading", !.event = e]]
    /\ UNCHANGED <<scope, enabled, paused, arrived, processed, leased, contact, errand, turns,
                   unanswered, delivered, approval, excused, crashes>>

Load(w) ==
    /\ At(w, "loading")
    /\ drain' = [drain EXCEPT ![w].pc = "claiming", ![w].enabled = enabled, ![w].paused = paused]
    /\ UNCHANGED <<scope, enabled, paused, arrived, processed, leased, contact, errand, turns,
                   unanswered, delivered, approval, excused, crashes>>

\* The head is checked again with the lease; a channel that was paused when it was loaded takes
\* nothing in.
Claim(w) ==
    /\ At(w, "claiming")
    /\ IF Event(w) \in Ready
       THEN /\ leased' = leased \cup {Event(w)}
            /\ Goto(w, IF drain[w].enabled THEN "accepting" ELSE "marking")
       ELSE Idle(w) /\ UNCHANGED leased
    /\ UNCHANGED <<scope, enabled, paused, arrived, processed, contact, errand, turns, unanswered,
                   delivered, approval, excused, crashes>>

\* Ten minutes pass.
Lapse(e) ==
    /\ e \in leased \ processed
    /\ leased' = leased \ {e}
    /\ UNCHANGED <<scope, enabled, paused, arrived, processed, contact, errand, turns, unanswered,
                   delivered, drain, approval, excused, crashes>>

Mark(w) ==
    /\ At(w, "marking")
    /\ processed' = processed \cup {Event(w)}
    /\ Idle(w)
    /\ UNCHANGED <<scope, enabled, paused, arrived, leased, contact, errand, turns, unanswered,
                   delivered, approval, excused, crashes>>

\* A plausible bug: whatever went wrong, the event is done with.
AbandonMarking(w) == Goto(w, "marking")
\* An error leaves the event to its lease.
Abandon(w) == Idle(w)

---------------------------------------------------------------------------
(* accept *)

\* A plausible bug: it is enough that the channel answers now.
SameEnabled(p) == enabled
\* The channel answers, and was not switched since it was loaded.
Same(p) == enabled /\ paused = p

\* A plausible bug: what a released request held is not remembered.
FragmentNone(e) == FALSE
\* What was added to a request is part of it, released or not.
Fragment(e) == e \in contact.seen

\* MAX_HELD_CHARACTERS
Fits == Cardinality(contact.held) < scope.held

\* What a person writes, by who they are to the owner: held by a request, dropped, or let in.
Held(c) == contact' = c /\ UNCHANGED excused
Dropped(e) == excused' = excused \cup {e} /\ UNCHANGED contact
Kept == UNCHANGED <<contact, excused>>

\* The contact as this transaction read it is the one the submission is checked against.
GoWith(w, pc) == drain' = [drain EXCEPT ![w].pc = pc, ![w].aiPaused = contact.aiPaused]

Intake(w, e) ==
    \/ /\ contact.status = "none" /\ GoWith(w, IF scope.open THEN "answering" ELSE "marking")
       /\ Held(IF scope.open THEN [contact EXCEPT !.status = "approved"]
               ELSE [contact EXCEPT !.status = "pending", !.held = {e}, !.key = e])
    \/ contact.status = "blocked" /\ Dropped(e) /\ GoWith(w, "marking")
    \/ /\ contact.status = "pending" /\ GoWith(w, "marking")
       /\ \/ (contact.key = e \/ Fragment(e)) /\ Kept
          \/ /\ contact.key # e /\ ~Fragment(e) /\ Fits
             /\ Held([contact EXCEPT !.held = @ \cup {e}, !.seen = @ \cup {e}])
          \/ contact.key # e /\ ~Fragment(e) /\ ~Fits /\ Dropped(e)
    \/ /\ contact.status = "approved" /\ Kept
       /\ GoWith(w, IF Fragment(e) THEN "marking" ELSE "answering")

\* The transaction of accept looks at the channel and the event again.
Accept(w) == LET e == Event(w) IN
    /\ At(w, "accepting")
    /\ IF Same(drain[w].paused) /\ contact.ai /\ e \notin processed THEN Intake(w, e)
       ELSE Goto(w, "marking") /\ Kept
    /\ UNCHANGED <<scope, enabled, paused, arrived, processed, leased, errand, turns, unanswered,
                   delivered, approval, crashes>>

\* A plausible bug: an answer that comes late is refused.
ExpireRefusing(w) == UNCHANGED errand /\ Abandon(w)
\* expire: after its time a message is a conversation of its own.
Expire(w) == errand' = [errand EXCEPT !.status = "expired"] /\ Goto(w, "submitting")

\* Errands.answer: the question this event closed before, or the one it closes now; one whose time
\* passed expires.
Answer(w) == LET e == Event(w) IN
    /\ At(w, "answering")
    /\ IF e \in errand.by THEN UNCHANGED errand /\ Goto(w, "relaying")
       ELSE IF errand.status # "waiting" THEN UNCHANGED errand /\ Goto(w, "submitting")
       ELSE IF errand.late THEN Expire(w)
       ELSE errand' = [errand EXCEPT !.status = "answered", !.by = @ \cup {e}] /\ Goto(w, "relaying")
    /\ UNCHANGED <<scope, enabled, paused, arrived, processed, leased, contact, turns, unanswered,
                   delivered, approval, excused, crashes>>

\* assertAutomation, in the transaction of the submission.
Allowed(before) == /\ Same(before.paused) /\ contact.status = "approved"
                   /\ contact.ai /\ contact.aiPaused = before.aiPaused
Submitted(way, key) == \E i \in DOMAIN turns :
    turns[i].key = key /\ ((turns[i].way = "relay") <=> (way = "relay"))
\* Runs.submit: a request key takes effect once.
Admit(way, key, parts) ==
    turns' = IF Submitted(way, key) THEN turns
             ELSE Append(turns, [way |-> way, key |-> key, parts |-> parts, at |-> Now])

Relay(w) ==
    /\ At(w, "relaying") /\ Allowed(drain[w])
    /\ Admit("relay", Event(w), {Event(w)})
    /\ Goto(w, "relayed")
    /\ UNCHANGED <<scope, enabled, paused, arrived, processed, leased, contact, errand, unanswered,
                   delivered, approval, excused, crashes>>

\* The answer is in the asking conversation, and recorded in the person's own.
Record(w) ==
    /\ At(w, "relayed")
    /\ Goto(w, "marking")
    /\ UNCHANGED <<scope, enabled, paused, arrived, processed, leased, contact, errand, turns,
                   unanswered, delivered, approval, excused, crashes>>

\* Any error of relay leaves an ordinary turn, after its submission too.
RelayFails(w) ==
    /\ \/ At(w, "relaying") /\ (scope.fails \/ scope.modelless \/ ~Allowed(drain[w]))
       \/ At(w, "relayed") /\ scope.fails
    /\ Goto(w, "submitting")
    /\ UNCHANGED <<scope, enabled, paused, arrived, processed, leased, contact, errand, turns,
                   unanswered, delivered, approval, excused, crashes>>

\* A plausible bug: a turn that was there already is taken to have its row.
AfterSubmitNew(key) == IF Submitted("turn", key) THEN "marking" ELSE "delivering"
\* The row is looked for whichever attempt made the turn.
AfterSubmit(key) == "delivering"

Submit(w) == LET e == Event(w) IN
    /\ At(w, "submitting")
    /\ IF Allowed(drain[w])
       THEN Admit("turn", e, {e}) /\ Goto(w, AfterSubmit(e)) /\ UNCHANGED excused
       ELSE Goto(w, "marking") /\ excused' = excused \cup {e} /\ UNCHANGED turns
    /\ UNCHANGED <<scope, enabled, paused, arrived, processed, leased, contact, errand, unanswered,
                   delivered, approval, crashes>>

\* NoModelAvailable: no model is set up, none can be picked, and the key has no turn yet.
NoModel(w) ==
    /\ At(w, "submitting") /\ scope.modelless
    /\ Allowed(drain[w]) /\ ~Submitted("turn", Event(w))
    /\ Goto(w, "withoutModel")
    /\ UNCHANGED <<scope, enabled, paused, arrived, processed, leased, contact, errand, turns,
                   unanswered, delivered, approval, excused, crashes>>

\* withoutModel: the message is kept for the owner, the chat is told why nothing answers, and the
\* event is done with, or it would hold back every message behind it until a model exists.
WithoutModel(w) == LET e == Event(w) IN
    /\ At(w, "withoutModel")
    /\ IF Allowed(drain[w]) THEN unanswered' = unanswered \cup {e} /\ UNCHANGED excused
       ELSE excused' = excused \cup {e} /\ UNCHANGED unanswered
    /\ Goto(w, "marking")
    /\ UNCHANGED <<scope, enabled, paused, arrived, processed, leased, contact, errand, turns,
                   delivered, approval, crashes>>

\* The session or the profile is full, the database is away.
SubmitFails(w) ==
    /\ (At(w, "submitting") \/ At(w, "withoutModel")) /\ scope.fails
    /\ Abandon(w)
    /\ UNCHANGED <<scope, enabled, paused, arrived, processed, leased, contact, errand, turns,
                   unanswered, delivered, approval, excused, crashes>>

\* One row for the run, whichever attempt gets there.
DeliverOnce(key) == delivered' = delivered \cup {key}

Deliver(w) ==
    /\ At(w, "delivering")
    /\ DeliverOnce(Event(w))
    /\ Goto(w, "marking")
    /\ UNCHANGED <<scope, enabled, paused, arrived, processed, leased, contact, errand, turns,
                   unanswered, approval, excused, crashes>>

---------------------------------------------------------------------------
(* approveContact *)

ApprovalGoto(pc) == approval' = [approval EXCEPT !.pc = pc]

\* Approving is committed before anything is submitted, and may be asked for again.
Approve ==
    /\ approval.pc = "idle" /\ contact.status # "none"
    /\ contact.status # "approved" \/ contact.held # {}
    /\ contact' = [contact EXCEPT !.status = "approved"]
    /\ approval' = IF contact.held = {} THEN NoApproval
                   ELSE [NoApproval EXCEPT !.pc = "loading", !.held = contact.held, !.key = contact.key,
                                           !.aiPaused = contact.aiPaused]
    /\ UNCHANGED <<scope, enabled, paused, arrived, processed, leased, errand, turns, unanswered,
                   delivered, drain, excused, crashes>>

LoadForApproval ==
    /\ approval.pc = "loading"
    /\ approval' = IF enabled THEN [approval EXCEPT !.pc = "submitting", !.paused = paused] ELSE NoApproval
    /\ UNCHANGED <<scope, enabled, paused, arrived, processed, leased, contact, errand, turns,
                   unanswered, delivered, drain, excused, crashes>>

\* What was held reaches the agent as one message, under the key of its first event.
SubmitHeld ==
    /\ approval.pc = "submitting"
    /\ IF Allowed(approval)
       THEN Admit("approval", approval.key, approval.held) /\ ApprovalGoto("delivering")
       ELSE UNCHANGED turns /\ ApprovalGoto("releasing")
    /\ UNCHANGED <<scope, enabled, paused, arrived, processed, leased, contact, errand, unanswered,
                   delivered, drain, excused, crashes>>

DeliverHeld ==
    /\ approval.pc = "delivering"
    /\ DeliverOnce(approval.key)
    /\ ApprovalGoto("releasing")
    /\ UNCHANGED <<scope, enabled, paused, arrived, processed, leased, contact, errand, turns,
                   unanswered, drain, excused, crashes>>

Release ==
    /\ approval.pc = "releasing"
    /\ contact' = [contact EXCEPT !.held = {}, !.key = NoKey]
    /\ approval' = NoApproval
    /\ UNCHANGED <<scope, enabled, paused, arrived, processed, leased, errand, turns, unanswered,
                   delivered, drain, excused, crashes>>

\* The request fails, for want of a model too, or its process dies: the person is approved, the
\* rest waits to be asked again.
ApprovalFails ==
    /\ approval.pc # "idle" /\ (scope.fails \/ scope.modelless)
    /\ approval' = NoApproval
    /\ UNCHANGED <<scope, enabled, paused, arrived, processed, leased, contact, errand, turns,
                   unanswered, delivered, drain, excused, crashes>>

Crash(w) ==
    /\ ~At(w, "idle") /\ crashes < scope.crashes
    /\ crashes' = crashes + 1
    /\ Idle(w)
    /\ UNCHANGED <<scope, enabled, paused, arrived, processed, leased, contact, errand, turns,
                   unanswered, delivered, approval, excused>>

AcceptStep(w) ==
    \/ Accept(w) \/ Answer(w) \/ Relay(w) \/ Record(w) \/ RelayFails(w)
    \/ Submit(w) \/ NoModel(w) \/ WithoutModel(w) \/ SubmitFails(w) \/ Deliver(w)
DrainStep(w) == Pick(w) \/ Load(w) \/ Claim(w) \/ AcceptStep(w) \/ Mark(w)
ApprovalStep == Approve \/ LoadForApproval \/ SubmitHeld \/ DeliverHeld \/ Release \/ ApprovalFails

Next ==
    \/ Receive \/ Switch \/ Mute \/ Block \/ Ask \/ Elapse \/ ApprovalStep
    \/ \E w \in Workers : DrainStep(w) \/ Crash(w)
    \/ \E e \in DOMAIN arrived : Lapse(e)

Spec == Init /\ [][Next]_vars

\* Every process drains on its tick and leases run out.  The promise is for once submissions no
\* longer fail; the owner, the person and the agent owe nothing.
Trouble == \E w \in Workers : SubmitFails(w)
Fairness ==
    /\ \A w \in Workers : WF_vars(DrainStep(w))
    /\ \A e \in Events : WF_vars(e \in DOMAIN arrived /\ Lapse(e))
    /\ <>[][~Trouble]_vars
LiveSpec == Spec /\ Fairness

---------------------------------------------------------------------------
TurnsOf(e) == {i \in DOMAIN turns : turns[i].way # "relay" /\ e \in turns[i].parts}
Relayed(e) == \E i \in DOMAIN turns : turns[i].way = "relay" /\ turns[i].key = e

\* What a person writes reaches the agent in one turn and no other, however often its event is
\* taken again and whether it came alone or in a request the owner approved meanwhile.
ReachesOnce == \A e \in Events : Cardinality(TurnsOf(e)) <= 1

\* Nothing written before the channel or the contact was paused or resumed is taken up after it,
\* unless the owner approves the person while the channel is switched.
PauseHolds == \A i \in DOMAIN turns : \A e \in turns[i].parts :
    /\ arrived[e].aiPaused = turns[i].at.aiPaused
    /\ turns[i].way # "approval" => arrived[e].paused = turns[i].at.paused

\* Messages become turns in the order they were written, but for the one
\* a request held, the one another process took as the answer to a question, and the one another
\* process settled for want of a model.
TurnsInOrder == [][\A i \in DOMAIN turns' \ DOMAIN turns : LET e == turns'[i].key IN
    (turns'[i].way = "turn" /\ e \notin contact.held \cup excused \cup unanswered /\ ~Relayed(e))
    => \A j \in DOMAIN turns : turns[j].way = "turn" => turns[j].key < e]_vars

\* A message that was crossed off reached the agent, waits for the owner's decision, is kept in the
\* conversation without a turn because there was no model, or was put aside: by a pause, a block, or
\* a request that is full.
NoneLost == \A e \in processed :
    TurnsOf(e) # {} \/ Relayed(e) \/ e \in contact.held \cup unanswered \cup excused

\* Once its message is crossed off, a turn has its row in the outbox, unless the message waits for
\* the owner's approval too, was taken as an answer, was settled by another process for want of a
\* model, or was put aside by a pause or a block.
TurnsHaveRows == \A i \in DOMAIN turns : LET e == turns[i].key IN
    (turns[i].way = "turn" /\ e \in processed)
    => e \in delivered \cup excused \cup unanswered \cup contact.held \/ Relayed(e)

\* A message reaches the agent once, on its side of every pause, is not lost, and its answer
\* has a row to leave by.
IntakeSafety == TypeOK /\ ReachesOnce /\ PauseHolds /\ NoneLost /\ TurnsHaveRows

\* Every message is dealt with, whoever dies on the way and although each waits for the one before.
Settles == \A e \in Events : (e \in DOMAIN arrived) ~> (e \in processed)
=============================================================================
