---------------------------- MODULE IntakeProofs ----------------------------
(***************************************************************************)
(* Theorems about Intake for any workers, number of messages and scopes: its *)
(* type, that a message reaches the agent once, on its side of every pause,  *)
(* is not lost and has its answer's row, and that turns keep the order the   *)
(* messages were written in.                                                *)
(*                                                                          *)
(* The argument is about the one request the owner is asked: all that is or *)
(* was released of it is the same, and a process that carries a message of   *)
(* it carries the only one.                                                 *)
(***************************************************************************)
EXTENDS Intake, FiniteSetTheorems, TLAPS

\* What is held for the owner, being released, or was.
Request(held, key) == [held |-> held, key |-> key]
Requests == {Request(turns[i].parts, turns[i].key) : i \in {j \in DOMAIN turns : turns[j].way = "approval"}}
            \cup (IF approval.pc = "idle" THEN {} ELSE {Request(approval.held, approval.key)})
            \cup (IF contact.held = {} THEN {} ELSE {Request(contact.held, contact.key)})

\* The person was let in or turned away.
Decided == contact.status \notin {"none", "pending"}

\* Of a request with this message, it is all there is.
Alone(e) == \A r \in Requests : e \in r.held => r = Request({e}, e)
\* All that was written before it is crossed off.
InTurn(e) == e \in DOMAIN arrived /\ 1..e - 1 \subseteq processed
\* Where this message went.
Done(e) == \/ e \in excused \cup unanswered \cup contact.held
           \/ Relayed(e)
           \/ e \in delivered /\ Submitted("turn", e)
           \/ \E i \in DOMAIN turns : turns[i].way = "approval" /\ e \in turns[i].parts

---------------------------------------------------------------------------
\* A message that is not crossed off was written in the present.
Fresh == \A e \in DOMAIN arrived \ processed : enabled /\ contact.ai /\ arrived[e] = Now

\* What a process carries through drain and accept.
Carries(d) == LET e == d.event IN
    /\ d.pc # "idle" => e \in DOMAIN arrived
    /\ d.pc \in {"claiming", "accepting"} /\ e \notin processed => d.enabled /\ d.paused = paused
    /\ d.pc = "accepting" => InTurn(e)
    /\ d.pc \in {"answering", "relaying", "relayed", "submitting", "withoutModel", "delivering"} =>
         /\ InTurn(e) /\ Decided /\ e \notin contact.seen /\ Alone(e)
         /\ arrived[e] = [paused |-> d.paused, aiPaused |-> d.aiPaused]
    /\ d.pc = "relayed" => Relayed(e)
    /\ d.pc = "delivering" => Submitted("turn", e)
    /\ d.pc = "marking" => Done(e)
Carried == \A w \in Workers : Carries(drain[w])

\* A request is of messages in their order, its first by its key.
Asked(r) == /\ r.held # {} /\ r.key \in r.held \cup {NoKey}
            /\ \A e \in r.held : InTurn(e) /\ (e = r.key \/ (e \in contact.seen /\ r.key < e))
OneRequest == \A r \in Requests : Asked(r) /\ \A s \in Requests : r = s
Seen == \A e \in contact.seen : InTurn(e) /\ Done(e)
\* Nothing is done for a person before the owner decides.
Undecided == /\ contact.status = "none" => contact = NoContact
             /\ ~Decided => turns = <<>> /\ approval.pc = "idle"
Holding == /\ contact.held = {} => contact.key = NoKey
           /\ contact.held # {} => /\ enabled /\ contact.ai /\ contact.status # "blocked"
                                   /\ \A e \in contact.held : arrived[e].aiPaused = contact.aiPaused
Releasing ==
    approval.pc # "idle" =>
    /\ approval.held # {}
    /\ \A e \in approval.held : arrived[e].aiPaused = approval.aiPaused
    /\ approval.pc = "submitting" /\ contact.held # {} => approval.paused = paused
    /\ approval.pc = "delivering" => Submitted("approval", approval.key)
    /\ approval.pc = "releasing" /\ contact.held # {} =>
         Submitted("approval", approval.key) /\ approval.key \in delivered

\* A key was submitted once, and what is a message's own is of that message.
KeyOnce == \A i, j \in DOMAIN turns :
    turns[i].way # "relay" /\ turns[j].way # "relay" /\ turns[i].key = turns[j].key => i = j
OwnTurn == \A i \in DOMAIN turns : turns[i].way # "approval" =>
    LET e == turns[i].key IN turns[i].parts = {e} /\ InTurn(e) /\ Alone(e)
AllDone == \A e \in processed : Done(e)

CInv == /\ TypeOK /\ Fresh /\ Carried
        /\ OneRequest /\ Seen /\ Undecided /\ Holding /\ Releasing
        /\ KeyOnce /\ OwnTurn /\ AllDone /\ PauseHolds
---------------------------------------------------------------------------
(* What each action does. *)

LEMMA LimitsAre ==
    ASSUME TypeOK
    PROVE  /\ MaxEvents \in Nat /\ scope.events \in 0..MaxEvents /\ scope.held \in Nat \ {0}
           /\ DOMAIN arrived = 1..Len(arrived) /\ Len(arrived) \in Nat
           /\ DOMAIN arrived \subseteq Events /\ Events \subseteq Nat /\ 0 \notin Events
           /\ DOMAIN turns = 1..Len(turns) /\ Len(turns) \in Nat
<1>1. scope \in Limits /\ MaxEvents \in Nat
  BY IntakeAssumption DEF TypeOK
<1>2. scope.events \in 0..MaxEvents /\ scope.held \in Nat \ {0}
  BY <1>1 DEF Limits
<1>3. arrived \in Seq(Moments) /\ Len(arrived) <= scope.events /\ turns \in Seq(Submissions)
  BY DEF TypeOK
<1> QED
  BY <1>1, <1>2, <1>3 DEF Events

\* The fields of the records.
LEMMA FieldsAre ==
    ASSUME TypeOK
    PROVE  /\ contact.status \in {"none", "pending", "approved", "blocked"}
           /\ contact.held \in SUBSET Events /\ contact.key \in Keys /\ contact.seen \in SUBSET Events
           /\ contact.ai \in BOOLEAN /\ contact.aiPaused \in Nat
           /\ approval.held \in SUBSET Events /\ approval.key \in Keys
           /\ approval.paused \in Nat /\ approval.aiPaused \in Nat
           /\ approval.pc \in {"idle", "loading", "submitting", "delivering", "releasing"}
           /\ contact = [status |-> contact.status, held |-> contact.held, key |-> contact.key,
                         seen |-> contact.seen, ai |-> contact.ai, aiPaused |-> contact.aiPaused]
<1>1. contact \in Contacts /\ approval \in Approvals
  BY DEF TypeOK
<1>2. /\ contact.status \in {"none", "pending", "approved", "blocked"}
      /\ contact.held \in SUBSET Events /\ contact.key \in Keys /\ contact.seen \in SUBSET Events
      /\ contact.ai \in BOOLEAN /\ contact.aiPaused \in Nat
      /\ contact = [status |-> contact.status, held |-> contact.held, key |-> contact.key,
                    seen |-> contact.seen, ai |-> contact.ai, aiPaused |-> contact.aiPaused]
  BY <1>1 DEF Contacts
<1>3. /\ approval.held \in SUBSET Events /\ approval.key \in Keys
      /\ approval.paused \in Nat /\ approval.aiPaused \in Nat
      /\ approval.pc \in {"idle", "loading", "submitting", "delivering", "releasing"}
  BY <1>1 DEF Approvals
<1> QED
  BY <1>2, <1>3

LEMMA EmptyAre == NoContact \in Contacts /\ NoErrand \in Errands /\ NoDrain \in Drains /\ NoApproval \in Approvals
<1>1. NoContact \in Contacts
  BY DEF NoContact, Contacts, Keys, NoKey
<1>2. NoErrand \in Errands
  BY DEF NoErrand, Errands
<1>3. NoDrain \in Drains
  BY DEF NoDrain, Drains
<1>4. NoApproval \in Approvals
  BY DEF NoApproval, Approvals, Keys, NoKey
<1> QED
  BY <1>1, <1>2, <1>3, <1>4

LEMMA InitType == Init => TypeOK
<1> SUFFICES ASSUME Init PROVE TypeOK
  OBVIOUS
<1>1. scope \in Limits /\ scope \in Scopes
  BY IntakeAssumption DEF Init
<1>2. scope.events \in Nat /\ scope.held \in Nat
  BY <1>1, IntakeAssumption DEF Limits
<1>3. contact.held = {} /\ Cardinality({}) = 0
  BY FS_EmptySet DEF Init, NoContact
<1>4. arrived \in Seq(Moments) /\ Len(arrived) = 0 /\ DOMAIN arrived = {} /\ turns \in Seq(Submissions)
  BY DEF Init
<1>5. drain \in [Workers -> Drains]
  BY EmptyAre DEF Init
<1> QED
  BY <1>1, <1>2, <1>3, <1>4, <1>5, EmptyAre DEF Init, TypeOK

---------------------------------------------------------------------------
(* Steps that move one process and change nothing else the argument is about. *)

Quiet == UNCHANGED <<scope, enabled, paused, arrived, processed, contact, turns, unanswered, delivered,
                     approval, excused>>
\* A process is left carrying something else.
MovesTo(w, d) == d \in Drains /\ drain' = [drain EXCEPT ![w] = d]
QuietMove(w) == Quiet /\ TypeOK' /\ \E d : MovesTo(w, d) /\ Carries(d)

LEMMA QuietType ==
    ASSUME TypeOK, Quiet, errand' \in Errands, leased' \subseteq DOMAIN arrived, crashes' \in Nat,
           drain' \in [Workers -> Drains]
    PROVE  TypeOK'
BY DEF TypeOK, Quiet

LEMMA MoveType ==
    ASSUME TypeOK, NEW w \in Workers, NEW d, MovesTo(w, d)
    PROVE  drain' \in [Workers -> Drains] /\ drain'[w] = d /\ \A v \in Workers \ {w} : drain'[v] = drain[v]
BY DEF TypeOK, MovesTo

LEMMA IdleMoves ==
    ASSUME TypeOK, NEW w \in Workers, Idle(w)
    PROVE  MovesTo(w, NoDrain) /\ Carries(NoDrain)
BY EmptyAre DEF Idle, MovesTo, Carries, NoDrain

\* The same process, elsewhere.
Step(d, pc) == [d EXCEPT !.pc = pc]

LEMMA StepAre ==
    ASSUME NEW d \in Drains,
           NEW pc \in {"idle", "loading", "claiming", "accepting", "answering", "relaying", "relayed",
                       "submitting", "withoutModel", "delivering", "marking"}
    PROVE  /\ Step(d, pc) \in Drains /\ Step(d, pc).pc = pc /\ Step(d, pc).event = d.event
           /\ Step(d, pc).enabled = d.enabled /\ Step(d, pc).paused = d.paused
           /\ Step(d, pc).aiPaused = d.aiPaused
BY DEF Step, Drains

LEMMA GotoMoves ==
    ASSUME TypeOK, NEW w \in Workers, NEW pc, Goto(w, pc), Step(drain[w], pc) \in Drains
    PROVE  MovesTo(w, Step(drain[w], pc))
BY DEF Goto, MovesTo, Step, TypeOK

LEMMA PickQuiet == ASSUME CInv, NEW w \in Workers, Pick(w) PROVE QuietMove(w)
<1>0. TypeOK
  BY DEF CInv
<1>1. PICK e \in Ready : drain' = [drain EXCEPT ![w] = [NoDrain EXCEPT !.pc = "loading", !.event = e]]
  BY DEF Pick
<1> DEFINE d == [NoDrain EXCEPT !.pc = "loading", !.event = e]
<1>2. e \in DOMAIN arrived /\ e \in Events
  BY <1>0, <1>1, LimitsAre DEF Ready
<1>3. d \in Drains /\ d.pc = "loading" /\ d.event = e
  BY <1>2 DEF NoDrain, Drains
<1>4. MovesTo(w, d)
  BY <1>1, <1>3 DEF MovesTo
<1>5. Carries(d)
  <2> HIDE DEF d
  <2> QED
    BY <1>2, <1>3 DEF Carries
<1>6. Quiet /\ UNCHANGED <<errand, leased, crashes>>
  BY DEF Pick, Quiet
<1>7. drain' \in [Workers -> Drains]
  BY <1>0, <1>4, MoveType
<1>8. TypeOK'
  BY <1>0, <1>6, <1>7, QuietType DEF TypeOK
<1> QED
  BY <1>4, <1>5, <1>6, <1>8 DEF QuietMove

LEMMA LoadQuiet == ASSUME CInv, NEW w \in Workers, Load(w) PROVE QuietMove(w)
<1>0. TypeOK /\ Fresh /\ Carries(drain[w])
  BY DEF CInv, Carried
<1> DEFINE d == [drain[w] EXCEPT !.pc = "claiming", !.enabled = enabled, !.paused = paused]
<1>1. drain[w].pc = "loading"
      /\ drain' = [drain EXCEPT ![w].pc = "claiming", ![w].enabled = enabled, ![w].paused = paused]
  BY DEF Load, At
<1>2. drain[w] \in Drains /\ drain \in [Workers -> Drains] /\ enabled \in BOOLEAN /\ paused \in Nat
  BY <1>0 DEF TypeOK
<1>3. d \in Drains /\ d.pc = "claiming" /\ d.event = drain[w].event /\ d.enabled = enabled /\ d.paused = paused
  BY <1>2 DEF Drains
<1>4. MovesTo(w, d)
  <2>1. drain' = [drain EXCEPT ![w] = d]
    BY <1>1, <1>2
  <2> QED
    BY <1>3, <2>1 DEF MovesTo
<1>5. Carries(d)
  <2> HIDE DEF d
  <2>1. drain[w].event \in DOMAIN arrived
    BY <1>0, <1>1 DEF Carries
  <2>2. drain[w].event \notin processed => enabled
    BY <1>0, <2>1 DEF Fresh
  <2> QED
    BY <1>3, <2>1, <2>2 DEF Carries
<1>6. Quiet /\ UNCHANGED <<errand, leased, crashes>>
  BY DEF Load, Quiet
<1>7. drain' \in [Workers -> Drains]
  BY <1>0, <1>4, MoveType
<1>8. TypeOK'
  BY <1>0, <1>6, <1>7, QuietType DEF TypeOK
<1> QED
  BY <1>4, <1>5, <1>6, <1>8 DEF QuietMove

Places == {"idle", "loading", "claiming", "accepting", "answering", "relaying", "relayed", "submitting",
           "withoutModel", "delivering", "marking"}
\* Past the transaction that let the message in.
LetIn == {"answering", "relaying", "relayed", "submitting", "withoutModel", "delivering"}

LEMMA GotoQuiet ==
    ASSUME CInv, NEW w \in Workers, NEW pc \in Places, Quiet, Goto(w, pc), Carries(Step(drain[w], pc)),
           errand' \in Errands, leased' \subseteq DOMAIN arrived, crashes' = crashes
    PROVE  QuietMove(w)
<1>1. TypeOK
  BY DEF CInv
<1>2. drain[w] \in Drains /\ crashes' \in Nat
  BY <1>1 DEF TypeOK
<1>3. MovesTo(w, Step(drain[w], pc))
  BY <1>1, <1>2, StepAre, GotoMoves DEF Places
<1>4. TypeOK'
  BY <1>1, <1>2, <1>3, MoveType, QuietType
<1> QED
  BY <1>3, <1>4 DEF QuietMove

LEMMA IdleQuiet ==
    ASSUME CInv, NEW w \in Workers, Quiet, Idle(w), errand' = errand, leased' = leased, crashes' \in Nat
    PROVE  QuietMove(w)
<1>1. TypeOK
  BY DEF CInv
<1>2. MovesTo(w, NoDrain) /\ Carries(NoDrain)
  BY <1>1, IdleMoves
<1>3. TypeOK'
  BY <1>1, <1>2, MoveType, QuietType DEF TypeOK
<1> QED
  BY <1>2, <1>3 DEF QuietMove

\* What it carries between those places.
LEMMA LetInMoves ==
    ASSUME TypeOK, NEW w \in Workers, Carries(drain[w]), drain[w].pc \in LetIn,
           NEW pc \in {"answering", "relaying", "submitting", "withoutModel"}
    PROVE  Carries(Step(drain[w], pc))
<1>1. drain[w] \in Drains
  BY DEF TypeOK
<1> DEFINE d == drain[w]
           s == Step(drain[w], pc)
<1>2. s.pc = pc /\ s.event = d.event /\ s.enabled = d.enabled /\ s.paused = d.paused /\ s.aiPaused = d.aiPaused
  BY <1>1, StepAre
<1> HIDE DEF d, s
<1>3. Carries(d) /\ d.pc \in LetIn
  BY DEF d
<1>4. Carries(s)
  BY <1>2, <1>3 DEF Carries, LetIn
<1> QED
  BY <1>4 DEF s

LEMMA ClaimQuiet == ASSUME CInv, NEW w \in Workers, Claim(w) PROVE QuietMove(w)
<1>0. TypeOK /\ Carries(drain[w]) /\ drain[w].pc = "claiming"
  BY DEF CInv, Carried, Claim, At
<1>1. Quiet /\ errand' = errand /\ crashes' = crashes /\ errand \in Errands /\ leased \subseteq DOMAIN arrived
        /\ crashes \in Nat
  BY <1>0 DEF Claim, Quiet, TypeOK
<1>2. CASE Event(w) \notin Ready
  BY <1>1, <1>2, IdleQuiet DEF Claim
<1>3. CASE Event(w) \in Ready
  <2> DEFINE e == drain[w].event
             d == drain[w]
             s == Step(drain[w], "accepting")
  <2>1. e \in DOMAIN arrived /\ e \notin processed /\ InTurn(e)
    BY <1>3 DEF Ready, Event, InTurn
  <2>2. d.enabled /\ d.paused = paused
    BY <1>0, <2>1 DEF Carries
  <2>3. Goto(w, "accepting") /\ leased' \subseteq DOMAIN arrived
    BY <1>1, <1>3, <2>1, <2>2 DEF Claim, Event
  <2>4. s.pc = "accepting" /\ s.event = e /\ s.enabled = d.enabled /\ s.paused = d.paused
    BY <1>0, StepAre DEF TypeOK
  <2> HIDE DEF s
  <2>5. Carries(s)
    BY <2>1, <2>2, <2>4 DEF Carries
  <2>6. Carries(Step(drain[w], "accepting"))
    BY <2>5 DEF s
  <2> QED
    BY <1>1, <2>3, <2>6, GotoQuiet DEF Places
<1> QED
  BY <1>2, <1>3

LEMMA ErrandsTo ==
    ASSUME errand \in Errands, NEW E \in SUBSET Events
    PROVE  /\ [errand EXCEPT !.status = "expired"] \in Errands
           /\ [errand EXCEPT !.status = "answered", !.by = E] \in Errands
           /\ [errand EXCEPT !.late = TRUE] \in Errands
           /\ [errand EXCEPT !.status = "waiting", !.late = FALSE, !.count = @ + 1] \in Errands
<1>1. errand.count + 1 \in Nat
  BY DEF Errands
<1> QED
  BY <1>1 DEF Errands

LEMMA AnswerQuiet == ASSUME CInv, NEW w \in Workers, Answer(w) PROVE QuietMove(w)
<1>0. TypeOK /\ Carries(drain[w]) /\ drain[w].pc \in LetIn
  BY DEF CInv, Carried, Answer, At, LetIn
<1>1. Quiet /\ leased' = leased /\ crashes' = crashes /\ errand \in Errands /\ leased \subseteq DOMAIN arrived
  BY <1>0 DEF Answer, Quiet, TypeOK
<1>2. drain[w].event \in Events
  <2>1. drain[w].event \in DOMAIN arrived
    BY <1>0 DEF Carries, LetIn
  <2> QED
    BY <1>0, <2>1, LimitsAre
<1>3. errand' \in Errands
  <2>1. \/ errand' = errand
        \/ errand' = [errand EXCEPT !.status = "expired"]
        \/ errand' = [errand EXCEPT !.status = "answered", !.by = @ \cup {drain[w].event}]
    BY DEF Answer, Expire, Event
  <2>2. errand.by \cup {drain[w].event} \in SUBSET Events
    BY <1>1, <1>2 DEF Errands
  <2> QED
    BY <1>1, <2>1, <2>2, ErrandsTo DEF Errands
<1>4. PICK pc \in {"answering", "relaying", "submitting"} : Goto(w, pc)
  BY DEF Answer, Expire
<1>5. Carries(Step(drain[w], pc))
  BY <1>0, LetInMoves
<1> QED
  BY <1>1, <1>3, <1>4, <1>5, GotoQuiet DEF Places

LEMMA RelayFailsQuiet == ASSUME CInv, NEW w \in Workers, RelayFails(w) PROVE QuietMove(w)
<1>0. TypeOK /\ Carries(drain[w]) /\ drain[w].pc \in LetIn
  BY DEF CInv, Carried, RelayFails, At, LetIn
<1>1. Quiet /\ leased' = leased /\ crashes' = crashes /\ errand' = errand
        /\ errand \in Errands /\ leased \subseteq DOMAIN arrived
  BY <1>0 DEF RelayFails, Quiet, TypeOK
<1>2. Goto(w, "submitting") /\ Carries(Step(drain[w], "submitting"))
  BY <1>0, LetInMoves DEF RelayFails
<1> QED
  BY <1>1, <1>2, GotoQuiet DEF Places

LEMMA NoModelQuiet == ASSUME CInv, NEW w \in Workers, NoModel(w) PROVE QuietMove(w)
<1>0. TypeOK /\ Carries(drain[w]) /\ drain[w].pc \in LetIn
  BY DEF CInv, Carried, NoModel, At, LetIn
<1>1. Quiet /\ leased' = leased /\ crashes' = crashes /\ errand' = errand
        /\ errand \in Errands /\ leased \subseteq DOMAIN arrived
  BY <1>0 DEF NoModel, Quiet, TypeOK
<1>2. Goto(w, "withoutModel") /\ Carries(Step(drain[w], "withoutModel"))
  BY <1>0, LetInMoves DEF NoModel
<1> QED
  BY <1>1, <1>2, GotoQuiet DEF Places

LEMMA RecordQuiet == ASSUME CInv, NEW w \in Workers, Record(w) PROVE QuietMove(w)
<1>0. TypeOK /\ Carries(drain[w]) /\ drain[w].pc = "relayed"
  BY DEF CInv, Carried, Record, At
<1>1. Quiet /\ leased' = leased /\ crashes' = crashes /\ errand' = errand
        /\ errand \in Errands /\ leased \subseteq DOMAIN arrived
  BY <1>0 DEF Record, Quiet, TypeOK
<1> DEFINE s == Step(drain[w], "marking")
<1>2. s.pc = "marking" /\ s.event = drain[w].event
  BY <1>0, StepAre DEF TypeOK
<1>3. drain[w].event \in DOMAIN arrived /\ Done(drain[w].event)
  BY <1>0 DEF Carries, Done
<1> HIDE DEF s
<1>4. Carries(s)
  BY <1>2, <1>3 DEF Carries
<1>5. Carries(Step(drain[w], "marking")) /\ Goto(w, "marking")
  BY <1>4 DEF s, Record
<1> QED
  BY <1>1, <1>5, GotoQuiet DEF Places

LEMMA AwayQuiet == ASSUME CInv, NEW w \in Workers, SubmitFails(w) \/ Crash(w) PROVE QuietMove(w)
<1>0. TypeOK
  BY DEF CInv
<1>1. crashes' \in Nat /\ Quiet /\ errand' = errand /\ leased' = leased /\ Idle(w)
  BY <1>0 DEF TypeOK, SubmitFails, Crash, Quiet, Abandon
<1> QED
  BY <1>1, IdleQuiet

\* Questions and leases.
LEMMA AsideQuiet ==
    ASSUME CInv, Ask \/ Elapse \/ \E e \in DOMAIN arrived : Lapse(e)
    PROVE  Quiet /\ TypeOK' /\ drain' = drain
<1>0. TypeOK /\ drain \in [Workers -> Drains] /\ errand \in Errands /\ crashes \in Nat
        /\ leased \subseteq DOMAIN arrived
  BY DEF CInv, TypeOK
<1>1. Quiet /\ drain' = drain /\ crashes' = crashes /\ leased' \subseteq DOMAIN arrived
  BY <1>0 DEF Ask, Elapse, Lapse, Quiet
<1>2. \/ errand' = errand
      \/ errand' = [errand EXCEPT !.late = TRUE]
      \/ errand' = [errand EXCEPT !.status = "waiting", !.late = FALSE, !.count = @ + 1]
  BY DEF Ask, Elapse, Lapse
<1>3. errand' \in Errands
  BY <1>0, <1>2, ErrandsTo DEF Errands
<1> QED
  BY <1>0, <1>1, <1>3, QuietType

---------------------------------------------------------------------------
(* What every step keeps. *)

Forward ==
    /\ DOMAIN arrived \subseteq DOMAIN arrived'
    /\ \A e \in DOMAIN arrived : arrived'[e] = arrived[e]
    /\ processed \subseteq processed'
    /\ paused' = paused \/ DOMAIN arrived \subseteq processed'
    /\ \A i \in DOMAIN turns : i \in DOMAIN turns' /\ turns'[i] = turns[i]
    /\ \A e \in DOMAIN arrived : Done(e) => Done(e)'
    /\ contact.seen \subseteq contact'.seen
    /\ Decided => Decided' /\ contact'.seen = contact.seen /\ Requests' \subseteq Requests

LEMMA InTurnKept == ASSUME Forward, NEW e, InTurn(e) PROVE InTurn(e)'
BY DEF Forward, InTurn

LEMMA SubmittedKept ==
    ASSUME Forward, NEW way, NEW key, Submitted(way, key)
    PROVE  Submitted(way, key)'
BY DEF Forward, Submitted

LEMMA RelayedKept == ASSUME Forward, NEW e, Relayed(e) PROVE Relayed(e)'
BY DEF Forward, Relayed

LEMMA CarriesKept == ASSUME Forward, NEW d, Carries(d) PROVE Carries(d)'
<1> DEFINE e == d.event
<1>1. d.pc # "idle" => e \in DOMAIN arrived'
  BY DEF Forward, Carries
<1>2. d.pc \in {"claiming", "accepting"} /\ e \notin processed' => d.enabled /\ d.paused = paused'
  BY DEF Forward, Carries
<1>3. d.pc = "accepting" => InTurn(e)'
  BY InTurnKept DEF Carries
<1>4. ASSUME d.pc \in LetIn
      PROVE  /\ InTurn(e)' /\ Decided' /\ e \notin contact'.seen /\ Alone(e)'
             /\ arrived'[e] = [paused |-> d.paused, aiPaused |-> d.aiPaused]
  <2>1. InTurn(e) /\ Decided /\ e \notin contact.seen /\ Alone(e)
        /\ arrived[e] = [paused |-> d.paused, aiPaused |-> d.aiPaused]
    BY <1>4 DEF Carries, LetIn
  <2>2. InTurn(e)' /\ Decided' /\ e \notin contact'.seen /\ Requests' \subseteq Requests
    BY <2>1, InTurnKept DEF Forward
  <2>3. Alone(e)'
    BY <2>1, <2>2 DEF Alone
  <2>4. arrived'[e] = arrived[e]
    BY <2>1 DEF Forward, InTurn
  <2> QED
    BY <2>1, <2>2, <2>3, <2>4
<1>5. d.pc = "relayed" => Relayed(e)'
  BY RelayedKept DEF Carries
<1>6. d.pc = "delivering" => Submitted("turn", e)'
  BY SubmittedKept DEF Carries
<1>7. d.pc = "marking" => Done(e)'
  BY DEF Carries, Forward
<1> HIDE DEF e
<1> QED
  BY <1>1, <1>2, <1>3, <1>4, <1>5, <1>6, <1>7 DEF Carries, LetIn, e

\* One process moves.
LEMMA CarriedMoves ==
    ASSUME CInv, Forward, NEW w \in Workers, NEW d, MovesTo(w, d), Carries(d)'
    PROVE  Carried'
<1>1. drain'[w] = d /\ \A v \in Workers \ {w} : drain'[v] = drain[v]
  BY MoveType DEF CInv
<1>2. SUFFICES ASSUME NEW v \in Workers PROVE Carries(drain[v])'
  BY DEF Carried
<1>3. CASE v = w
  BY <1>1, <1>3 DEF Carries
<1>4. CASE v # w
  <2>1. PICK c : c = drain[v]
    OBVIOUS
  <2>2. Carries(c)
    BY <2>1 DEF CInv, Carried
  <2>3. Carries(c)'
    BY <2>2, CarriesKept
  <2>4. drain'[v] = c
    BY <1>1, <1>4, <2>1
  <2> QED
    BY <2>3, <2>4 DEF Carries
<1> QED
  BY <1>3, <1>4

LEMMA CarriedStays ==
    ASSUME CInv, Forward, drain' = drain
    PROVE  Carried'
<1>1. SUFFICES ASSUME NEW v \in Workers PROVE Carries(drain[v])'
  BY DEF Carried
<1>2. PICK c : c = drain[v]
  OBVIOUS
<1>3. Carries(c)
  BY <1>2 DEF CInv, Carried
<1>4. Carries(c)'
  BY <1>3, CarriesKept
<1>5. drain'[v] = c
  BY <1>2
<1> QED
  BY <1>4, <1>5 DEF Carries

LEMMA TurnParts ==
    ASSUME CInv, NEW i \in DOMAIN turns, NEW e \in turns[i].parts
    PROVE  e \in DOMAIN arrived
<1>1. turns[i] \in Submissions
  BY DEF CInv, TypeOK
<1>2. CASE turns[i].way # "approval"
  BY <1>2 DEF CInv, OwnTurn, InTurn
<1>3. CASE turns[i].way = "approval"
  <2>1. Request(turns[i].parts, turns[i].key) \in Requests
    BY <1>3 DEF Requests
  <2>2. Asked(Request(turns[i].parts, turns[i].key))
    BY <2>1 DEF CInv, OneRequest
  <2> QED
    BY <2>2 DEF Asked, Request, InTurn
<1> QED
  BY <1>1, <1>2, <1>3 DEF Submissions

LEMMA QuietForward == ASSUME CInv, Quiet PROVE Forward
<1>1. Requests' = Requests /\ (Decided <=> Decided') /\ \A e : Done(e) <=> Done(e)'
  BY DEF Quiet, Requests, Decided, Done, Relayed, Submitted
<1> QED
  BY <1>1 DEF Quiet, Forward

LEMMA QuietStep == ASSUME CInv, Quiet, TypeOK', Carried' PROVE CInv'
<1>1. Requests' = Requests /\ (Decided <=> Decided') /\ \A e : Done(e) <=> Done(e)'
  BY DEF Quiet, Requests, Decided, Done, Relayed, Submitted
<1>2. \A e : (InTurn(e) <=> InTurn(e)') /\ (Alone(e) <=> Alone(e)')
  BY <1>1 DEF Quiet, InTurn, Alone
<1>3. Fresh'
  BY DEF CInv, Quiet, Fresh, Now
<1>4. OneRequest' /\ Seen'
  <2>1. OneRequest /\ Seen
    BY DEF CInv
  <2> QED
    BY <1>1, <1>2, <2>1 DEF Quiet, OneRequest, Asked, Seen
<1>5. Undecided' /\ Holding'
  <2>1. Undecided /\ Holding
    BY DEF CInv
  <2> QED
    BY <1>1, <2>1 DEF Quiet, Undecided, Holding
<1>6. Releasing'
  BY DEF CInv, Quiet, Releasing, Submitted
<1>7. KeyOnce' /\ AllDone'
  BY <1>1 DEF CInv, Quiet, KeyOnce, AllDone
<1>8. OwnTurn'
  BY <1>1, <1>2 DEF CInv, Quiet, OwnTurn
<1>9. PauseHolds'
  BY DEF CInv, Quiet, PauseHolds
<1> QED
  BY <1>3, <1>4, <1>5, <1>6, <1>7, <1>8, <1>9 DEF CInv

LEMMA QuietMoveStep == ASSUME CInv, NEW w \in Workers, QuietMove(w) PROVE CInv'
<1>1. PICK d : MovesTo(w, d) /\ Carries(d)
  BY DEF QuietMove
<1>2. Quiet /\ TypeOK' /\ Forward
  BY QuietForward DEF QuietMove
<1>3. Carries(d)'
  BY <1>1, <1>2, CarriesKept
<1>4. Carried'
  BY <1>1, <1>2, <1>3, CarriedMoves
<1> QED
  BY <1>2, <1>4, QuietStep

\* What follows from no new request and the same seen.
LEMMA RequestsKept ==
    ASSUME CInv, TypeOK', Forward, Requests' \subseteq Requests, contact'.seen = contact.seen
    PROVE  OneRequest' /\ Seen'
<1>1. OneRequest /\ Seen
  BY DEF CInv
<1>2. ASSUME NEW r \in Requests' PROVE Asked(r)' /\ \A s \in Requests' : r = s
  <2>1. Asked(r) /\ \A s \in Requests : r = s
    BY <1>1, <1>2 DEF OneRequest
  <2>2. \A e \in r.held : InTurn(e)'
    BY <2>1, InTurnKept DEF Asked
  <2> QED
    BY <2>1, <2>2 DEF Asked
<1>3. ASSUME NEW e \in contact'.seen PROVE InTurn(e)' /\ Done(e)'
  <2>1. InTurn(e) /\ Done(e) /\ e \in DOMAIN arrived
    BY <1>1 DEF Seen, InTurn
  <2> QED
    BY <2>1, InTurnKept DEF Forward
<1> QED
  BY <1>2, <1>3 DEF OneRequest, Seen

LEMMA AllDoneKept ==
    ASSUME CInv, Forward, \A e \in processed' \ processed : Done(e)'
    PROVE  AllDone'
<1>1. processed \subseteq DOMAIN arrived /\ AllDone
  BY DEF CInv, TypeOK
<1> QED
  BY <1>1 DEF AllDone, Forward

LEMMA TurnsKept ==
    ASSUME CInv, Forward, Requests' \subseteq Requests, turns' = turns
    PROVE  KeyOnce' /\ OwnTurn' /\ PauseHolds'
<1>1. KeyOnce'
  BY DEF CInv, KeyOnce
<1>2. OwnTurn'
  <2>1. SUFFICES ASSUME NEW i \in DOMAIN turns, turns[i].way # "approval", NEW e, e = turns[i].key
                 PROVE  turns[i].parts = {e} /\ InTurn(e)' /\ Alone(e)'
    BY DEF OwnTurn
  <2>2. turns[i].parts = {e} /\ InTurn(e) /\ Alone(e)
    BY <2>1 DEF CInv, OwnTurn
  <2>3. Alone(e)'
    BY <2>2 DEF Alone
  <2> QED
    BY <2>2, <2>3, InTurnKept
<1>3. PauseHolds'
  <2>1. SUFFICES ASSUME NEW i \in DOMAIN turns, NEW e \in turns[i].parts
                 PROVE  arrived'[e] = arrived[e]
    BY DEF CInv, PauseHolds
  <2>2. e \in DOMAIN arrived
    BY TurnParts
  <2> QED
    BY <2>2 DEF Forward
<1> QED
  BY <1>1, <1>2, <1>3

---------------------------------------------------------------------------
(* Steps after which nothing is held: a pause, a block, a release. *)

Clears ==
    /\ UNCHANGED <<scope, arrived, turns, unanswered, delivered, drain>>
    /\ contact'.held = {} /\ contact'.key = NoKey /\ contact'.seen = contact.seen
    /\ contact'.status = "none" => contact' = NoContact
    /\ Decided => Decided'
    /\ ~Decided' => ~Decided
    /\ processed \subseteq processed' /\ processed' \subseteq DOMAIN arrived
    /\ \/ UNCHANGED <<enabled, paused>> /\ contact'.ai = contact.ai /\ contact'.aiPaused = contact.aiPaused
       \/ processed' = DOMAIN arrived
    /\ approval' = approval \/ approval' = NoApproval
    /\ \A e \in DOMAIN arrived : Done(e) => Done(e)'
    /\ \A e \in processed' \ processed : Done(e)'

LEMMA ClearsStep == ASSUME CInv, TypeOK', Clears PROVE CInv'
<1>1. Requests' \subseteq Requests
  BY DEF Clears, Requests, NoApproval
<1>2. Forward
  BY <1>1 DEF Clears, Forward
<1>3. Carried'
  BY <1>2, CarriedStays DEF Clears
<1>4. OneRequest' /\ Seen'
  BY <1>1, <1>2, RequestsKept DEF Clears
<1>5. AllDone'
  BY <1>2, AllDoneKept DEF Clears
<1>6. KeyOnce' /\ OwnTurn' /\ PauseHolds'
  BY <1>1, <1>2, TurnsKept DEF Clears
<1>7. Fresh'
  <2>1. CASE processed' = DOMAIN arrived
    BY <2>1 DEF Clears, Fresh
  <2>2. CASE UNCHANGED <<enabled, paused>> /\ contact'.ai = contact.ai /\ contact'.aiPaused = contact.aiPaused
    BY <2>2 DEF CInv, Clears, Fresh, Now
  <2> QED
    BY <2>1, <2>2 DEF Clears
<1>8. Undecided'
  BY DEF CInv, Clears, Undecided, NoApproval
<1>9. Holding'
  BY DEF Clears, Holding
<1>10. Releasing'
  <2>1. CASE approval' = NoApproval
    BY <2>1 DEF Releasing, NoApproval
  <2>2. CASE approval' = approval
    <3>1. approval.pc # "idle" =>
            Request(approval.held, approval.key) \in Requests /\ Asked(Request(approval.held, approval.key))
      BY DEF Requests, CInv, OneRequest
    <3> QED
      BY <2>2, <3>1 DEF CInv, Clears, Releasing, Submitted
  <2> QED
    BY <2>1, <2>2 DEF Clears
<1> QED
  BY <1>3, <1>4, <1>5, <1>6, <1>7, <1>8, <1>9, <1>10 DEF CInv

\* What is put aside is done with, and what was done stays so.
LEMMA PutAside ==
    ASSUME UNCHANGED <<turns, unanswered, delivered>>, contact.held \subseteq excused', excused \subseteq excused',
           NEW e, Done(e)
    PROVE  Done(e)'
BY DEF Done, Relayed, Submitted

LEMMA HeldArrived == ASSUME CInv PROVE contact.held \subseteq DOMAIN arrived
<1>1. CASE contact.held = {}
  BY <1>1
<1>2. CASE contact.held # {}
  <2>1. Request(contact.held, contact.key) \in Requests
    BY <1>2 DEF Requests
  <2>2. Asked(Request(contact.held, contact.key))
    BY <2>1 DEF CInv, OneRequest
  <2> QED
    BY <2>2 DEF Asked, Request, InTurn
<1> QED
  BY <1>1, <1>2

\* A row of the person, for the limit on what it holds.
LEMMA ClearedType ==
    ASSUME CInv, contact' \in Contacts, contact'.held = {}, scope' = scope
    PROVE  Cardinality(contact'.held) <= scope'.held
<1>1. scope.held \in Nat \ {0} /\ Cardinality({}) = 0
  BY LimitsAre, FS_EmptySet DEF CInv
<1> QED
  BY <1>1

LEMMA PauseStep == ASSUME CInv, Switch \/ Mute PROVE CInv'
<1>0. TypeOK /\ contact \in Contacts /\ paused \in Nat /\ processed \subseteq DOMAIN arrived
      /\ excused \subseteq DOMAIN arrived
  BY DEF CInv, TypeOK
<1>1. /\ UNCHANGED <<scope, arrived, leased, errand, turns, unanswered, delivered, drain, approval,
                     crashes>>
      /\ processed' = DOMAIN arrived
      /\ excused' = excused \cup contact.held \cup (DOMAIN arrived \ processed)
  BY DEF Switch, Mute, DiscardInbox
<1>2. /\ contact' \in Contacts /\ contact'.held = {} /\ contact'.key = NoKey /\ contact'.seen = contact.seen
      /\ contact'.status = contact.status
      /\ contact.status = "none" => contact' = contact
  <2>1. CASE Switch
    <3>1. contact' = [contact EXCEPT !.held = {}, !.key = NoKey]
      BY <2>1 DEF Switch, DiscardInbox
    <3>2. contact.status = "none" => contact.held = {} /\ contact.key = NoKey
      BY DEF CInv, Undecided, NoContact
    <3> QED
      BY <1>0, <3>1, <3>2 DEF Contacts, Keys, NoKey
  <2>2. CASE Mute
    <3> DEFINE c == [contact EXCEPT !.ai = ~@, !.aiPaused = @ + 1]
    <3>1. contact' = [c EXCEPT !.held = {}, !.key = NoKey] /\ contact.status # "none"
      BY <2>2 DEF Mute, DiscardInbox
    <3> DEFINE on == ~contact.ai
               n == contact.aiPaused + 1
    <3>2. c \in Contacts /\ c.seen = contact.seen /\ c.status = contact.status
      <4>1. on \in BOOLEAN /\ n \in Nat
        BY <1>0, FieldsAre
      <4>2. c = [contact EXCEPT !.ai = on, !.aiPaused = n]
        OBVIOUS
      <4> HIDE DEF c, on, n
      <4> QED
        BY <1>0, <4>1, <4>2 DEF Contacts
    <3> HIDE DEF c
    <3> QED
      BY <3>1, <3>2 DEF Contacts, Keys, NoKey
  <2> QED
    BY <2>1, <2>2
<1>3. enabled' \in BOOLEAN /\ paused' \in Nat
  <2>1. enabled \in BOOLEAN /\ (enabled' = enabled \/ enabled' = ~enabled)
    BY <1>0 DEF Switch, Mute, TypeOK
  <2>2. enabled' \in BOOLEAN
    BY <2>1, Zenon
  <2>3. paused' = paused \/ paused' = paused + 1
    BY DEF Switch, Mute
  <2>4. paused' \in Nat
    BY <1>0, <2>3
  <2> QED
    BY <2>2, <2>4
<1>4. TypeOK'
  BY <1>0, <1>1, <1>2, <1>3, HeldArrived, ClearedType DEF TypeOK
<1>5. \A e \in DOMAIN arrived : Done(e) => Done(e)'
  BY <1>1, PutAside
<1>6. \A e \in processed' \ processed : Done(e)'
  BY <1>1 DEF Done
<1>7. Clears
  BY <1>0, <1>1, <1>2, <1>5, <1>6 DEF Clears, Decided, CInv, Undecided
<1> QED
  BY <1>4, <1>7, ClearsStep

LEMMA BlockStep == ASSUME CInv, Block PROVE CInv'
<1>0. TypeOK /\ contact \in Contacts
  BY DEF CInv, TypeOK
<1>1. /\ UNCHANGED <<scope, enabled, paused, arrived, processed, leased, errand, turns, unanswered,
                     delivered, drain, approval, crashes>>
      /\ excused' = excused \cup contact.held
      /\ contact' = [contact EXCEPT !.status = "blocked", !.held = {}, !.key = NoKey]
  BY DEF Block
<1>2. /\ contact' \in Contacts /\ contact'.held = {} /\ contact'.key = NoKey /\ contact'.seen = contact.seen
      /\ contact'.status = "blocked" /\ contact'.ai = contact.ai /\ contact'.aiPaused = contact.aiPaused
  BY <1>0, <1>1 DEF Contacts, Keys, NoKey
<1>3. TypeOK'
  BY <1>0, <1>1, <1>2, HeldArrived, ClearedType DEF TypeOK
<1>4. \A e \in DOMAIN arrived : Done(e) => Done(e)'
  BY <1>1, PutAside
<1>5. Clears
  BY <1>0, <1>1, <1>2, <1>4 DEF Clears, Decided, TypeOK
<1> QED
  BY <1>3, <1>5, ClearsStep

\* What is being released is what is held, unless that is gone.
LEMMA HeldIsReleased ==
    ASSUME CInv, approval.pc # "idle", contact.held # {}
    PROVE  approval.held = contact.held /\ approval.key = contact.key
<1>1. Request(approval.held, approval.key) \in Requests /\ Request(contact.held, contact.key) \in Requests
  BY DEF Requests
<1>2. Request(approval.held, approval.key) = Request(contact.held, contact.key)
  BY <1>1 DEF CInv, OneRequest
<1> QED
  BY <1>2 DEF Request

\* Its key was submitted with all of it.
LEMMA ReleasedIsDone ==
    ASSUME CInv, approval.pc # "idle", Submitted("approval", approval.key), approval.key \in delivered,
           NEW e \in contact.held
    PROVE  \/ \E i \in DOMAIN turns : turns[i].way = "approval" /\ e \in turns[i].parts
           \/ e \in delivered /\ Submitted("turn", e)
<1>1. approval.held = contact.held /\ approval.key = contact.key
  BY HeldIsReleased
<1>2. PICK i \in DOMAIN turns : turns[i].key = contact.key /\ turns[i].way # "relay"
  BY <1>1 DEF Submitted
<1>3. Request(contact.held, contact.key) \in Requests
  BY DEF Requests
<1>4. CASE turns[i].way = "approval"
  <2>1. Request(turns[i].parts, turns[i].key) \in Requests
    BY <1>4 DEF Requests
  <2>2. Request(turns[i].parts, turns[i].key) = Request(contact.held, contact.key)
    BY <1>3, <2>1 DEF CInv, OneRequest
  <2> QED
    BY <1>4, <2>2 DEF Request
<1>5. CASE turns[i].way # "approval"
  <2> DEFINE k == contact.key
  <2>1. InTurn(k) /\ Alone(k)
    BY <1>2, <1>5 DEF CInv, OwnTurn
  <2>2. k # NoKey
    BY <2>1, LimitsAre DEF CInv, InTurn, NoKey
  <2>3. k \in contact.held
    BY <1>3, <2>2 DEF CInv, OneRequest, Asked, Request
  <2>4. Request(contact.held, contact.key) = Request({k}, k)
    BY <1>3, <2>1, <2>3 DEF Alone, Request
  <2>5. e = k
    BY <2>4 DEF Request
  <2> QED
    BY <1>1, <1>2, <2>5 DEF Submitted
<1> QED
  BY <1>4, <1>5

LEMMA ReleaseStep == ASSUME CInv, Release PROVE CInv'
<1>0. TypeOK /\ contact \in Contacts
  BY DEF CInv, TypeOK
<1>1. /\ UNCHANGED <<scope, enabled, paused, arrived, processed, leased, errand, turns, unanswered,
                     delivered, drain, excused, crashes>>
      /\ contact' = [contact EXCEPT !.held = {}, !.key = NoKey]
      /\ approval.pc = "releasing" /\ approval' = NoApproval
  BY DEF Release
<1>2. /\ contact' \in Contacts /\ contact'.held = {} /\ contact'.key = NoKey /\ contact'.seen = contact.seen
      /\ contact'.status = contact.status /\ contact'.ai = contact.ai /\ contact'.aiPaused = contact.aiPaused
  BY <1>0, <1>1 DEF Contacts, Keys, NoKey
<1>3. TypeOK'
  BY <1>0, <1>1, <1>2, ClearedType, EmptyAre DEF TypeOK
<1>4. \A e \in DOMAIN arrived : Done(e) => Done(e)'
  <2>1. SUFFICES ASSUME NEW e, Done(e) PROVE Done(e)'
    OBVIOUS
  <2>2. CASE e \in contact.held
    <3>1. Submitted("approval", approval.key) /\ approval.key \in delivered
      BY <1>1, <2>2 DEF CInv, Releasing
    <3>2. \/ \E i \in DOMAIN turns : turns[i].way = "approval" /\ e \in turns[i].parts
          \/ e \in delivered /\ Submitted("turn", e)
      BY <1>1, <2>2, <3>1, ReleasedIsDone
    <3> QED
      BY <1>1, <3>2 DEF Done, Submitted
  <2>3. CASE e \notin contact.held
    BY <1>1, <2>1, <2>3 DEF Done, Relayed, Submitted
  <2> QED
    BY <2>2, <2>3
<1>5. Decided
  BY <1>1 DEF CInv, Undecided
<1>6. Clears
  BY <1>0, <1>1, <1>2, <1>4, <1>5 DEF Clears, Decided, TypeOK
<1> QED
  BY <1>3, <1>6, ClearsStep

---------------------------------------------------------------------------
(* The owner's approval. *)

ApprovalMoves ==
    /\ UNCHANGED <<scope, enabled, paused, arrived, processed, turns, unanswered, drain, excused>>
    /\ contact'.held = contact.held /\ contact'.key = contact.key /\ contact'.seen = contact.seen
    /\ contact'.ai = contact.ai /\ contact'.aiPaused = contact.aiPaused
    /\ contact'.status = "approved" \/ contact' = contact
    /\ Decided'
    /\ approval'.pc = "idle" \/ Request(approval'.held, approval'.key) \in Requests
    /\ delivered \subseteq delivered'

LEMMA ApprovalMovesStep == ASSUME CInv, TypeOK', ApprovalMoves, Releasing' PROVE CInv'
<1>1. Requests' \subseteq Requests
  BY DEF ApprovalMoves, Requests
<1>2. \A e : Done(e) => Done(e)'
  BY DEF ApprovalMoves, Done, Relayed, Submitted
<1>3. Forward
  BY <1>1, <1>2 DEF ApprovalMoves, Forward
<1>4. Carried'
  BY <1>3, CarriedStays DEF ApprovalMoves
<1>5. OneRequest' /\ Seen'
  BY <1>1, <1>3, RequestsKept DEF ApprovalMoves
<1>6. AllDone'
  BY <1>3, AllDoneKept DEF ApprovalMoves
<1>7. KeyOnce' /\ OwnTurn' /\ PauseHolds'
  BY <1>1, <1>3, TurnsKept DEF ApprovalMoves
<1>8. Fresh'
  BY DEF CInv, ApprovalMoves, Fresh, Now
<1>9. Undecided'
  BY DEF ApprovalMoves, Undecided, Decided
<1>10. Holding'
  BY DEF CInv, ApprovalMoves, Holding
<1> QED
  BY <1>4, <1>5, <1>6, <1>7, <1>8, <1>9, <1>10 DEF CInv

LEMMA ApprovalPlace ==
    ASSUME TypeOK, NEW pc \in {"idle", "loading", "submitting", "delivering", "releasing"}, ApprovalGoto(pc)
    PROVE  /\ approval' \in Approvals /\ approval'.pc = pc
           /\ approval'.held = approval.held /\ approval'.key = approval.key
           /\ approval'.paused = approval.paused /\ approval'.aiPaused = approval.aiPaused
BY DEF TypeOK, ApprovalGoto, Approvals

LEMMA ApproveStep == ASSUME CInv, Approve PROVE CInv'
<1>0. TypeOK /\ contact \in Contacts
  BY DEF CInv, TypeOK
<1>1. /\ UNCHANGED <<scope, enabled, paused, arrived, processed, leased, errand, turns, unanswered,
                     delivered, drain, excused, crashes>>
      /\ contact' = [contact EXCEPT !.status = "approved"]
  BY DEF Approve
<1>2. /\ contact' \in Contacts /\ contact'.held = contact.held /\ contact'.key = contact.key
      /\ contact'.seen = contact.seen /\ contact'.status = "approved" /\ contact'.ai = contact.ai
      /\ contact'.aiPaused = contact.aiPaused
  BY <1>0, <1>1 DEF Contacts
<1>3. \/ approval' = NoApproval
      \/ /\ approval' \in Approvals /\ contact.held # {}
         /\ approval'.pc = "loading" /\ approval'.held = contact.held /\ approval'.key = contact.key
         /\ approval'.aiPaused = contact.aiPaused
  <2>1. CASE contact.held = {}
    BY <2>1 DEF Approve
  <2>2. CASE contact.held # {}
    <3> DEFINE h == contact.held
               k == contact.key
               n == contact.aiPaused
    <3>1. h \in SUBSET Events /\ k \in Keys /\ n \in Nat
      BY <1>0, FieldsAre
    <3>2. approval' = [NoApproval EXCEPT !.pc = "loading", !.held = h, !.key = k, !.aiPaused = n]
      BY <2>2 DEF Approve
    <3> HIDE DEF h, k, n
    <3>3. approval' = [pc |-> "loading", held |-> h, key |-> k, paused |-> 0, aiPaused |-> n]
      BY <3>2 DEF NoApproval
    <3>4. approval' \in Approvals
      BY <3>1, <3>3 DEF Approvals
    <3> QED
      BY <2>2, <3>3, <3>4 DEF h, k, n
  <2> QED
    BY <2>1, <2>2
<1>4. TypeOK'
  BY <1>0, <1>1, <1>2, <1>3, EmptyAre DEF TypeOK
<1>5. approval'.pc = "idle" \/ Request(approval'.held, approval'.key) \in Requests
  BY <1>3 DEF NoApproval, Requests
<1>6. ApprovalMoves
  BY <1>1, <1>2, <1>5 DEF ApprovalMoves, Decided
<1>7. Releasing'
  BY <1>1, <1>3 DEF CInv, Holding, Releasing, NoApproval
<1> QED
  BY <1>4, <1>6, <1>7, ApprovalMovesStep

LEMMA LoadForApprovalStep == ASSUME CInv, LoadForApproval PROVE CInv'
<1>0. TypeOK /\ approval \in Approvals /\ paused \in Nat
  BY DEF CInv, TypeOK
<1>1. /\ UNCHANGED <<scope, enabled, paused, arrived, processed, leased, contact, errand, turns,
                     unanswered, delivered, drain, excused, crashes>>
      /\ approval.pc = "loading"
  BY DEF LoadForApproval
<1>2. \/ approval' = NoApproval
      \/ /\ approval' \in Approvals /\ approval'.pc = "submitting" /\ approval'.paused = paused
         /\ approval'.held = approval.held /\ approval'.key = approval.key
         /\ approval'.aiPaused = approval.aiPaused
  BY <1>0 DEF LoadForApproval, Approvals
<1>3. TypeOK'
  BY <1>0, <1>1, <1>2, EmptyAre DEF TypeOK
<1>4. Decided /\ Request(approval.held, approval.key) \in Requests
  BY <1>1 DEF CInv, Undecided, Requests
<1>5. ApprovalMoves
  BY <1>1, <1>2, <1>4 DEF ApprovalMoves, NoApproval, Decided
<1>6. Releasing'
  BY <1>1, <1>2 DEF CInv, Releasing, NoApproval
<1> QED
  BY <1>3, <1>5, <1>6, ApprovalMovesStep

LEMMA ApprovalFailsStep == ASSUME CInv, ApprovalFails PROVE CInv'
<1>1. /\ UNCHANGED <<scope, enabled, paused, arrived, processed, leased, contact, errand, turns,
                     unanswered, delivered, drain, excused, crashes>>
      /\ approval.pc # "idle" /\ approval' = NoApproval
  BY DEF ApprovalFails
<1>2. TypeOK'
  BY <1>1, EmptyAre DEF CInv, TypeOK
<1>3. ApprovalMoves
  BY <1>1 DEF CInv, Undecided, ApprovalMoves, NoApproval, Decided
<1>4. Releasing'
  BY <1>1 DEF Releasing, NoApproval
<1> QED
  BY <1>2, <1>3, <1>4, ApprovalMovesStep

LEMMA DeliverHeldStep == ASSUME CInv, DeliverHeld PROVE CInv'
<1>0. TypeOK
  BY DEF CInv
<1>1. /\ UNCHANGED <<scope, enabled, paused, arrived, processed, leased, contact, errand, turns,
                     unanswered, drain, excused, crashes>>
      /\ approval.pc = "delivering" /\ ApprovalGoto("releasing")
      /\ delivered' = delivered \cup {approval.key}
  BY DEF DeliverHeld, DeliverOnce
<1>2. /\ approval' \in Approvals /\ approval'.pc = "releasing"
      /\ approval'.held = approval.held /\ approval'.key = approval.key
      /\ approval'.paused = approval.paused /\ approval'.aiPaused = approval.aiPaused
  BY <1>0, <1>1, ApprovalPlace
<1>3. TypeOK'
  BY <1>0, <1>1, <1>2, FieldsAre DEF TypeOK
<1>4. Decided /\ Request(approval.held, approval.key) \in Requests
  BY <1>1 DEF CInv, Undecided, Requests
<1>5. ApprovalMoves
  BY <1>1, <1>2, <1>4 DEF ApprovalMoves, Decided
<1>6. Releasing'
  BY <1>1, <1>2 DEF CInv, Releasing, Submitted
<1> QED
  BY <1>3, <1>5, <1>6, ApprovalMovesStep

---------------------------------------------------------------------------
(* Submitting, delivering and crossing off. *)

\* A submission that takes effect.
Adds(t) == /\ turns' = Append(turns, t) /\ t \in Submissions /\ ~Submitted(t.way, t.key)
           /\ IF t.way = "approval" THEN Request(t.parts, t.key) \in Requests
              ELSE t.parts = {t.key} /\ InTurn(t.key) /\ Alone(t.key)
           /\ \A e \in t.parts : /\ arrived[e].aiPaused = t.at.aiPaused
                                 /\ t.way # "approval" => arrived[e].paused = t.at.paused

Works ==
    /\ UNCHANGED <<scope, enabled, paused, arrived, contact>>
    /\ processed \subseteq processed' /\ excused \subseteq excused' /\ delivered \subseteq delivered'
    /\ unanswered \subseteq unanswered'
    /\ turns' = turns \/ (Decided /\ \E t : Adds(t))
    /\ approval' = approval \/ (Decided /\ Request(approval'.held, approval'.key) \in Requests)
    /\ \A e \in processed' \ processed : Done(e)'

LEMMA AddedAre ==
    ASSUME TypeOK, NEW t, Adds(t)
    PROVE  /\ DOMAIN turns' = DOMAIN turns \cup {Len(turns) + 1}
           /\ Len(turns) + 1 \notin DOMAIN turns
           /\ turns'[Len(turns) + 1] = t
           /\ \A i \in DOMAIN turns : turns'[i] = turns[i]
<1>1. turns \in Seq(Submissions) /\ turns' = Append(turns, t) /\ t \in Submissions
  BY DEF TypeOK, Adds
<1> QED
  BY <1>1

LEMMA WorksForward == ASSUME CInv, Works PROVE Forward /\ Requests' \subseteq Requests
<1>1. \A i \in DOMAIN turns : i \in DOMAIN turns' /\ turns'[i] = turns[i]
  BY AddedAre DEF CInv, Works
<1>2. \A e : Done(e) => Done(e)'
  BY <1>1 DEF Works, Done, Relayed, Submitted
<1>3. Requests' \subseteq Requests
  <2>1. ASSUME NEW i \in DOMAIN turns', turns'[i].way = "approval"
        PROVE  Request(turns'[i].parts, turns'[i].key) \in Requests
    <3>1. CASE i \in DOMAIN turns
      BY <1>1, <2>1, <3>1 DEF Requests
    <3>2. CASE i \notin DOMAIN turns
      <4>1. PICK t : Adds(t)
        BY <3>2 DEF Works
      <4>2. turns'[i] = t
        BY <3>2, <4>1, AddedAre DEF CInv
      <4> QED
        BY <2>1, <4>1, <4>2 DEF Adds
    <3> QED
      BY <3>1, <3>2
  <2>2. approval'.pc # "idle" => Request(approval'.held, approval'.key) \in Requests
    BY DEF Works, Requests
  <2>3. contact'.held # {} => Request(contact'.held, contact'.key) \in Requests
    BY DEF Works, Requests
  <2> QED
    BY <2>1, <2>2, <2>3 DEF Requests
<1> QED
  BY <1>1, <1>2, <1>3 DEF Works, Forward, Decided

LEMMA WorksStep == ASSUME CInv, TypeOK', Works, Carried', Releasing' PROVE CInv'
<1>1. Forward /\ Requests' \subseteq Requests /\ contact' = contact
  BY WorksForward DEF Works
<1>2. OneRequest' /\ Seen'
  BY <1>1, RequestsKept
<1>3. AllDone'
  BY <1>1, AllDoneKept DEF Works
<1>4. Fresh'
  BY DEF CInv, Works, Fresh, Now
<1>5. Undecided' /\ Holding'
  BY DEF CInv, Works, Undecided, Decided, Holding
<1>6. KeyOnce' /\ OwnTurn' /\ PauseHolds'
  <2>1. CASE turns' = turns
    BY <1>1, <2>1, TurnsKept
  <2>2. ASSUME NEW t, Adds(t) PROVE KeyOnce' /\ OwnTurn' /\ PauseHolds'
    <3> DEFINE n == Len(turns) + 1
    <3>1. /\ DOMAIN turns' = DOMAIN turns \cup {n} /\ n \notin DOMAIN turns /\ turns'[n] = t
          /\ \A i \in DOMAIN turns : turns'[i] = turns[i]
      BY <2>2, AddedAre DEF CInv
    <3> HIDE DEF n
    <3>2. KeyOnce'
      <4>1. t.way # "relay" => \A i \in DOMAIN turns : turns[i].way # "relay" => turns[i].key # t.key
        BY <2>2 DEF Adds, Submitted
      <4> QED
        BY <3>1, <4>1 DEF CInv, KeyOnce
    <3>3. OwnTurn'
      <4>1. SUFFICES ASSUME NEW i \in DOMAIN turns', turns'[i].way # "approval", NEW e, e = turns'[i].key
                     PROVE  turns'[i].parts = {e} /\ InTurn(e)' /\ Alone(e)'
        BY DEF OwnTurn
      <4>2. turns'[i].parts = {e} /\ InTurn(e) /\ Alone(e)
        BY <2>2, <3>1, <4>1 DEF CInv, OwnTurn, Adds
      <4>3. Alone(e)'
        BY <1>1, <4>2 DEF Alone
      <4> QED
        BY <1>1, <4>2, <4>3, InTurnKept
    <3>4. PauseHolds'
      <4>1. arrived' = arrived /\ PauseHolds
        BY DEF CInv, Works
      <4>2. \A e \in t.parts : /\ arrived[e].aiPaused = t.at.aiPaused
                               /\ t.way # "approval" => arrived[e].paused = t.at.paused
        BY <2>2 DEF Adds
      <4>3. SUFFICES ASSUME NEW i \in DOMAIN turns', NEW e \in turns'[i].parts
                     PROVE  /\ arrived[e].aiPaused = turns'[i].at.aiPaused
                            /\ turns'[i].way # "approval" => arrived[e].paused = turns'[i].at.paused
        BY <4>1 DEF PauseHolds
      <4>4. CASE i = n
        BY <3>1, <4>2, <4>3, <4>4
      <4>5. CASE i \in DOMAIN turns
        BY <3>1, <4>1, <4>3, <4>5 DEF PauseHolds
      <4> QED
        BY <3>1, <4>3, <4>4, <4>5
    <3> QED
      BY <3>2, <3>3, <3>4
  <2> QED
    BY <2>1, <2>2 DEF Works
<1> QED
  BY <1>2, <1>3, <1>4, <1>5, <1>6 DEF CInv

LEMMA ReleasingKept == ASSUME CInv, Works, approval' = approval PROVE Releasing'
<1>1. Forward
  BY WorksForward
<1>2. Submitted("approval", approval.key) => Submitted("approval", approval.key)'
  BY <1>1, SubmittedKept
<1> QED
  BY <1>2 DEF CInv, Works, Releasing

\* With nothing crossed off.
LEMMA WorksAre ==
    ASSUME UNCHANGED <<scope, enabled, paused, arrived, contact, processed, approval>>,
           excused \subseteq excused', delivered \subseteq delivered', unanswered \subseteq unanswered',
           turns' = turns \/ (Decided /\ \E t : Adds(t))
    PROVE  Works
<1>1. \A e \in processed' \ processed : Done(e)'
  OBVIOUS
<1> QED
  BY <1>1 DEF Works

\* A process that works leaves the owner's approval alone.
LEMMA WorkerStep ==
    ASSUME CInv, TypeOK', Works, approval' = approval, NEW w \in Workers, NEW d, MovesTo(w, d), Carries(d)'
    PROVE  CInv'
BY WorksForward, CarriedMoves, ReleasingKept, WorksStep

Submission(way, key, parts) == [way |-> way, key |-> key, parts |-> parts, at |-> Now]

\* A key takes effect now, or did before.
LEMMA AdmitAre ==
    ASSUME TypeOK, NEW way \in {"turn", "relay", "approval"}, NEW key \in Keys, NEW parts \in SUBSET Events,
           Admit(way, key, parts)
    PROVE  /\ \/ turns' = turns
              \/ /\ turns' = Append(turns, Submission(way, key, parts))
                 /\ Submission(way, key, parts) \in Submissions /\ ~Submitted(way, key)
           /\ turns' \in Seq(Submissions) /\ Submitted(way, key)'
<1> DEFINE t == Submission(way, key, parts)
<1>1. turns \in Seq(Submissions) /\ paused \in Nat /\ contact.aiPaused \in Nat
  BY FieldsAre DEF TypeOK
<1>2. t \in Submissions /\ t.way = way /\ t.key = key
  BY <1>1 DEF Submission, Submissions, Moments, Now
<1>3. CASE Submitted(way, key)
  <2>1. turns' = turns
    BY <1>3 DEF Admit
  <2> QED
    BY <1>1, <1>3, <2>1 DEF Submitted
<1>4. CASE ~Submitted(way, key)
  <2>1. turns' = Append(turns, t)
    BY <1>4 DEF Admit, Submission
  <2> HIDE DEF t
  <2>2. turns' \in Seq(Submissions) /\ Len(turns) + 1 \in DOMAIN turns' /\ turns'[Len(turns) + 1] = t
    BY <1>1, <1>2, <2>1
  <2>3. Submitted(way, key)'
    BY <1>2, <2>2 DEF Submitted
  <2> QED
    BY <1>2, <1>4, <2>1, <2>2, <2>3 DEF t
<1> QED
  BY <1>3, <1>4

LEMMA LetInAfter ==
    ASSUME CInv, Forward, NEW w \in Workers, Carries(drain[w]), drain[w].pc \in LetIn,
           NEW pc \in {"relayed", "delivering"}, NEW d, d = Step(drain[w], pc),
           pc = "relayed" => Relayed(d.event)', pc = "delivering" => Submitted("turn", d.event)'
    PROVE  Carries(d)'
<1>1. drain[w] \in Drains
  BY DEF CInv, TypeOK
<1>2. PICK s : s = Step(drain[w], "submitting")
  OBVIOUS
<1>3. /\ d.pc = pc /\ d.event = s.event /\ d.paused = s.paused /\ d.aiPaused = s.aiPaused
      /\ s.pc = "submitting"
  BY <1>1, <1>2, StepAre
<1>4. Carries(s)
  BY <1>2, LetInMoves DEF CInv
<1>5. Carries(s)'
  BY <1>4, CarriesKept
<1> QED
  BY <1>3, <1>5 DEF Carries

\* What a process carries is submitted on the side of the pauses it was written on.
LEMMA OwnAdds ==
    ASSUME CInv, NEW w \in Workers, Carries(drain[w]), drain[w].pc \in LetIn, Allowed(drain[w]),
           NEW way \in {"turn", "relay"}, NEW e, e = drain[w].event,
           turns' = Append(turns, Submission(way, e, {e})), Submission(way, e, {e}) \in Submissions,
           ~Submitted(way, e)
    PROVE  Adds(Submission(way, e, {e}))
<1> DEFINE t == Submission(way, e, {e})
<1>1. InTurn(e) /\ Alone(e) /\ arrived[e] = [paused |-> drain[w].paused, aiPaused |-> drain[w].aiPaused]
  BY DEF Carries, LetIn
<1>2. paused = drain[w].paused /\ contact.aiPaused = drain[w].aiPaused
  BY DEF Allowed, Same
<1>3. t.way = way /\ t.key = e /\ t.parts = {e} /\ t.at.paused = paused /\ t.at.aiPaused = contact.aiPaused
  BY DEF Submission, Now
<1>4. t.way # "approval"
  BY <1>3
<1>5. arrived[e].aiPaused = t.at.aiPaused /\ arrived[e].paused = t.at.paused
  BY <1>1, <1>2, <1>3
<1>6. turns' = Append(turns, t) /\ t \in Submissions /\ ~Submitted(t.way, t.key)
  BY <1>3
<1> HIDE DEF t
<1>7. Adds(t)
  BY <1>1, <1>3, <1>4, <1>5, <1>6 DEF Adds
<1> QED
  BY <1>7 DEF t

LEMMA RelayStep == ASSUME CInv, NEW w \in Workers, Relay(w) PROVE CInv'
<1>0. TypeOK /\ Carries(drain[w]) /\ drain[w].pc \in LetIn /\ Allowed(drain[w]) /\ drain[w] \in Drains
  BY DEF CInv, Carried, Relay, At, LetIn, TypeOK
<1>1. PICK e : e = drain[w].event
  OBVIOUS
<1>2. Decided /\ e \in Events
  BY <1>0, <1>1, LimitsAre DEF Carries, LetIn, InTurn
<1>3. Admit("relay", e, {e}) /\ Goto(w, "relayed")
      /\ UNCHANGED <<scope, enabled, paused, arrived, processed, leased, contact, errand, unanswered,
                     delivered, approval, excused, crashes>>
  BY <1>1 DEF Relay, Event
<1>4. /\ \/ turns' = turns
         \/ /\ turns' = Append(turns, Submission("relay", e, {e}))
            /\ Submission("relay", e, {e}) \in Submissions /\ ~Submitted("relay", e)
      /\ turns' \in Seq(Submissions) /\ Submitted("relay", e)'
  BY <1>0, <1>2, <1>3, AdmitAre DEF Keys
<1>5. PICK d : d = Step(drain[w], "relayed")
  OBVIOUS
<1>6. MovesTo(w, d) /\ d.event = e
  BY <1>0, <1>1, <1>3, <1>5, StepAre, GotoMoves
<1>7. Works
  <2>1. turns' = turns \/ \E t : Adds(t)
    BY <1>0, <1>1, <1>4, OwnAdds
  <2> QED
    BY <1>2, <1>3, <2>1, WorksAre
<1>8. Carries(d)'
  <2>1. Relayed(e)'
    BY <1>4 DEF Submitted, Relayed
  <2> QED
    BY <1>0, <1>5, <1>6, <1>7, <2>1, WorksForward, LetInAfter
<1>9. TypeOK'
  <2>1. drain' \in [Workers -> Drains]
    BY <1>0, <1>6, MoveType
  <2> QED
    BY <1>0, <1>3, <1>4, <2>1 DEF TypeOK
<1> QED
  BY <1>3, <1>6, <1>7, <1>8, <1>9, WorkerStep

LEMMA SubmitStep == ASSUME CInv, NEW w \in Workers, Submit(w) PROVE CInv'
<1>0. TypeOK /\ Carries(drain[w]) /\ drain[w].pc \in LetIn /\ drain[w] \in Drains
  BY DEF CInv, Carried, Submit, At, LetIn, TypeOK
<1>1. PICK e : e = drain[w].event
  OBVIOUS
<1>2. Decided /\ e \in Events /\ e \in DOMAIN arrived
  BY <1>0, <1>1, LimitsAre DEF Carries, LetIn, InTurn
<1>3. UNCHANGED <<scope, enabled, paused, arrived, processed, leased, contact, errand, unanswered,
                  delivered, approval, crashes>>
  BY DEF Submit
<1>4. CASE Allowed(drain[w])
  <2>1. Admit("turn", e, {e}) /\ Goto(w, "delivering") /\ excused' = excused
    BY <1>1, <1>4 DEF Submit, Event, AfterSubmit
  <2>2. /\ \/ turns' = turns
           \/ /\ turns' = Append(turns, Submission("turn", e, {e}))
              /\ Submission("turn", e, {e}) \in Submissions /\ ~Submitted("turn", e)
        /\ turns' \in Seq(Submissions) /\ Submitted("turn", e)'
    BY <1>0, <1>2, <2>1, AdmitAre DEF Keys
  <2>3. PICK d : d = Step(drain[w], "delivering")
    OBVIOUS
  <2>4. MovesTo(w, d) /\ d.event = e
    BY <1>0, <1>1, <2>1, <2>3, StepAre, GotoMoves
  <2>5. Works
    <3>1. turns' = turns \/ \E t : Adds(t)
      BY <1>0, <1>1, <1>4, <2>2, OwnAdds
    <3> QED
      BY <1>2, <1>3, <2>1, <3>1, WorksAre
  <2>6. Carries(d)'
    BY <1>0, <2>2, <2>3, <2>4, <2>5, WorksForward, LetInAfter
  <2>7. drain' \in [Workers -> Drains]
    BY <1>0, <2>4, MoveType
  <2>8. TypeOK'
    BY <1>0, <1>3, <2>1, <2>2, <2>7 DEF TypeOK
  <2> QED
    BY <1>3, <2>4, <2>5, <2>6, <2>8, WorkerStep
<1>5. CASE ~Allowed(drain[w])
  <2>1. turns' = turns /\ Goto(w, "marking") /\ excused' = excused \cup {e}
    BY <1>1, <1>5 DEF Submit, Event
  <2>2. PICK d : d = Step(drain[w], "marking")
    OBVIOUS
  <2>3. MovesTo(w, d) /\ d.event = e /\ d.pc = "marking"
    BY <1>0, <1>1, <2>1, <2>2, StepAre, GotoMoves
  <2>4. Works
    BY <1>3, <2>1, WorksAre
  <2>5. Done(e)'
    BY <2>1 DEF Done
  <2>6. Carries(d)'
    BY <1>2, <1>3, <2>3, <2>5 DEF Carries
  <2>7. drain' \in [Workers -> Drains]
    BY <1>0, <2>3, MoveType
  <2>8. TypeOK'
    BY <1>0, <1>2, <1>3, <2>1, <2>7 DEF TypeOK
  <2> QED
    BY <1>3, <2>3, <2>4, <2>6, <2>8, WorkerStep
<1> QED
  BY <1>4, <1>5

\* A message no model takes is kept, or was put aside meanwhile.
LEMMA WithoutModelStep == ASSUME CInv, NEW w \in Workers, WithoutModel(w) PROVE CInv'
<1>0. TypeOK /\ Carries(drain[w]) /\ drain[w].pc \in LetIn /\ drain[w] \in Drains
  BY DEF CInv, Carried, WithoutModel, At, LetIn, TypeOK
<1>1. PICK e : e = drain[w].event
  OBVIOUS
<1>2. e \in DOMAIN arrived
  BY <1>0, <1>1 DEF Carries, LetIn
<1>3. /\ UNCHANGED <<scope, enabled, paused, arrived, processed, leased, contact, errand, turns,
                     delivered, approval, crashes>>
      /\ Goto(w, "marking")
      /\ \/ unanswered' = unanswered \cup {e} /\ excused' = excused
         \/ unanswered' = unanswered /\ excused' = excused \cup {e}
  BY <1>1 DEF WithoutModel, Event
<1>4. PICK d : d = Step(drain[w], "marking")
  OBVIOUS
<1>5. MovesTo(w, d) /\ d.event = e /\ d.pc = "marking"
  BY <1>0, <1>1, <1>3, <1>4, StepAre, GotoMoves
<1>6. Works
  BY <1>3, WorksAre
<1>7. Carries(d)'
  <2>1. Done(e)' /\ e \in DOMAIN arrived'
    BY <1>2, <1>3 DEF Done
  <2> QED
    BY <1>5, <2>1 DEF Carries
<1>8. TypeOK'
  <2>1. drain' \in [Workers -> Drains]
    BY <1>0, <1>5, MoveType
  <2> QED
    BY <1>0, <1>2, <1>3, <2>1 DEF TypeOK
<1> QED
  BY <1>3, <1>5, <1>6, <1>7, <1>8, WorkerStep

LEMMA MarkStep == ASSUME CInv, NEW w \in Workers, Mark(w) PROVE CInv'
<1>0. TypeOK /\ Carries(drain[w]) /\ drain[w].pc = "marking"
  BY DEF CInv, Carried, Mark, At
<1>1. PICK e : e = drain[w].event
  OBVIOUS
<1>2. e \in DOMAIN arrived /\ Done(e)
  BY <1>0, <1>1 DEF Carries
<1>3. processed' = processed \cup {e} /\ Idle(w)
      /\ UNCHANGED <<scope, enabled, paused, arrived, leased, contact, errand, turns, unanswered,
                     delivered, approval, excused, crashes>>
  BY <1>1 DEF Mark, Event
<1>4. Done(e)'
  BY <1>2, <1>3 DEF Done, Relayed, Submitted
<1>5. Works
  BY <1>3, <1>4 DEF Works
<1>6. MovesTo(w, NoDrain) /\ Carries(NoDrain)
  BY <1>0, <1>3, IdleMoves
<1>7. PICK d : d = NoDrain
  OBVIOUS
<1>8. Carries(d)'
  BY <1>5, <1>6, <1>7, WorksForward, CarriesKept
<1>9. drain' \in [Workers -> Drains]
  BY <1>0, <1>6, MoveType
<1>10. TypeOK'
  BY <1>0, <1>2, <1>3, <1>9 DEF TypeOK
<1> QED
  BY <1>3, <1>5, <1>6, <1>7, <1>8, <1>10, WorkerStep

LEMMA DeliverStep == ASSUME CInv, NEW w \in Workers, Deliver(w) PROVE CInv'
<1>0. TypeOK /\ Carries(drain[w]) /\ drain[w].pc = "delivering" /\ drain[w] \in Drains
  BY DEF CInv, Carried, Deliver, At, TypeOK
<1>1. PICK e : e = drain[w].event
  OBVIOUS
<1>2. InTurn(e) /\ Submitted("turn", e) /\ e \in DOMAIN arrived /\ e \in Keys
  BY <1>0, <1>1, LimitsAre DEF Carries, InTurn, Keys
<1>3. delivered' = delivered \cup {e} /\ Goto(w, "marking")
      /\ UNCHANGED <<scope, enabled, paused, arrived, processed, leased, contact, errand, turns,
                     unanswered, approval, excused, crashes>>
  BY <1>1 DEF Deliver, DeliverOnce, Event
<1>4. Done(e)'
  BY <1>2, <1>3 DEF Done, Submitted
<1>5. Works
  BY <1>3, WorksAre
<1>6. PICK d : d = Step(drain[w], "marking")
  OBVIOUS
<1>7. MovesTo(w, d) /\ d.event = e /\ d.pc = "marking"
  BY <1>0, <1>1, <1>3, <1>6, StepAre, GotoMoves
<1>8. Carries(d)'
  BY <1>2, <1>3, <1>4, <1>7 DEF Carries
<1>9. drain' \in [Workers -> Drains]
  BY <1>0, <1>7, MoveType
<1>10. TypeOK'
  BY <1>0, <1>2, <1>3, <1>9 DEF TypeOK
<1> QED
  BY <1>3, <1>5, <1>7, <1>8, <1>10, WorkerStep

LEMMA SubmitHeldStep == ASSUME CInv, SubmitHeld PROVE CInv'
<1>0. TypeOK
  BY DEF CInv
<1>1. approval.pc = "submitting"
      /\ UNCHANGED <<scope, enabled, paused, arrived, processed, leased, contact, errand, unanswered,
                     delivered, drain, excused, crashes>>
  BY DEF SubmitHeld
<1>2. PICK k, h : k = approval.key /\ h = approval.held
  OBVIOUS
<1>3. k \in Keys /\ h \in SUBSET Events
  BY <1>0, <1>2, FieldsAre
<1>4. Decided /\ Request(h, k) \in Requests
  BY <1>1, <1>2 DEF CInv, Undecided, Requests
<1>5. PICK pc \in {"delivering", "releasing"} :
        /\ ApprovalGoto(pc)
        /\ \/ pc = "delivering" /\ Allowed(approval) /\ Admit("approval", k, h)
           \/ pc = "releasing" /\ ~Allowed(approval) /\ turns' = turns
  BY <1>2 DEF SubmitHeld
<1>6. /\ approval' \in Approvals /\ approval'.pc = pc /\ approval'.held = h /\ approval'.key = k
      /\ approval'.paused = approval.paused /\ approval'.aiPaused = approval.aiPaused
  BY <1>0, <1>2, <1>5, ApprovalPlace
<1>7. /\ turns' \in Seq(Submissions)
      /\ turns' = turns \/ \E t : Adds(t)
      /\ pc = "delivering" => Submitted("approval", k)'
  <2>1. CASE pc = "releasing"
    BY <1>0, <1>5, <2>1 DEF TypeOK
  <2>2. CASE pc = "delivering"
    <3> DEFINE t == Submission("approval", k, h)
    <3>1. /\ turns' = turns \/ (turns' = Append(turns, t) /\ t \in Submissions /\ ~Submitted("approval", k))
          /\ turns' \in Seq(Submissions) /\ Submitted("approval", k)'
      BY <1>0, <1>3, <1>5, <2>2, AdmitAre
    <3>2. /\ t.way = "approval" /\ t.key = k /\ t.parts = h /\ t.at.aiPaused = contact.aiPaused
      BY DEF Submission, Now
    <3>3. \A e \in h : arrived[e].aiPaused = approval.aiPaused
      BY <1>1, <1>2 DEF CInv, Releasing
    <3>4. contact.aiPaused = approval.aiPaused
      BY <1>5, <2>2 DEF Allowed
    <3> HIDE DEF t
    <3>5. turns' = Append(turns, t) /\ t \in Submissions /\ ~Submitted("approval", k) => Adds(t)
      BY <1>4, <3>2, <3>3, <3>4 DEF Adds
    <3> QED
      BY <3>1, <3>5
  <2> QED
    BY <2>1, <2>2
<1>8. Works
  <2>1. \A e \in processed' \ processed : Done(e)'
    BY <1>1
  <2> QED
    BY <1>1, <1>4, <1>6, <1>7, <2>1 DEF Works
<1>9. Forward
  BY <1>8, WorksForward
<1>10. Carried'
  BY <1>1, <1>9, CarriedStays
<1>11. TypeOK'
  BY <1>0, <1>1, <1>6, <1>7 DEF TypeOK
<1>12. Releasing'
  <2>1. h # {} /\ \A e \in h : arrived[e].aiPaused = approval.aiPaused
    BY <1>1, <1>2 DEF CInv, Releasing
  <2>2. contact.held # {} => Allowed(approval)
    <3>1. SUFFICES ASSUME contact.held # {} PROVE Allowed(approval)
      OBVIOUS
    <3>2. approval.held = contact.held
      BY <1>1, <3>1, HeldIsReleased
    <3>3. enabled /\ contact.ai /\ contact.status # "blocked" /\ approval.paused = paused
      BY <1>1, <3>1 DEF CInv, Holding, Releasing
    <3>4. contact.aiPaused = approval.aiPaused
      BY <1>2, <2>1, <3>1, <3>2 DEF CInv, Holding
    <3>5. contact.status = "approved"
      BY <1>0, <1>4, <3>3, FieldsAre DEF Decided
    <3> QED
      BY <3>3, <3>4, <3>5 DEF Allowed, Same
  <2>3. pc = "releasing" => contact'.held = {}
    BY <1>1, <1>5, <2>2
  <2>4. pc = "delivering" => Submitted("approval", approval.key)'
    BY <1>6, <1>7 DEF Submitted
  <2> QED
    BY <1>1, <1>6, <2>1, <2>3, <2>4 DEF Releasing
<1> QED
  BY <1>8, <1>10, <1>11, <1>12, WorksStep

---------------------------------------------------------------------------
(* Receiving, and letting in. *)

LEMMA ReceiveStep == ASSUME CInv, Receive PROVE CInv'
<1>0. TypeOK
  BY DEF CInv
<1> DEFINE n == Len(arrived) + 1
<1>1. PICK crossed \in {{}, {n}} :
        /\ crossed = {} => enabled /\ contact.ai
        /\ processed' = processed \cup crossed /\ excused' = excused \cup crossed
  BY DEF Receive
<1>2. /\ Len(arrived) < scope.events /\ arrived' = Append(arrived, Now)
      /\ UNCHANGED <<scope, enabled, paused, leased, contact, errand, turns, unanswered, delivered,
                     drain, approval, crashes>>
  BY DEF Receive
<1>3. arrived \in Seq(Moments) /\ Now \in Moments
  BY <1>0, FieldsAre DEF TypeOK, Moments, Now
<1>4. /\ arrived' \in Seq(Moments) /\ Len(arrived') = n /\ DOMAIN arrived' = DOMAIN arrived \cup {n}
      /\ n \notin DOMAIN arrived /\ arrived'[n] = Now
      /\ \A e \in DOMAIN arrived : arrived'[e] = arrived[e]
  BY <1>2, <1>3
<1>5. TypeOK'
  <2>1. Len(arrived') <= scope.events
    BY <1>0, <1>2, <1>4, LimitsAre
  <2> QED
    BY <1>0, <1>1, <1>2, <1>4, <2>1 DEF TypeOK
<1> HIDE DEF n
<1>6. Requests' = Requests
  BY <1>2 DEF Requests
<1>7. \A e : Done(e) => Done(e)'
  BY <1>1, <1>2 DEF Done, Relayed, Submitted
<1>8. Forward
  BY <1>1, <1>2, <1>4, <1>6, <1>7 DEF Forward, Decided
<1>9. Carried'
  BY <1>2, <1>8, CarriedStays
<1>10. OneRequest' /\ Seen'
  BY <1>2, <1>5, <1>6, <1>8, RequestsKept
<1>11. KeyOnce' /\ OwnTurn' /\ PauseHolds'
  BY <1>2, <1>6, <1>8, TurnsKept
<1>12. AllDone'
  <2>1. \A e \in processed' \ processed : Done(e)'
    BY <1>1 DEF Done
  <2> QED
    BY <1>8, <2>1, AllDoneKept
<1>13. Fresh'
  <2>1. ASSUME NEW e \in DOMAIN arrived' \ processed' PROVE enabled /\ contact.ai /\ arrived'[e] = Now
    <3>1. CASE e = n
      BY <1>1, <1>4, <2>1, <3>1
    <3>2. CASE e # n
      BY <1>1, <1>4, <2>1, <3>2 DEF CInv, Fresh
    <3> QED
      BY <3>1, <3>2
  <2> QED
    BY <1>2, <2>1 DEF Fresh, Now
<1>14. Undecided'
  BY <1>2 DEF CInv, Undecided, Decided
<1>15. Holding'
  BY <1>2, <1>4, HeldArrived DEF CInv, Holding
<1>16. Releasing'
  <2>1. approval.pc # "idle" => approval.held \subseteq DOMAIN arrived
    <3>1. SUFFICES ASSUME approval.pc # "idle" PROVE approval.held \subseteq DOMAIN arrived
      OBVIOUS
    <3>2. Asked(Request(approval.held, approval.key))
      BY <3>1 DEF CInv, OneRequest, Requests
    <3> QED
      BY <3>2 DEF Asked, Request, InTurn
  <2> QED
    BY <1>2, <1>4, <2>1 DEF CInv, Releasing, Submitted
<1> QED
  BY <1>5, <1>9, <1>10, <1>11, <1>12, <1>13, <1>14, <1>15, <1>16 DEF CInv

\* The process that let a message in, or not, goes on.
Going(d, pc) == [d EXCEPT !.pc = pc, !.aiPaused = contact.aiPaused]

LEMMA GoWithMoves ==
    ASSUME TypeOK, NEW w \in Workers, NEW pc \in {"answering", "marking"}, GoWith(w, pc), NEW d,
           d = Going(drain[w], pc)
    PROVE  /\ MovesTo(w, d) /\ d.pc = pc /\ d.event = drain[w].event /\ d.paused = drain[w].paused
           /\ d.aiPaused = contact.aiPaused /\ drain' \in [Workers -> Drains]
<1>1. drain[w] \in Drains /\ contact.aiPaused \in Nat /\ drain \in [Workers -> Drains]
  BY FieldsAre DEF TypeOK
<1>2. d \in Drains /\ d.pc = pc /\ d.event = drain[w].event /\ d.paused = drain[w].paused
      /\ d.aiPaused = contact.aiPaused
  BY <1>1 DEF Going, Drains
<1>3. drain' = [drain EXCEPT ![w] = d]
  BY <1>1 DEF GoWith, Going
<1> QED
  BY <1>1, <1>2, <1>3 DEF MovesTo

\* What the transaction of accept saw of a message it looks at.
Looked(w, e) ==
    /\ TypeOK /\ Carries(drain[w]) /\ drain[w].pc = "accepting" /\ drain[w] \in Drains
    /\ e = drain[w].event /\ e \in Events /\ InTurn(e) /\ e \notin processed
    /\ paused = drain[w].paused /\ enabled /\ contact.ai /\ arrived[e] = Now
    /\ UNCHANGED <<scope, enabled, paused, arrived, processed, leased, errand, turns, unanswered,
                   delivered, approval, crashes>>

\* A message nobody took yet is not in a request with another.
LEMMA NewIsAlone ==
    ASSUME CInv, NEW w, NEW e, Looked(w, e), e \notin contact.seen
    PROVE  Alone(e)
<1> SUFFICES ASSUME NEW r \in Requests, e \in r.held PROVE r = Request({e}, e)
  BY DEF Alone
<1>1. Asked(r)
  BY DEF CInv, OneRequest
<1>2. e = r.key
  BY <1>1 DEF Asked
<1>3. \A f \in r.held : f = e
  <2> SUFFICES ASSUME NEW f \in r.held, f # e PROVE FALSE
    OBVIOUS
  <2>1. InTurn(f) /\ e < f
    BY <1>1, <1>2 DEF Asked
  <2>2. e \in 1..f - 1
    BY <2>1, LimitsAre DEF Looked, InTurn
  <2> QED
    BY <2>1, <2>2 DEF Looked, InTurn
<1>4. r = [held |-> r.held, key |-> r.key]
  BY DEF Requests, Request
<1> QED
  BY <1>2, <1>3, <1>4 DEF Request

LEMMA KeptStep ==
    ASSUME CInv, NEW w \in Workers, NEW e, Looked(w, e), Kept, NEW pc \in {"answering", "marking"}, GoWith(w, pc),
           \/ pc = "marking" /\ Done(e)
           \/ pc = "answering" /\ Decided /\ e \notin contact.seen
    PROVE  CInv'
<1>1. PICK d : d = Going(drain[w], pc)
  OBVIOUS
<1>2. /\ MovesTo(w, d) /\ d.pc = pc /\ d.event = e /\ d.paused = paused /\ d.aiPaused = contact.aiPaused
      /\ drain' \in [Workers -> Drains]
  BY <1>1, GoWithMoves DEF Looked
<1>3. Quiet
  BY DEF Looked, Kept, Quiet
<1>4. Carries(d)
  <2>1. CASE pc = "marking"
    BY <1>2, <2>1 DEF Looked, InTurn, Carries
  <2>2. CASE pc = "answering"
    <3>1. InTurn(e) /\ Alone(e) /\ arrived[e] = [paused |-> paused, aiPaused |-> contact.aiPaused]
      BY <2>2, NewIsAlone DEF Looked, Now
    <3> QED
      BY <1>2, <2>2, <3>1 DEF Carries, InTurn
  <2> QED
    BY <2>1, <2>2
<1>5. TypeOK'
  BY <1>2, <1>3, QuietType DEF Looked, TypeOK
<1> QED
  BY <1>2, <1>3, <1>4, <1>5, QuietMoveStep DEF QuietMove

LEMMA DroppedStep ==
    ASSUME CInv, NEW w \in Workers, NEW e, Looked(w, e), Dropped(e), GoWith(w, "marking")
    PROVE  CInv'
<1>1. PICK d : d = Going(drain[w], "marking")
  OBVIOUS
<1>2. /\ MovesTo(w, d) /\ d.pc = "marking" /\ d.event = e /\ drain' \in [Workers -> Drains]
  BY <1>1, GoWithMoves DEF Looked
<1>3. contact' = contact /\ excused' = excused \cup {e} /\ e \in DOMAIN arrived
  BY DEF Dropped, Looked, InTurn
<1>4. Works
  BY <1>3, WorksAre DEF Looked
<1>5. Carries(d)'
  <2>1. Done(e)' /\ e \in DOMAIN arrived'
    BY <1>3 DEF Done, Looked
  <2> QED
    BY <1>2, <2>1 DEF Carries
<1>6. TypeOK'
  BY <1>2, <1>3 DEF Looked, TypeOK
<1> QED
  BY <1>2, <1>4, <1>5, <1>6, WorkerStep DEF Looked

\* While the owner did not decide there is only what is held.
LEMMA EarlyStep ==
    ASSUME CInv, TypeOK', ~Decided, NEW w \in Workers, NEW e, Looked(w, e), excused' = excused,
           NEW d, MovesTo(w, d), Carries(d)',
           contact'.ai = contact.ai, contact'.aiPaused = contact.aiPaused,
           contact.held \subseteq contact'.held, contact.seen \subseteq contact'.seen,
           OneRequest', Seen', Holding', contact'.status \in {"pending", "approved"}
    PROVE  CInv'
<1>1. turns = <<>> /\ approval.pc = "idle" /\ turns' = turns /\ approval' = approval
  BY DEF CInv, Undecided, Looked
<1>2. \A f : Done(f) => Done(f)'
  BY DEF Looked, Done, Relayed, Submitted
<1>3. Forward
  BY <1>1, <1>2 DEF Looked, Forward
<1>4. Carried'
  BY <1>3, CarriedMoves
<1>5. Fresh'
  BY DEF CInv, Looked, Fresh, Now
<1>6. Undecided' /\ Releasing'
  BY <1>1 DEF Undecided, Releasing
<1>7. KeyOnce' /\ OwnTurn' /\ PauseHolds'
  BY <1>1 DEF KeyOnce, OwnTurn, PauseHolds
<1>8. AllDone'
  <2>1. \A f \in processed' \ processed : Done(f)'
    BY DEF Looked
  <2> QED
    BY <1>3, <2>1, AllDoneKept
<1> QED
  BY <1>4, <1>5, <1>6, <1>7, <1>8 DEF CInv

LEMMA OpenStep ==
    ASSUME CInv, NEW w \in Workers, NEW e, Looked(w, e), contact.status = "none",
           Held([contact EXCEPT !.status = "approved"]), GoWith(w, "answering")
    PROVE  CInv'
<1>1. PICK d : d = Going(drain[w], "answering")
  OBVIOUS
<1>2. /\ MovesTo(w, d) /\ d.pc = "answering" /\ d.event = e /\ d.paused = paused
      /\ d.aiPaused = contact.aiPaused /\ drain' \in [Workers -> Drains]
  BY <1>1, GoWithMoves DEF Looked
<1>3. contact = NoContact /\ turns = <<>> /\ approval.pc = "idle" /\ ~Decided
  BY DEF CInv, Undecided, Decided
<1>4. /\ contact' \in Contacts /\ contact'.status = "approved" /\ contact'.held = {} /\ contact'.key = NoKey
      /\ contact'.seen = {} /\ contact'.ai = contact.ai /\ contact'.aiPaused = contact.aiPaused
      /\ contact.held = {} /\ contact.seen = {} /\ excused' = excused
  BY <1>3, EmptyAre DEF Held, NoContact, Contacts
<1>5. Requests' = {}
  BY <1>3, <1>4 DEF Looked, Requests
<1>6. OneRequest' /\ Seen' /\ Holding'
  BY <1>4, <1>5 DEF OneRequest, Seen, Holding
<1>7. TypeOK'
  BY <1>2, <1>4, ClearedType DEF Looked, TypeOK
<1>8. Carries(d)'
  <2>1. InTurn(e)' /\ e \in DOMAIN arrived' /\ arrived'[e] = [paused |-> paused, aiPaused |-> contact.aiPaused]
    BY DEF Looked, InTurn, Now
  <2>2. Decided' /\ e \notin contact'.seen /\ Alone(e)'
    BY <1>4, <1>5 DEF Decided, Alone
  <2> QED
    BY <1>2, <2>1, <2>2 DEF Carries
<1> QED
  BY <1>2, <1>3, <1>4, <1>6, <1>7, <1>8, EarlyStep

\* The first message of a request, or one more.
LEMMA HeldStep ==
    ASSUME CInv, NEW w \in Workers, NEW e, Looked(w, e), ~Decided, GoWith(w, "marking"), excused' = excused,
           contact' \in Contacts, contact'.status = "pending", contact'.held = contact.held \cup {e},
           contact'.ai = contact.ai, contact'.aiPaused = contact.aiPaused,
           \/ contact.held = {} /\ contact'.key = e /\ contact'.seen = {} /\ contact.seen = {}
           \/ /\ contact'.key = contact.key /\ contact'.seen = contact.seen \cup {e} /\ contact.key # e,
           Cardinality(contact'.held) <= scope.held
    PROVE  CInv'
<1>1. PICK d : d = Going(drain[w], "marking")
  OBVIOUS
<1>2. MovesTo(w, d) /\ d.pc = "marking" /\ d.event = e /\ drain' \in [Workers -> Drains]
  BY <1>1, GoWithMoves DEF Looked
<1>3. turns = <<>> /\ approval.pc = "idle" /\ turns' = turns /\ approval' = approval /\ arrived' = arrived
      /\ processed' = processed
  BY DEF CInv, Undecided, Looked
<1>4. Requests' = {Request(contact'.held, contact'.key)}
  BY <1>3 DEF Requests
<1>5. InTurn(e) /\ e \in Events /\ e # 0
  BY LimitsAre DEF Looked
<1>6. contact.held # {} => Asked(Request(contact.held, contact.key))
  BY DEF CInv, OneRequest, Requests
<1>7. \A f \in contact'.held : InTurn(f) /\ (f = contact'.key \/ (f \in contact'.seen /\ contact'.key < f))
  <2> SUFFICES ASSUME NEW f \in contact'.held
               PROVE  InTurn(f) /\ (f = contact'.key \/ (f \in contact'.seen /\ contact'.key < f))
    OBVIOUS
  <2>1. CASE contact.held = {} /\ contact'.key = e
    BY <1>5, <2>1
  <2>2. CASE contact'.key = contact.key /\ contact'.seen = contact.seen \cup {e} /\ contact.key # e
    <3>1. CASE f \in contact.held
      BY <1>6, <2>2, <3>1 DEF Asked, Request
    <3>2. CASE f = e
      <4>1. CASE contact.key = NoKey
        BY <1>5, <2>2, <3>2, <4>1, LimitsAre DEF NoKey, Looked
      <4>2. CASE contact.key # NoKey
        <5>1. contact.held # {} /\ contact.key \in contact.held
          BY <1>6, <4>2 DEF CInv, Holding, Asked, Request
        <5>2. InTurn(contact.key)
          BY <1>6, <5>1 DEF Asked, Request
        <5>3. contact.key \in Nat /\ e \in Nat /\ contact.key \in Events
          BY <1>5, <5>2, LimitsAre DEF Looked, InTurn
        <5>4. contact.key < e
          <6>1. ~(e < contact.key)
            <7> SUFFICES ASSUME e < contact.key PROVE FALSE
              OBVIOUS
            <7>1. e \in 1..contact.key - 1
              BY <1>5, <5>3 DEF Events
            <7> QED
              BY <5>2, <7>1 DEF InTurn, Looked
          <6> QED
            BY <2>2, <5>3, <6>1
        <5> QED
          BY <1>5, <2>2, <3>2, <5>4
      <4> QED
        BY <4>1, <4>2
    <3> QED
      BY <3>1, <3>2
  <2> QED
    BY <2>1, <2>2
<1>8. contact'.key \in contact'.held \cup {NoKey}
  BY <1>6 DEF CInv, Holding, Asked, Request
<1>9. OneRequest'
  <2>1. \A f \in contact'.held : InTurn(f)'
    BY <1>3, <1>7 DEF InTurn
  <2>2. PICK r : r = Request(contact'.held, contact'.key)
    OBVIOUS
  <2>3. r.held = contact'.held /\ r.key = contact'.key
    BY <2>2 DEF Request
  <2>4. Asked(r)'
    BY <1>7, <1>8, <2>1, <2>3 DEF Asked
  <2> QED
    BY <1>4, <2>2, <2>4 DEF OneRequest
<1>10. Seen'
  <2> SUFFICES ASSUME NEW f \in contact'.seen PROVE InTurn(f)' /\ Done(f)'
    BY DEF Seen
  <2>1. CASE f = e
    BY <1>3, <1>5, <2>1 DEF InTurn, Done
  <2>2. CASE f \in contact.seen
    <3>1. InTurn(f) /\ Done(f)
      BY <2>2 DEF CInv, Seen
    <3> QED
      BY <1>3, <3>1 DEF InTurn, Done, Relayed, Submitted, Looked
  <2> QED
    BY <2>1, <2>2
<1>11. Holding'
  BY DEF CInv, Holding, Looked, Now
<1>12. TypeOK'
  BY <1>2 DEF Looked, TypeOK
<1>13. Carries(d)'
  <2>1. Done(e)' /\ e \in DOMAIN arrived'
    BY <1>3, <1>5 DEF Done, InTurn
  <2> QED
    BY <1>2, <2>1 DEF Carries
<1> QED
  BY <1>2, <1>9, <1>10, <1>11, <1>12, <1>13, EarlyStep

LEMMA HeldSize ==
    ASSUME TypeOK, NEW e \in Events
    PROVE  /\ Fits => Cardinality(contact.held \cup {e}) <= scope.held
           /\ contact.held = {} => Cardinality(contact.held \cup {e}) <= scope.held
<1>1. IsFiniteSet(Events)
  BY LimitsAre, FS_Interval DEF Events
<1>2. IsFiniteSet(contact.held)
  BY <1>1, FieldsAre, FS_Subset
<1>3. Cardinality(contact.held) \in Nat
  BY <1>2, FS_CardinalityType
<1>4. Cardinality(contact.held \cup {e})
        = IF e \in contact.held THEN Cardinality(contact.held) ELSE Cardinality(contact.held) + 1
  BY <1>2, FS_AddElement
<1>5. Cardinality({}) = 0
  BY FS_EmptySet
<1>6. scope.held \in Nat \ {0}
  BY LimitsAre
<1> DEFINE n == Cardinality(contact.held)
           m == Cardinality(contact.held \cup {e})
<1>7. n \in Nat /\ (m = n \/ m = n + 1) /\ (contact.held = {} => n = 0) /\ (Fits <=> n < scope.held)
  BY <1>3, <1>4, <1>5 DEF Fits
<1> HIDE DEF n, m
<1>8. /\ Fits => m <= scope.held
      /\ contact.held = {} => m <= scope.held
  BY <1>6, <1>7
<1> QED
  BY <1>8 DEF m

LEMMA TakenStep == ASSUME CInv, NEW w \in Workers, Accept(w) PROVE CInv'
<1>0. TypeOK /\ Carries(drain[w]) /\ drain[w].pc = "accepting" /\ drain[w] \in Drains
      /\ UNCHANGED <<scope, enabled, paused, arrived, processed, leased, errand, turns, unanswered,
                     delivered, approval, crashes>>
  BY DEF CInv, Carried, Accept, At, TypeOK
<1>1. PICK e : e = drain[w].event
  OBVIOUS
<1>2. InTurn(e) /\ e \in DOMAIN arrived /\ e \in Events
  BY <1>0, <1>1, LimitsAre DEF Carries, InTurn
<1>3. e \notin processed => paused = drain[w].paused /\ enabled /\ contact.ai /\ arrived[e] = Now
  BY <1>0, <1>1, <1>2 DEF Carries, CInv, Fresh
<1>4. CASE ~(Same(drain[w].paused) /\ contact.ai /\ e \notin processed)
  <2>1. Goto(w, "marking") /\ Kept
    BY <1>1, <1>4 DEF Accept, Event
  <2>2. Done(e)
    BY <1>3, <1>4 DEF Same, CInv, AllDone
  <2>3. PICK d : d = Step(drain[w], "marking")
    OBVIOUS
  <2>4. d.pc = "marking" /\ d.event = e
    BY <1>0, <1>1, <2>3, StepAre
  <2>5. Carries(d)
    BY <1>2, <2>2, <2>4 DEF Carries
  <2>6. Carries(Step(drain[w], "marking"))
    BY <2>3, <2>5
  <2>7. Quiet /\ errand' \in Errands /\ leased' \subseteq DOMAIN arrived /\ crashes' = crashes
    BY <1>0, <2>1 DEF Quiet, Kept, TypeOK
  <2>8. QuietMove(w)
    BY <2>1, <2>6, <2>7, GotoQuiet DEF Places
  <2> QED
    BY <2>8, QuietMoveStep
<1>5. CASE Same(drain[w].paused) /\ contact.ai /\ e \notin processed
  <2>1. Intake(w, e)
    BY <1>1, <1>5 DEF Accept, Event
  <2>2. Looked(w, e)
    BY <1>0, <1>1, <1>2, <1>3, <1>5 DEF Looked
  <2>3. CASE contact.status = "none" /\ scope.open
    <3>1. GoWith(w, "answering") /\ Held([contact EXCEPT !.status = "approved"])
      BY <2>1, <2>3 DEF Intake
    <3> QED
      BY <2>2, <2>3, <3>1, OpenStep
  <2>4. CASE contact.status = "none" /\ ~scope.open
    <3>1. GoWith(w, "marking") /\ excused' = excused
          /\ contact' = [contact EXCEPT !.status = "pending", !.held = {e}, !.key = e]
      BY <2>1, <2>4 DEF Intake, Held
    <3>2. contact = NoContact /\ ~Decided
      BY <2>4 DEF CInv, Undecided, Decided
    <3>3. /\ contact'.status = "pending" /\ contact'.held = contact.held \cup {e} /\ contact'.key = e
          /\ contact'.seen = {} /\ contact'.ai = contact.ai /\ contact'.aiPaused = contact.aiPaused
          /\ contact.held = {} /\ contact.seen = {}
      BY <3>1, <3>2 DEF NoContact
    <3>4. contact' \in Contacts
      <4>1. contact' = [status |-> "pending", held |-> {e}, key |-> e, seen |-> {}, ai |-> TRUE, aiPaused |-> 0]
        BY <3>1, <3>2 DEF NoContact
      <4> QED
        BY <1>2, <4>1 DEF Contacts, Keys
    <3>5. Cardinality(contact'.held) <= scope.held
      BY <1>0, <1>2, <3>3, HeldSize
    <3> QED
      BY <2>2, <3>1, <3>2, <3>3, <3>4, <3>5, HeldStep
  <2>5. CASE contact.status = "blocked"
    <3>1. Dropped(e) /\ GoWith(w, "marking")
      BY <2>1, <2>5 DEF Intake
    <3> QED
      BY <2>2, <3>1, DroppedStep
  <2>6. CASE contact.status = "pending" /\ (contact.key = e \/ Fragment(e))
    <3>1. Kept /\ GoWith(w, "marking")
      BY <2>1, <2>6 DEF Intake
    <3>2. Done(e)
      <4>1. CASE Fragment(e)
        BY <4>1 DEF Fragment, CInv, Seen
      <4>2. CASE contact.key = e
        <5>1. e # NoKey /\ contact.held # {}
          BY <1>0, <1>2, <4>2, LimitsAre DEF CInv, Holding, NoKey
        <5>2. Asked(Request(contact.held, contact.key))
          BY <5>1 DEF CInv, OneRequest, Requests
        <5>3. e \in contact.held
          BY <4>2, <5>1, <5>2 DEF Asked, Request
        <5> QED
          BY <5>3 DEF Done
      <4> QED
        BY <2>6, <4>1, <4>2
    <3> QED
      BY <2>2, <3>1, <3>2, KeptStep
  <2>7. CASE contact.status = "pending" /\ contact.key # e /\ ~Fragment(e) /\ Fits
    <3>1. GoWith(w, "marking") /\ excused' = excused
          /\ contact' = [contact EXCEPT !.held = contact.held \cup {e}, !.seen = contact.seen \cup {e}]
      BY <2>1, <2>7 DEF Intake, Held
    <3> DEFINE h == contact.held \cup {e}
               s == contact.seen \cup {e}
    <3>2. contact \in Contacts /\ h \in SUBSET Events /\ s \in SUBSET Events
      BY <1>0, <1>2, FieldsAre DEF TypeOK
    <3>3. contact' = [contact EXCEPT !.held = h, !.seen = s]
      BY <3>1
    <3>4. Cardinality(h) <= scope.held
      BY <1>0, <1>2, <2>7, HeldSize
    <3> HIDE DEF h, s
    <3>5. /\ contact' \in Contacts /\ contact'.held = h /\ contact'.seen = s /\ contact'.status = "pending"
          /\ contact'.key = contact.key /\ contact'.ai = contact.ai /\ contact'.aiPaused = contact.aiPaused
      BY <2>7, <3>2, <3>3 DEF Contacts
    <3> QED
      BY <2>2, <2>7, <3>1, <3>4, <3>5, HeldStep DEF h, s, Decided
  <2>8. CASE contact.status = "pending" /\ contact.key # e /\ ~Fragment(e) /\ ~Fits
    <3>1. Dropped(e) /\ GoWith(w, "marking")
      BY <2>1, <2>8 DEF Intake
    <3> QED
      BY <2>2, <3>1, DroppedStep
  <2>9. CASE contact.status = "approved"
    <3>1. Kept /\ GoWith(w, IF Fragment(e) THEN "marking" ELSE "answering")
      BY <2>1, <2>9 DEF Intake
    <3>2. Fragment(e) => Done(e)
      BY DEF Fragment, CInv, Seen
    <3> QED
      BY <2>2, <2>9, <3>1, <3>2, KeptStep DEF Fragment, Decided
  <2> QED
    BY <1>0, <2>3, <2>4, <2>5, <2>6, <2>7, <2>8, <2>9, FieldsAre
<1> QED
  BY <1>4, <1>5

---------------------------------------------------------------------------

LEMMA Start == Init => CInv
<1> SUFFICES ASSUME Init PROVE CInv
  OBVIOUS
<1>1. TypeOK
  BY InitType
<1>2. /\ arrived = <<>> /\ DOMAIN arrived = {} /\ turns = <<>> /\ DOMAIN turns = {} /\ processed = {}
      /\ contact = NoContact /\ approval.pc = "idle"
      /\ \A w \in Workers : drain[w] = NoDrain
  BY DEF Init, NoApproval
<1>3. /\ contact.status = "none" /\ contact.held = {} /\ contact.seen = {} /\ contact.key = NoKey
  BY <1>2 DEF NoContact
<1>4. Carried
  BY <1>2 DEF Carried, Carries, NoDrain
<1>5. Requests = {}
  BY <1>2, <1>3 DEF Requests
<1>6. Fresh /\ AllDone /\ KeyOnce /\ OwnTurn /\ PauseHolds
  BY <1>2 DEF Fresh, AllDone, KeyOnce, OwnTurn, PauseHolds
<1>7. OneRequest /\ Seen /\ Undecided /\ Holding /\ Releasing
  BY <1>2, <1>3, <1>5 DEF OneRequest, Seen, Undecided, Holding, Releasing
<1> QED
  BY <1>1, <1>4, <1>6, <1>7 DEF CInv

LEMMA NextStep == ASSUME CInv, [Next]_vars PROVE CInv'
<1>1. CASE Receive
  BY <1>1, ReceiveStep
<1>2. CASE Switch \/ Mute
  BY <1>2, PauseStep
<1>3. CASE Block
  BY <1>3, BlockStep
<1>4. CASE Ask \/ Elapse \/ \E e \in DOMAIN arrived : Lapse(e)
  <2>1. Quiet /\ TypeOK' /\ drain' = drain
    BY <1>4, AsideQuiet
  <2> QED
    BY <2>1, QuietForward, CarriedStays, QuietStep
<1>5. CASE ApprovalStep
  BY <1>5, ApproveStep, LoadForApprovalStep, SubmitHeldStep, DeliverHeldStep, ReleaseStep, ApprovalFailsStep
     DEF ApprovalStep
<1>6. ASSUME NEW w \in Workers, DrainStep(w) \/ Crash(w) PROVE CInv'
  <2>1. CASE Accept(w)
    BY <2>1, TakenStep
  <2>2. CASE Relay(w) \/ Submit(w) \/ WithoutModel(w)
    BY <2>2, RelayStep, SubmitStep, WithoutModelStep
  <2>3. CASE Deliver(w) \/ Mark(w)
    BY <2>3, DeliverStep, MarkStep
  <2>4. CASE \/ Pick(w) \/ Load(w) \/ Claim(w) \/ Answer(w) \/ Record(w) \/ RelayFails(w)
             \/ NoModel(w) \/ SubmitFails(w) \/ Crash(w)
    <3>1. QuietMove(w)
      BY <2>4, PickQuiet, LoadQuiet, ClaimQuiet, AnswerQuiet, RecordQuiet, RelayFailsQuiet,
         NoModelQuiet, AwayQuiet
    <3> QED
      BY <3>1, QuietMoveStep
  <2> QED
    BY <1>6, <2>1, <2>2, <2>3, <2>4 DEF DrainStep, AcceptStep
<1>7. CASE UNCHANGED vars
  <2>1. Quiet /\ TypeOK' /\ drain' = drain
    BY <1>7 DEF vars, Quiet, CInv, TypeOK
  <2> QED
    BY <2>1, QuietForward, CarriedStays, QuietStep
<1> QED
  BY <1>1, <1>2, <1>3, <1>4, <1>5, <1>6, <1>7 DEF Next

\* The invariant holds of every behaviour of receive, drain, accept and approveContact.
THEOREM Invariance == Spec => []CInv
<1>1. CInv /\ [Next]_vars => CInv'
  BY NextStep
<1> QED
  BY Start, <1>1, PTL DEF Spec

---------------------------------------------------------------------------
(* What the invariant says. *)

LEMMA FinalReaches == ASSUME CInv PROVE ReachesOnce
<1> SUFFICES ASSUME NEW e \in Events PROVE Cardinality(TurnsOf(e)) <= 1
  BY DEF ReachesOnce
<1>1. \A i \in TurnsOf(e) : turns[i].key = e \/ (turns[i].way = "approval" /\ e \in turns[i].parts)
  BY DEF TurnsOf, CInv, OwnTurn
<1>2. ASSUME NEW i \in TurnsOf(e), NEW j \in TurnsOf(e) PROVE i = j
  <2>1. i \in DOMAIN turns /\ turns[i].way # "relay" /\ j \in DOMAIN turns /\ turns[j].way # "relay"
        /\ e \in turns[i].parts /\ e \in turns[j].parts
    BY <1>2 DEF TurnsOf
  <2>2. ASSUME NEW a \in TurnsOf(e), NEW b \in TurnsOf(e), turns[a].way = "turn" PROVE turns[b].key = turns[a].key
    <3>1. turns[a].parts = {turns[a].key} /\ Alone(turns[a].key) /\ turns[a].key = e
      BY <2>2 DEF TurnsOf, CInv, OwnTurn
    <3>2. CASE turns[b].way = "approval"
      <4>1. Request(turns[b].parts, turns[b].key) \in Requests /\ e \in turns[b].parts
        BY <2>2, <3>2 DEF Requests, TurnsOf
      <4>2. Request(turns[b].parts, turns[b].key) = Request({e}, e)
        BY <3>1, <4>1 DEF Alone, Request
      <4> QED
        BY <3>1, <4>2 DEF Request
    <3>3. CASE turns[b].way # "approval"
      BY <2>2, <3>1, <3>3 DEF TurnsOf, CInv, OwnTurn
    <3> QED
      BY <3>2, <3>3
  <2>3. turns[i].way \in {"turn", "approval"} /\ turns[j].way \in {"turn", "approval"}
    <3>1. turns[i] \in Submissions /\ turns[j] \in Submissions
      BY <2>1 DEF CInv, TypeOK
    <3> QED
      BY <2>1, <3>1 DEF Submissions
  <2>4. CASE turns[i].way = "approval" /\ turns[j].way = "approval"
    <3>1. Request(turns[i].parts, turns[i].key) \in Requests /\ Request(turns[j].parts, turns[j].key) \in Requests
      BY <2>1, <2>4 DEF Requests
    <3>2. Request(turns[i].parts, turns[i].key) = Request(turns[j].parts, turns[j].key)
      BY <3>1 DEF CInv, OneRequest
    <3> QED
      BY <2>1, <3>2 DEF Request, CInv, KeyOnce
  <2>5. CASE turns[i].way = "turn" \/ turns[j].way = "turn"
    <3>1. turns[i].key = turns[j].key
      BY <1>2, <2>2, <2>5
    <3> QED
      BY <2>1, <3>1 DEF CInv, KeyOnce
  <2> QED
    BY <2>3, <2>4, <2>5
<1>3. CASE TurnsOf(e) = {}
  BY <1>3, FS_EmptySet
<1>4. CASE TurnsOf(e) # {}
  <2>1. PICK i \in TurnsOf(e) : TRUE
    BY <1>4
  <2>2. TurnsOf(e) = {i}
    BY <1>2, <2>1
  <2>3. Cardinality({i}) = 1
    BY FS_Singleton
  <2> QED
    BY <2>2, <2>3
<1> QED
  BY <1>3, <1>4

\* A message in a request that was released has no turn of its own.
LEMMA ReleasedHasNoTurn ==
    ASSUME CInv, NEW i \in DOMAIN turns, turns[i].way = "turn",
           NEW j \in DOMAIN turns, turns[j].way = "approval", turns[i].key \in turns[j].parts
    PROVE  FALSE
<1>1. Alone(turns[i].key) /\ Request(turns[j].parts, turns[j].key) \in Requests
  BY DEF CInv, OwnTurn, Requests
<1>2. turns[j].key = turns[i].key
  BY <1>1 DEF Alone, Request
<1> QED
  BY <1>2 DEF CInv, KeyOnce

LEMMA FinalNoneLost == ASSUME CInv PROVE NoneLost
<1> SUFFICES ASSUME NEW e \in processed
             PROVE  TurnsOf(e) # {} \/ Relayed(e) \/ e \in contact.held \cup unanswered \cup excused
  BY DEF NoneLost
<1>1. Done(e) /\ e # 0
  BY LimitsAre DEF CInv, AllDone, TypeOK
<1>2. CASE \E i \in DOMAIN turns : turns[i].way = "approval" /\ e \in turns[i].parts
  BY <1>2 DEF TurnsOf
<1>3. CASE Submitted("turn", e)
  <2>1. PICK i \in DOMAIN turns : turns[i].key = e /\ turns[i].way # "relay"
    BY <1>3 DEF Submitted
  <2>2. e \in turns[i].parts
    <3>1. CASE turns[i].way = "approval"
      <4>1. Asked(Request(turns[i].parts, turns[i].key))
        BY <3>1 DEF CInv, OneRequest, Requests
      <4> QED
        BY <1>1, <2>1, <4>1 DEF Asked, Request, NoKey
    <3>2. CASE turns[i].way # "approval"
      BY <2>1, <3>2 DEF CInv, OwnTurn
    <3> QED
      BY <3>1, <3>2
  <2> QED
    BY <2>1, <2>2 DEF TurnsOf
<1> QED
  BY <1>1, <1>2, <1>3 DEF Done

LEMMA FinalTurnsHaveRows == ASSUME CInv PROVE TurnsHaveRows
<1> SUFFICES ASSUME NEW i \in DOMAIN turns, NEW e, e = turns[i].key, turns[i].way = "turn", e \in processed
             PROVE  e \in delivered \cup excused \cup unanswered \cup contact.held \/ Relayed(e)
  BY DEF TurnsHaveRows
<1>1. Done(e)
  BY DEF CInv, AllDone
<1>2. ~\E j \in DOMAIN turns : turns[j].way = "approval" /\ e \in turns[j].parts
  BY ReleasedHasNoTurn
<1> QED
  BY <1>1, <1>2 DEF Done

\* What a person writes reaches the agent once, on the side of every pause it was written on; what
\* drain crosses off is not lost, and its turn has a row in the outbox.
THEOREM IntakeSafe == Spec => []IntakeSafety
<1>1. CInv => IntakeSafety
  BY FinalReaches, FinalNoneLost, FinalTurnsHaveRows DEF CInv, IntakeSafety
<1> QED
  BY <1>1, Invariance, PTL

\* Only the transaction of a process makes a message's own turn.
LEMMA OwnTurnIsSubmitted ==
    ASSUME CInv, [Next]_vars, NEW i \in DOMAIN turns' \ DOMAIN turns, turns'[i].way = "turn"
    PROVE  \E w \in Workers : Submit(w) /\ Allowed(drain[w])
<1>1. turns' # turns
  OBVIOUS
<1>2. ASSUME NEW way, NEW key, NEW parts, Admit(way, key, parts) PROVE way = "turn"
  <2>1. turns' = Append(turns, Submission(way, key, parts))
    BY <1>1, <1>2 DEF Admit, Submission
  <2>2. turns \in Seq(Submissions)
    BY DEF CInv, TypeOK
  <2> DEFINE t == Submission(way, key, parts)
  <2>3. t.way = way
    BY DEF Submission
  <2> HIDE DEF t
  <2>4. turns'[i] = t
    <3>1. turns' = Append(turns, t)
      BY <2>1 DEF t
    <3> QED
      BY <2>2, <3>1
  <2> QED
    BY <2>3, <2>4
<1>3. ~(Receive \/ Switch \/ Mute \/ Block \/ Ask \/ Elapse)
  BY <1>1 DEF Receive, Switch, Mute, Block, Ask, Elapse
<1>4. ~(UNCHANGED vars \/ \E f \in DOMAIN arrived : Lapse(f))
  BY <1>1 DEF Lapse, vars
<1>5. ~(Approve \/ LoadForApproval \/ DeliverHeld \/ Release \/ ApprovalFails)
  BY <1>1 DEF Approve, LoadForApproval, DeliverHeld, Release, ApprovalFails
<1>6. ~SubmitHeld
  BY <1>1, <1>2 DEF SubmitHeld
<1>7. ASSUME NEW w \in Workers, DrainStep(w) \/ Crash(w) PROVE Submit(w)
  <2>1. ~(Pick(w) \/ Load(w) \/ Claim(w) \/ Answer(w) \/ Record(w) \/ RelayFails(w))
    BY <1>1 DEF Pick, Load, Claim, Answer, Record, RelayFails
  <2>2. ~(NoModel(w) \/ WithoutModel(w) \/ SubmitFails(w) \/ Crash(w) \/ Accept(w) \/ Deliver(w) \/ Mark(w))
    BY <1>1 DEF NoModel, WithoutModel, SubmitFails, Crash, Accept, Deliver, Mark
  <2>3. ~Relay(w)
    BY <1>2 DEF Relay
  <2> QED
    BY <1>7, <2>1, <2>2, <2>3 DEF DrainStep, AcceptStep
<1>8. PICK w \in Workers : Submit(w)
  BY <1>3, <1>4, <1>5, <1>6, <1>7 DEF Next, ApprovalStep
<1> QED
  BY <1>1, <1>8 DEF Submit

LEMMA OrderStep ==
    ASSUME CInv, [Next]_vars, NEW i \in DOMAIN turns' \ DOMAIN turns, NEW e, e = turns'[i].key,
           turns'[i].way = "turn", e \notin contact.held \cup excused \cup unanswered, ~Relayed(e),
           NEW j \in DOMAIN turns, turns[j].way = "turn"
    PROVE  turns[j].key < e
<1>1. TypeOK /\ turns' # turns
  BY DEF CInv
<1>2. PICK w \in Workers : Submit(w) /\ Allowed(drain[w])
  BY OwnTurnIsSubmitted
<1>3. PICK f : f = drain[w].event
  OBVIOUS
<1>4. drain[w].pc = "submitting" /\ Admit("turn", f, {f})
  BY <1>2, <1>3 DEF Submit, At, Event
<1>5. InTurn(f) /\ Alone(f) /\ f \in Events
  BY <1>1, <1>3, <1>4, LimitsAre DEF CInv, Carried, Carries, InTurn
<1>6. turns' = Append(turns, Submission("turn", f, {f})) /\ ~Submitted("turn", f)
  BY <1>1, <1>4 DEF Admit, Submission
<1>7. e = f
  <2> DEFINE t == Submission("turn", f, {f})
  <2>1. t.key = f
    BY DEF Submission
  <2> HIDE DEF t
  <2>2. turns' = Append(turns, t) /\ turns \in Seq(Submissions)
    BY <1>1, <1>6 DEF t, TypeOK
  <2>3. turns'[i] = t
    BY <2>2
  <2> QED
    BY <2>1, <2>3
<1>8. PICK k : k = turns[j].key
  OBVIOUS
<1>9. InTurn(k) /\ k # e /\ k \in Events
  BY <1>1, <1>6, <1>7, <1>8, LimitsAre DEF CInv, OwnTurn, Submitted, InTurn
<1>10. e \notin processed
  <2> SUFFICES ASSUME e \in processed PROVE FALSE
    OBVIOUS
  <2>1. Done(e)
    BY DEF CInv, AllDone
  <2>2. PICK n \in DOMAIN turns : turns[n].way = "approval" /\ e \in turns[n].parts
    BY <1>6, <1>7, <2>1 DEF Done
  <2>3. Request(turns[n].parts, turns[n].key) \in Requests
    BY <2>2 DEF Requests
  <2>4. Request(turns[n].parts, turns[n].key) = Request({e}, e)
    BY <1>5, <1>7, <2>2, <2>3 DEF Alone, Request
  <2>5. turns[n].key = e
    BY <2>4 DEF Request
  <2> QED
    BY <1>6, <1>7, <2>2, <2>5 DEF Submitted
<1>11. e \notin 1..k - 1
  BY <1>9, <1>10 DEF InTurn
<1> QED
  BY <1>1, <1>5, <1>7, <1>8, <1>9, <1>11, LimitsAre DEF Events

\* A message's own turn comes after those of the messages before it.
THEOREM OrderKept == Spec => TurnsInOrder
<1>1. CInv /\ [Next]_vars =>
        \A i \in DOMAIN turns' \ DOMAIN turns : LET e == turns'[i].key IN
          (turns'[i].way = "turn" /\ e \notin contact.held \cup excused \cup unanswered /\ ~Relayed(e))
          => \A j \in DOMAIN turns : turns[j].way = "turn" => turns[j].key < e
  BY OrderStep
<1> QED
  BY <1>1, Invariance, PTL DEF Spec, TurnsInOrder
=============================================================================
