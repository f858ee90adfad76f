---------------------------- MODULE ReportsProofs ----------------------------
(***************************************************************************)
(* Theorems about Reports for any processes, conversations and subagents:   *)
(* a report is handed on at most once and only when its subagent is over;   *)
(* no completed turn leaves an open objective behind; nudges in a row end.  *)
(***************************************************************************)
EXTENDS Reports, FiniteSetTheorems, TLAPS

\* A run that exists has its place: a turn its conversation, until that is deleted, a subagent its
\* parent turn.
Placed ==
    /\ \A t \in Turns : conv[t] = Nobody <=> status[t] \in {"absent", "deleted"}
    /\ \A c \in Children : status[c] # "absent" => by[c] \in Turns

\* A call claims a report that is there, and no report was handed on but is marked so.
Claimable == \A c \in Children : call[c] = "claiming" => status[c] = "ended"
Marked == \A c \in Children : reported[c] \/ given[c] = <<>>

\* Objectives and the tools that write them are there only where this behaviour explores them.
Aimed ==
    /\ ~scope.objective => /\ \A s \in Conversations : objective[s] = NoObjective
                           /\ \A t \in Turns : tool[t] = NoTool
    /\ \A t \in Turns : tool[t] \in {NoTool, Done} \/ tool[t].status \in {"blocked", "closed"}

\* An objective counts at least the nudges since anybody last spoke of it.
Counted == \A s \in Conversations : nudged[s] <= objective[s].count

RInv == TypeOK /\ Placed /\ Claimable /\ Marked /\ Aimed /\ Counted /\ GoesOn

USE DEF table, handoff, aims

LEMMA Apart ==
    /\ Children \cap Turns = {} /\ Runs = Turns \cup Children
    /\ Nobody \notin Workers \cup Turns \cup Conversations
    /\ Deletable \subseteq Conversations /\ MaxNudges \in Nat /\ MaxGoals \in Nat
BY ReportsAssumption DEF ReportsAssumption, Runs

---------------------------------------------------------------------------
(* Objectives and the words that change them *)

LEMMA GivenIs == ASSUME NEW o \in Objectives, o.text < MaxGoals
                 PROVE  Given(o) \in Objectives /\ Given(o).count = 0
BY Apart DEF Given, Objectives, Goals

LEMMA StatusSet == ASSUME NEW o \in Objectives, NEW to \in {"none", "open", "blocked", "closed"}
                   PROVE  [o EXCEPT !.status = to] \in Objectives
BY DEF Objectives

LEMMA SaidIs == ASSUME NEW o \in Objectives, NEW word, word = "set" => o.text < MaxGoals
                PROVE  Said(o, word) \in Objectives
<1>1. 0 \in 0..MaxNudges
  BY Apart
<1>2. [o EXCEPT !.status = "closed"] \in Objectives
  BY StatusSet
<1>3. [o EXCEPT !.status = "open", !.count = 0] \in Objectives
  BY <1>1 DEF Objectives
<1> QED
  BY <1>2, <1>3, GivenIs DEF Said

LEMMA NoneIs == NoObjective \in Objectives /\ NoTool \in Tools /\ Done \in Tools
BY Apart DEF NoObjective, Objectives, NoTool, Done, Tools, Goals

LEMMA HearHears ==
    ASSUME TypeOK, NEW s \in Conversations, NEW word \in Words, Hear(s, word)
    PROVE  /\ objective' \in [Conversations -> Objectives] /\ nudged' \in [Conversations -> Nat]
           /\ objective' = [objective EXCEPT ![s] = Said(objective[s], word)]
           /\ nudged' = [nudged EXCEPT ![s] = 0]
<1>1. objective \in [Conversations -> Objectives] /\ nudged \in [Conversations -> Nat]
  BY DEF TypeOK
<1>2. Said(objective[s], word) \in Objectives
  BY <1>1, SaidIs DEF Hear
<1> QED
  BY <1>1, <1>2 DEF Hear

---------------------------------------------------------------------------
(* Types *)

LEMMA TurnStarts ==
    ASSUME TypeOK, NEW s \in Conversations, StartTurn(s)
    PROVE  /\ status' \in [Runs -> Statuses] /\ conv' \in [Turns -> Conversations \cup {Nobody}]
           /\ stalled' = stalled \ {s} /\ stalled' \subseteq Conversations
BY Apart DEF TypeOK, StartTurn, Statuses

LEMMA BreakTypes == ASSUME TypeOK, NEW t \in Turns, Break(t) PROVE stalled' \subseteq Conversations
BY DEF TypeOK, Break

LEMMA TypesHoldTurns ==
    ASSUME TypeOK, Placed, Aimed, NEW t \in Turns,
           \/ Step(t) \/ EndTurn(t) \/ FailTurn(t) \/ CancelTurn(t) \/ Unwind(t)
           \/ SetGoal(t) \/ ReadGoal(t) \/ WriteGoal(t) \/ Rest(t) \/ Nudge(t) \/ NudgeFails(t)
    PROVE  TypeOK'
<1> USE Apart DEF TypeOK
<1>1. CASE Step(t)
  BY <1>1 DEF Step
<1>2. CASE EndTurn(t)
  BY <1>2 DEF EndTurn, Freed, Statuses
<1>3. CASE FailTurn(t)
  BY <1>3, BreakTypes DEF FailTurn, Freed, Statuses
<1>4. CASE CancelTurn(t)
  BY <1>4, BreakTypes DEF CancelTurn, Statuses
<1>5. CASE Unwind(t)
  BY <1>5 DEF Unwind
<1>6. CASE SetGoal(t)
  <2>1. conv[t] \in Conversations
    BY <1>6 DEF SetGoal, Live, Placed
  <2>2. Given(objective[conv[t]]) \in Objectives
    BY <1>6, <2>1, GivenIs DEF SetGoal
  <2> QED
    BY <1>6, <2>1, <2>2 DEF SetGoal
<1>7. CASE ReadGoal(t)
  <2>1. conv[t] \in Conversations /\ objective[conv[t]] \in Objectives
    BY <1>7, ZenonT(30) DEF ReadGoal, Live, Placed
  <2>2. \A to \in {"blocked", "closed"} : [text |-> objective[conv[t]].text, status |-> to] \in Tools
    BY <2>1 DEF Objectives, Tools
  <2> QED
    BY <1>7, <2>2 DEF ReadGoal
<1>8. CASE WriteGoal(t)
  <2>1. tool' \in [Turns -> Tools]
    BY <1>8, NoneIs DEF WriteGoal
  <2>2. CASE conv[t] = Nobody
    BY <1>8, <2>1, <2>2 DEF WriteGoal
  <2>3. CASE conv[t] # Nobody
    <3> DEFINE s == conv[t]
               o == objective[s]
               written == [[o EXCEPT !.text = tool[t].text] EXCEPT !.status = tool[t].status]
    <3>1. s \in Conversations /\ o \in Objectives
      BY <2>3
    <3>2. tool[t].text \in Goals /\ tool[t].status \in {"blocked", "closed"}
      BY <1>8 DEF WriteGoal, Aimed, Tools
    <3>3. written \in Objectives
      BY <3>1, <3>2 DEF Objectives
    <3>4. objective' = [objective EXCEPT ![s] = written] /\ nudged' = [nudged EXCEPT ![s] = 0]
      BY <1>8, <2>3, <3>1 DEF WriteGoal, Objectives
    <3> HIDE DEF written
    <3>5. objective' \in [Conversations -> Objectives] /\ nudged' \in [Conversations -> Nat]
      BY <3>1, <3>3, <3>4
    <3> QED
      BY <1>8, <2>1, <3>5 DEF WriteGoal
  <2> QED
    BY <2>2, <2>3
<1>9. CASE Rest(t)
  <2> DEFINE o == objective[conv[t]]
  <2>1. conv[t] \in Conversations /\ o \in Objectives
    BY <1>9 DEF Rest
  <2>2. o.status \in {"none", "open", "blocked", "closed"}
    BY <2>1 DEF Objectives
  <2>3. [o EXCEPT !.status = IF o.status = "open" THEN "blocked" ELSE o.status] \in Objectives
    BY <2>1, <2>2, StatusSet
  <2>4. objective' = [objective EXCEPT ![conv[t]] =
                        [o EXCEPT !.status = IF o.status = "open" THEN "blocked" ELSE o.status]]
    BY <1>9, <2>1 DEF Rest
  <2>5. objective' \in [Conversations -> Objectives]
    BY <2>1, <2>3, <2>4
  <2> QED
    BY <1>9, <2>5 DEF Rest, Freed
<1>10. CASE Nudge(t)
  <2> DEFINE s == conv[t]
             o == objective[s]
  <2>1. s \in Conversations /\ o \in Objectives /\ o.count < MaxNudges
    BY <1>10 DEF Nudge
  <2>2. Count(o, s) \in Objectives
    <3>1. o.count + 1 \in 0..MaxNudges
      BY <2>1 DEF Objectives
    <3>2. [o EXCEPT !.count = o.count + 1] \in Objectives
      BY <2>1, <3>1 DEF Objectives
    <3> QED
      BY <3>2 DEF Count
  <2>3. objective' = [objective EXCEPT ![s] = Count(o, s)] /\ nudged' = [nudged EXCEPT ![s] = nudged[s] + 1]
    BY <1>10, <2>1 DEF Nudge
  <2>4. objective' \in [Conversations -> Objectives] /\ nudged' \in [Conversations -> Nat]
    BY <2>1, <2>2, <2>3
  <2>5. /\ status' \in [Runs -> Statuses] /\ conv' \in [Turns -> Conversations \cup {Nobody}]
        /\ stalled' \subseteq Conversations
    BY <1>10, <2>1, TurnStarts DEF Nudge
  <2>6. at' \in [Runs -> Workers \cup {Nobody}]
    BY <1>10 DEF Nudge, Freed
  <2> QED
    BY <1>10, <2>4, <2>5, <2>6 DEF Nudge
<1>11. CASE NudgeFails(t)
  BY <1>11, BreakTypes DEF NudgeFails, Freed
<1> QED
  BY <1>1, <1>2, <1>3, <1>4, <1>5, <1>6, <1>7, <1>8, <1>9, <1>10, <1>11

LEMMA TypesHoldConversations ==
    ASSUME TypeOK, NEW s \in Conversations, Message(s) \/ Join(s) \/ Edit(s) \/ Delete(s)
    PROVE  TypeOK'
<1> USE Apart DEF TypeOK
<1>1. CASE Message(s)
  <2>1. PICK word \in Words : StartTurn(s) /\ Hear(s, word)
    BY <1>1 DEF Message
  <2> QED
    BY <1>1, <2>1, TurnStarts, HearHears DEF Message
<1>2. CASE Join(s)
  <2>1. PICK word \in Words : Hear(s, word)
    BY <1>2 DEF Join
  <2> QED
    BY <1>2, <2>1, HearHears DEF Join
<1>3. CASE Edit(s)
  <2>1. objective' \in [Conversations -> Objectives]
    <3>1. objective[s] \in Objectives
      OBVIOUS
    <3>2. CASE objective[s].text < MaxGoals /\ objective' = [objective EXCEPT ![s] = Given(@)]
      BY <3>1, <3>2, GivenIs
    <3>3. ASSUME NEW to \in {"open", "blocked", "closed"}, objective' = [objective EXCEPT ![s].status = to]
          PROVE  objective' \in [Conversations -> Objectives]
      <4>1. [objective[s] EXCEPT !.status = to] \in Objectives
        BY <3>1, StatusSet
      <4> QED
        BY <3>3, <4>1
    <3> QED
      BY <1>3, <3>2, <3>3 DEF Edit
  <2>2. stalled' \subseteq Conversations /\ nudged' \in [Conversations -> Nat]
    BY <1>3 DEF Edit
  <2> QED
    BY <1>3, <2>1, <2>2 DEF Edit
<1>4. CASE Delete(s)
  BY <1>4, NoneIs DEF Delete, Statuses
<1> QED
  BY <1>1, <1>2, <1>3, <1>4

\* The conversation a report goes to.
LEMMA ParentIs ==
    ASSUME TypeOK, Placed, NEW c \in Children, status[c] = "ended", status[by[c]] \in {"running", "ended"}
    PROVE  by[c] \in Turns /\ conv[by[c]] \in Conversations
<1>1. by[c] \in Turns
  BY DEF Placed
<1>2. conv[by[c]] # Nobody
  BY <1>1 DEF Placed
<1> QED
  BY <1>1, <1>2 DEF TypeOK

LEMMA UnreadGrows ==
    ASSUME unread \in [Turns -> SUBSET Children], NEW c \in Children, NEW t
    PROVE  [unread EXCEPT ![t] = unread[t] \cup {c}] \in [Turns -> SUBSET Children]
<1>1. \A u \in Turns : unread[u] \cup {c} \subseteq Children
  OBVIOUS
<1> QED
  BY <1>1

LEMMA TypesHoldChildren ==
    ASSUME TypeOK, Placed, NEW c \in Children,
           \/ \E t \in Turns, awaited \in BOOLEAN : Spawn(t, c, awaited)
           \/ EndChild(c) \/ Look(c) \/ StopWaiting(c) \/ Claim(c) \/ Release(c) \/ Elapse(c)
           \/ \E w \in Workers : Handing(w, c) \/ Pass(w, c)
    PROVE  TypeOK'
<1> USE Apart DEF TypeOK
<1>1. ASSUME NEW t \in Turns, NEW awaited \in BOOLEAN, Spawn(t, c, awaited) PROVE TypeOK'
  BY <1>1 DEF Spawn, Statuses
<1>2. CASE EndChild(c)
  <2>1. ended' \in Seq(Children) /\ DOMAIN ended \subseteq DOMAIN ended'
    BY <1>2 DEF EndChild
  <2> QED
    BY <1>2, <2>1 DEF EndChild, Statuses
<1>3. CASE Look(c) \/ StopWaiting(c) \/ Release(c) \/ Elapse(c)
  BY <1>3, ZenonT(30) DEF Look, StopWaiting, Release, Elapse, Goto
<1>4. ASSUME NEW way \in Ways, Give(c, way)
      PROVE  reported' \in [Children -> BOOLEAN] /\ given' \in [Children -> Seq(Ways)]
  BY <1>4 DEF Give
<1>5. "call" \in Ways /\ "steer" \in Ways /\ "turn" \in Ways /\ "dropped" \in Ways
  BY DEF Ways
<1>6. CASE Claim(c)
  <2>1. /\ reported' \in [Children -> BOOLEAN] /\ given' \in [Children -> Seq(Ways)]
        /\ unread' \in [Turns -> SUBSET Children]
    <3>1. CASE reported[c]
      BY <1>6, <3>1 DEF Claim
    <3>2. CASE ~reported[c]
      <4>1. Give(c, "call") /\ unread' = [unread EXCEPT ![by[c]] = unread[by[c]] \cup {c}]
        BY <1>6, <3>2 DEF Claim
      <4>2. unread' \in [Turns -> SUBSET Children]
        BY <4>1, UnreadGrows
      <4> QED
        BY <1>4, <1>5, <4>1, <4>2
    <3> QED
      BY <3>1, <3>2
  <2>2. call' \in [Children -> {"none", "looking", "claiming", "leaving"}]
    BY <1>6, ZenonT(30) DEF Claim, Goto
  <2> QED
    BY <1>6, <2>1, <2>2 DEF Claim
<1>7. ASSUME NEW w \in Workers, Advance(w) PROVE batch' \in [Workers -> SUBSET (DOMAIN ended)]
  BY <1>7 DEF Advance
<1>8. ASSUME NEW w \in Workers, Drop(w, c) PROVE TypeOK'
  BY <1>4, <1>5, <1>7, <1>8 DEF Drop
<1>9. ASSUME NEW w \in Workers, Steer(w, c) PROVE TypeOK'
  BY <1>4, <1>5, <1>7, <1>9 DEF Steer, InFlight
<1>10. ASSUME NEW w \in Workers, Wake(w, c) PROVE TypeOK'
  <2>1. conv[by[c]] \in Conversations /\ StartTurn(conv[by[c]])
    BY <1>10, ParentIs DEF Wake, Handable, Finished
  <2> QED
    BY <1>4, <1>5, <1>7, <1>10, <2>1, TurnStarts DEF Wake
<1>11. ASSUME NEW w \in Workers, Pass(w, c) PROVE TypeOK'
  BY <1>7, <1>11 DEF Pass
<1> HIDE DEF TypeOK
<1> QED
  BY <1>1, <1>2, <1>3, <1>6, <1>8, <1>9, <1>10, <1>11 DEF Handing

LEMMA TypesHoldWorkers ==
    ASSUME TypeOK, NEW w \in Workers, Tick(w) \/ Crash(w) \/ \E r \in Runs : Begin(w, r)
    PROVE  TypeOK'
<1> USE Apart DEF TypeOK
<1>1. CASE Tick(w)
  <2>1. FirstUnreported \subseteq DOMAIN ended
    BY DEF FirstUnreported, Unreported
  <2>2. batch' \in [Workers -> SUBSET (DOMAIN ended)]
    BY <1>1, <2>1 DEF Tick
  <2> QED
    BY <1>1, <2>2 DEF Tick
<1>2. CASE Crash(w)
  BY <1>2, NoneIs DEF Crash
<1>3. ASSUME NEW r \in Runs, Begin(w, r) PROVE TypeOK'
  BY <1>3 DEF Begin, Statuses
<1> QED
  BY <1>1, <1>2, <1>3

LEMMA TypesHoldRecover == ASSUME TypeOK, NEW r \in Runs, Recover(r) PROVE TypeOK'
<1> USE Apart DEF TypeOK
<1>1. CASE r \in Children
  <2>1. ended' = Append(ended, r)
    BY <1>1 DEF Recover
  <2>2. ended' \in Seq(Children) /\ DOMAIN ended \subseteq DOMAIN ended'
    BY <1>1, <2>1
  <2> QED
    BY <1>1, <2>2 DEF Recover, Statuses
<1>2. CASE r \notin Children
  <2>1. r \in Turns /\ stalled' \subseteq Conversations
    BY <1>2, BreakTypes DEF Recover
  <2> QED
    BY <1>2, <2>1 DEF Recover, Statuses
<1> QED
  BY <1>1, <1>2

---------------------------------------------------------------------------
(* What a step may do to runs and to reports *)

\* A turn starts, a run that is not over goes on or ends, a conversation goes, a subagent is spawned.
RowsMove ==
    \/ UNCHANGED <<status, conv, by>>
    \/ \E s \in Conversations : StartTurn(s) /\ UNCHANGED by
    \/ \E r \in Runs, to \in {"running", "ended", "cancelled"} :
         /\ status[r] \in {"queued", "running"} /\ status' = [status EXCEPT ![r] = to]
         /\ to = "cancelled" => r \in Turns
         /\ UNCHANGED <<conv, by>>
    \/ \E s \in Deletable : Delete(s)
    \/ \E t \in Turns, c \in Children, awaited \in BOOLEAN : Spawn(t, c, awaited)

\* Only what is over is claimed, and only what is over and not reported is handed on.
ReportsMove ==
    /\ \A c \in Children : call'[c] = "claiming" => call[c] = "claiming" \/ status[c] = "ended"
    /\ \/ UNCHANGED <<reported, given>>
       \/ \E c \in Children, way \in Ways :
            /\ ~reported[c] /\ status[c] = "ended" /\ Give(c, way)
            /\ \A d \in Children : status'[d] = status[d]

LEMMA TurnsMove ==
    ASSUME RInv, NEW t \in Turns,
           \/ Step(t) \/ EndTurn(t) \/ FailTurn(t) \/ CancelTurn(t) \/ Unwind(t)
           \/ SetGoal(t) \/ ReadGoal(t) \/ WriteGoal(t) \/ Rest(t) \/ Nudge(t) \/ NudgeFails(t)
    PROVE  RowsMove /\ ReportsMove
<1>1. ReportsMove
  BY DEF ReportsMove, Step, EndTurn, FailTurn, CancelTurn, Unwind, SetGoal, ReadGoal, WriteGoal,
         Rest, Nudge, NudgeFails
<1>2. CASE Step(t) \/ Unwind(t) \/ SetGoal(t) \/ ReadGoal(t) \/ WriteGoal(t) \/ Rest(t) \/ NudgeFails(t)
  BY <1>1, <1>2 DEF RowsMove, Step, Unwind, SetGoal, ReadGoal, WriteGoal, Rest, NudgeFails
<1>3. CASE EndTurn(t) \/ FailTurn(t)
  BY <1>1, <1>3, Apart DEF RowsMove, EndTurn, FailTurn, Live
<1>4. CASE CancelTurn(t)
  BY <1>1, <1>4, Apart DEF RowsMove, CancelTurn
<1>5. CASE Nudge(t)
  <2>1. conv[t] \in Conversations
    BY <1>5 DEF Nudge, RInv, TypeOK
  <2> QED
    BY <1>1, <1>5, <2>1 DEF RowsMove, Nudge
<1> QED
  BY <1>1, <1>2, <1>3, <1>4, <1>5

LEMMA ConversationsMove ==
    ASSUME RInv, NEW s \in Conversations,
           Message(s) \/ Join(s) \/ Edit(s) \/ (s \in Deletable /\ Delete(s))
    PROVE  RowsMove /\ ReportsMove
BY DEF RowsMove, ReportsMove, Message, Join, Edit, Delete

LEMMA ChildrenMove ==
    ASSUME RInv, NEW c \in Children,
           \/ \E t \in Turns, awaited \in BOOLEAN : Spawn(t, c, awaited)
           \/ EndChild(c) \/ Look(c) \/ StopWaiting(c) \/ Claim(c) \/ Release(c) \/ Elapse(c)
           \/ \E w \in Workers : Handing(w, c) \/ Pass(w, c)
    PROVE  RowsMove /\ ReportsMove
<1>1. "call" \in Ways /\ "steer" \in Ways /\ "turn" \in Ways /\ "dropped" \in Ways
  BY DEF Ways
<1>0. call \in [Children -> {"none", "looking", "claiming", "leaving"}]
  BY DEF RInv, TypeOK
<1>2. ASSUME NEW t \in Turns, NEW awaited \in BOOLEAN, Spawn(t, c, awaited) PROVE RowsMove /\ ReportsMove
  <2>1. ReportsMove
    BY <1>0, <1>2 DEF ReportsMove, Spawn
  <2> QED
    BY <1>2, <2>1 DEF RowsMove
<1>3. CASE EndChild(c)
  <2>1. RowsMove
    BY <1>3, Apart DEF RowsMove, EndChild
  <2> QED
    BY <1>3, <2>1 DEF ReportsMove, EndChild
<1>4. CASE Look(c) \/ StopWaiting(c) \/ Release(c) \/ Elapse(c)
  <2>1. RowsMove
    BY <1>4 DEF RowsMove, Look, StopWaiting, Release, Elapse
  <2>2. UNCHANGED <<reported, given>>
    BY <1>4 DEF Look, StopWaiting, Release, Elapse
  <2>3. \A d \in Children : call'[d] = "claiming" => call[d] = "claiming" \/ status[d] = "ended"
    BY <1>0, <1>4 DEF Look, StopWaiting, Release, Elapse, Goto, Finished
  <2> QED
    BY <2>1, <2>2, <2>3 DEF ReportsMove
<1>5. CASE Claim(c)
  <2>1. status[c] = "ended" /\ UNCHANGED status
    BY <1>5 DEF Claim, RInv, Claimable
  <2>2. RowsMove
    BY <1>5 DEF RowsMove, Claim
  <2>3. \A d \in Children : call'[d] = "claiming" => call[d] = "claiming"
    BY <1>0, <1>5 DEF Claim, Goto
  <2>4. UNCHANGED <<reported, given>> \/ (~reported[c] /\ Give(c, "call"))
    BY <1>5 DEF Claim
  <2> QED
    BY <1>1, <2>1, <2>2, <2>3, <2>4 DEF ReportsMove
<1>6. ASSUME NEW w \in Workers, Drop(w, c) \/ Steer(w, c) PROVE RowsMove /\ ReportsMove
  BY <1>1, <1>6 DEF RowsMove, ReportsMove, Drop, Steer, Handable, Finished
<1>7. ASSUME NEW w \in Workers, Wake(w, c) PROVE RowsMove /\ ReportsMove
  <2>1. ~reported[c] /\ status[c] = "ended" /\ status[by[c]] \in {"running", "ended"}
    BY <1>7 DEF Wake, Handable, Finished
  <2>2. conv[by[c]] \in Conversations
    BY <2>1, ParentIs DEF RInv
  <2>3. PICK t \in Turns : status' = [status EXCEPT ![t] = "queued"]
    BY <1>7 DEF Wake, StartTurn
  <2>4. \A d \in Children : status'[d] = status[d]
    BY <2>3, Apart DEF RInv, TypeOK
  <2> QED
    BY <1>1, <1>7, <2>1, <2>2, <2>4 DEF RowsMove, ReportsMove, Wake
<1>8. ASSUME NEW w \in Workers, Pass(w, c) PROVE RowsMove /\ ReportsMove
  BY <1>8 DEF RowsMove, ReportsMove, Pass
<1> QED
  BY <1>2, <1>3, <1>4, <1>5, <1>6, <1>7, <1>8 DEF Handing

LEMMA WorkersMove ==
    ASSUME RInv, NEW w \in Workers, Tick(w) \/ Crash(w) \/ \E r \in Runs : Begin(w, r)
    PROVE  RowsMove /\ ReportsMove
<1>1. CASE Tick(w)
  BY <1>1 DEF RowsMove, ReportsMove, Tick
<1>2. CASE Crash(w)
  BY <1>2 DEF RowsMove, ReportsMove, Crash
<1>3. ASSUME NEW r \in Runs, Begin(w, r) PROVE RowsMove /\ ReportsMove
  BY <1>3 DEF RowsMove, ReportsMove, Begin
<1> QED
  BY <1>1, <1>2, <1>3

LEMMA RecoverMoves == ASSUME RInv, NEW r \in Runs, Recover(r) PROVE RowsMove /\ ReportsMove
BY DEF RowsMove, ReportsMove, Recover

LEMMA StepMoves == ASSUME RInv, [Next]_vars PROVE RowsMove /\ ReportsMove
<1>1. CASE UNCHANGED vars
  BY <1>1 DEF vars, RowsMove, ReportsMove
<1> QED
  BY <1>1, Apart, TurnsMove, ConversationsMove, ChildrenMove, WorkersMove, RecoverMoves DEF Next

LEMMA RowsHold ==
    ASSUME RInv, RowsMove
    PROVE  Placed' /\ \A c \in Children : status[c] = "ended" => status'[c] = "ended"
<1>0. /\ status \in [Runs -> Statuses] /\ conv \in [Turns -> Conversations \cup {Nobody}]
      /\ by \in [Children -> Turns \cup {Nobody}] /\ Placed
  BY DEF RInv, TypeOK
<1>1. CASE UNCHANGED <<status, conv, by>>
  BY <1>0, <1>1 DEF Placed
<1>2. ASSUME NEW s \in Conversations, StartTurn(s), UNCHANGED by
      PROVE  Placed' /\ \A c \in Children : status[c] = "ended" => status'[c] = "ended"
  <2>1. PICK t \in Turns : /\ status' = [status EXCEPT ![t] = "queued"]
                           /\ conv' = [conv EXCEPT ![t] = s]
    BY <1>2 DEF StartTurn
  <2> QED
    BY <1>0, <1>2, <2>1, Apart DEF Placed
<1>3. ASSUME NEW r \in Runs, NEW to \in {"running", "ended", "cancelled"},
             status[r] \in {"queued", "running"}, status' = [status EXCEPT ![r] = to],
             UNCHANGED <<conv, by>>
      PROVE  Placed' /\ \A c \in Children : status[c] = "ended" => status'[c] = "ended"
  BY <1>0, <1>3, Apart DEF Placed
<1>4. ASSUME NEW s \in Deletable, Delete(s)
      PROVE  Placed' /\ \A c \in Children : status[c] = "ended" => status'[c] = "ended"
  <2>1. /\ \A c \in Children : status'[c] = status[c] /\ UNCHANGED by
        /\ \A t \in Turns : IF conv[t] = s THEN status'[t] = "deleted" /\ conv'[t] = Nobody
                                           ELSE status'[t] = status[t] /\ conv'[t] = conv[t]
    BY <1>0, <1>4, Apart DEF Delete
  <2> QED
    BY <1>0, <2>1 DEF Placed
<1>5. ASSUME NEW t \in Turns, NEW c \in Children, NEW awaited \in BOOLEAN, Spawn(t, c, awaited)
      PROVE  Placed' /\ \A d \in Children : status[d] = "ended" => status'[d] = "ended"
  BY <1>0, <1>5, Apart DEF Placed, Spawn
<1> QED
  BY <1>1, <1>2, <1>3, <1>4, <1>5 DEF RowsMove

LEMMA ReportsHold == ASSUME RInv, RowsMove, ReportsMove PROVE Claimable' /\ Marked'
<1>1. Claimable'
  BY RowsHold DEF RInv, Claimable, ReportsMove
<1>2. Marked'
  <2>1. CASE UNCHANGED <<reported, given>>
    BY <2>1 DEF RInv, Marked
  <2>2. ASSUME NEW c \in Children, NEW way \in Ways, Give(c, way) PROVE Marked'
    BY <2>2 DEF RInv, TypeOK, Marked, Give
  <2> QED
    BY <2>1, <2>2 DEF ReportsMove
<1> QED
  BY <1>1, <1>2

---------------------------------------------------------------------------
(* What a step may do to objectives *)

AimsMove ==
    /\ UNCHANGED scope /\ (~scope.objective => UNCHANGED <<objective, tool>>)
    /\ \A t \in Turns : tool'[t] \in {tool[t], NoTool, Done} \/ tool'[t].status \in {"blocked", "closed"}
    /\ \A s \in Conversations :
         \/ nudged'[s] = 0
         \/ nudged'[s] = nudged[s] /\ objective'[s].count = objective[s].count
         \/ nudged'[s] = nudged[s] + 1 /\ objective'[s].count = objective[s].count + 1

LEMMA AimsHold == ASSUME RInv, TypeOK', AimsMove PROVE Aimed' /\ Counted'
<1>1. Aimed'
  BY DEF RInv, Aimed, AimsMove
<1>2. \A s \in Conversations : /\ nudged[s] \in Nat /\ objective[s].count \in Nat
                               /\ objective'[s].count \in Nat
  BY Apart DEF RInv, TypeOK, Objectives
<1> QED
  BY <1>1, <1>2 DEF RInv, Counted, AimsMove

LEMMA TurnsAim ==
    ASSUME RInv, NEW t \in Turns,
           \/ Step(t) \/ EndTurn(t) \/ FailTurn(t) \/ CancelTurn(t) \/ Unwind(t)
           \/ SetGoal(t) \/ ReadGoal(t) \/ WriteGoal(t) \/ Rest(t) \/ Nudge(t) \/ NudgeFails(t)
    PROVE  AimsMove
<1>0. /\ objective \in [Conversations -> Objectives] /\ tool \in [Turns -> Tools]
      /\ nudged \in [Conversations -> Nat] /\ conv \in [Turns -> Conversations \cup {Nobody}] /\ Aimed
  BY DEF RInv, TypeOK
<1>1. CASE Step(t) \/ EndTurn(t) \/ FailTurn(t) \/ CancelTurn(t) \/ Unwind(t) \/ NudgeFails(t)
  BY <1>0, <1>1 DEF AimsMove, Step, EndTurn, FailTurn, CancelTurn, Unwind, NudgeFails
<1>2. CASE SetGoal(t)
  BY <1>0, <1>2 DEF AimsMove, SetGoal
<1>3. CASE ReadGoal(t)
  BY <1>0, <1>3 DEF AimsMove, ReadGoal
<1>4. CASE WriteGoal(t)
  <2>1. scope.objective /\ UNCHANGED scope
    BY <1>4 DEF WriteGoal, RInv, Aimed
  <2>2. \A u \in Turns : tool'[u] \in {tool[u], Done}
    BY <1>0, <1>4 DEF WriteGoal
  <2>3. \A s \in Conversations : nudged'[s] = 0 \/ (nudged'[s] = nudged[s] /\ objective'[s] = objective[s])
    BY <1>0, <1>4 DEF WriteGoal
  <2> QED
    BY <2>1, <2>2, <2>3 DEF AimsMove
<1>5. CASE Rest(t)
  <2> DEFINE o == objective[conv[t]]
             rested == [o EXCEPT !.status = IF o.status = "open" THEN "blocked" ELSE o.status]
  <2>1. conv[t] \in Conversations /\ objective' = [objective EXCEPT ![conv[t]] = rested]
    BY <1>0, <1>5 DEF Rest
  <2>2. o \in Objectives /\ rested.count = o.count /\ (o = NoObjective => rested = o)
    BY <1>0, <2>1 DEF Objectives, NoObjective
  <2> HIDE DEF rested
  <2>3. \A s \in Conversations : objective'[s].count = objective[s].count
    BY <1>0, <2>1, <2>2
  <2>4. ~scope.objective => objective' = objective
    BY <1>0, <2>1, <2>2 DEF Aimed
  <2> QED
    BY <1>5, <2>3, <2>4 DEF Rest, AimsMove
<1>6. CASE Nudge(t)
  <2> DEFINE s == conv[t]
             o == objective[s]
  <2>1. s \in Conversations /\ o \in Objectives /\ o.status = "open"
    BY <1>0, <1>6 DEF Nudge
  <2>2. scope.objective
    BY <1>0, <2>1 DEF Aimed, NoObjective
  <2>3. Count(o, s).count = o.count + 1
    BY <2>1 DEF Count, Objectives
  <2>4. objective' = [objective EXCEPT ![s] = Count(o, s)] /\ nudged' = [nudged EXCEPT ![s] = nudged[s] + 1]
    BY <1>0, <1>6, <2>1 DEF Nudge
  <2>5. \A u \in Conversations :
          \/ nudged'[u] = nudged[u] /\ objective'[u].count = objective[u].count
          \/ nudged'[u] = nudged[u] + 1 /\ objective'[u].count = objective[u].count + 1
    BY <1>0, <2>1, <2>3, <2>4
  <2> QED
    BY <1>6, <2>2, <2>5 DEF Nudge, AimsMove
<1> QED
  BY <1>1, <1>2, <1>3, <1>4, <1>5, <1>6

LEMMA ConversationsAim ==
    ASSUME RInv, NEW s \in Conversations, Message(s) \/ Join(s) \/ Edit(s) \/ Delete(s)
    PROVE  AimsMove
<1>0. /\ objective \in [Conversations -> Objectives] /\ nudged \in [Conversations -> Nat]
      /\ TypeOK /\ Aimed
  BY DEF RInv, TypeOK
<1>1. CASE Message(s) \/ Join(s)
  <2>1. PICK word \in Words : Hear(s, word)
    BY <1>1 DEF Message, Join
  <2>2. /\ objective' = [objective EXCEPT ![s] = Said(objective[s], word)]
        /\ nudged' = [nudged EXCEPT ![s] = 0] /\ UNCHANGED <<scope, tool>>
    BY <1>0, <1>1, <2>1, HearHears DEF Message, Join
  <2>3. ~scope.objective => Said(objective[s], word) = objective[s]
    BY <1>0 DEF Aimed, Words, Said, NoObjective
  <2> QED
    BY <1>0, <2>2, <2>3 DEF AimsMove
<1>2. CASE Edit(s)
  BY <1>0, <1>2 DEF AimsMove, Edit
<1>3. CASE Delete(s)
  <2>1. ~scope.objective => objective' = objective
    BY <1>0, <1>3 DEF Aimed, Delete
  <2> QED
    BY <1>0, <1>3, <2>1 DEF AimsMove, Delete
<1> QED
  BY <1>1, <1>2, <1>3

LEMMA ChildrenAim ==
    ASSUME RInv, NEW c \in Children,
           \/ \E t \in Turns, awaited \in BOOLEAN : Spawn(t, c, awaited)
           \/ EndChild(c) \/ Look(c) \/ StopWaiting(c) \/ Claim(c) \/ Release(c) \/ Elapse(c)
           \/ \E w \in Workers : Handing(w, c) \/ Pass(w, c)
    PROVE  AimsMove
<1>1. UNCHANGED <<scope, objective, tool, nudged>>
  BY DEF Spawn, EndChild, Look, StopWaiting, Claim, Release, Elapse, Handing, Drop, Steer, Wake, Pass
<1> QED
  BY <1>1 DEF AimsMove

LEMMA WorkersAim ==
    ASSUME RInv, NEW w \in Workers, Tick(w) \/ Crash(w) \/ \E r \in Runs : Begin(w, r)
    PROVE  AimsMove
<1>1. CASE Tick(w) \/ \E r \in Runs : Begin(w, r)
  BY <1>1 DEF AimsMove, Tick, Begin
<1>2. CASE Crash(w)
  <2>1. /\ \A t \in Turns : tool'[t] \in {tool[t], NoTool}
        /\ ~scope.objective => tool' = tool
    BY <1>2 DEF Crash, RInv, Aimed, TypeOK
  <2> QED
    BY <1>2, <2>1 DEF AimsMove, Crash
<1> QED
  BY <1>1, <1>2

LEMMA StepAims == ASSUME RInv, [Next]_vars PROVE AimsMove
<1>1. CASE UNCHANGED vars
  BY <1>1 DEF vars, AimsMove
<1>2. ASSUME NEW r \in Runs, Recover(r) PROVE AimsMove
  BY <1>2 DEF AimsMove, Recover
<1> QED
  BY <1>1, <1>2, Apart, TurnsAim, ConversationsAim, ChildrenAim, WorkersAim DEF Next

---------------------------------------------------------------------------
(* What a step leaves at work *)

\* A turn that is in flight or whose process has yet to see whether the conversation goes on.
Works(t) == conv[t] # Nobody
            /\ (status[t] \in {"queued", "running"} \/ (status[t] = "ended" /\ at[t] # Nobody))
StillWorks(t) == Works(t) => Works(t)' /\ conv'[t] = conv[t]

\* No objective is opened and no conversation set going again.
Quiet(s) == /\ objective'[s].status = "open" => objective[s].status = "open"
            /\ s \in stalled => s \in stalled'

LEMMA WorkIs == ASSUME NEW s \in Conversations PROVE AtWork(s) = {t \in Turns : conv[t] = s /\ Works(t)}
BY Apart DEF AtWork, InFlight, Finishing, Works

LEMMA StaysAtWork ==
    ASSUME NEW s \in Conversations, \A t \in Turns : conv[t] = s => StillWorks(t)
    PROVE  AtWork(s) \subseteq AtWork(s)'
BY Apart DEF AtWork, InFlight, Finishing, Works, StillWorks

LEMMA QuietGoes ==
    ASSUME GoesOn, NEW s \in Conversations, Quiet(s), \A t \in Turns : conv[t] = s => StillWorks(t)
    PROVE  objective'[s].status = "open" /\ AtWork(s)' = {} => s \in stalled'
<1>1. AtWork(s) \subseteq AtWork(s)'
  BY StaysAtWork
<1> QED
  BY <1>1 DEF GoesOn, Quiet

\* What stops being at work with t, and says so if nothing else is.
LEMMA BreakGoes ==
    ASSUME RInv, NEW t \in Turns, Break(t), UNCHANGED <<objective, conv>>,
           \A u \in Turns \ {t} : StillWorks(u)
    PROVE  GoesOn'
<1>0. GoesOn /\ Aimed
  BY DEF RInv
<1> SUFFICES ASSUME NEW s \in Conversations, objective'[s].status = "open", AtWork(s)' = {}
             PROVE  s \in stalled'
  BY DEF GoesOn
<1>1. scope.objective
  BY <1>0 DEF Aimed, NoObjective
<1>2. stalled \subseteq stalled'
  BY DEF Break
<1>3. CASE AtWork(s) = {}
  BY <1>0, <1>2, <1>3 DEF GoesOn
<1>4. CASE AtWork(s) # {}
  <2>1. AtWork(s) \subseteq {t}
    <3>1. ASSUME NEW u \in AtWork(s), u # t PROVE FALSE
      <4>1. u \in Turns \ {t} /\ conv[u] = s /\ Works(u)
        BY <3>1, WorkIs
      <4>2. u \in AtWork(s)'
        BY <4>1, Apart DEF StillWorks, Works, AtWork, InFlight, Finishing
      <4> QED
        BY <4>2
    <3> QED
      BY <3>1
  <2>2. conv[t] = s
    BY <1>4, <2>1 DEF AtWork
  <2> QED
    BY <1>1, <2>1, <2>2, Apart DEF Break
<1> QED
  BY <1>3, <1>4

\* A conversation where a turn starts is at work; elsewhere nothing changes.
LEMMA StartGoes ==
    ASSUME RInv, NEW s \in Conversations, StartTurn(s), \A t \in Turns : conv[t] # s => at'[t] = at[t],
           \A u \in Conversations \ {s} : objective'[u] = objective[u]
    PROVE  GoesOn'
<1>0. GoesOn /\ status \in [Runs -> Statuses] /\ conv \in [Turns -> Conversations \cup {Nobody}] /\ Placed
  BY DEF RInv, TypeOK
<1>1. PICK t \in Turns : /\ status[t] = "absent" /\ status' = [status EXCEPT ![t] = "queued"]
                         /\ conv' = [conv EXCEPT ![t] = s] /\ stalled' = stalled \ {s}
  BY DEF StartTurn, IsNext
<1>2. t \in AtWork(s)'
  BY <1>0, <1>1, Apart DEF AtWork, InFlight
<1>3. ASSUME NEW u \in Conversations \ {s}
      PROVE  objective'[u].status = "open" /\ AtWork(u)' = {} => u \in stalled'
  <2>1. Quiet(u)
    BY <1>1 DEF Quiet
  <2>2. ASSUME NEW v \in Turns, conv[v] = u PROVE StillWorks(v)
    <3>1. v # t
      BY <1>0, <1>1, <2>2, Apart DEF Placed
    <3>2. status'[v] = status[v] /\ conv'[v] = conv[v] /\ at'[v] = at[v]
      BY <1>0, <1>1, <2>2, <3>1, Apart
    <3> QED
      BY <3>2 DEF StillWorks, Works
  <2> QED
    BY <1>0, <2>1, <2>2, QuietGoes
<1> QED
  BY <1>2, <1>3 DEF GoesOn

LEMMA AllQuietGoes ==
    ASSUME GoesOn, UNCHANGED <<objective, stalled>>, \A t \in Turns : StillWorks(t)
    PROVE  GoesOn'
<1>1. \A s \in Conversations : Quiet(s)
  BY DEF Quiet
<1> QED
  BY <1>1, QuietGoes DEF GoesOn

LEMMA TurnsGoOn ==
    ASSUME RInv, NEW t \in Turns,
           \/ Step(t) \/ EndTurn(t) \/ FailTurn(t) \/ CancelTurn(t) \/ Unwind(t)
           \/ SetGoal(t) \/ ReadGoal(t) \/ WriteGoal(t) \/ Rest(t) \/ Nudge(t) \/ NudgeFails(t)
    PROVE  GoesOn'
<1>0. /\ GoesOn /\ Placed /\ Aimed /\ status \in [Runs -> Statuses] /\ at \in [Runs -> Workers \cup {Nobody}]
      /\ conv \in [Turns -> Conversations \cup {Nobody}] /\ objective \in [Conversations -> Objectives]
  BY DEF RInv, TypeOK
<1>1. CASE Step(t) \/ ReadGoal(t)
  BY <1>0, <1>1, AllQuietGoes DEF Step, ReadGoal, StillWorks, Works
<1>2. CASE Unwind(t)
  <2>1. \A u \in Turns : StillWorks(u)
    BY <1>0, <1>2, Apart DEF Unwind, StillWorks, Works
  <2> QED
    BY <1>0, <1>2, <2>1, AllQuietGoes DEF Unwind
<1>3. CASE EndTurn(t)
  <2>1. CASE scope.objective
    <3>1. \A u \in Turns : StillWorks(u)
      BY <1>0, <1>3, <2>1, Apart DEF EndTurn, Live, StillWorks, Works
    <3> QED
      BY <1>0, <1>3, <3>1, AllQuietGoes DEF EndTurn
  <2>2. CASE ~scope.objective
    BY <1>0, <1>3, <2>2 DEF EndTurn, Aimed, NoObjective, GoesOn
  <2> QED
    BY <2>1, <2>2
<1>4. CASE FailTurn(t) \/ CancelTurn(t) \/ NudgeFails(t)
  <2>1. Break(t) /\ UNCHANGED <<objective, conv>>
    BY <1>4 DEF FailTurn, CancelTurn, NudgeFails
  <2>2. \A u \in Turns \ {t} : status'[u] = status[u] /\ at'[u] = at[u]
    BY <1>0, <1>4, Apart DEF FailTurn, CancelTurn, NudgeFails, Freed
  <2> QED
    BY <2>1, <2>2, BreakGoes DEF StillWorks, Works
<1>5. CASE SetGoal(t)
  <2>1. conv[t] \in Conversations /\ Works(t)
    BY <1>0, <1>5, Apart DEF SetGoal, Live, Placed, Works
  <2>2. \A u \in Turns : StillWorks(u)
    BY <1>5 DEF SetGoal, StillWorks, Works
  <2>4. ASSUME NEW s \in Conversations, s # conv[t]
        PROVE  objective'[s].status = "open" /\ AtWork(s)' = {} => s \in stalled'
    <3>1. Quiet(s)
      BY <1>0, <1>5, <2>4 DEF SetGoal, Quiet
    <3> QED
      BY <1>0, <2>2, <3>1, QuietGoes
  <2>5. \A s \in Conversations : objective'[s].status = "open" /\ AtWork(s)' = {} => s \in stalled'
    <3> TAKE s \in Conversations
    <3>1. CASE s = conv[t]
      BY <2>2, <2>1, <3>1, WorkIs, StaysAtWork
    <3> QED
      BY <2>4, <3>1
  <2> QED
    BY <2>5 DEF GoesOn
<1>6. CASE WriteGoal(t)
  <2>1. tool[t].status \in {"blocked", "closed"}
    BY <1>0, <1>6 DEF WriteGoal, Aimed
  <2>2. \A s \in Conversations : objective'[s].status = "open" => objective'[s] = objective[s]
    <3>1. CASE conv[t] = Nobody
      BY <1>6, <3>1 DEF WriteGoal
    <3>2. CASE conv[t] # Nobody
      <4>1. conv[t] \in Conversations /\ objective[conv[t]] \in Objectives
        BY <1>0, <3>2
      <4>2. PICK o : objective' = [objective EXCEPT ![conv[t]] = o] /\ o.status = tool[t].status
        BY <1>6, <3>2, <4>1 DEF WriteGoal, Objectives
      <4> QED
        BY <1>0, <2>1, <4>1, <4>2
    <3> QED
      BY <3>1, <3>2
  <2>3. \A s \in Conversations : Quiet(s)
    BY <1>6, <2>2 DEF WriteGoal, Quiet
  <2>4. \A u \in Turns : StillWorks(u)
    BY <1>6 DEF WriteGoal, StillWorks, Works
  <2> QED
    BY <1>0, <2>3, <2>4, QuietGoes DEF GoesOn
<1>7. CASE Rest(t)
  <2> DEFINE o == objective[conv[t]]
             rested == [o EXCEPT !.status = IF o.status = "open" THEN "blocked" ELSE o.status]
  <2>1. conv[t] \in Conversations /\ objective' = [objective EXCEPT ![conv[t]] = rested]
    BY <1>0, <1>7 DEF Rest
  <2>2. rested.status # "open"
    BY <1>0, <2>1 DEF Objectives
  <2> HIDE DEF rested
  <2>3. objective'[conv[t]].status # "open"
    BY <1>0, <2>1, <2>2
  <2>4. ASSUME NEW s \in Conversations, s # conv[t]
        PROVE  objective'[s].status = "open" /\ AtWork(s)' = {} => s \in stalled'
    <3>1. Quiet(s)
      BY <1>0, <1>7, <2>1, <2>4 DEF Rest, Quiet
    <3>2. \A u \in Turns : conv[u] = s => StillWorks(u)
      BY <1>0, <1>7, <2>4, Apart DEF Rest, Freed, StillWorks, Works
    <3> QED
      BY <1>0, <3>1, <3>2, QuietGoes
  <2> QED
    BY <2>3, <2>4 DEF GoesOn
<1>8. CASE Nudge(t)
  <2>1. PICK s \in Conversations : s = conv[t]
    BY <1>0, <1>8 DEF Nudge
  <2>2. \A u \in Conversations \ {s} : objective'[u] = objective[u]
    BY <1>0, <1>8, <2>1 DEF Nudge
  <2>3. \A u \in Turns : u # t => at'[u] = at[u]
    BY <1>0, <1>8, Apart DEF Nudge, Freed
  <2>4. CASE StartTurn(s)
    BY <2>1, <2>2, <2>3, <2>4, StartGoes
  <2>5. CASE InFlight(s) # {} /\ UNCHANGED <<status, conv, stalled>>
    <3>1. PICK v \in Turns : v \in InFlight(s)
      BY <2>5 DEF InFlight
    <3>2. v \in AtWork(s)'
      BY <2>5, <3>1 DEF AtWork, InFlight
    <3>3. ASSUME NEW u \in Conversations \ {s}
          PROVE  objective'[u].status = "open" /\ AtWork(u)' = {} => u \in stalled'
      <4>1. Quiet(u)
        BY <2>2, <2>5 DEF Quiet
      <4>2. \A w \in Turns : conv[w] = u => StillWorks(w)
        BY <2>1, <2>3, <2>5, <3>3 DEF StillWorks, Works
      <4> QED
        BY <1>0, <4>1, <4>2, QuietGoes
    <3> QED
      BY <2>1, <3>2, <3>3 DEF GoesOn
  <2> QED
    BY <1>8, <2>1, <2>4, <2>5 DEF Nudge, Nudged
<1> QED
  BY <1>1, <1>2, <1>3, <1>4, <1>5, <1>6, <1>7, <1>8

LEMMA ConversationsGoOn ==
    ASSUME RInv, NEW s \in Conversations, Message(s) \/ Join(s) \/ Edit(s) \/ Delete(s)
    PROVE  GoesOn'
<1>0. /\ GoesOn /\ Placed /\ TypeOK /\ objective \in [Conversations -> Objectives]
      /\ status \in [Runs -> Statuses] /\ conv \in [Turns -> Conversations \cup {Nobody}]
  BY DEF RInv, TypeOK
<1>1. \A u \in Conversations \ {s} : objective'[u] = objective[u]
  BY <1>0 DEF Message, Join, Edit, Delete, Hear
<1>2. CASE Message(s)
  BY <1>1, <1>2, StartGoes DEF Message
<1>3. ASSUME UNCHANGED <<status, conv, at>>, stalled \subseteq stalled', AtWork(s)' # {} \/ s \in stalled'
      PROVE  GoesOn'
  <2>1. \A u \in Turns : StillWorks(u)
    BY <1>3 DEF StillWorks, Works
  <2>2. \A u \in Conversations \ {s} : Quiet(u)
    BY <1>1, <1>3 DEF Quiet
  <2> QED
    BY <1>0, <1>3, <2>1, <2>2, QuietGoes DEF GoesOn
<1>4. CASE Join(s)
  <2>1. AtWork(s)' # {}
    BY <1>4 DEF Join, AtWork, InFlight, Finishing
  <2> QED
    BY <1>3, <1>4, <2>1 DEF Join
<1>5. CASE Edit(s)
  <2>1. AtWork(s)' = AtWork(s)
    BY <1>5 DEF Edit, AtWork, InFlight, Finishing
  <2>2. stalled \subseteq stalled' /\ (AtWork(s) = {} => s \in stalled')
    BY <1>5 DEF Edit
  <2> QED
    BY <1>3, <1>5, <2>1, <2>2 DEF Edit
<1>6. CASE Delete(s)
  <2>1. objective'[s].status # "open"
    BY <1>0, <1>6 DEF Delete, NoObjective
  <2>2. ASSUME NEW u \in Conversations \ {s}
        PROVE  objective'[u].status = "open" /\ AtWork(u)' = {} => u \in stalled'
    <3>1. Quiet(u)
      BY <1>1, <1>6 DEF Delete, Quiet
    <3>2. ASSUME NEW v \in Turns, conv[v] = u PROVE StillWorks(v)
      BY <1>0, <1>6, <3>2, Apart DEF Delete, StillWorks, Works
    <3> QED
      BY <1>0, <3>1, <3>2, QuietGoes
  <2> QED
    BY <2>1, <2>2 DEF GoesOn
<1> QED
  BY <1>2, <1>4, <1>5, <1>6

LEMMA ChildrenGoOn ==
    ASSUME RInv, NEW c \in Children,
           \/ \E t \in Turns, awaited \in BOOLEAN : Spawn(t, c, awaited)
           \/ EndChild(c) \/ Look(c) \/ StopWaiting(c) \/ Claim(c) \/ Release(c) \/ Elapse(c)
           \/ \E w \in Workers : Handing(w, c) \/ Pass(w, c)
    PROVE  GoesOn'
<1>0. /\ GoesOn /\ status \in [Runs -> Statuses] /\ at \in [Runs -> Workers \cup {Nobody}]
      /\ conv \in [Turns -> Conversations \cup {Nobody}]
  BY DEF RInv, TypeOK
<1>1. ASSUME UNCHANGED <<conv, objective, stalled>>,
             \A t \in Turns : status'[t] = status[t] /\ at'[t] = at[t]
      PROVE  GoesOn'
  BY <1>0, <1>1, AllQuietGoes DEF StillWorks, Works
<1>2. ASSUME NEW t \in Turns, NEW awaited \in BOOLEAN, Spawn(t, c, awaited) PROVE GoesOn'
  BY <1>0, <1>1, <1>2, Apart DEF Spawn
<1>3. CASE EndChild(c)
  BY <1>0, <1>1, <1>3, Apart DEF EndChild
<1>4. CASE Look(c) \/ StopWaiting(c) \/ Claim(c) \/ Release(c) \/ Elapse(c)
  BY <1>1, <1>4 DEF Look, StopWaiting, Claim, Release, Elapse
<1>5. ASSUME NEW w \in Workers, Drop(w, c) \/ Steer(w, c) \/ Pass(w, c) PROVE GoesOn'
  BY <1>1, <1>5 DEF Drop, Steer, Pass
<1>6. ASSUME NEW w \in Workers, Wake(w, c) PROVE GoesOn'
  <2>1. conv[by[c]] \in Conversations
    BY <1>6, ParentIs DEF RInv, Wake, Handable, Finished
  <2>2. StartTurn(conv[by[c]]) /\ UNCHANGED <<at, objective>>
    BY <1>6 DEF Wake
  <2> QED
    BY <2>1, <2>2, StartGoes
<1> QED
  BY <1>2, <1>3, <1>4, <1>5, <1>6 DEF Handing

\* A process that dies leaves behind the conversations only its finishing turns were at work in.
LEMMA CrashGoes == ASSUME RInv, NEW w \in Workers, Crash(w) PROVE GoesOn'
<1>0. GoesOn /\ at \in [Runs -> Workers \cup {Nobody}]
  BY DEF RInv, TypeOK
<1>1. /\ UNCHANGED <<status, conv, objective>>
      /\ \A r \in Runs : at'[r] = IF at[r] = w THEN Nobody ELSE at[r]
      /\ stalled' = stalled \cup {s \in Conversations :
                       AtWork(s) # {} /\ \A t \in AtWork(s) : Finishing(t) /\ at[t] = w}
  BY DEF Crash
<1> SUFFICES ASSUME NEW s \in Conversations, objective'[s].status = "open", AtWork(s)' = {}
             PROVE  s \in stalled'
  BY DEF GoesOn
<1>2. CASE AtWork(s) = {}
  BY <1>0, <1>1, <1>2 DEF GoesOn
<1>3. CASE AtWork(s) # {}
  <2>1. ASSUME NEW t \in AtWork(s) PROVE Finishing(t) /\ at[t] = w
    <3>1. t \in Turns /\ conv[t] = s /\ Works(t)
      BY WorkIs
    <3>2. ~Works(t)'
      BY <1>1, <3>1, Apart DEF AtWork, InFlight, Finishing, Works
    <3> QED
      BY <1>1, <3>1, <3>2, Apart DEF Works, Finishing
  <2> QED
    BY <1>1, <1>3, <2>1
<1> QED
  BY <1>2, <1>3

LEMMA WorkersGoOn ==
    ASSUME RInv, NEW w \in Workers, Tick(w) \/ Crash(w) \/ \E r \in Runs : Begin(w, r)
    PROVE  GoesOn'
<1>0. /\ GoesOn /\ status \in [Runs -> Statuses] /\ at \in [Runs -> Workers \cup {Nobody}]
  BY DEF RInv, TypeOK
<1>1. CASE Tick(w)
  BY <1>0, <1>1, AllQuietGoes DEF Tick, StillWorks, Works
<1>2. ASSUME NEW r \in Runs, Begin(w, r) PROVE GoesOn'
  <2>1. \A t \in Turns : StillWorks(t)
    BY <1>0, <1>2, Apart DEF Begin, StillWorks, Works
  <2> QED
    BY <1>0, <1>2, <2>1, AllQuietGoes DEF Begin
<1> QED
  BY <1>1, <1>2, CrashGoes

LEMMA RecoverGoes == ASSUME RInv, NEW r \in Runs, Recover(r) PROVE GoesOn'
<1>0. /\ GoesOn /\ status \in [Runs -> Statuses]
  BY DEF RInv, TypeOK
<1>1. CASE r \in Children
  <2>1. \A t \in Turns : StillWorks(t)
    BY <1>0, <1>1, Apart DEF Recover, StillWorks, Works
  <2> QED
    BY <1>0, <1>1, <2>1, AllQuietGoes DEF Recover
<1>2. CASE r \notin Children
  <2>1. \A t \in Turns \ {r} : StillWorks(t)
    BY <1>0, <1>2, Apart DEF Recover, StillWorks, Works
  <2>2. r \in Turns /\ Break(r) /\ UNCHANGED <<objective, conv>>
    BY <1>2, Apart DEF Recover
  <2> QED
    BY <2>1, <2>2, BreakGoes
<1> QED
  BY <1>1, <1>2

LEMMA StepHolds == ASSUME RInv, [Next]_vars PROVE RInv'
<1>1. TypeOK'
  <2>1. CASE UNCHANGED vars
    BY <2>1 DEF vars, RInv, TypeOK
  <2> QED
    BY <2>1, Apart, TypesHoldTurns, TypesHoldConversations, TypesHoldChildren, TypesHoldWorkers,
       TypesHoldRecover DEF RInv, Next
<1>2. Placed' /\ Claimable' /\ Marked'
  BY StepMoves, RowsHold, ReportsHold
<1>3. Aimed' /\ Counted'
  BY <1>1, StepAims, AimsHold
<1>4. GoesOn'
  <2>1. CASE UNCHANGED vars
    BY <2>1, AllQuietGoes DEF vars, RInv, StillWorks, Works
  <2> QED
    BY <2>1, Apart, TurnsGoOn, ConversationsGoOn, ChildrenGoOn, WorkersGoOn, RecoverGoes DEF Next
<1> QED
  BY <1>1, <1>2, <1>3, <1>4 DEF RInv

---------------------------------------------------------------------------
\* The invariant of the proofs holds of any processes, conversations and subagents.
THEOREM Invariance == Spec => []RInv
<1>1. Init => RInv
  <2> SUFFICES ASSUME Init PROVE RInv
    OBVIOUS
  <2>1. TypeOK
    BY Apart, NoneIs DEF Init, TypeOK, Statuses
  <2>2. Placed /\ Claimable /\ Marked /\ Aimed
    BY Apart DEF Init, Placed, Claimable, Marked, Aimed
  <2>3. Counted /\ GoesOn
    BY Apart DEF Init, Counted, GoesOn, NoObjective
  <2> QED
    BY <2>1, <2>2, <2>3 DEF RInv
<1>2. RInv /\ [Next]_vars => RInv'
  BY StepHolds
<1> QED
  BY <1>1, <1>2, PTL DEF Spec

\* ReportsSafety for any number of processes, turns and conversations: no completed turn leaves an
\* open objective behind, and no more than MaxNudges nudges follow one another.
THEOREM ReportsSafe == Spec => []ReportsSafety
<1>1. RInv => ReportsSafety
  <2> SUFFICES ASSUME RInv PROVE NudgesEnd
    BY DEF RInv, ReportsSafety
  <2>1. \A s \in Conversations : nudged[s] \in Nat /\ objective[s].count \in 0..MaxNudges
    BY DEF RInv, TypeOK, Objectives
  <2> QED
    BY <2>1, Apart DEF RInv, Counted, NudgesEnd
<1> QED
  BY <1>1, Invariance, PTL

\* Reports implements Handoff: a report leaves its subagent once and only when that is over,
\* whichever calls and ticks look at it at the same time.
THEOREM HandedOnce == Spec => OnceOver
<1> DEFINE Over == {c \in Children : status[c] = "ended"}
<1>1. Init => Delivery!Init
  BY Apart DEF Init, Delivery!Init
<1>2. RInv /\ [Next]_vars => [Delivery!Next]_<<Over, given>>
  <2> SUFFICES ASSUME RInv, [Next]_vars PROVE Delivery!Next \/ UNCHANGED <<Over, given>>
    OBVIOUS
  <2>1. ReportsMove /\ Over \subseteq Over'
    BY StepMoves, RowsHold
  <2>2. CASE UNCHANGED given
    BY <2>1, <2>2 DEF Delivery!Next, Delivery!Finish
  <2>3. ASSUME NEW c \in Children, NEW way \in Ways, ~reported[c], status[c] = "ended", Give(c, way),
               \A d \in Children : status'[d] = status[d]
        PROVE  Delivery!Hand(c)
    <3>1. given[c] = <<>> /\ given' = [given EXCEPT ![c] = <<way>>]
      <4>1. given[c] = <<>> /\ given \in [Children -> Seq(Ways)]
        BY <2>3 DEF RInv, TypeOK, Marked
      <4>2. Append(given[c], way) = <<way>>
        BY <4>1
      <4> QED
        BY <2>3, <4>1, <4>2 DEF Give
    <3> QED
      BY <2>3, <3>1 DEF Delivery!Hand
  <2> QED
    BY <2>1, <2>2, <2>3 DEF ReportsMove, Delivery!Next
<1> QED
  BY <1>1, <1>2, Invariance, PTL DEF Spec, OnceOver, Delivery!Spec
=============================================================================
