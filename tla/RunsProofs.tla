----------------------------- MODULE RunsProofs -----------------------------
(***************************************************************************)
(* Theorems about Runs for every number of workers, sessions, keys and      *)
(* runs: its type, one turn per run, that it implements ApprovedAction, and *)
(* what holds of requests, the active cap and the rows' histories.          *)
(*                                                                          *)
(* The operations fall into eight kinds of step, by what they change of     *)
(* what IInv speaks of; each operation is shown to be of its kind, and each *)
(* kind to preserve IInv and to map to a step of ApprovedAction.  The       *)
(* second half tells the steps apart by what becomes of the rows (they      *)
(* move, one begins, one is resumed), for the invariant JInv behind the     *)
(* properties of requests.                                                  *)
(***************************************************************************)
EXTENDS Runs, FiniteSetTheorems, WellFoundedInduction, TLAPS

---------------------------------------------------------------------------
(* What each operation writes into a row. *)

\* The row is left alone but for its steer, key, owner and lease, and approves nothing new.
Like(new, row) == /\ new.parent = row.parent /\ new.status = row.status
                  /\ new.asks = row.asks /\ new.decision = row.decision
                  /\ new.action = "approved" => row.action = "approved"

LEMMA NoRowType == NoRow \in Row
<1>1. <<>> \in Seq(Keys)
  OBVIOUS
<1> QED
  BY <1>1 DEF NoRow, Row, Statuses, NoRun

LEMMA QueuedRowType ==
    ASSUME NEW s \in Sessions \cup {Nobody}, NEW key \in RequestKeys,
           NEW p \in RunIds \cup {NoRun}, NEW a \in {"none", "pending", "approved"}
    PROVE  /\ QueuedRow(s, key, p, a) \in Row
           /\ QueuedRow(s, key, p, a).parent = p
           /\ QueuedRow(s, key, p, a).status = "queued"
           /\ QueuedRow(s, key, p, a).asks = "nothing"
           /\ QueuedRow(s, key, p, a).decision = "none"
           /\ QueuedRow(s, key, p, a).action = a
BY NoRowType DEF QueuedRow, Row, Statuses, Active, NoRow

LEMMA QueuedRowAction ==
    ASSUME NEW s, NEW key, NEW p, NEW a PROVE QueuedRow(s, key, p, a).action = a
BY DEF QueuedRow, NoRow

LEMMA SteeredType ==
    ASSUME NEW row \in Row, NEW k \in Keys
    PROVE  Steered(row, k) \in Row /\ Like(Steered(row, k), row)
BY DEF Steered, Row, Like

LEMMA ClearedType ==
    ASSUME NEW row \in Row, NEW held
    PROVE  Cleared(row, held) \in Row /\ Like(Cleared(row, held), row)
<1>1. <<>> \in Seq(Keys)
  OBVIOUS
<1> QED
  BY <1>1 DEF Cleared, Row, Like

LEMMA WithLeaseType ==
    ASSUME NEW row \in Row, NEW lease \in {"none", "live", "lapsed"}
    PROVE  WithLease(row, lease) \in Row /\ Like(WithLease(row, lease), row)
BY DEF WithLease, Row, Like

LEMMA SpentType ==
    ASSUME NEW row \in Row
    PROVE  Spent(row) \in Row /\ Like(Spent(row), row)
BY DEF Spent, Row, Like

\* The row gets another status and the rest of what matters stays.
Placed(new, row, status) == /\ new.parent = row.parent /\ new.status = status
                            /\ new.asks = row.asks /\ new.decision = row.decision
                            /\ new.action = row.action

LEMMA LeasedType ==
    ASSUME NEW row \in Row, NEW w \in Workers
    PROVE  Leased(row, w) \in Row /\ Placed(Leased(row, w), row, "running")
BY DEF Leased, Row, Placed, Statuses, Active

LEMMA UnownedType ==
    ASSUME NEW row \in Row, NEW status \in Statuses
    PROVE  Unowned(row, status) \in Row /\ Placed(Unowned(row, status), row, status)
BY DEF Unowned, Row, Placed

LEMMA AskingType ==
    ASSUME NEW row \in Row, NEW asks \in {"nothing", "question", "approval"},
           NEW action \in {"none", "pending", "approved"}
    PROVE  /\ Asking(row, asks, action) \in Row
           /\ Asking(row, asks, action).parent = row.parent
           /\ Asking(row, asks, action).status = row.status
           /\ Asking(row, asks, action).asks = asks
           /\ Asking(row, asks, action).decision = row.decision
           /\ Asking(row, asks, action).action = action
<1>1. Asking(row, asks, action) \in Row
  BY DEF Asking, Row
<1>2. Asking(row, asks, action).parent = row.parent /\ Asking(row, asks, action).status = row.status
  BY DEF Asking, Row
<1>3. Asking(row, asks, action).asks = asks /\ Asking(row, asks, action).action = action
  BY DEF Asking, Row
<1>4. Asking(row, asks, action).decision = row.decision
  BY DEF Asking, Row
<1> QED
  BY <1>1, <1>2, <1>3, <1>4

LEMMA ParkedType ==
    ASSUME NEW row \in Row, NEW asks \in {"question", "approval"}
    PROVE  /\ Parked(row, asks) \in Row
           /\ Parked(row, asks).parent = row.parent
           /\ Parked(row, asks).status = "waiting"
           /\ Parked(row, asks).asks = asks
           /\ Parked(row, asks).decision = row.decision
           /\ Parked(row, asks).action = "approved" => row.action = "approved"
<1>1. /\ Kept(row, asks) \in {"none", "pending", "approved"}
      /\ Kept(row, asks) = "approved" => row.action = "approved"
  BY DEF Kept, Row
<1>2. "waiting" \in Statuses
  BY DEF Statuses
<1> QED
  BY <1>1, <1>2, UnownedType, AskingType DEF Parked, Placed

LEMMA CancelledType ==
    ASSUME NEW row \in Row
    PROVE  /\ Cancelled(row) \in Row
           /\ Cancelled(row).parent = row.parent
           /\ Cancelled(row).status = "cancelled"
           /\ Cancelled(row).asks = AsksLeft(row.asks)
           /\ Cancelled(row).decision = row.decision
           /\ Cancelled(row).action = "none"
<1>1. AsksLeft(row.asks) \in {"nothing", "question", "approval"}
  BY DEF AsksLeft, Row
<1>2. "cancelled" \in Statuses
  BY DEF Statuses, Terminal
<1> QED
  BY <1>1, <1>2, UnownedType, AskingType DEF Cancelled, Placed

LEMMA AnsweredType ==
    ASSUME NEW row \in Row
    PROVE  /\ Answered(row) \in Row
           /\ Answered(row).parent = row.parent
           /\ Answered(row).status = "completed"
           /\ Answered(row).asks = row.asks
           /\ Answered(row).decision = "answered"
           /\ Answered(row).action = row.action
BY DEF Answered, Row, Statuses, Terminal

LEMMA DecidedType ==
    ASSUME NEW row \in Row, NEW approve \in BOOLEAN
    PROVE  /\ Decided(row, approve) \in Row
           /\ Decided(row, approve).parent = row.parent
           /\ Decided(row, approve).status = "completed"
           /\ Decided(row, approve).asks = row.asks
           /\ Decided(row, approve).decision = Verdict(approve)
           /\ Decided(row, approve).action = "none"
<1>1. Verdict(approve) \in {"approved", "rejected"}
  BY DEF Verdict
<1>2. Decided(row, approve) \in Row
  BY <1>1, ZenonT(30) DEF Decided, Row, Statuses, Terminal
<1>3. Decided(row, approve).parent = row.parent /\ Decided(row, approve).asks = row.asks
  BY DEF Decided, Row
<1>4. Decided(row, approve).status = "completed" /\ Decided(row, approve).action = "none"
  BY DEF Decided, Row
<1>5. Decided(row, approve).decision = Verdict(approve)
  BY DEF Decided, Row
<1> QED
  BY <1>2, <1>3, <1>4, <1>5

---------------------------------------------------------------------------
(* What a step does to the tables. *)

LEMMA Writing ==
    ASSUME runs \in [RunIds -> Row], NEW r \in RunIds, NEW row \in Row, Write(r, row)
    PROVE  /\ runs' \in [RunIds -> Row]
           /\ runs'[r] = row
           /\ \A x \in RunIds : x # r => runs'[x] = runs[x]
BY DEF Write

LEMMA WritingLike ==
    ASSUME runs \in [RunIds -> Row], NEW r \in RunIds, NEW row \in Row,
           Write(r, row), Like(row, runs[r])
    PROVE  /\ runs' \in [RunIds -> Row]
           /\ \A x \in RunIds : Like(runs'[x], runs[x])
BY Writing DEF Like

LEMMA Filing ==
    ASSUME joined \in [Keys -> [Sessions -> RunIds \cup {NoRun}]],
           NEW s \in Sessions, NEW k \in Keys, NEW r \in RunIds, File(s, k, r)
    PROVE  joined' \in [Keys -> [Sessions -> RunIds \cup {NoRun}]]
BY DEF File

Table == [Workers -> [RunIds -> Turn]]

\* One turn moves, and no other.
LEMMA Turning ==
    ASSUME turns \in Table, NEW w \in Workers, NEW r \in RunIds, NEW t \in Turn, Turned(w, r, t)
    PROVE  /\ turns' \in Table
           /\ turns'[w][r] = t
           /\ \A v \in Workers, x \in RunIds : v # w \/ x # r => turns'[v][x] = turns[v][x]
BY DEF Table, Turned

LEMMA NoTurnType == NoTurn \in Turn /\ NoTurn.pc = "none"
<1>1. <<>> \in Seq(Keys)
  OBVIOUS
<1> QED
  BY <1>1 DEF NoTurn, Turn, Steps

LEMMA LaterType ==
    ASSUME NEW t \in Turn, NEW pc \in Steps
    PROVE  Later(t, pc) \in Turn /\ Later(t, pc).pc = pc
BY DEF Later, Turn

LEMMA AbortedType ==
    ASSUME NEW t \in Turn
    PROVE  Aborted(t) \in Turn /\ Aborted(t).pc = t.pc
BY DEF Aborted, Turn

LEMMA HoldingType ==
    ASSUME NEW t \in Turn, NEW texts \in Seq(Keys)
    PROVE  Holding(t, texts) \in Turn /\ Holding(t, texts).pc = t.pc
BY DEF Holding, Turn

LEMMA Going ==
    ASSUME turns \in Table, NEW w \in Workers, NEW r \in RunIds, NEW pc \in Steps, Goto(w, r, pc)
    PROVE  /\ turns' \in Table
           /\ turns'[w][r].pc = pc
           /\ \A v \in Workers, x \in RunIds : v # w \/ x # r => turns'[v][x] = turns[v][x]
<1>1. turns[w][r] \in Turn
  BY DEF Table
<1> QED
  BY <1>1, LaterType, Turning DEF Goto

LEMMA Stopping ==
    ASSUME turns \in Table, NEW w \in Workers, NEW r \in RunIds, Stop(w, r)
    PROVE  /\ turns' \in Table
           /\ \A v \in Workers, x \in RunIds : turns'[v][x].pc = turns[v][x].pc
<1>1. turns[w][r] \in Turn
  BY DEF Table
<1>2. Aborted(turns[w][r]) \in Turn /\ Aborted(turns[w][r]).pc = turns[w][r].pc
  BY <1>1, AbortedType
<1>3. /\ turns' \in Table
      /\ turns'[w][r] = Aborted(turns[w][r])
      /\ \A v \in Workers, x \in RunIds : v # w \/ x # r => turns'[v][x] = turns[v][x]
  BY <1>2, Turning DEF Stop
<1> QED
  BY <1>2, <1>3

LEMMA Leaving ==
    ASSUME turns \in Table, NEW w \in Workers, NEW r \in RunIds, Leave(w, r)
    PROVE  /\ turns' \in Table
           /\ turns'[w][r].pc = "none"
           /\ \A v \in Workers, x \in RunIds : v # w \/ x # r => turns'[v][x] = turns[v][x]
<1>1. /\ turns' \in Table
      /\ turns'[w][r] = NoTurn
      /\ \A v \in Workers, x \in RunIds : v # w \/ x # r => turns'[v][x] = turns[v][x]
  BY NoTurnType, Turning DEF Leave
<1> QED
  BY <1>1, NoTurnType

---------------------------------------------------------------------------
(* The kinds of step. *)

\* Turns move on, and none begins or comes to an approved action.
Onward == \A w \in Workers, x \in RunIds :
    \/ turns'[w][x].pc = turns[w][x].pc
    \/ turns[w][x].pc # "none" /\ turns'[w][x].pc \notin {"begun"} \cup Acting
    \/ turns[w][x].pc \in Acting /\ turns'[w][x].pc \in Acting

Others(r) == \A x \in RunIds : x # r => runs'[x] = runs[x]
OtherTurns(w, r) == \A v \in Workers, x \in RunIds : v # w \/ x # r => turns'[v][x] = turns[v][x]

Calm == (\A x \in RunIds : Like(runs'[x], runs[x])) /\ Onward /\ ran' = ran

Closing(r) ==
    /\ runs[r].status \in Active \cup {"waiting"} /\ runs'[r].status \in Terminal
    /\ runs'[r].parent = runs[r].parent /\ runs'[r].decision = runs[r].decision
    /\ \/ runs'[r].asks = runs[r].asks
       \/ runs[r].asks = "question" /\ runs'[r].asks = "nothing"
    /\ runs'[r].action = "approved" => runs[r].action = "approved"
    /\ Others(r) /\ Onward /\ ran' = ran

Parking(r) ==
    /\ runs[r].status = "running" /\ runs'[r].status = "waiting"
    /\ runs'[r].parent = runs[r].parent /\ runs'[r].decision = runs[r].decision
    /\ runs'[r].asks \in {"question", "approval"}
    /\ runs'[r].action = "approved" => runs[r].action = "approved"
    /\ Others(r) /\ Onward /\ ran' = ran

Claiming(w, r) ==
    /\ runs[r].status = "queued" /\ Placed(runs'[r], runs[r], "running") /\ Others(r)
    /\ turns'[w][r].pc = "begun" /\ OtherTurns(w, r) /\ ran' = ran

NewRow(n, p) == /\ runs[n].status = "absent" /\ runs'[n].status = "queued"
                /\ runs'[n].parent = p /\ runs'[n].asks = "nothing"
                /\ runs'[n].decision = "none"

Starting(n, p) ==
    /\ NewRow(n, p) /\ runs'[n].action # "approved"
    /\ p # NoRun => runs[p].status \in Terminal \ {"completed"}
    /\ Others(n) /\ turns' = turns /\ ran' = ran

Carrying(q, n) ==
    /\ n # q /\ NewRow(n, q)
    /\ runs[q].status = "waiting" /\ runs'[q].status = "completed"
    /\ runs'[q].parent = runs[q].parent /\ runs'[q].asks = runs[q].asks
    /\ \/ runs[q].asks = "question" /\ runs'[q].decision = "answered"
       \/ runs[q].asks = "approval" /\ runs'[q].decision \in {"approved", "rejected"}
    /\ runs'[q].action = "approved" => runs[q].action = "approved"
    /\ runs'[n].action = "approved" =>
         runs[q].asks = "approval" /\ runs'[q].decision = "approved"
    /\ \A x \in RunIds : x # q /\ x # n => runs'[x] = runs[x]
    /\ turns' = turns /\ ran' = ran

Reading(w, r) ==
    /\ turns[w][r].pc = "begun" /\ runs[r].action = "approved"
    /\ turns'[w][r].pc = "spending" /\ OtherTurns(w, r) /\ runs' = runs /\ ran' = ran

Performing(w, r) ==
    /\ turns[w][r].pc = "acting" /\ turns'[w][r].pc \in {"stepping", "failing"}
    /\ OtherTurns(w, r) /\ runs' = runs /\ ran' = [ran EXCEPT ![r] = @ + 1]

---------------------------------------------------------------------------
(* Each kind preserves the inductive invariant. *)

LEMMA CalmKeeps == ASSUME IInv, TypeOK', Calm PROVE IInv'
<1> USE DEF Calm, Like
<1>1. Unclaimed'
  BY DEF IInv, Unclaimed, InTurn, At, Onward, Acting
<1>2. OneTurnPerRun'
  BY DEF IInv, OneTurnPerRun, InTurn, At, Onward, Acting
<1>3. AskedWhenParked' /\ DecidedIsCompleted'
  BY DEF IInv, AskedWhenParked, DecidedIsCompleted
<1>4. ParentEnded' /\ OnlyChild'
  BY DEF IInv, ParentEnded, OnlyChild
<1>5. Allowed'
  BY DEF IInv, Allowed, Approved, Onward
<1>6. NotYetRun'
  BY DEF IInv, NotYetRun, Onward
<1> QED
  BY <1>1, <1>2, <1>3, <1>4, <1>5, <1>6 DEF IInv

LEMMA ClosingKeeps == ASSUME IInv, TypeOK', NEW r \in RunIds, Closing(r) PROVE IInv'
<1> USE DEF Closing, Others, Active, Terminal
<1>1. Unclaimed'
  BY DEF IInv, Unclaimed, InTurn, At, Onward, Acting
<1>2. OneTurnPerRun'
  BY DEF IInv, OneTurnPerRun, InTurn, At, Onward, Acting
<1>3. AskedWhenParked' /\ DecidedIsCompleted'
  BY DEF IInv, AskedWhenParked, DecidedIsCompleted
<1>4. ParentEnded' /\ OnlyChild'
  BY DEF IInv, ParentEnded, OnlyChild
<1>5. Allowed'
  BY DEF IInv, Allowed, Approved, Onward, DecidedIsCompleted
<1>6. NotYetRun'
  BY DEF IInv, NotYetRun, Onward
<1> QED
  BY <1>1, <1>2, <1>3, <1>4, <1>5, <1>6 DEF IInv

LEMMA ParkingKeeps == ASSUME IInv, TypeOK', NEW r \in RunIds, Parking(r) PROVE IInv'
<1> USE DEF Parking, Others, Active, Terminal
<1>1. Unclaimed'
  BY DEF IInv, Unclaimed, InTurn, At, Onward, Acting
<1>2. OneTurnPerRun'
  BY DEF IInv, OneTurnPerRun, InTurn, At, Onward, Acting
<1>3. AskedWhenParked' /\ DecidedIsCompleted'
  BY DEF IInv, AskedWhenParked, DecidedIsCompleted
<1>4. ParentEnded' /\ OnlyChild'
  BY DEF IInv, ParentEnded, OnlyChild
<1>5. Allowed'
  BY DEF IInv, Allowed, Approved, Onward, DecidedIsCompleted
<1>6. NotYetRun'
  BY DEF IInv, NotYetRun, Onward
<1> QED
  BY <1>1, <1>2, <1>3, <1>4, <1>5, <1>6 DEF IInv

LEMMA ClaimingKeeps ==
    ASSUME IInv, TypeOK', NEW w \in Workers, NEW r \in RunIds, Claiming(w, r) PROVE IInv'
<1> USE DEF Claiming, Placed, Others, OtherTurns, Active, Terminal
<1>1. Unclaimed'
  BY DEF IInv, Unclaimed, InTurn, At
<1>2. OneTurnPerRun'
  BY DEF IInv, Unclaimed, OneTurnPerRun, InTurn, At
<1>3. AskedWhenParked' /\ DecidedIsCompleted'
  BY DEF IInv, AskedWhenParked, DecidedIsCompleted
<1>4. ParentEnded' /\ OnlyChild'
  BY DEF IInv, ParentEnded, OnlyChild
<1>5. Allowed'
  BY DEF IInv, Allowed, Approved, Acting, DecidedIsCompleted
<1>6. NotYetRun'
  BY DEF IInv, NotYetRun, Unclaimed
<1> QED
  BY <1>1, <1>2, <1>3, <1>4, <1>5, <1>6 DEF IInv

LEMMA StartingKeeps ==
    ASSUME IInv, TypeOK', NEW n \in RunIds, NEW p \in RunIds \cup {NoRun}, Starting(n, p)
    PROVE  IInv'
<1> USE DEF Starting, NewRow, Others, Active, Terminal
<1>1. Unclaimed'
  BY DEF IInv, Unclaimed, InTurn, At
<1>2. OneTurnPerRun'
  BY DEF IInv, OneTurnPerRun, InTurn, At
<1>3. AskedWhenParked' /\ DecidedIsCompleted'
  BY DEF IInv, AskedWhenParked, DecidedIsCompleted
<1>4. ParentEnded' /\ OnlyChild'
  BY DEF IInv, ParentEnded, OnlyChild, DecidedIsCompleted, NoRun, RunIds
<1>5. Allowed'
  <2>1. \A w \in Workers : turns[w][n].pc = "none"
    BY DEF IInv, Unclaimed, InTurn, At
  <2> QED
    BY <2>1 DEF IInv, Allowed, Approved, Acting, DecidedIsCompleted
<1>6. NotYetRun'
  BY DEF IInv, NotYetRun
<1> QED
  BY <1>1, <1>2, <1>3, <1>4, <1>5, <1>6 DEF IInv

LEMMA CarryingKeeps ==
    ASSUME IInv, TypeOK', NEW q \in RunIds, NEW n \in RunIds, Carrying(q, n) PROVE IInv'
<1> USE DEF Carrying, NewRow, Active, Terminal
<1>1. Unclaimed'
  BY DEF IInv, Unclaimed, InTurn, At
<1>2. OneTurnPerRun'
  BY DEF IInv, OneTurnPerRun, InTurn, At
<1>3. AskedWhenParked' /\ DecidedIsCompleted'
  BY DEF IInv, AskedWhenParked, DecidedIsCompleted
<1>4. ParentEnded'
  BY DEF IInv, ParentEnded
<1>5. OnlyChild'
  BY DEF IInv, OnlyChild, ParentEnded, DecidedIsCompleted
<1>6. Allowed'
  <2>1. \A w \in Workers : turns[w][n].pc = "none"
    BY DEF IInv, Unclaimed, InTurn, At
  <2>2. runs[q].decision = "none" /\ runs[n].decision = "none"
    BY DEF IInv, DecidedIsCompleted
  <2>3. SUFFICES ASSUME NEW x \in RunIds,
                        (runs[x].action = "approved" \/ \E w \in Workers : turns[w][x].pc \in Acting)'
                 PROVE  Approved(x)'
    BY DEF Allowed
  <2>4. CASE x = n
    BY <2>1, <2>3, <2>4 DEF Approved, Acting
  <2>5. CASE x # n
    <3>1. Approved(x)
      BY <2>3, <2>5 DEF IInv, Allowed
    <3>2. PICK p \in RunIds : /\ runs[x].parent = p
                              /\ runs[p].asks = "approval" /\ runs[p].decision = "approved"
      BY <3>1 DEF Approved
    <3>3. p # q /\ p # n
      BY <2>2, <3>2
    <3> QED
      BY <2>5, <3>2, <3>3 DEF Approved
  <2> QED
    BY <2>4, <2>5
<1>7. NotYetRun'
  BY DEF IInv, NotYetRun
<1> QED
  BY <1>1, <1>2, <1>3, <1>4, <1>5, <1>6, <1>7 DEF IInv

LEMMA ReadingKeeps ==
    ASSUME IInv, TypeOK', NEW w \in Workers, NEW r \in RunIds, Reading(w, r) PROVE IInv'
<1> USE DEF Reading, OtherTurns
<1>1. Unclaimed'
  BY DEF IInv, Unclaimed, InTurn, At
<1>2. OneTurnPerRun'
  BY DEF IInv, OneTurnPerRun, InTurn, At
<1>3. AskedWhenParked' /\ DecidedIsCompleted' /\ ParentEnded' /\ OnlyChild'
  BY DEF IInv, AskedWhenParked, DecidedIsCompleted, ParentEnded, OnlyChild
<1>4. Allowed'
  BY DEF IInv, Allowed, Approved, Acting
<1>5. NotYetRun'
  BY DEF IInv, NotYetRun, Acting
<1> QED
  BY <1>1, <1>2, <1>3, <1>4, <1>5 DEF IInv

LEMMA PerformingKeeps ==
    ASSUME IInv, TypeOK', NEW w \in Workers, NEW r \in RunIds, Performing(w, r) PROVE IInv'
<1> USE DEF Performing, OtherTurns
<1>1. Unclaimed'
  BY DEF IInv, TypeOK, Unclaimed, InTurn, At
<1>2. OneTurnPerRun'
  BY DEF IInv, OneTurnPerRun, InTurn, At
<1>3. AskedWhenParked' /\ DecidedIsCompleted' /\ ParentEnded' /\ OnlyChild'
  BY DEF IInv, AskedWhenParked, DecidedIsCompleted, ParentEnded, OnlyChild
<1>4. Allowed'
  BY DEF IInv, Allowed, Approved, Acting
<1>5. NotYetRun'
  BY DEF IInv, TypeOK, NotYetRun, Acting, OneTurnPerRun, InTurn, At
<1> QED
  BY <1>1, <1>2, <1>3, <1>4, <1>5 DEF IInv

---------------------------------------------------------------------------
(* Each request is of its kind. *)

LEMMA NoRunIsNone == NoRun \notin RunIds
BY DEF NoRun, RunIds

LEMMA KeyTypes ==
    /\ \A k \in Keys \cup PanelKeys : SendKey(k) \in RequestKeys
    /\ \A q \in RunIds : AnswerKey(q) \in RequestKeys /\ ApprovalKey(q) \in RequestKeys
BY DEF RequestKeys

\* A parked run is carried on: the row it closes and the row it queues.
LEMMA CarryOnIs ==
    ASSUME runs \in [RunIds -> Row], NEW q \in RunIds, runs[q].status = "waiting",
           NEW closed, NEW key \in RequestKeys,
           NEW action \in {"none", "pending", "approved"}, CarryOn(q, closed, key, action)
    PROVE  \E n \in RunIds :
             /\ n # q /\ NewRow(n, q) /\ runs'[n].action = action
             /\ runs'[q] = closed
             /\ \A x \in RunIds : x # q /\ x # n => runs'[x] = runs[x]
             /\ closed \in Row => runs' \in [RunIds -> Row]
<1>1. PICK n \in RunIds :
        /\ IsNext(n)
        /\ runs' = [runs EXCEPT ![q] = closed, ![n] = QueuedRow(runs[q].session, key, q, action)]
  BY DEF CarryOn
<1>2. runs[n].status = "absent" /\ n # q
  BY <1>1 DEF IsNext
<1>3. PICK s \in Sessions \cup {Nobody} : runs[q].session = s
  BY DEF Row
<1> DEFINE new == QueuedRow(s, key, q, action)
<1>4. /\ new \in Row /\ new.parent = q /\ new.status = "queued" /\ new.asks = "nothing"
      /\ new.decision = "none" /\ new.action = action
  <2>1. new \in Row
    BY QueuedRowType
  <2>2. new.parent = q /\ new.status = "queued"
    BY QueuedRowType
  <2>3. new.asks = "nothing" /\ new.decision = "none"
    BY QueuedRowType
  <2>4. new.action = action
    BY QueuedRowAction
  <2> QED
    BY <2>1, <2>2, <2>3, <2>4
<1>5. runs' = [runs EXCEPT ![q] = closed, ![n] = new]
  BY <1>1, <1>3
<1> HIDE DEF new
<1>6. /\ closed \in Row => runs' \in [RunIds -> Row]
      /\ runs'[q] = closed /\ runs'[n] = new
      /\ \A x \in RunIds : x # q /\ x # n => runs'[x] = runs[x]
  BY <1>2, <1>4, <1>5
<1>7. NewRow(n, q) /\ runs'[n].action = action
  BY <1>2, <1>4, <1>6 DEF NewRow
<1> QED
  BY <1>2, <1>6, <1>7

LEMMA ResumeWaitingIs ==
    ASSUME runs \in [RunIds -> Row], NEW q \in RunIds, NEW key \in RequestKeys,
           ResumeWaiting(q, key), turns' = turns, ran' = ran
    PROVE  runs' \in [RunIds -> Row] /\ \E n \in RunIds : Carrying(q, n)
<1>1. runs[q].status = "waiting" /\ runs[q].asks = "question"
  BY DEF ResumeWaiting, AwaitsAnswer
<1>2. CarryOn(q, Answered(runs[q]), key, "none")
  BY DEF ResumeWaiting
<1> DEFINE closed == Answered(runs[q])
<1>3. /\ closed \in Row /\ closed.parent = runs[q].parent /\ closed.status = "completed"
      /\ closed.asks = runs[q].asks /\ closed.decision = "answered"
      /\ closed.action = runs[q].action
  BY AnsweredType
<1>4. CarryOn(q, closed, key, "none")
  BY <1>2
<1> HIDE DEF closed
<1>5. PICK n \in RunIds :
             /\ n # q /\ NewRow(n, q) /\ runs'[n].action = "none"
             /\ runs'[q] = closed
             /\ \A x \in RunIds : x # q /\ x # n => runs'[x] = runs[x]
             /\ runs' \in [RunIds -> Row]
  BY <1>1, <1>3, <1>4, CarryOnIs
<1> QED
  BY <1>1, <1>3, <1>5 DEF Carrying

LEMMA ResumeApprovalIs ==
    ASSUME runs \in [RunIds -> Row], NEW q \in RunIds, NEW approve \in BOOLEAN,
           NEW key \in RequestKeys, ResumeApproval(q, approve, key), turns' = turns, ran' = ran
    PROVE  runs' \in [RunIds -> Row] /\ \E n \in RunIds : Carrying(q, n)
<1>1. runs[q].status = "waiting" /\ runs[q].asks = "approval"
  BY DEF ResumeApproval, AwaitsDecision
<1> DEFINE closed == Decided(runs[q], approve)
           action == IF approve THEN "approved" ELSE "none"
<1>2. CarryOn(q, closed, key, action)
  BY DEF ResumeApproval
<1>3. /\ closed \in Row /\ closed.parent = runs[q].parent /\ closed.status = "completed"
      /\ closed.asks = runs[q].asks /\ closed.decision = Verdict(approve)
      /\ closed.action = "none"
  BY DecidedType
<1>4. /\ Verdict(approve) \in {"approved", "rejected"}
      /\ action \in {"none", "approved"}
      /\ action = "approved" => Verdict(approve) = "approved"
  BY DEF Verdict
<1> HIDE DEF closed, action
<1>5. PICK n \in RunIds :
             /\ n # q /\ NewRow(n, q) /\ runs'[n].action = action
             /\ runs'[q] = closed
             /\ \A x \in RunIds : x # q /\ x # n => runs'[x] = runs[x]
             /\ runs' \in [RunIds -> Row]
  BY <1>1, <1>2, <1>3, <1>4, CarryOnIs
<1> QED
  BY <1>1, <1>3, <1>4, <1>5 DEF Carrying

\* What a request does: a row is steered, cancelled, started or carried on.
Requested == \/ Calm
             \/ \E r \in RunIds : Closing(r)
             \/ \E n \in RunIds, p \in RunIds \cup {NoRun} : Starting(n, p)
             \/ \E q, n \in RunIds : Carrying(q, n)

LEMMA SteerIs ==
    ASSUME TypeOK, NEW s \in Sessions, NEW k \in Keys, NEW who, NEW p, Steer(s, k, who, p)
    PROVE  TypeOK' /\ Calm
<1>1. PICK r \in RunIds : File(s, k, r) /\ Write(r, Steered(runs[r], k))
  BY DEF Steer
<1>2. runs[r] \in Row
  BY DEF TypeOK
<1>3. Steered(runs[r], k) \in Row /\ Like(Steered(runs[r], k), runs[r])
  BY <1>2, SteeredType
<1>4. runs' \in [RunIds -> Row] /\ \A x \in RunIds : Like(runs'[x], runs[x])
  BY <1>1, <1>3, WritingLike DEF TypeOK
<1>5. joined' \in [Keys -> [Sessions -> RunIds \cup {NoRun}]]
  BY <1>1, Filing DEF TypeOK
<1> QED
  BY <1>4, <1>5 DEF Steer, TypeOK, Calm, Onward

LEMMA StartIs ==
    ASSUME TypeOK, NEW s \in Sessions, NEW k \in Keys, NEW who, NEW p \in RunIds \cup {NoRun},
           Start(s, k, who, p)
    PROVE  TypeOK' /\ \E n \in RunIds : Starting(n, p)
<1>1. PICK n \in RunIds : IsNext(n) /\ Write(n, QueuedRow(s, SendKey(k), p, "none"))
  BY DEF Start
<1> DEFINE new == QueuedRow(s, SendKey(k), p, "none")
<1>2. /\ new \in Row /\ new.parent = p /\ new.status = "queued" /\ new.asks = "nothing"
      /\ new.decision = "none" /\ new.action = "none"
  BY KeyTypes, QueuedRowType
<1>3. Write(n, new)
  BY <1>1
<1> HIDE DEF new
<1>4. runs' \in [RunIds -> Row] /\ runs'[n] = new /\ \A x \in RunIds : x # n => runs'[x] = runs[x]
  BY <1>2, <1>3, Writing DEF TypeOK
<1>5. p # NoRun => runs[p].status \in Terminal \ {"completed"}
  BY DEF Start, Ordinary, Terminal
<1> QED
  BY <1>1, <1>2, <1>4, <1>5 DEF IsNext, Starting, NewRow, Others, Start, TypeOK

LEMMA CancelIs ==
    ASSUME TypeOK, NEW w \in Workers, NEW r \in RunIds, Cancel(w, r)
    PROVE  TypeOK' /\ Closing(r)
<1> DEFINE new == Cancelled(runs[r])
<1>1. runs[r] \in Row
  BY DEF TypeOK
<1>2. /\ new \in Row /\ new.parent = runs[r].parent /\ new.status = "cancelled"
      /\ new.asks = AsksLeft(runs[r].asks) /\ new.decision = runs[r].decision
      /\ new.action = "none"
  BY <1>1, CancelledType
<1>3. \/ AsksLeft(runs[r].asks) = runs[r].asks
      \/ runs[r].asks = "question" /\ AsksLeft(runs[r].asks) = "nothing"
  BY DEF AsksLeft
<1>4. Write(r, new) /\ runs[r].status \in Active \cup {"waiting"}
  BY DEF Cancel
<1> HIDE DEF new
<1>5. runs' \in [RunIds -> Row] /\ runs'[r] = new /\ \A x \in RunIds : x # r => runs'[x] = runs[x]
  BY <1>2, <1>4, Writing DEF TypeOK
<1>6. turns' \in Table /\ Onward
  <2>1. CASE turns[w][r].pc = "none"
    BY <2>1 DEF Cancel, Onward, TypeOK, Table
  <2>2. CASE turns[w][r].pc # "none"
    <3>1. Stop(w, r)
      BY <2>2 DEF Cancel, Stop
    <3> QED
      BY <3>1, Stopping DEF Onward, TypeOK, Table
  <2> QED
    BY <2>1, <2>2
<1> QED
  BY <1>2, <1>3, <1>4, <1>5, <1>6 DEF Closing, Others, Terminal, Cancel, TypeOK, Table

LEMMA RequestIs == ASSUME TypeOK, Request PROVE TypeOK' /\ Requested
<1>1. ASSUME NEW s \in Sessions, NEW k \in Keys, JoinWaiting(s, k)
      PROVE  TypeOK' /\ Calm
  <2>1. joined' \in [Keys -> [Sessions -> RunIds \cup {NoRun}]]
    BY <1>1, Filing DEF JoinWaiting, TypeOK
  <2> QED
    BY <1>1, <2>1 DEF JoinWaiting, TypeOK, Calm, Onward, Like
<1>2. ASSUME NEW s \in Sessions, NEW k \in Keys, AnswerBySubmit(s, k)
      PROVE  TypeOK' /\ \E q, n \in RunIds : Carrying(q, n)
  <2>1. PICK q \in RunIds : ResumeWaiting(q, AnswerKey(q)) /\ File(s, k, q)
    BY <1>2 DEF AnswerBySubmit
  <2>2. joined' \in [Keys -> [Sessions -> RunIds \cup {NoRun}]]
    BY <2>1, Filing DEF TypeOK
  <2>3. runs' \in [RunIds -> Row] /\ \E n \in RunIds : Carrying(q, n)
    BY <1>2, <2>1, KeyTypes, ResumeWaitingIs DEF AnswerBySubmit, TypeOK
  <2> QED
    BY <1>2, <2>2, <2>3 DEF AnswerBySubmit, TypeOK
<1>3. ASSUME NEW s \in Sessions, NEW k \in Keys, NEW who, NEW approve \in BOOLEAN,
             DecideBySubmit(s, k, who, approve)
      PROVE  TypeOK' /\ \E q, n \in RunIds : Carrying(q, n)
  <2>1. PICK q \in RunIds : ResumeApproval(q, approve, ApprovalKey(q)) /\ File(s, k, q)
    BY <1>3 DEF DecideBySubmit
  <2>2. joined' \in [Keys -> [Sessions -> RunIds \cup {NoRun}]]
    BY <2>1, Filing DEF TypeOK
  <2>3. runs' \in [RunIds -> Row] /\ \E n \in RunIds : Carrying(q, n)
    BY <1>3, <2>1, KeyTypes, ResumeApprovalIs DEF DecideBySubmit, TypeOK
  <2> QED
    BY <1>3, <2>2, <2>3 DEF DecideBySubmit, TypeOK
<1>4. ASSUME NEW q \in RunIds, AnswerRun(q)
      PROVE  TypeOK' /\ \E n \in RunIds : Carrying(q, n)
  <2>1. PICK key \in PanelRequest(AnswerKey(q)) :
          ResumeWaiting(q, key) /\ UNCHANGED <<joined, turns, ran, heard>>
    BY <1>4 DEF AnswerRun
  <2>2. key \in RequestKeys
    BY KeyTypes DEF PanelRequest
  <2>3. runs' \in [RunIds -> Row] /\ \E n \in RunIds : Carrying(q, n)
    BY <2>1, <2>2, ResumeWaitingIs DEF TypeOK
  <2> QED
    BY <2>1, <2>3 DEF TypeOK
<1>5. ASSUME NEW q \in RunIds, NEW approve \in BOOLEAN, DecideApproval(q, approve)
      PROVE  TypeOK' /\ \E n \in RunIds : Carrying(q, n)
  <2>1. PICK key \in PanelRequest(ApprovalKey(q)) :
          ResumeApproval(q, approve, key) /\ UNCHANGED <<joined, turns, ran, heard>>
    BY <1>5 DEF DecideApproval
  <2>2. key \in RequestKeys
    BY KeyTypes DEF PanelRequest
  <2>3. runs' \in [RunIds -> Row] /\ \E n \in RunIds : Carrying(q, n)
    BY <2>1, <2>2, ResumeApprovalIs DEF TypeOK
  <2> QED
    BY <2>1, <2>3 DEF TypeOK
<1> QED
  BY <1>1, <1>2, <1>3, <1>4, <1>5, SteerIs, StartIs, CancelIs DEF Request, Requested

---------------------------------------------------------------------------
(* Each step of a worker is of its kind. *)

\* What a step leaves of the runs when it changes no more than a lease, a steer or an action.
Gentle == runs' \in [RunIds -> Row] /\ \A x \in RunIds : Like(runs'[x], runs[x])

LEMMA UnchangedIsGentle == ASSUME TypeOK, UNCHANGED runs PROVE Gentle
BY DEF TypeOK, Gentle, Like

LEMMA LeaseIsGentle ==
    ASSUME TypeOK, NEW r \in RunIds, NEW lease \in {"none", "live", "lapsed"},
           Write(r, WithLease(runs[r], lease))
    PROVE  Gentle
<1>1. runs[r] \in Row
  BY DEF TypeOK
<1>2. WithLease(runs[r], lease) \in Row /\ Like(WithLease(runs[r], lease), runs[r])
  BY <1>1, WithLeaseType
<1> QED
  BY <1>2, WritingLike DEF TypeOK, Gentle

LEMMA RenewIsGentle == ASSUME TypeOK, NEW r \in RunIds, Renew(r) PROVE Gentle
BY LeaseIsGentle DEF Renew

\* A turn that moves to a later point, or within the approved action, is onward.
LEMMA TurnedOnward ==
    ASSUME TypeOK, NEW w \in Workers, NEW r \in RunIds, NEW t \in Turn, Turned(w, r, t),
           \/ turns[w][r].pc # "none" /\ t.pc \notin {"begun"} \cup Acting
           \/ turns[w][r].pc \in Acting /\ t.pc \in Acting
    PROVE  turns' \in Table /\ Onward
<1>1. /\ turns' \in Table
      /\ turns'[w][r] = t
      /\ \A v \in Workers, x \in RunIds : v # w \/ x # r => turns'[v][x] = turns[v][x]
  BY Turning DEF TypeOK, Table
<1> QED
  BY <1>1 DEF Onward

LEMMA GotoOnward ==
    ASSUME TypeOK, NEW w \in Workers, NEW r \in RunIds, NEW pc \in Steps, Goto(w, r, pc),
           \/ turns[w][r].pc # "none" /\ pc \notin {"begun"} \cup Acting
           \/ turns[w][r].pc \in Acting /\ pc \in Acting
    PROVE  turns' \in Table /\ Onward
<1>1. Later(turns[w][r], pc) \in Turn /\ Later(turns[w][r], pc).pc = pc
  BY LaterType DEF TypeOK
<1> QED
  BY <1>1, TurnedOnward DEF Goto

LEMMA LeaveOnward ==
    ASSUME TypeOK, NEW w \in Workers, NEW r \in RunIds, Leave(w, r), turns[w][r].pc # "none"
    PROVE  turns' \in Table /\ Onward
BY TurnedOnward, NoTurnType DEF Leave, Acting

LEMMA StopOnward ==
    ASSUME TypeOK, NEW w \in Workers, NEW r \in RunIds, Stop(w, r)
    PROVE  turns' \in Table /\ Onward
BY Stopping DEF TypeOK, Table, Onward

LEMMA CalmStep ==
    ASSUME TypeOK, Gentle, turns' \in Table, Onward, UNCHANGED <<joined, ran>>,
           heard' \subseteq Keys
    PROVE  TypeOK' /\ Calm
BY DEF TypeOK, Gentle, Table, Calm

\* A run's row leaves "running" for the status a turn, or a recovery, gives it.
LEMMA UnownedStep ==
    ASSUME TypeOK, NEW r \in RunIds, NEW status \in Terminal,
           runs[r].status = "running", Write(r, Unowned(runs[r], status)),
           turns' \in Table, Onward, UNCHANGED <<joined, ran, heard>>
    PROVE  TypeOK' /\ Closing(r)
<1>1. runs[r] \in Row /\ status \in Statuses
  BY DEF TypeOK, Statuses
<1>2. /\ Unowned(runs[r], status) \in Row
      /\ Placed(Unowned(runs[r], status), runs[r], status)
  BY <1>1, UnownedType
<1>3. /\ runs' \in [RunIds -> Row]
      /\ Placed(runs'[r], runs[r], status)
      /\ \A x \in RunIds : x # r => runs'[x] = runs[x]
  BY <1>2, Writing DEF TypeOK
<1> QED
  BY <1>3 DEF Placed, Closing, Others, Active, TypeOK, Table

Executed == \/ Calm
            \/ \E r \in RunIds : Closing(r) \/ Parking(r)
            \/ \E w \in Workers, r \in RunIds :
                 Claiming(w, r) \/ Reading(w, r) \/ Performing(w, r)

LEMMA ClaimIs ==
    ASSUME TypeOK, NEW w \in Workers, NEW r \in RunIds, Claim(w, r)
    PROVE  TypeOK' /\ Claiming(w, r)
<1>1. runs[r] \in Row
  BY DEF TypeOK
<1>2. Leased(runs[r], w) \in Row /\ Placed(Leased(runs[r], w), runs[r], "running")
  BY <1>1, LeasedType
<1>3. /\ runs' \in [RunIds -> Row]
      /\ Placed(runs'[r], runs[r], "running")
      /\ \A x \in RunIds : x # r => runs'[x] = runs[x]
  BY <1>2, Writing DEF TypeOK, Claim
<1>4. Later(NoTurn, "begun") \in Turn /\ Later(NoTurn, "begun").pc = "begun"
  BY LaterType, NoTurnType DEF Steps
<1>5. /\ turns' \in Table
      /\ turns'[w][r].pc = "begun"
      /\ \A v \in Workers, x \in RunIds : v # w \/ x # r => turns'[v][x] = turns[v][x]
  BY <1>4, Turning DEF TypeOK, Table, Claim
<1> QED
  BY <1>3, <1>5 DEF Claim, Claiming, Others, OtherTurns, TypeOK, Table

LEMMA ReadActionIs ==
    ASSUME TypeOK, NEW w \in Workers, NEW r \in RunIds, ReadAction(w, r)
    PROVE  TypeOK' /\ (Calm \/ Reading(w, r))
<1>1. CASE runs[r].action = "approved"
  <2>1. Goto(w, r, "spending") /\ "spending" \in Steps
    BY <1>1 DEF ReadAction, Steps
  <2>2. /\ turns' \in Table
        /\ turns'[w][r].pc = "spending"
        /\ \A v \in Workers, x \in RunIds : v # w \/ x # r => turns'[v][x] = turns[v][x]
    BY <2>1, Going DEF TypeOK, Table
  <2> QED
    BY <1>1, <2>2 DEF ReadAction, Reading, OtherTurns, At, TypeOK, Table
<1>2. CASE runs[r].action # "approved"
  <2>1. Goto(w, r, "stepping") /\ "stepping" \in Steps
    BY <1>2 DEF ReadAction, Steps
  <2>2. turns' \in Table /\ Onward
    BY <2>1, GotoOnward DEF ReadAction, At, Acting
  <2> QED
    BY <2>2, UnchangedIsGentle, CalmStep DEF ReadAction, TypeOK
<1> QED
  BY <1>1, <1>2

LEMMA SpendActionIs ==
    ASSUME TypeOK, NEW w \in Workers, NEW r \in RunIds, SpendAction(w, r)
    PROVE  TypeOK' /\ Calm
<1>1. runs[r] \in Row
  BY DEF TypeOK
<1>2. Spent(runs[r]) \in Row /\ Like(Spent(runs[r]), runs[r])
  BY <1>1, SpentType
<1>3. Gentle
  BY <1>2, WritingLike DEF SpendAction, TypeOK, Gentle
<1>4. turns' \in Table /\ Onward
  BY GotoOnward DEF SpendAction, At, Acting, Steps
<1> QED
  BY <1>3, <1>4, CalmStep DEF SpendAction, TypeOK

LEMMA StartApprovedIs ==
    ASSUME TypeOK, NEW w \in Workers, NEW r \in RunIds, StartApproved(w, r)
    PROVE  TypeOK' /\ Calm
<1>1. Gentle
  BY RenewIsGentle, UnchangedIsGentle DEF StartApproved
<1>2. turns' \in Table /\ Onward
  BY GotoOnward DEF StartApproved, At, Acting, Steps
<1> QED
  BY <1>1, <1>2, CalmStep DEF StartApproved, TypeOK

LEMMA RunApprovedIs ==
    ASSUME TypeOK, NEW w \in Workers, NEW r \in RunIds, RunApproved(w, r)
    PROVE  TypeOK' /\ Performing(w, r)
<1>1. PICK pc \in {"stepping", "failing"} : Goto(w, r, pc)
  BY DEF RunApproved
<1>2. /\ turns' \in Table
      /\ turns'[w][r].pc = pc
      /\ \A v \in Workers, x \in RunIds : v # w \/ x # r => turns'[v][x] = turns[v][x]
  BY <1>1, Going DEF TypeOK, Table, Steps
<1>3. ran' \in [RunIds -> Nat]
  BY DEF RunApproved, TypeOK
<1> QED
  BY <1>2, <1>3 DEF RunApproved, Performing, OtherTurns, At, TypeOK, Table

LEMMA PrepareStepIs ==
    ASSUME TypeOK, NEW w \in Workers, NEW r \in RunIds, PrepareStep(w, r)
    PROVE  TypeOK' /\ Calm
<1>1. Gentle
  BY RenewIsGentle, UnchangedIsGentle DEF PrepareStep
<1>2. turns' \in Table /\ Onward
  BY GotoOnward DEF PrepareStep, At, Acting, Steps
<1> QED
  BY <1>1, <1>2, CalmStep DEF PrepareStep, TypeOK

LEMMA ReadSteerIs ==
    ASSUME TypeOK, NEW w \in Workers, NEW r \in RunIds, ReadSteer(w, r)
    PROVE  TypeOK' /\ Calm
<1> DEFINE holding == Holding(turns[w][r], runs[r].steer)
<1>1. turns[w][r] \in Turn /\ runs[r].steer \in Seq(Keys)
  BY DEF TypeOK, Row
<1>2. holding \in Turn
  BY <1>1, HoldingType
<1>3. Later(holding, "clearing") \in Turn /\ Later(holding, "clearing").pc = "clearing"
  BY <1>2, LaterType DEF Steps
<1>4. Turned(w, r, Later(holding, "clearing")) \/ Goto(w, r, "thinking")
  BY DEF ReadSteer
<1> HIDE DEF holding
<1>5. turns' \in Table /\ Onward
  BY <1>3, <1>4, TurnedOnward, GotoOnward DEF ReadSteer, At, Acting, Steps
<1> QED
  BY <1>5, UnchangedIsGentle, CalmStep DEF ReadSteer, TypeOK

LEMMA ClearSteerIs ==
    ASSUME TypeOK, NEW w \in Workers, NEW r \in RunIds, ClearSteer(w, r)
    PROVE  TypeOK' /\ Calm
<1> DEFINE held == turns[w][r].held
           emptied == Holding(turns[w][r], <<>>)
<1>1. turns[w][r] \in Turn /\ runs[r] \in Row /\ held \in Seq(Keys)
  BY DEF TypeOK, Turn
<1>2. Cleared(runs[r], held) \in Row /\ Like(Cleared(runs[r], held), runs[r])
  BY <1>1, ClearedType
<1>3. Gentle
  BY <1>2, WritingLike DEF ClearSteer, TypeOK, Gentle
<1>4. emptied \in Turn
  <2>1. <<>> \in Seq(Keys)
    OBVIOUS
  <2> QED
    BY <1>1, <2>1, HoldingType
<1>5. Later(emptied, "thinking") \in Turn /\ Later(emptied, "thinking").pc = "thinking"
  BY <1>4, LaterType DEF Steps
<1>6. Turned(w, r, Later(emptied, "thinking"))
  BY DEF ClearSteer
<1>7. heard' \subseteq Keys
  BY <1>1 DEF ClearSteer, TypeOK
<1> HIDE DEF emptied
<1>8. turns' \in Table /\ Onward
  BY <1>5, <1>6, TurnedOnward DEF ClearSteer, At, Acting
<1> QED
  BY <1>3, <1>7, <1>8, CalmStep DEF ClearSteer, TypeOK

LEMMA SpeakingIs ==
    ASSUME TypeOK, NEW w \in Workers, NEW r \in RunIds,
           EndStep(w, r) \/ Answer(w, r) \/ Fail(w, r)
    PROVE  TypeOK' /\ Calm
<1>1. Gentle /\ UNCHANGED <<joined, ran, heard>>
  BY UnchangedIsGentle DEF EndStep, Answer, Fail
<1>2. turns' \in Table /\ Onward
  <2>1. CASE EndStep(w, r)
    BY <2>1, GotoOnward DEF EndStep, At, Acting, Steps
  <2>2. CASE Answer(w, r)
    BY <2>2, GotoOnward DEF Answer, At, Acting, Steps
  <2>3. CASE Fail(w, r)
    BY <2>3, GotoOnward DEF Fail, Acting, Steps
  <2> QED
    BY <2>1, <2>2, <2>3
<1>3. heard' \subseteq Keys
  BY <1>1 DEF TypeOK
<1> QED
  BY <1>1, <1>2, <1>3, CalmStep

LEMMA PauseIs ==
    ASSUME TypeOK, NEW w \in Workers, NEW r \in RunIds, Pause(w, r)
    PROVE  TypeOK' /\ Calm
<1> DEFINE stopped == Aborted(turns[w][r])
<1>1. stopped \in Turn
  BY AbortedType DEF TypeOK
<1>2. \A pc \in Steps : Later(stopped, pc) \in Turn /\ Later(stopped, pc).pc = pc
  BY <1>1, LaterType
<1>3. Turned(w, r, Later(stopped, "asking")) \/ Turned(w, r, Later(stopped, "parking"))
  BY DEF Pause
<1> HIDE DEF stopped
<1>4. turns' \in Table /\ Onward
  BY <1>2, <1>3, TurnedOnward DEF Pause, At, Acting, Steps
<1>5. Gentle
  BY RenewIsGentle, UnchangedIsGentle DEF Pause
<1> QED
  BY <1>4, <1>5, CalmStep DEF Pause, TypeOK

LEMMA ParkIs ==
    ASSUME TypeOK, NEW w \in Workers, NEW r \in RunIds, Park(w, r)
    PROVE  TypeOK' /\ (Calm \/ Parking(r))
<1>1. turns' \in Table /\ Onward
  BY LeaveOnward DEF Park, At
<1>2. CASE UNCHANGED runs
  BY <1>1, <1>2, UnchangedIsGentle, CalmStep DEF Park, TypeOK
<1>3. ASSUME NEW asks \in {"question", "approval"}, Owned(w, r), Write(r, Parked(runs[r], asks))
      PROVE  TypeOK' /\ Parking(r)
  <2> DEFINE new == Parked(runs[r], asks)
  <2>1. runs[r] \in Row
    BY DEF TypeOK
  <2>2. /\ new \in Row /\ new.parent = runs[r].parent /\ new.status = "waiting"
        /\ new.asks = asks /\ new.decision = runs[r].decision
        /\ new.action = "approved" => runs[r].action = "approved"
    BY <2>1, ParkedType
  <2>3. Write(r, new)
    BY <1>3
  <2> HIDE DEF new
  <2>4. /\ runs' \in [RunIds -> Row] /\ runs'[r] = new
        /\ \A x \in RunIds : x # r => runs'[x] = runs[x]
    BY <2>2, <2>3, Writing DEF TypeOK
  <2>5. runs[r].status = "running"
    BY <1>3 DEF Owned
  <2> QED
    BY <1>1, <2>2, <2>4, <2>5 DEF Parking, Others, Park, TypeOK, Table
<1> QED
  BY <1>2, <1>3 DEF Park

LEMMA EndingIs ==
    ASSUME TypeOK, NEW w \in Workers, NEW r \in RunIds, Complete(w, r) \/ Settle(w, r)
    PROVE  TypeOK' /\ (Calm \/ Closing(r))
<1>1. UNCHANGED <<joined, ran, heard>>
  BY DEF Complete, Settle
<1>2. turns' \in Table /\ Onward
  <2>1. CASE Complete(w, r)
    BY <2>1, LeaveOnward, GotoOnward DEF Complete, At, Acting, Steps
  <2>2. CASE Settle(w, r)
    BY <2>2, LeaveOnward DEF Settle, At
  <2> QED
    BY <2>1, <2>2
<1>3. \/ UNCHANGED runs
      \/ \E status \in Terminal : Owned(w, r) /\ Write(r, Unowned(runs[r], status))
  BY DEF Complete, Settle, Terminal
<1>4. CASE UNCHANGED runs
  BY <1>1, <1>2, <1>4, UnchangedIsGentle, CalmStep DEF TypeOK
<1>5. ASSUME NEW status \in Terminal, Owned(w, r), Write(r, Unowned(runs[r], status))
      PROVE  TypeOK' /\ Closing(r)
  BY <1>1, <1>2, <1>5, UnownedStep DEF Owned
<1> QED
  BY <1>3, <1>4, <1>5

LEMMA PulseIs ==
    ASSUME TypeOK, NEW w \in Workers, NEW r \in RunIds, Pulse(w, r) \/ Abort(w, r)
    PROVE  TypeOK' /\ Calm
<1>1. Gentle /\ UNCHANGED <<joined, ran, heard>>
  BY RenewIsGentle, UnchangedIsGentle DEF Pulse, Abort
<1>2. turns' \in Table /\ Onward
  BY StopOnward DEF Pulse, Abort, TypeOK, Table, Onward
<1> QED
  BY <1>1, <1>2, CalmStep DEF TypeOK

LEMMA RecoverIs ==
    ASSUME TypeOK, NEW w \in Workers, NEW r \in RunIds, Recover(w, r)
    PROVE  TypeOK' /\ (Calm \/ Closing(r))
<1>1. turns' \in Table /\ Onward /\ UNCHANGED <<joined, ran, heard>>
  BY DEF Recover, TypeOK, Table, Onward
<1>2. CASE Renew(r)
  BY <1>1, <1>2, RenewIsGentle, CalmStep DEF TypeOK
<1>3. CASE Write(r, Unowned(runs[r], "interrupted"))
  BY <1>1, <1>3, UnownedStep DEF Recover, Terminal
<1> QED
  BY <1>2, <1>3 DEF Recover

LEMMA LapseIs == ASSUME TypeOK, NEW r \in RunIds, Lapse(r) PROVE TypeOK' /\ Calm
<1>1. Gentle
  BY LeaseIsGentle DEF Lapse
<1> QED
  BY <1>1, CalmStep DEF Lapse, TypeOK, Table, Onward

LEMMA CrashIs == ASSUME TypeOK, NEW w \in Workers, Crash(w) PROVE TypeOK' /\ Calm
<1>1. /\ turns' \in Table
      /\ \A v \in Workers, x \in RunIds :
           turns'[v][x].pc = turns[v][x].pc \/ turns'[v][x].pc = "none"
  BY NoTurnType DEF Crash, TypeOK, Table
<1>2. Onward
  BY <1>1 DEF Onward, Acting
<1> QED
  BY <1>1, <1>2, UnchangedIsGentle, CalmStep DEF Crash, TypeOK

LEMMA ExecutionIs == ASSUME TypeOK, Execution PROVE TypeOK' /\ Executed
<1>1. ASSUME NEW w \in Workers, NEW r \in RunIds, TurnStep(w, r) PROVE TypeOK' /\ Executed
  BY <1>1, ReadActionIs, SpendActionIs, StartApprovedIs, RunApprovedIs, PrepareStepIs,
     ReadSteerIs, ClearSteerIs, SpeakingIs, PauseIs, ParkIs, EndingIs, PulseIs
     DEF TurnStep, Executed
<1> QED
  BY <1>1, ClaimIs, RecoverIs, LapseIs, CrashIs DEF Execution, Executed

---------------------------------------------------------------------------
(* The invariant. *)

LEMMA InitEstablishes == ASSUME Init PROVE IInv
<1>1. TypeOK
  BY NoRowType, NoTurnType DEF Init, TypeOK, NoRun
<1>2. \A r \in RunIds : /\ runs[r] = NoRow /\ ran[r] = 0
                        /\ \A w \in Workers : turns[w][r].pc = "none"
  BY NoTurnType DEF Init
<1>3. /\ NoRow.status = "absent" /\ NoRow.parent = NoRun /\ NoRow.asks = "nothing"
      /\ NoRow.decision = "none" /\ NoRow.action = "none"
  BY DEF NoRow
<1> QED
  BY <1>1, <1>2, <1>3, NoRunIsNone
     DEF IInv, Unclaimed, OneTurnPerRun, InTurn, At, AskedWhenParked, DecidedIsCompleted,
         ParentEnded, OnlyChild, Allowed, Acting, NotYetRun

\* The kinds of step, together.
Kinds == \/ Calm
         \/ \E r \in RunIds : Closing(r) \/ Parking(r)
         \/ \E n \in RunIds, p \in RunIds \cup {NoRun} : Starting(n, p)
         \/ \E q, n \in RunIds : Carrying(q, n)
         \/ \E w \in Workers, r \in RunIds :
              Claiming(w, r) \/ Reading(w, r) \/ Performing(w, r)

LEMMA NextIs == ASSUME TypeOK, Next PROVE TypeOK' /\ Kinds
BY RequestIs, ExecutionIs DEF Next, Requested, Executed, Kinds

LEMMA KindsKeep == ASSUME IInv, TypeOK', Kinds PROVE IInv'
BY CalmKeeps, ClosingKeeps, ParkingKeeps, StartingKeeps, CarryingKeeps, ClaimingKeeps,
   ReadingKeeps, PerformingKeeps DEF Kinds

LEMMA StutterKeeps == ASSUME IInv, UNCHANGED vars PROVE IInv'
<1>1. TypeOK'
  BY DEF IInv, TypeOK, vars
<1>2. Calm
  BY DEF vars, Calm, Like, Onward
<1> QED
  BY <1>1, <1>2, CalmKeeps

\* The inductive invariant of the run subsystem holds in every reachable state.
THEOREM Invariance == Spec => []IInv
<1>1. Init => IInv
  BY InitEstablishes
<1>2. IInv /\ [Next]_vars => IInv'
  BY NextIs, KindsKeep, StutterKeeps DEF IInv
<1> QED
  BY <1>1, <1>2, PTL DEF Spec

\* Every column, turn and history keeps its type, whatever is asked and whatever crashes.
THEOREM TypeCorrect == Spec => []TypeOK
<1>1. IInv => TypeOK
  BY DEF IInv
<1> QED
  BY <1>1, Invariance, PTL

\* No run is ever inside two turns: claim takes a queued run alone, and a run that left the
\* queue never returns to it, however leases lapse and workers crash.
THEOREM SingleTurn == Spec => []OneTurnPerRun
<1>1. IInv => OneTurnPerRun
  BY DEF IInv
<1> QED
  BY <1>1, Invariance, PTL

---------------------------------------------------------------------------
(* The detailed model implements ApprovedAction: every kind of step maps to *)
(* one of its steps, or to a stutter.                                       *)

fateOf == [q \in RunIds |-> Fate(q)]
performancesOf == [q \in RunIds |-> Performances(q)]
Mapped == Approval!Next \/ UNCHANGED <<fateOf, performancesOf>>

\* A run whose status, asks and decision stand keeps its fate.
Settled(q) == /\ runs'[q].asks = runs[q].asks /\ runs'[q].status = runs[q].status
              /\ runs'[q].decision = runs[q].decision

LEMMA SettledKeepsFate == ASSUME NEW q, Settled(q) PROVE Fate(q)' = Fate(q)
BY DEF Settled, Fate, AwaitsDecision

LEMMA NothingAskedIsUnasked == ASSUME NEW q, runs[q].asks # "approval" PROVE Fate(q) = "unasked"
BY DEF Fate, AwaitsDecision

\* The executions of every call stay when no run gains a parent but one that has run nothing.
LEMMA SameRanSamePerformances ==
    ASSUME ran' = ran, TypeOK,
           \A x \in RunIds : runs'[x].parent = runs[x].parent \/ ran[x] = 0
    PROVE  performancesOf' = performancesOf
<1>1. ASSUME NEW q \in RunIds PROVE Performances(q)' = Performances(q)
  <2>1. {x \in Continuations(q) : ran[x] > 0}' = {x \in Continuations(q) : ran[x] > 0}
    BY DEF Continuations, TypeOK
  <2> QED
    BY <2>1 DEF Performances
<1> QED
  BY <1>1 DEF performancesOf

LEMMA CalmMaps == ASSUME IInv, Calm PROVE Mapped
<1>1. \A q \in RunIds : Fate(q)' = Fate(q)
  BY SettledKeepsFate DEF Calm, Like, Settled
<1>2. fateOf' = fateOf
  BY <1>1 DEF fateOf
<1>3. performancesOf' = performancesOf
  BY SameRanSamePerformances DEF Calm, Like, IInv
<1> QED
  BY <1>2, <1>3 DEF Mapped

\* One call's fate changes, and nothing is executed.
LEMMA OneFateMaps ==
    ASSUME NEW q \in RunIds, performancesOf' = performancesOf,
           \A x \in RunIds : x # q => Fate(x)' = Fate(x),
           \/ Fate(q)' = Fate(q)
           \/ Fate(q) = "unasked" /\ Fate(q)' = "asked"
           \/ Fate(q) = "asked" /\ Fate(q)' \in {"approved", "dropped"}
    PROVE  Mapped
<1>1. CASE Fate(q)' = Fate(q)
  BY <1>1 DEF Mapped, fateOf
<1>2. CASE Fate(q)' # Fate(q)
  <2>1. fateOf' = [fateOf EXCEPT ![q] = Fate(q)']
    BY DEF fateOf
  <2>2. fateOf[q] = Fate(q)
    BY DEF fateOf
  <2>3. CASE Fate(q) = "unasked" /\ Fate(q)' = "asked"
    <3>1. Approval!Ask(q)
      BY <2>1, <2>2, <2>3 DEF Approval!Ask, fateOf, performancesOf
    <3> QED
      BY <3>1 DEF Approval!Next, Mapped
  <2>4. CASE Fate(q) = "asked" /\ Fate(q)' \in {"approved", "dropped"}
    <3>1. Approval!Decide(q)
      BY <2>1, <2>2, <2>4 DEF Approval!Decide, fateOf, performancesOf
    <3> QED
      BY <3>1 DEF Approval!Next, Mapped
  <2> QED
    BY <1>2, <2>3, <2>4
<1> QED
  BY <1>1, <1>2

LEMMA ClosingMaps == ASSUME IInv, NEW r \in RunIds, Closing(r) PROVE Mapped
<1>1. performancesOf' = performancesOf
  BY SameRanSamePerformances DEF Closing, Others, IInv
<1>2. \A x \in RunIds : x # r => Fate(x)' = Fate(x)
  BY SettledKeepsFate DEF Closing, Others, Settled
<1>3. \/ Fate(r)' = Fate(r)
      \/ Fate(r) = "asked" /\ Fate(r)' \in {"approved", "dropped"}
  <2>1. CASE AwaitsDecision(r)
    BY <2>1 DEF Closing, Terminal, AwaitsDecision, Fate
  <2>2. CASE ~AwaitsDecision(r)
    BY <2>2 DEF Closing, Terminal, AwaitsDecision, Fate
  <2> QED
    BY <2>1, <2>2
<1> QED
  BY <1>1, <1>2, <1>3, OneFateMaps

LEMMA ParkingMaps == ASSUME IInv, NEW r \in RunIds, Parking(r) PROVE Mapped
<1>1. performancesOf' = performancesOf
  BY SameRanSamePerformances DEF Parking, Others, IInv
<1>2. \A x \in RunIds : x # r => Fate(x)' = Fate(x)
  BY SettledKeepsFate DEF Parking, Others, Settled
<1>3. Fate(r) = "unasked"
  BY NothingAskedIsUnasked DEF IInv, AskedWhenParked, Parking
<1>4. Fate(r)' \in {"unasked", "asked"}
  BY DEF Parking, Fate, AwaitsDecision, IInv, DecidedIsCompleted
<1> QED
  BY <1>1, <1>2, <1>3, <1>4, OneFateMaps

LEMMA ClaimingMaps ==
    ASSUME IInv, NEW w \in Workers, NEW r \in RunIds, Claiming(w, r) PROVE Mapped
<1>1. performancesOf' = performancesOf
  BY SameRanSamePerformances DEF Claiming, Placed, Others, IInv
<1>2. \A x \in RunIds : x # r => Fate(x)' = Fate(x)
  BY SettledKeepsFate DEF Claiming, Others, Settled
<1>3. Fate(r)' = Fate(r)
  BY DEF IInv, AskedWhenParked, Claiming, Placed, Fate, AwaitsDecision
<1> QED
  BY <1>1, <1>2, <1>3, OneFateMaps

LEMMA StartingMaps ==
    ASSUME IInv, NEW n \in RunIds, NEW p \in RunIds \cup {NoRun}, Starting(n, p) PROVE Mapped
<1>1. performancesOf' = performancesOf
  BY SameRanSamePerformances DEF Starting, NewRow, Others, IInv, Unclaimed
<1>2. \A x \in RunIds : x # n => Fate(x)' = Fate(x)
  BY SettledKeepsFate DEF Starting, Others, Settled
<1>3. Fate(n)' = Fate(n)
  BY DEF IInv, AskedWhenParked, Starting, NewRow, Fate, AwaitsDecision
<1> QED
  BY <1>1, <1>2, <1>3, OneFateMaps

LEMMA CarryingMaps ==
    ASSUME IInv, NEW q \in RunIds, NEW n \in RunIds, Carrying(q, n) PROVE Mapped
<1>1. performancesOf' = performancesOf
  BY SameRanSamePerformances DEF Carrying, NewRow, IInv, Unclaimed
<1>2. Fate(n)' = Fate(n)
  BY DEF IInv, AskedWhenParked, Carrying, NewRow, Fate, AwaitsDecision
<1>3. \A x \in RunIds : x # q => Fate(x)' = Fate(x)
  BY <1>2, SettledKeepsFate DEF Carrying, Settled
<1>4. \/ Fate(q)' = Fate(q)
      \/ Fate(q) = "asked" /\ Fate(q)' \in {"approved", "dropped"}
  <2>1. runs[q].decision = "none"
    BY DEF IInv, DecidedIsCompleted, Carrying
  <2> QED
    BY <2>1 DEF Carrying, AwaitsDecision, Fate
<1> QED
  BY <1>1, <1>3, <1>4, OneFateMaps

LEMMA ReadingMaps ==
    ASSUME IInv, NEW w \in Workers, NEW r \in RunIds, Reading(w, r) PROVE Mapped
BY SettledKeepsFate, SameRanSamePerformances DEF Reading, Settled, Mapped, fateOf, IInv

LEMMA PerformingMaps ==
    ASSUME IInv, NEW w \in Workers, NEW r \in RunIds, Performing(w, r) PROVE Mapped
<1>1. ran[r] = 0 /\ Approved(r) /\ ran \in [RunIds -> Nat]
  BY DEF IInv, TypeOK, Performing, NotYetRun, Allowed, Acting
<1>2. PICK q \in RunIds : /\ runs[r].parent = q
                          /\ runs[q].asks = "approval" /\ runs[q].decision = "approved"
  BY <1>1 DEF Approved
<1>3. Fate(q) = "approved"
  BY <1>2 DEF Fate, AwaitsDecision
<1>4. Continuations(q) = {r}
  BY <1>2 DEF Continuations, IInv, OnlyChild
<1>5. Performances(q) = {}
  BY <1>1, <1>4 DEF Performances
<1>6. Performances(q)' = {<<r, 1>>}
  <2>1. Continuations(q)' = {r}
    BY <1>4 DEF Continuations, Performing
  <2>2. ran'[r] = 1
    BY <1>1 DEF Performing
  <2>3. {x \in Continuations(q) : ran[x] > 0}' = {r}
    BY <2>1, <2>2
  <2> QED
    BY <2>2, <2>3 DEF Performances
<1>7. ASSUME NEW x \in RunIds, x # q PROVE Performances(x)' = Performances(x)
  <2>1. r \notin Continuations(x) /\ Continuations(x)' = Continuations(x)
    BY <1>2, <1>7 DEF Continuations, Performing
  <2>2. \A y \in Continuations(x) : ran'[y] = ran[y]
    BY <1>1, <2>1 DEF Performing, Continuations
  <2>3. {y \in Continuations(x) : ran[y] > 0}' = {y \in Continuations(x) : ran[y] > 0}
    BY <2>1, <2>2
  <2>4. \A y \in {z \in Continuations(x) : ran[z] > 0} : ran'[y] = ran[y]
    BY <2>2
  <2> QED
    BY <2>3, <2>4 DEF Performances
<1>8. performancesOf' = [performancesOf EXCEPT ![q] = {<<r, 1>>}]
  BY <1>6, <1>7 DEF performancesOf
<1>9. performancesOf'[q] = {<<r, 1>>} /\ performancesOf[q] = {}
  BY <1>5, <1>6 DEF performancesOf
<1>10. fateOf' = fateOf /\ fateOf[q] = "approved"
  BY <1>3, SettledKeepsFate DEF fateOf, Performing, Settled
<1>11. Approval!Perform(q)
  BY <1>8, <1>9, <1>10 DEF Approval!Perform, fateOf, performancesOf
<1> QED
  BY <1>11 DEF Approval!Next, Mapped

LEMMA KindsMap == ASSUME IInv, Kinds PROVE Mapped
BY CalmMaps, ClosingMaps, ParkingMaps, StartingMaps, CarryingMaps, ClaimingMaps, ReadingMaps,
   PerformingMaps DEF Kinds

LEMMA StutterMaps == ASSUME IInv, UNCHANGED vars PROVE Mapped
<1>1. Calm
  BY DEF vars, Calm, Like, Onward
<1> QED
  BY <1>1, CalmMaps

LEMMA InitMaps == ASSUME Init PROVE Approval!Init
<1>1. \A r \in RunIds : runs[r] = NoRow /\ ran[r] = 0
  BY DEF Init
<1>2. \A r \in RunIds : Fate(r) = "unasked"
  BY <1>1, NothingAskedIsUnasked DEF NoRow
<1>3. \A r \in RunIds : Performances(r) = {}
  BY <1>1 DEF Performances, Continuations
<1> QED
  BY <1>2, <1>3 DEF Approval!Init

\* An approved action runs at most once and never without its yes: the lease, crash, cancel and
\* retry machinery of the run subsystem implements ApprovedAction.
THEOREM ApprovalKept == Spec => ApprovalPromise
<1>1. Init => Approval!Init
  BY InitMaps
<1>2. IInv /\ [Next]_vars => [Approval!Next]_<<fateOf, performancesOf>>
  BY NextIs, KindsMap, StutterMaps DEF IInv, Mapped
<1>3. IInv /\ [Next]_vars =>
        [Approval!Next]_<<[q \in RunIds |-> Fate(q)], [q \in RunIds |-> Performances(q)]>>
  BY <1>2 DEF fateOf, performancesOf
<1> QED
  BY <1>1, <1>3, Invariance, PTL DEF Spec, ApprovalPromise, Approval!Spec

---------------------------------------------------------------------------
(* What becomes of one existing row.                                        *)

\* The row stays the same request, in its conversation, with its verdict.
SameRequest(new, row) == /\ new.session = row.session /\ new.key = row.key
                         /\ new.parent = row.parent /\ new.decision = row.decision

\* What was steered into the row is still there, or reached a model.
SteerStands(new, row) == \A i \in DOMAIN row.steer :
    \/ row.steer[i] \in heard'
    \/ \E j \in DOMAIN new.steer : new.steer[j] = row.steer[i]

SameStanding(new, row) == /\ new.status = row.status /\ new.asks = row.asks
                          /\ row.status = "waiting" => new.action = row.action

Puts(x) == /\ runs[x].status = "running" /\ runs[x].lease = "live"
           /\ runs'[x].status = "waiting"
           /\ runs'[x].asks \in {"question", "approval"}
           /\ runs'[x].asks = "approval" => runs'[x].action = "pending"
           /\ \A w \in Workers : turns'[w][x].pc = "none"

Moves(x) == /\ SameRequest(runs'[x], runs[x]) /\ SteerStands(runs'[x], runs[x])
            /\ \/ SameStanding(runs'[x], runs[x])
               \/ runs[x].status = "queued" /\ runs'[x].status = "running"
               \/ /\ runs[x].status = "running" /\ runs'[x].status \in Terminal
                  /\ runs[x].lease = "live" \/ runs'[x].status = "interrupted"
               \/ Puts(x)
               \/ /\ runs[x].status \in Active \cup {"waiting"}
                  /\ runs'[x].status = "cancelled"

\* No row is added: the rows that exist move, or stay.
Moving == \A x \in RunIds :
    runs'[x] = runs[x] \/ (runs[x].status # "absent" /\ Moves(x))

LEMMA SteeredRow ==
    ASSUME NEW row \in Row, NEW k \in Keys
    PROVE  /\ SameRequest(Steered(row, k), row) /\ SameStanding(Steered(row, k), row)
           /\ SteerStands(Steered(row, k), row)
<1>1. SameRequest(Steered(row, k), row) /\ SameStanding(Steered(row, k), row)
  BY DEF Steered, Row, SameRequest, SameStanding
<1>2. Steered(row, k).steer = Append(row.steer, k) /\ row.steer \in Seq(Keys)
  BY DEF Steered, Row
<1>3. \A i \in DOMAIN row.steer : /\ i \in DOMAIN Append(row.steer, k)
                                  /\ Append(row.steer, k)[i] = row.steer[i]
  BY <1>2
<1> QED
  BY <1>1, <1>2, <1>3 DEF SteerStands

LEMMA ClearedRow ==
    ASSUME NEW row \in Row, NEW held \in Seq(Keys), \A i \in DOMAIN held : held[i] \in heard'
    PROVE  /\ SameRequest(Cleared(row, held), row) /\ SameStanding(Cleared(row, held), row)
           /\ SteerStands(Cleared(row, held), row)
<1>1. SameRequest(Cleared(row, held), row) /\ SameStanding(Cleared(row, held), row)
  BY DEF Cleared, Row, SameRequest, SameStanding
<1>2. row.steer # held => Cleared(row, held).steer = row.steer
  BY DEF Cleared, Row
<1> QED
  BY <1>1, <1>2 DEF SteerStands

LEMMA WithLeaseRow ==
    ASSUME NEW row \in Row, NEW lease \in {"none", "live", "lapsed"}
    PROVE  /\ SameRequest(WithLease(row, lease), row)
           /\ SameStanding(WithLease(row, lease), row)
           /\ WithLease(row, lease).steer = row.steer
BY DEF WithLease, Row, SameRequest, SameStanding

LEMMA SpentRow ==
    ASSUME NEW row \in Row, row.status # "waiting"
    PROVE  SameRequest(Spent(row), row) /\ SameStanding(Spent(row), row)
             /\ Spent(row).steer = row.steer
BY DEF Spent, Row, SameRequest, SameStanding

LEMMA LeasedRow ==
    ASSUME NEW row \in Row, NEW w \in Workers
    PROVE  SameRequest(Leased(row, w), row) /\ Leased(row, w).steer = row.steer
BY DEF Leased, Row, SameRequest

LEMMA UnownedRow ==
    ASSUME NEW row \in Row, NEW status \in Statuses
    PROVE  SameRequest(Unowned(row, status), row) /\ Unowned(row, status).steer = row.steer
BY DEF Unowned, Row, SameRequest

LEMMA AskingRow ==
    ASSUME NEW row \in Row, NEW asks, NEW action
    PROVE  SameRequest(Asking(row, asks, action), row) /\ Asking(row, asks, action).steer = row.steer
BY DEF Asking, Row, SameRequest

LEMMA ParkedRow ==
    ASSUME NEW row \in Row, NEW asks
    PROVE  /\ SameRequest(Parked(row, asks), row) /\ Parked(row, asks).steer = row.steer
           /\ asks = "approval" => Parked(row, asks).action = "pending"
<1> DEFINE base == Unowned(row, "waiting")
<1>1. "waiting" \in Statuses
  BY DEF Statuses
<1>2. base \in Row /\ SameRequest(base, row) /\ base.steer = row.steer
  BY <1>1, UnownedType, UnownedRow
<1>3. Parked(row, asks) = Asking(base, asks, Kept(row, asks))
  BY DEF Parked
<1> HIDE DEF base
<1>4. /\ SameRequest(Parked(row, asks), base) /\ Parked(row, asks).steer = base.steer
      /\ Parked(row, asks).action = Kept(row, asks)
  <2>1. Asking(base, asks, Kept(row, asks)).action = Kept(row, asks)
    BY <1>2 DEF Asking, Row
  <2> QED
    BY <1>2, <1>3, <2>1, AskingRow
<1>5. asks = "approval" => Kept(row, asks) = "pending"
  BY DEF Kept
<1> QED
  BY <1>2, <1>4, <1>5 DEF SameRequest

LEMMA CancelledRow ==
    ASSUME NEW row \in Row
    PROVE  SameRequest(Cancelled(row), row) /\ Cancelled(row).steer = row.steer
<1> DEFINE base == Unowned(row, "cancelled")
<1>1. "cancelled" \in Statuses
  BY DEF Statuses, Terminal
<1>2. base \in Row /\ SameRequest(base, row) /\ base.steer = row.steer
  BY <1>1, UnownedType, UnownedRow
<1>3. Cancelled(row) = Asking(base, AsksLeft(row.asks), "none")
  BY DEF Cancelled
<1> HIDE DEF base
<1>4. SameRequest(Cancelled(row), base) /\ Cancelled(row).steer = base.steer
  BY <1>2, <1>3, AskingRow
<1> QED
  BY <1>2, <1>4 DEF SameRequest

LEMMA SameSteerStands ==
    ASSUME NEW new, NEW row, new.steer = row.steer PROVE SteerStands(new, row)
BY DEF SteerStands

\* One existing row is written, and it moves.
LEMMA OneMoves ==
    ASSUME runs \in [RunIds -> Row], NEW r \in RunIds, NEW row \in Row, Write(r, row),
           runs[r].status # "absent", runs'[r] = row => Moves(r)
    PROVE  Moving
<1>1. runs'[r] = row /\ \A x \in RunIds : x # r => runs'[x] = runs[x]
  BY Writing
<1> QED
  BY <1>1 DEF Moving

LEMMA NoneMoves == ASSUME UNCHANGED runs PROVE Moving
BY DEF Moving

LEMMA RenewMoves ==
    ASSUME runs \in [RunIds -> Row], NEW r \in RunIds, NEW lease \in {"none", "live", "lapsed"},
           runs[r].status # "absent", Write(r, WithLease(runs[r], lease))
    PROVE  Moving
<1> DEFINE new == WithLease(runs[r], lease)
<1>1. /\ new \in Row /\ SameRequest(new, runs[r]) /\ SameStanding(new, runs[r])
      /\ SteerStands(new, runs[r])
  BY WithLeaseType, WithLeaseRow, SameSteerStands
<1>2. Write(r, new)
  OBVIOUS
<1> HIDE DEF new
<1> QED
  BY <1>1, <1>2, OneMoves DEF Moves

LEMMA EndMoves ==
    ASSUME runs \in [RunIds -> Row], NEW r \in RunIds, NEW status \in Terminal,
           runs[r].status = "running", runs[r].lease = "live" \/ status = "interrupted",
           Write(r, Unowned(runs[r], status))
    PROVE  Moving
<1> DEFINE new == Unowned(runs[r], status)
<1>1. /\ new \in Row /\ SameRequest(new, runs[r]) /\ SteerStands(new, runs[r])
      /\ new.status = status
  <2>1. status \in Statuses /\ runs[r] \in Row
    BY DEF Statuses
  <2>2. new \in Row /\ new.status = status
    BY <2>1, UnownedType DEF Placed
  <2>3. SameRequest(new, runs[r]) /\ new.steer = runs[r].steer
    BY <2>1, UnownedRow
  <2> QED
    BY <2>2, <2>3, SameSteerStands
<1>2. Write(r, new)
  OBVIOUS
<1> HIDE DEF new
<1> QED
  BY <1>1, <1>2, OneMoves DEF Moves

---------------------------------------------------------------------------
(* Each step of a worker leaves the rows moving, and the filing alone.      *)

Occupied == \A x \in RunIds : \A w \in Workers :
    turns[w][x].pc # "none" => runs[x].status \notin {"absent", "queued", "waiting"}

LEMMA ClaimMoves ==
    ASSUME TypeOK, NEW w \in Workers, NEW r \in RunIds, Claim(w, r) PROVE Moving
<1> DEFINE new == Leased(runs[r], w)
<1>1. runs[r] \in Row /\ runs[r].status = "queued"
  BY DEF TypeOK, Claim
<1>2. /\ new \in Row /\ SameRequest(new, runs[r]) /\ new.steer = runs[r].steer
      /\ new.status = "running"
  BY <1>1, LeasedType, LeasedRow DEF Placed
<1>3. Write(r, new)
  BY DEF Claim
<1> HIDE DEF new
<1> QED
  BY <1>1, <1>2, <1>3, SameSteerStands, OneMoves DEF Moves, TypeOK

LEMMA SpendActionMoves ==
    ASSUME TypeOK, Occupied, NEW w \in Workers, NEW r \in RunIds, SpendAction(w, r) PROVE Moving
<1> DEFINE new == Spent(runs[r])
<1>1. runs[r] \in Row /\ runs[r].status # "absent" /\ runs[r].status # "waiting"
  BY DEF TypeOK, SpendAction, At, Occupied
<1>2. /\ new \in Row /\ SameRequest(new, runs[r]) /\ SameStanding(new, runs[r])
      /\ new.steer = runs[r].steer
  BY <1>1, SpentType, SpentRow
<1>3. Write(r, new)
  BY DEF SpendAction
<1> HIDE DEF new
<1> QED
  BY <1>1, <1>2, <1>3, SameSteerStands, OneMoves DEF Moves, TypeOK

LEMMA ClearSteerMoves ==
    ASSUME TypeOK, Occupied, NEW w \in Workers, NEW r \in RunIds, ClearSteer(w, r) PROVE Moving
<1> DEFINE held == turns[w][r].held
           new == Cleared(runs[r], held)
<1>1. runs[r] \in Row /\ runs[r].status # "absent"
  BY DEF TypeOK, ClearSteer, At, Occupied
<1>2. held \in Seq(Keys) /\ \A i \in DOMAIN held : held[i] \in heard'
  BY DEF TypeOK, Turn, ClearSteer
<1>3. Write(r, new)
  BY DEF ClearSteer
<1>4. /\ new \in Row /\ SameRequest(new, runs[r]) /\ SameStanding(new, runs[r])
      /\ SteerStands(new, runs[r])
  BY <1>1, <1>2, ClearedType, ClearedRow
<1> HIDE DEF new
<1> QED
  BY <1>1, <1>3, <1>4, OneMoves DEF Moves, TypeOK

LEMMA OwnedRenewMoves ==
    ASSUME TypeOK, NEW r \in RunIds, runs[r].status = "running", Renew(r) PROVE Moving
BY RenewMoves DEF TypeOK, Renew

LEMMA ParkMoves ==
    ASSUME TypeOK, OneTurnPerRun, NEW w \in Workers, NEW r \in RunIds, Park(w, r) PROVE Moving
<1>1. CASE UNCHANGED runs
  BY <1>1, NoneMoves
<1>2. ASSUME NEW asks \in {"question", "approval"}, Owned(w, r), Write(r, Parked(runs[r], asks))
      PROVE  Moving
  <2> DEFINE new == Parked(runs[r], asks)
  <2>1. runs[r] \in Row /\ runs[r].status = "running" /\ runs[r].lease = "live"
    BY <1>2 DEF TypeOK, Owned
  <2>2. /\ new \in Row /\ new.status = "waiting" /\ new.asks = asks
        /\ SameRequest(new, runs[r]) /\ SteerStands(new, runs[r])
        /\ asks = "approval" => new.action = "pending"
    BY <2>1, ParkedType, ParkedRow, SameSteerStands
  <2>3. \A v \in Workers : turns'[v][r].pc = "none"
    <3>1. turns[w][r].pc # "none" /\ Leave(w, r)
      BY DEF Park, At
    <3>2. \A v \in Workers : v # w => turns[v][r].pc = "none"
      BY <3>1 DEF OneTurnPerRun, InTurn, At
    <3> QED
      BY <3>1, <3>2, Leaving DEF TypeOK, Table
  <2>4. Write(r, new)
    BY <1>2
  <2> HIDE DEF new
  <2>5. runs'[r] = new => Puts(r)
    BY <2>1, <2>2, <2>3 DEF Puts
  <2> QED
    BY <2>1, <2>2, <2>4, <2>5, OneMoves DEF Moves, TypeOK
<1> QED
  BY <1>1, <1>2 DEF Park

LEMMA EndingMoves ==
    ASSUME TypeOK, NEW w \in Workers, NEW r \in RunIds, Complete(w, r) \/ Settle(w, r)
    PROVE  Moving
<1>1. \/ UNCHANGED runs
      \/ \E status \in Terminal : Owned(w, r) /\ Write(r, Unowned(runs[r], status))
  BY DEF Complete, Settle, Terminal
<1> QED
  BY <1>1, NoneMoves, EndMoves DEF Owned, TypeOK

LEMMA RecoverMoves ==
    ASSUME TypeOK, NEW w \in Workers, NEW r \in RunIds, Recover(w, r) PROVE Moving
<1>1. runs[r].status = "running" /\ "interrupted" \in Terminal
  BY DEF Recover, Terminal
<1>2. Renew(r) \/ Write(r, Unowned(runs[r], "interrupted"))
  BY DEF Recover
<1> QED
  BY <1>1, <1>2, OwnedRenewMoves, EndMoves DEF TypeOK

LEMMA TurnStepMoves ==
    ASSUME TypeOK, Occupied, OneTurnPerRun, NEW w \in Workers, NEW r \in RunIds, TurnStep(w, r)
    PROVE  Moving
<1>1. CASE ReadAction(w, r) \/ RunApproved(w, r) \/ ReadSteer(w, r) \/ EndStep(w, r)
             \/ Answer(w, r) \/ Fail(w, r) \/ Abort(w, r)
  BY <1>1, NoneMoves DEF ReadAction, RunApproved, ReadSteer, EndStep, Answer, Fail, Abort
<1>2. CASE StartApproved(w, r) \/ PrepareStep(w, r) \/ Pause(w, r) \/ Pulse(w, r)
  <2>1. UNCHANGED runs \/ (Owned(w, r) /\ Renew(r))
    BY <1>2 DEF StartApproved, PrepareStep, Pause, Pulse
  <2> QED
    BY <2>1, NoneMoves, OwnedRenewMoves DEF Owned
<1> QED
  BY <1>1, <1>2, SpendActionMoves, ClearSteerMoves, ParkMoves, EndingMoves DEF TurnStep

LEMMA ExecutionMoves ==
    ASSUME TypeOK, Occupied, OneTurnPerRun, Execution PROVE Moving /\ joined' = joined
<1>1. ASSUME NEW r \in RunIds, Lapse(r) PROVE Moving
  BY <1>1, RenewMoves DEF Lapse, TypeOK
<1>2. ASSUME NEW w \in Workers, Crash(w) PROVE Moving
  BY <1>2, NoneMoves DEF Crash
<1>3. Moving
  BY <1>1, <1>2, ClaimMoves, TurnStepMoves, RecoverMoves DEF Execution
<1>4. ASSUME NEW w \in Workers, NEW r \in RunIds, TurnStep(w, r) PROVE joined' = joined
  BY <1>4 DEF TurnStep, ReadAction, SpendAction, StartApproved, RunApproved, PrepareStep,
              ReadSteer, ClearSteer, EndStep, Pause, Answer, Fail, Park, Complete, Settle,
              Pulse, Abort
<1>5. joined' = joined
  BY <1>4 DEF Execution, Claim, Recover, Lapse, Crash
<1> QED
  BY <1>3, <1>5

---------------------------------------------------------------------------
(* A request moves a row, adds one to an idle conversation, or carries a    *)
(* parked one on.                                                           *)

Filed == \/ joined' = joined
         \/ \E s \in Sessions, k \in Keys, q \in RunIds : Fresh(s, k) /\ File(s, k, q)

\* Row n is added in session s, under a key.
Added(n, s, key) ==
    /\ IsNext(n) /\ HasRoom
    /\ runs'[n].session = s /\ runs'[n].key = key /\ runs'[n].status = "queued"
    /\ runs'[n].decision = "none"

Begun(n, s, k) ==
    /\ Added(n, s, SendKey(k)) /\ Fresh(s, k) /\ NoneInFlight(s)
    /\ ~\E q \in RunIds : Questioned(s, q)
    /\ Others(n) /\ joined' = joined

Resumed(q, n, key) ==
    /\ Added(n, runs[q].session, key) /\ runs'[n].parent = q /\ n # q
    /\ runs[q].status = "waiting" /\ runs'[q].status = "completed"
    /\ runs'[q].session = runs[q].session /\ runs'[q].key = runs[q].key
    /\ runs'[q].parent = runs[q].parent /\ runs'[q].steer = runs[q].steer
    /\ \/ runs[q].asks = "question" /\ runs'[q].decision = "answered"
       \/ /\ runs[q].asks = "approval" /\ runs[q].decision = "none"
          /\ runs'[q].decision \in {"approved", "rejected"}
    /\ \A x \in RunIds : x # q /\ x # n => runs'[x] = runs[x]

\* The keys a continuation runs under.
Derived(q) == {AnswerKey(q), ApprovalKey(q)} \cup {SendKey(k) : k \in PanelKeys}

Effects == \/ Moving /\ Filed
           \/ \E n \in RunIds, s \in Sessions, k \in Keys : Begun(n, s, k)
           \/ Filed /\ \E q, n \in RunIds : \E key \in Derived(q) : Resumed(q, n, key)

LEMMA QueuedRowIs ==
    ASSUME NEW s, NEW key, NEW p, NEW action
    PROVE  /\ QueuedRow(s, key, p, action).session = s /\ QueuedRow(s, key, p, action).key = key
           /\ QueuedRow(s, key, p, action).parent = p
           /\ QueuedRow(s, key, p, action).status = "queued"
           /\ QueuedRow(s, key, p, action).decision = "none"
BY DEF QueuedRow, NoRow

LEMMA AnsweredRow ==
    ASSUME NEW row \in Row
    PROVE  /\ Answered(row).session = row.session /\ Answered(row).key = row.key
           /\ Answered(row).steer = row.steer
BY DEF Answered, Row

LEMMA DecidedRow ==
    ASSUME NEW row \in Row, NEW approve
    PROVE  /\ Decided(row, approve).session = row.session /\ Decided(row, approve).key = row.key
           /\ Decided(row, approve).steer = row.steer
BY DEF Decided, Row

LEMMA CarryOnResumes ==
    ASSUME runs \in [RunIds -> Row], NEW q \in RunIds, NEW closed, NEW key, NEW action,
           HasRoom, CarryOn(q, closed, key, action),
           runs[q].status = "waiting", closed.status = "completed",
           closed.session = runs[q].session, closed.key = runs[q].key,
           closed.parent = runs[q].parent, closed.steer = runs[q].steer,
           \/ runs[q].asks = "question" /\ closed.decision = "answered"
           \/ /\ runs[q].asks = "approval" /\ runs[q].decision = "none"
              /\ closed.decision \in {"approved", "rejected"}
    PROVE  \E n \in RunIds : Resumed(q, n, key)
<1> DEFINE new == QueuedRow(runs[q].session, key, q, action)
<1>1. PICK n \in RunIds : IsNext(n) /\ runs' = [runs EXCEPT ![q] = closed, ![n] = new]
  BY DEF CarryOn
<1>2. n # q
  BY <1>1 DEF IsNext
<1>3. /\ new.session = runs[q].session /\ new.key = key /\ new.parent = q
      /\ new.status = "queued" /\ new.decision = "none"
  BY QueuedRowIs
<1> HIDE DEF new
<1>4. /\ runs'[n] = new /\ runs'[q] = closed
      /\ \A x \in RunIds : x # q /\ x # n => runs'[x] = runs[x]
  BY <1>1, <1>2
<1> QED
  BY <1>1, <1>2, <1>3, <1>4 DEF Resumed, Added

LEMMA ResumeWaitingResumes ==
    ASSUME runs \in [RunIds -> Row], NEW q \in RunIds, NEW key, ResumeWaiting(q, key)
    PROVE  \E n \in RunIds : Resumed(q, n, key)
<1> DEFINE closed == Answered(runs[q])
<1>1. /\ closed.status = "completed" /\ closed.session = runs[q].session
      /\ closed.key = runs[q].key /\ closed.parent = runs[q].parent
      /\ closed.steer = runs[q].steer /\ closed.decision = "answered"
  BY AnsweredType, AnsweredRow
<1>2. CarryOn(q, closed, key, "none") /\ HasRoom
  BY DEF ResumeWaiting
<1> HIDE DEF closed
<1> QED
  BY <1>1, <1>2, CarryOnResumes DEF ResumeWaiting, AwaitsAnswer

LEMMA ResumeApprovalResumes ==
    ASSUME runs \in [RunIds -> Row], NEW q \in RunIds, NEW approve \in BOOLEAN, NEW key,
           ResumeApproval(q, approve, key)
    PROVE  \E n \in RunIds : Resumed(q, n, key)
<1> DEFINE closed == Decided(runs[q], approve)
           action == IF approve THEN "approved" ELSE "none"
<1>1. /\ closed.status = "completed" /\ closed.session = runs[q].session
      /\ closed.key = runs[q].key /\ closed.parent = runs[q].parent
      /\ closed.steer = runs[q].steer /\ closed.decision = Verdict(approve)
  BY DecidedType, DecidedRow
<1>2. CarryOn(q, closed, key, action) /\ HasRoom
  BY DEF ResumeApproval
<1>3. Verdict(approve) \in {"approved", "rejected"}
  BY DEF Verdict
<1> HIDE DEF closed, action
<1> QED
  BY <1>1, <1>2, <1>3, CarryOnResumes DEF ResumeApproval, AwaitsDecision

LEMMA SteerMoves ==
    ASSUME TypeOK, NEW s \in Sessions, NEW k \in Keys, NEW who, NEW p, Steer(s, k, who, p)
    PROVE  Moving /\ Filed
<1>1. PICK r \in RunIds : InFlight(s, r) /\ File(s, k, r) /\ Write(r, Steered(runs[r], k))
  BY DEF Steer
<1> DEFINE new == Steered(runs[r], k)
<1>2. runs[r] \in Row /\ runs[r].status # "absent"
  BY <1>1 DEF TypeOK, InFlight, IsLatest, InSession, Active
<1>3. /\ new \in Row /\ SameRequest(new, runs[r]) /\ SameStanding(new, runs[r])
      /\ SteerStands(new, runs[r])
  BY <1>2, SteeredType, SteeredRow
<1>4. Write(r, new)
  BY <1>1
<1> HIDE DEF new
<1>5. Moving
  BY <1>2, <1>3, <1>4, OneMoves DEF Moves, TypeOK
<1> QED
  BY <1>1, <1>5 DEF Filed, Steer, Ordinary

LEMMA StartBegins ==
    ASSUME TypeOK, NEW s \in Sessions, NEW k \in Keys, NEW who, NEW p \in RunIds \cup {NoRun},
           Start(s, k, who, p)
    PROVE  \E n \in RunIds : Begun(n, s, k)
<1>1. PICK n \in RunIds : IsNext(n) /\ Write(n, QueuedRow(s, SendKey(k), p, "none"))
  BY DEF Start
<1> DEFINE new == QueuedRow(s, SendKey(k), p, "none")
<1>2. /\ new \in Row /\ new.session = s /\ new.key = SendKey(k) /\ new.parent = p
      /\ new.status = "queued" /\ new.decision = "none"
  BY KeyTypes, QueuedRowType, QueuedRowIs
<1>3. Write(n, new)
  BY <1>1
<1> HIDE DEF new
<1>4. runs'[n] = new /\ \A x \in RunIds : x # n => runs'[x] = runs[x]
  BY <1>2, <1>3, Writing DEF TypeOK
<1> QED
  BY <1>1, <1>2, <1>4 DEF Begun, Added, Others, Start, Ordinary

LEMMA CancelMoves ==
    ASSUME TypeOK, NEW w \in Workers, NEW r \in RunIds, Cancel(w, r) PROVE Moving /\ Filed
<1> DEFINE new == Cancelled(runs[r])
<1>1. runs[r] \in Row /\ runs[r].status \in Active \cup {"waiting"}
  BY DEF TypeOK, Cancel
<1>2. /\ new \in Row /\ new.status = "cancelled"
      /\ SameRequest(new, runs[r]) /\ SteerStands(new, runs[r])
  BY <1>1, CancelledType, CancelledRow, SameSteerStands
<1>3. Write(r, new)
  BY DEF Cancel
<1> HIDE DEF new
<1>4. Moving
  BY <1>1, <1>2, <1>3, OneMoves DEF Moves, TypeOK, Active
<1> QED
  BY <1>4 DEF Filed, Cancel

LEMMA RequestEffects == ASSUME TypeOK, Request PROVE Effects
<1>1. ASSUME NEW s \in Sessions, NEW k \in Keys, JoinWaiting(s, k) PROVE Effects
  BY <1>1, NoneMoves DEF JoinWaiting, Effects, Filed
<1>2. ASSUME NEW s \in Sessions, NEW k \in Keys, AnswerBySubmit(s, k) PROVE Effects
  <2>1. PICK q \in RunIds : ResumeWaiting(q, AnswerKey(q)) /\ File(s, k, q)
    BY <1>2 DEF AnswerBySubmit
  <2>2. \E n \in RunIds : Resumed(q, n, AnswerKey(q))
    BY <2>1, ResumeWaitingResumes DEF TypeOK
  <2> QED
    BY <1>2, <2>1, <2>2 DEF AnswerBySubmit, Effects, Filed, Derived
<1>3. ASSUME NEW s \in Sessions, NEW k \in Keys, NEW who, NEW approve \in BOOLEAN,
             DecideBySubmit(s, k, who, approve)
      PROVE  Effects
  <2>1. PICK q \in RunIds : ResumeApproval(q, approve, ApprovalKey(q)) /\ File(s, k, q)
    BY <1>3 DEF DecideBySubmit
  <2>2. \E n \in RunIds : Resumed(q, n, ApprovalKey(q))
    BY <2>1, ResumeApprovalResumes DEF TypeOK
  <2> QED
    BY <1>3, <2>1, <2>2 DEF DecideBySubmit, Effects, Filed, Derived
<1>4. ASSUME NEW q \in RunIds, AnswerRun(q) PROVE Effects
  <2>1. PICK key \in PanelRequest(AnswerKey(q)) : ResumeWaiting(q, key) /\ joined' = joined
    BY <1>4 DEF AnswerRun
  <2>2. key \in Derived(q) /\ \E n \in RunIds : Resumed(q, n, key)
    BY <2>1, ResumeWaitingResumes DEF TypeOK, PanelRequest, Derived
  <2> QED
    BY <2>1, <2>2 DEF Effects, Filed
<1>5. ASSUME NEW q \in RunIds, NEW approve \in BOOLEAN, DecideApproval(q, approve) PROVE Effects
  <2>1. PICK key \in PanelRequest(ApprovalKey(q)) :
          ResumeApproval(q, approve, key) /\ joined' = joined
    BY <1>5 DEF DecideApproval
  <2>2. key \in Derived(q) /\ \E n \in RunIds : Resumed(q, n, key)
    BY <2>1, ResumeApprovalResumes DEF TypeOK, PanelRequest, Derived
  <2> QED
    BY <2>1, <2>2 DEF Effects, Filed
<1>6. ASSUME NEW s \in Sessions, NEW k \in Keys, NEW who, NEW p \in RunIds \cup {NoRun},
             Steer(s, k, who, p) \/ Start(s, k, who, p)
      PROVE  Effects
  BY <1>6, SteerMoves, StartBegins DEF Effects
<1>7. ASSUME NEW w \in Workers, NEW r \in RunIds, Cancel(w, r) PROVE Effects
  BY <1>7, CancelMoves DEF Effects
<1> QED
  BY <1>1, <1>2, <1>3, <1>4, <1>5, <1>6, <1>7 DEF Request

LEMMA NextEffects ==
    ASSUME TypeOK, Occupied, OneTurnPerRun, Next PROVE Effects
BY RequestEffects, ExecutionMoves DEF Next, Effects, Filed

LEMMA StutterEffects == ASSUME UNCHANGED vars PROVE Effects
BY NoneMoves DEF vars, Effects, Filed

---------------------------------------------------------------------------
(* The inductive invariant behind RunsSafety and ActiveCap.                 *)

\* A row not created yet is blank, and rows are created in order.
Blank == \A r \in RunIds : runs[r].status = "absent" => runs[r] = NoRow
Dense == \A x, y \in RunIds : x < y /\ runs[x].status = "absent" => runs[y].status = "absent"
\* A parked run asks for something, and no turn is left in it.
ParkedAlone == \A r \in RunIds : runs[r].status = "waiting" =>
    runs[r].asks \in {"question", "approval"} /\ \A w \in Workers : turns[w][r].pc = "none"
\* An answered or decided run is carried on.
Resumable == \A q \in RunIds : runs[q].decision # "none" => \E r \in RunIds : runs[r].parent = q
\* What keeps a conversation's next message from starting a run: a run in flight, a question.
Busy(s) == {r \in RunIds : /\ runs[r].session = s
                           /\ \/ runs[r].status \in Active
                              \/ runs[r].status = "waiting" /\ runs[r].asks = "question"}
Decisions(s) == {q \in RunIds : /\ runs[q].session = s
                                /\ runs[q].decision \in {"approved", "rejected"}}
\* A run came to be beside the older busy ones of its session by decisions alone.
Older(r) == {x \in Busy(runs[r].session) : x < r}
Orderly == \A r \in RunIds : runs[r].status # "absent" =>
    Cardinality(Older(r)) <= Cardinality(Decisions(runs[r].session))

JInv == /\ IInv
        /\ Blank /\ Dense /\ ParkedAlone
        /\ Resumable /\ Orderly
        /\ KeyOnce /\ DecidableApproval /\ ActiveCap

LEMMA RowsOccupied == ASSUME IInv, ParkedAlone PROVE Occupied
BY DEF IInv, Unclaimed, InTurn, At, ParkedAlone, Occupied

\* A turn is entered by claiming its run.
LEMMA Entering ==
    ASSUME Kinds, NEW w \in Workers, NEW x \in RunIds,
           turns[w][x].pc = "none", turns'[w][x].pc # "none"
    PROVE  runs[x].status = "queued" /\ runs'[x].status = "running"
<1>1. ~Onward
  BY DEF Onward, Acting
<1>2. turns' # turns
  OBVIOUS
<1>3. PICK v \in Workers, r \in RunIds : Claiming(v, r) \/ Reading(v, r) \/ Performing(v, r)
  BY <1>1, <1>2 DEF Kinds, Calm, Closing, Parking, Starting, Carrying
<1>4. v = w /\ r = x
  BY <1>3 DEF Claiming, Reading, Performing, OtherTurns
<1> QED
  BY <1>3, <1>4 DEF Claiming, Reading, Performing, Placed

\* The row a step adds was blank.
LEMMA AddedIsBlank ==
    ASSUME Blank, NEW n \in RunIds, IsNext(n)
    PROVE  /\ runs[n] = NoRow /\ runs[n].status = "absent" /\ runs[n].parent = NoRun
           /\ runs[n].steer = <<>> /\ runs[n].decision = "none"
BY DEF Blank, IsNext, NoRow

LEMMA BlankKept == ASSUME Blank, Effects PROVE Blank'
<1>1. CASE Moving
  BY <1>1 DEF Blank, Moving, Moves, SameStanding, Terminal, Puts
<1>2. ASSUME NEW n \in RunIds, NEW s \in Sessions, NEW k \in Keys, Begun(n, s, k) PROVE Blank'
  BY <1>2 DEF Blank, Begun, Added, Others
<1>3. ASSUME NEW q \in RunIds, NEW n \in RunIds, NEW key \in Derived(q), Resumed(q, n, key)
      PROVE  Blank'
  BY <1>3 DEF Blank, Resumed, Added
<1> QED
  BY <1>1, <1>2, <1>3 DEF Effects

LEMMA DenseKept == ASSUME Dense, Effects PROVE Dense'
<1>1. CASE Moving
  <2>1. \A x \in RunIds : runs'[x].status = "absent" <=> runs[x].status = "absent"
    BY <1>1 DEF Moving, Moves, SameStanding, Terminal, Puts
  <2> QED
    BY <2>1 DEF Dense
<1>2. ASSUME NEW n \in RunIds, IsNext(n), runs'[n].status = "queued",
             \A x \in RunIds : x # n => (runs'[x].status = "absent" <=> runs[x].status = "absent")
      PROVE  Dense'
  BY <1>2 DEF Dense, IsNext, RunIds
<1>3. ASSUME NEW n \in RunIds, NEW s \in Sessions, NEW k \in Keys, Begun(n, s, k) PROVE Dense'
  BY <1>2, <1>3 DEF Begun, Added, Others
<1>4. ASSUME NEW q \in RunIds, NEW n \in RunIds, NEW key \in Derived(q), Resumed(q, n, key)
      PROVE  Dense'
  BY <1>2, <1>4 DEF Resumed, Added
<1> QED
  BY <1>1, <1>3, <1>4 DEF Effects

LEMMA ParkedAloneKept == ASSUME ParkedAlone, Kinds, Effects PROVE ParkedAlone'
<1>1. ASSUME NEW x \in RunIds, runs[x].status = "waiting", runs'[x].status = "waiting",
             NEW w \in Workers
      PROVE  turns'[w][x].pc = "none"
  BY <1>1, Entering DEF ParkedAlone
<1>2. CASE Moving
  <2>1. ASSUME NEW x \in RunIds, runs'[x].status = "waiting"
        PROVE  \/ runs[x].status = "waiting" /\ runs'[x].asks = runs[x].asks
               \/ Puts(x)
    BY <1>2, <2>1 DEF Moving, Moves, SameStanding, Terminal
  <2> QED
    BY <1>1, <2>1 DEF ParkedAlone, Puts
<1>3. ASSUME NEW n \in RunIds, NEW s \in Sessions, NEW k \in Keys, Begun(n, s, k)
      PROVE  ParkedAlone'
  BY <1>1, <1>3 DEF ParkedAlone, Begun, Added, Others
<1>4. ASSUME NEW q \in RunIds, NEW n \in RunIds, NEW key \in Derived(q), Resumed(q, n, key)
      PROVE  ParkedAlone'
  BY <1>1, <1>4 DEF ParkedAlone, Resumed, Added
<1> QED
  BY <1>2, <1>3, <1>4 DEF Effects

LEMMA ResumableKept == ASSUME Blank, Resumable, Effects PROVE Resumable'
<1> USE DEF Resumable
<1>1. CASE Moving
  BY <1>1 DEF Moving, Moves, SameRequest
<1>2. ASSUME NEW n \in RunIds, NEW s \in Sessions, NEW k \in Keys, Begun(n, s, k)
      PROVE  Resumable'
  <2>1. runs[n].parent = NoRun /\ runs'[n].decision = "none"
    BY <1>2, AddedIsBlank DEF Begun, Added
  <2> QED
    BY <1>2, <2>1, NoRunIsNone DEF Begun, Others
<1>3. ASSUME NEW q \in RunIds, NEW n \in RunIds, NEW key \in Derived(q), Resumed(q, n, key)
      PROVE  Resumable'
  <2>1. runs[n].parent = NoRun /\ runs'[n].decision = "none"
    BY <1>3, AddedIsBlank DEF Resumed, Added
  <2> QED
    BY <1>3, <2>1, NoRunIsNone DEF Resumed
<1> QED
  BY <1>1, <1>2, <1>3 DEF Effects

LEMMA DecidableKept == ASSUME ParkedAlone, DecidableApproval, Effects PROVE DecidableApproval'
<1> USE DEF DecidableApproval, AwaitsDecision
<1>1. CASE Moving
  BY <1>1 DEF Moving, Moves, SameRequest, SameStanding, Terminal, Puts
<1>2. ASSUME NEW n \in RunIds, NEW s \in Sessions, NEW k \in Keys, Begun(n, s, k)
      PROVE  DecidableApproval'
  BY <1>2 DEF Begun, Added, Others
<1>3. ASSUME NEW q \in RunIds, NEW n \in RunIds, NEW key \in Derived(q), Resumed(q, n, key)
      PROVE  DecidableApproval'
  BY <1>3 DEF Resumed, Added
<1> QED
  BY <1>1, <1>2, <1>3 DEF Effects

---------------------------------------------------------------------------
(* A key takes effect once. *)

LEMMA KeysDiffer ==
    /\ \A k, m \in Keys : SendKey(k) = SendKey(m) => k = m
    /\ \A k \in Keys, q \in RunIds : SendKey(k) \notin Derived(q)
    /\ \A k \in Keys : SendKey(k) # NoKey
BY RunAssumption DEF SendKey, AnswerKey, ApprovalKey, Derived, NoKey

LEMMA FiledWas ==
    ASSUME TypeOK, NEW s \in Sessions, NEW k \in Keys, Filed, HasMessage(s, k)'
    PROVE  HasMessage(s, k) \/ Fresh(s, k)
BY DEF TypeOK, Filed, File, HasMessage

LEMMA KeyOnceKept == ASSUME TypeOK, KeyOnce, Effects PROVE KeyOnce'
<1>1. SUFFICES ASSUME NEW s \in Sessions, NEW k \in Keys, HasMessage(s, k)', HasRun(s, SendKey(k))'
               PROVE  FALSE
  BY DEF KeyOnce
<1>2. PICK r \in RunIds : runs'[r].session = s /\ runs'[r].key = SendKey(k)
  BY <1>1 DEF HasRun
<1>3. HasMessage(s, k) \/ Fresh(s, k) => ~HasRun(s, SendKey(k))
  BY DEF KeyOnce, Fresh
<1>4. CASE Moving /\ Filed
  <2>1. runs[r].session = s /\ runs[r].key = SendKey(k)
    BY <1>2, <1>4 DEF Moving, Moves, SameRequest
  <2> QED
    BY <1>1, <1>3, <1>4, <2>1, FiledWas DEF HasRun
<1>5. ASSUME NEW n \in RunIds, NEW t \in Sessions, NEW m \in Keys, Begun(n, t, m) PROVE FALSE
  <2>1. HasMessage(s, k)
    BY <1>1, <1>5 DEF Begun, HasMessage
  <2>2. CASE r = n
    <3>1. s = t /\ k = m
      BY <1>2, <1>5, <2>2, KeysDiffer DEF Begun, Added
    <3> QED
      BY <1>5, <2>1, <3>1 DEF Begun, Fresh
  <2>3. CASE r # n
    BY <1>2, <1>3, <1>5, <2>1, <2>3 DEF Begun, Others, HasRun
  <2> QED
    BY <2>2, <2>3
<1>6. ASSUME Filed, NEW q \in RunIds, NEW n \in RunIds, NEW key \in Derived(q), Resumed(q, n, key)
      PROVE  FALSE
  <2>1. r # n
    BY <1>2, <1>6, KeysDiffer DEF Resumed, Added
  <2>2. runs[r].session = s /\ runs[r].key = SendKey(k)
    BY <1>2, <1>6, <2>1 DEF Resumed
  <2> QED
    BY <1>1, <1>3, <1>6, <2>2, FiledWas DEF HasRun
<1> QED
  BY <1>4, <1>5, <1>6 DEF Effects

---------------------------------------------------------------------------
(* Counting runs. *)

LEMMA RunsFinite == ASSUME NEW S \in SUBSET RunIds PROVE IsFiniteSet(S) /\ Cardinality(S) \in Nat
<1>1. IsFiniteSet(RunIds)
  BY RunAssumption, FS_Interval DEF RunIds
<1> QED
  BY <1>1, FS_Subset, FS_CardinalityType

LEMMA Fewer ==
    ASSUME NEW S \in SUBSET RunIds, NEW T \in SUBSET S PROVE Cardinality(T) <= Cardinality(S)
BY RunsFinite, FS_Subset

LEMMA OneMore ==
    ASSUME NEW S \in SUBSET RunIds, NEW n \in RunIds, NEW T \in SUBSET (S \cup {n})
    PROVE  Cardinality(T) <= Cardinality(S) + 1
<1>1. IsFiniteSet(S) /\ Cardinality(S) \in Nat /\ S \cup {n} \in SUBSET RunIds
  BY RunsFinite
<1>2. Cardinality(S \cup {n}) \in Nat /\ Cardinality(S \cup {n}) <= Cardinality(S) + 1
  <2>1. Cardinality(S \cup {n}) = IF n \in S THEN Cardinality(S) ELSE Cardinality(S) + 1
    BY <1>1, FS_AddElement
  <2> QED
    BY <1>1, <2>1
<1>3. Cardinality(T) <= Cardinality(S \cup {n}) /\ Cardinality(T) \in Nat
  BY <1>1, Fewer, RunsFinite
<1> QED
  BY <1>1, <1>2, <1>3

LEMMA OneLess ==
    ASSUME NEW S \in SUBSET RunIds, NEW x \in S, NEW y \in S
    PROVE  /\ Cardinality(S \ {x}) = Cardinality(S \ {y})
           /\ Cardinality(S) = Cardinality(S \ {x}) + 1
<1>1. IsFiniteSet(S) /\ Cardinality(S) \in Nat
  BY RunsFinite
<1>2. Cardinality(S \ {x}) = IF x \in S THEN Cardinality(S) - 1 ELSE Cardinality(S)
  BY <1>1, FS_RemoveElement
<1>3. Cardinality(S \ {y}) = IF y \in S THEN Cardinality(S) - 1 ELSE Cardinality(S)
  BY <1>1, FS_RemoveElement
<1> QED
  BY <1>1, <1>2, <1>3

LEMMA Latest ==
    ASSUME NEW S \in SUBSET RunIds, S # {} PROVE \E m \in S : \A x \in S : x <= m
<1> DEFINE Above(m) == {x \in S : x > m}
           T == {Above(m) : m \in S}
<1>1. T \subseteq FiniteSubsetsOf(S) /\ T # {}
  <2>1. \A m \in S : IsFiniteSet(Above(m)) /\ Above(m) \subseteq S
    BY RunsFinite
  <2> QED
    BY <2>1 DEF FiniteSubsetsOf
<1>2. PICK t \in T : \A u \in T : <<u, t>> \notin StrictSubsetOrdering(S)
  BY <1>1, FS_StrictSubsetOrderingWellFounded, WFMin
<1>3. PICK m \in S : t = Above(m)
  BY <1>2
<1>4. ASSUME NEW x \in S, ~(x <= m) PROVE FALSE
  <2>1. x > m
    BY <1>4 DEF RunIds
  <2>2. Above(x) \subseteq Above(m) /\ x \in Above(m) /\ x \notin Above(x)
    <3>1. x \in Int /\ m \in Int /\ \A y \in S : y \in Int
      BY DEF RunIds
    <3>2. \A y \in S : y > x => y > m
      BY <2>1, <3>1
    <3>3. \A y \in S : y \in Above(x) => y \in Above(m)
      BY <3>2
    <3>4. Above(x) \subseteq S
      OBVIOUS
    <3>5. x \in Above(m)
      BY <2>1
    <3>6. ~(x > x)
      BY <3>1
    <3>7. x \notin Above(x)
      BY <3>6
    <3> QED
      BY <3>3, <3>4, <3>5, <3>7
  <2>3. <<Above(x), Above(m)>> \in StrictSubsetOrdering(S)
    BY <2>2 DEF StrictSubsetOrdering
  <2> QED
    BY <1>2, <1>3, <2>3
<1> QED
  BY <1>4

LEMMA ActiveCapKept == ASSUME ActiveCap, Effects PROVE ActiveCap'
<1> DEFINE Acts == {r \in RunIds : runs[r].status \in Active}
<1>1. Acts \in SUBSET RunIds /\ Cardinality(Acts) \in Nat /\ Cardinality(Acts) <= ActiveLimit
  BY RunsFinite DEF ActiveCap
<1>2. Acts' \in SUBSET RunIds /\ Cardinality(Acts') \in Nat
  BY RunsFinite
<1>3. ActiveLimit \in Nat
  BY RunAssumption
<1>4. CASE Moving
  <2>1. Acts' \in SUBSET Acts
    BY <1>4 DEF Moving, Moves, SameStanding, Terminal, Puts, Active
  <2> QED
    BY <1>1, <1>2, <1>3, <2>1, Fewer DEF ActiveCap
<1>5. ASSUME NEW n \in RunIds, HasRoom, Acts' \in SUBSET (Acts \cup {n}) PROVE ActiveCap'
  <2>1. Cardinality(Acts) < ActiveLimit
    BY <1>5 DEF HasRoom
  <2>2. Cardinality(Acts') <= Cardinality(Acts) + 1
    BY <1>1, <1>5, OneMore
  <2> QED
    BY <1>1, <1>2, <1>3, <2>1, <2>2 DEF ActiveCap
<1>6. ASSUME NEW n \in RunIds, NEW s \in Sessions, NEW k \in Keys, Begun(n, s, k)
      PROVE  ActiveCap'
  BY <1>5, <1>6 DEF Begun, Added, Others
<1>7. ASSUME NEW q \in RunIds, NEW n \in RunIds, NEW key \in Derived(q), Resumed(q, n, key)
      PROVE  ActiveCap'
  BY <1>5, <1>7 DEF Resumed, Added, Active
<1> QED
  BY <1>4, <1>6, <1>7 DEF Effects

---------------------------------------------------------------------------
(* Only decisions queue a run beside another. *)

LEMMA BusyAre == /\ \A s : Busy(s) \in SUBSET RunIds /\ Decisions(s) \in SUBSET RunIds
                 /\ \A r \in RunIds : Older(r) \in SUBSET RunIds
BY DEF Busy, Decisions, Older

LEMMA BusyBut ==
    ASSUME Orderly, NEW s, NEW q \in Busy(s)
    PROVE  Cardinality(Busy(s) \ {q}) <= Cardinality(Decisions(s))
<1>1. PICK m \in Busy(s) : \A x \in Busy(s) : x <= m
  BY BusyAre, Latest
<1>2. m \in RunIds /\ runs[m].session = s /\ runs[m].status # "absent"
  BY DEF Busy, Active
<1>3. Busy(s) \ {m} = Older(m)
  <2>1. \A x \in Busy(s) : x \in Int
    BY DEF Busy, RunIds
  <2>2. \A x \in Busy(s) : x # m <=> x < m
    BY <1>1, <2>1
  <2> QED
    BY <1>2, <2>2 DEF Older
<1>4. Cardinality(Older(m)) <= Cardinality(Decisions(s))
  BY <1>2 DEF Orderly
<1>5. Cardinality(Busy(s) \ {q}) = Cardinality(Busy(s) \ {m})
  BY <1>1, BusyAre, OneLess
<1> QED
  BY <1>3, <1>4, <1>5

LEMMA BusyBound ==
    ASSUME Orderly, NEW s PROVE Cardinality(Busy(s)) <= 1 + Cardinality(Decisions(s))
<1>1. Cardinality(Busy(s)) \in Nat /\ Cardinality(Decisions(s)) \in Nat
  BY BusyAre, RunsFinite
<1>2. CASE Busy(s) = {}
  BY <1>1, <1>2, FS_EmptySet
<1>3. ASSUME NEW q \in Busy(s)
      PROVE  Cardinality(Busy(s)) <= 1 + Cardinality(Decisions(s))
  <2>1. /\ Cardinality(Busy(s) \ {q}) <= Cardinality(Decisions(s))
        /\ Cardinality(Busy(s)) = Cardinality(Busy(s) \ {q}) + 1
    BY BusyBut, BusyAre, OneLess
  <2>2. Cardinality(Busy(s) \ {q}) \in Nat
    BY BusyAre, RunsFinite
  <2> QED
    BY <1>1, <2>1, <2>2
<1> QED
  BY <1>2, <1>3

\* The busy ones older than a row of session s do not grow, nor do its decisions shrink.
Lighter(r, s) == /\ runs[r].session = s /\ runs'[r].session = s
                 /\ Older(r)' \in SUBSET Older(r)
                 /\ Decisions(s) \in SUBSET (Decisions(s)')

LEMMA LighterKeeps ==
    ASSUME Orderly, NEW r \in RunIds, NEW s, runs[r].status # "absent", Lighter(r, s)
    PROVE  Cardinality(Older(r))' <= Cardinality(Decisions(runs[r].session))'
<1>1. Decisions(s)' \in SUBSET RunIds /\ Older(r)' \in SUBSET RunIds
  BY DEF Decisions, Older, Busy
<1>2. /\ Cardinality(Older(r)') \in Nat /\ Cardinality(Older(r)) \in Nat
      /\ Cardinality(Decisions(s)) \in Nat /\ Cardinality(Decisions(s)') \in Nat
  BY <1>1, BusyAre, RunsFinite
<1>3. Cardinality(Older(r)') <= Cardinality(Older(r))
  BY BusyAre, Fewer DEF Lighter
<1>4. Cardinality(Older(r)) <= Cardinality(Decisions(s))
  BY DEF Orderly, Lighter
<1>5. Cardinality(Decisions(s)) <= Cardinality(Decisions(s)')
  BY <1>1, Fewer DEF Lighter
<1>6. Cardinality(Older(r)') <= Cardinality(Decisions(s)')
  BY <1>2, <1>3, <1>4, <1>5
<1>7. Decisions(runs[r].session)' = Decisions(s)'
  BY DEF Lighter, Decisions
<1> QED
  BY <1>6, <1>7

\* A new row has the busy ones of its session as its elders.
LEMMA NewestKeeps ==
    ASSUME NEW n \in RunIds, NEW s, runs'[n].session = s, NEW S \in SUBSET RunIds,
           Older(n)' \in SUBSET S, Cardinality(S) <= Cardinality(Decisions(s)')
    PROVE  Cardinality(Older(n))' <= Cardinality(Decisions(runs[n].session))'
<1>1. Decisions(s)' \in SUBSET RunIds /\ Older(n)' \in SUBSET RunIds
  BY DEF Decisions, Older, Busy
<1>2. /\ Cardinality(Older(n)') \in Nat /\ Cardinality(S) \in Nat
      /\ Cardinality(Decisions(s)') \in Nat
  BY <1>1, RunsFinite
<1>3. Cardinality(Older(n)') <= Cardinality(S)
  BY Fewer
<1>4. Decisions(runs[n].session)' = Decisions(s)'
  BY DEF Decisions
<1> QED
  BY <1>2, <1>3, <1>4

LEMMA MovingOrderly == ASSUME Orderly, Moving PROVE Orderly'
<1>1. ASSUME NEW r \in RunIds, runs'[r].status # "absent"
      PROVE  Cardinality(Older(r))' <= Cardinality(Decisions(runs[r].session))'
  <2>1. PICK s : s = runs[r].session
    OBVIOUS
  <2>2. runs'[r].session = s /\ runs[r].status # "absent"
    BY <1>1, <2>1 DEF Moving, Moves, SameRequest
  <2>3. \A x \in RunIds : runs'[x].session = runs[x].session /\ runs'[x].decision = runs[x].decision
    BY DEF Moving, Moves, SameRequest
  <2>4. Busy(s)' \in SUBSET Busy(s)
    BY <2>3 DEF Busy, Moving, Moves, SameStanding, Puts, Terminal, Active
  <2>5. Lighter(r, s)
    BY <2>1, <2>2, <2>3, <2>4 DEF Lighter, Older, Decisions
  <2> QED
    BY <2>2, <2>5, LighterKeeps
<1> QED
  BY <1>1 DEF Orderly

LEMMA BegunOrderly ==
    ASSUME Blank, Dense, ParkedAlone, Orderly,
           NEW n \in RunIds, NEW s \in Sessions, NEW k \in Keys, Begun(n, s, k)
    PROVE  Orderly'
<1>1. /\ runs[n].status = "absent" /\ runs[n].decision = "none"
      /\ \A x \in RunIds : x # n => runs'[x] = runs[x]
      /\ runs'[n].session = s /\ runs'[n].decision = "none" /\ runs'[n].status = "queued"
  BY AddedIsBlank DEF Begun, Added, Others
<1>2. \A x \in RunIds : x > n => runs[x].status = "absent"
  BY <1>1 DEF Dense, RunIds
<1>3. \A t : Decisions(t) \in SUBSET (Decisions(t)')
  BY <1>1 DEF Decisions
<1>4. ASSUME NEW r \in RunIds, r # n, runs'[r].status # "absent"
      PROVE  Cardinality(Older(r))' <= Cardinality(Decisions(runs[r].session))'
  <2>1. PICK t : t = runs[r].session
    OBVIOUS
  <2>2. ~(n < r) /\ runs'[r] = runs[r]
    BY <1>1, <1>2, <1>4 DEF RunIds
  <2>3. Older(r)' \in SUBSET Older(r)
    BY <1>1, <2>2 DEF Older, Busy
  <2> QED
    BY <1>3, <1>4, <2>1, <2>2, <2>3, LighterKeeps DEF Lighter
<1>5. Cardinality(Older(n))' <= Cardinality(Decisions(runs[n].session))'
  <2>1. Older(n)' \in SUBSET Busy(s)
    <3>1. \A x \in Older(n)' : x \in RunIds /\ x < n /\ x # n
      BY DEF Older, Busy, RunIds
    <3> QED
      BY <1>1, <3>1 DEF Older, Busy
  <2>2. Cardinality(Busy(s)) <= Cardinality(Decisions(s))
    <3>1. Cardinality(Decisions(s)) \in Nat
      BY BusyAre, RunsFinite
    <3>2. \A x \in Busy(s) : runs[x].status = "waiting" /\ runs[x].asks = "question"
      BY DEF Busy, Begun, NoneInFlight, InSession
    <3>3. CASE Busy(s) = {}
      BY <3>1, <3>3, FS_EmptySet
    <3>4. CASE Busy(s) # {}
      <4> DEFINE W == InSession(s, {"waiting"})
      <4>1. W \in SUBSET RunIds /\ Busy(s) \in SUBSET W
        BY <3>2 DEF InSession, Busy
      <4>2. PICK a \in W : \A x \in W : x <= a
        BY <3>4, <4>1, Latest
      <4>3. a \in RunIds /\ runs[a].session = s /\ runs[a].status = "waiting"
        BY <4>2 DEF InSession
      <4>4. runs[a].asks # "question"
        BY <4>2, <4>3 DEF Begun, Questioned, Waiting, IsLatest
      <4>5. Busy(s) \in SUBSET Older(a)
        <5>1. \A x \in Busy(s) : x <= a /\ x # a /\ x \in RunIds
          BY <3>2, <4>1, <4>2, <4>4
        <5> QED
          BY <4>3, <5>1 DEF Older, RunIds
      <4>6. Cardinality(Older(a)) <= Cardinality(Decisions(s))
        BY <4>3 DEF Orderly
      <4>7. Cardinality(Busy(s)) <= Cardinality(Older(a))
        BY <4>3, <4>5, BusyAre, Fewer
      <4>8. Cardinality(Busy(s)) \in Nat /\ Cardinality(Older(a)) \in Nat
        BY <4>3, BusyAre, RunsFinite
      <4> QED
        BY <3>1, <4>6, <4>7, <4>8
    <3> QED
      BY <3>3, <3>4
  <2>3. Cardinality(Decisions(s)) <= Cardinality(Decisions(s)')
    <3>1. Decisions(s)' \in SUBSET RunIds
      BY DEF Decisions
    <3> QED
      BY <1>3, <3>1, Fewer
  <2>4. /\ Cardinality(Busy(s)) \in Nat /\ Cardinality(Decisions(s)) \in Nat
        /\ Cardinality(Decisions(s)') \in Nat
    <3>1. Decisions(s)' \in SUBSET RunIds
      BY DEF Decisions
    <3> QED
      BY <3>1, BusyAre, RunsFinite
  <2>5. Cardinality(Busy(s)) <= Cardinality(Decisions(s)')
    BY <2>2, <2>3, <2>4
  <2> QED
    BY <1>1, <2>1, <2>5, BusyAre, NewestKeeps
<1> QED
  BY <1>4, <1>5 DEF Orderly

LEMMA ResumedOrderly ==
    ASSUME Blank, Dense, DecidedIsCompleted, Orderly,
           NEW q \in RunIds, NEW n \in RunIds, NEW key, Resumed(q, n, key)
    PROVE  Orderly'
<1>1. /\ runs[n].status = "absent" /\ runs[n].decision = "none"
      /\ runs'[n].decision = "none" /\ runs'[n].status = "queued"
      /\ runs[q].status = "waiting" /\ runs'[q].status = "completed" /\ n # q
      /\ runs'[q].session = runs[q].session
      /\ \A x \in RunIds : x # q /\ x # n => runs'[x] = runs[x]
  BY AddedIsBlank DEF Resumed, Added
<1>2. PICK s : s = runs[q].session
  OBVIOUS
<1>3. runs'[n].session = s
  BY <1>2 DEF Resumed, Added
<1>4. \A x \in RunIds : x > n => runs[x].status = "absent"
  BY <1>1 DEF Dense, RunIds
<1>5. runs[q].decision = "none"
  BY <1>1 DEF DecidedIsCompleted
<1>6. \A t : Decisions(t) \in SUBSET (Decisions(t)')
  BY <1>1, <1>5 DEF Decisions
<1>7. ASSUME NEW r \in RunIds, r # n, runs'[r].status # "absent"
      PROVE  Cardinality(Older(r))' <= Cardinality(Decisions(runs[r].session))'
  <2>1. PICK t : t = runs[r].session
    OBVIOUS
  <2>2. runs[r].status # "absent" /\ runs'[r].session = t
    BY <1>1, <1>7, <2>1
  <2>3. ~(n < r)
    BY <1>4, <2>2 DEF RunIds
  <2>4. Older(r)' \in SUBSET Older(r)
    BY <1>1, <2>1, <2>2, <2>3 DEF Older, Busy, Active
  <2> QED
    BY <1>6, <2>1, <2>2, <2>4, LighterKeeps DEF Lighter
<1>8. Cardinality(Older(n))' <= Cardinality(Decisions(runs[n].session))'
  <2>1. Older(n)' \in SUBSET (Busy(s) \ {q})
    <3>1. \A x \in Older(n)' : x \in RunIds /\ x < n /\ x # n
      BY DEF Older, Busy, RunIds
    <3> QED
      BY <1>1, <1>3, <3>1 DEF Older, Busy, Active
  <2>2. /\ Busy(s) \ {q} \in SUBSET RunIds /\ Decisions(s)' \in SUBSET RunIds
        /\ Cardinality(Busy(s)) \in Nat /\ Cardinality(Busy(s) \ {q}) \in Nat
        /\ Cardinality(Decisions(s)) \in Nat /\ Cardinality(Decisions(s)') \in Nat
    <3>1. Busy(s) \ {q} \in SUBSET RunIds /\ Decisions(s)' \in SUBSET RunIds
      BY DEF Busy, Decisions
    <3> QED
      BY <3>1, BusyAre, RunsFinite
  <2>3. Cardinality(Busy(s) \ {q}) <= Cardinality(Decisions(s)')
    <3>1. CASE runs[q].asks = "question"
      <4>1. q \in Busy(s)
        BY <1>1, <1>2, <3>1 DEF Busy
      <4>2. Cardinality(Busy(s) \ {q}) <= Cardinality(Decisions(s))
        BY <4>1, BusyBut
      <4>3. Cardinality(Decisions(s)) <= Cardinality(Decisions(s)')
        BY <1>6, <2>2, Fewer
      <4> QED
        BY <2>2, <4>2, <4>3
    <3>2. CASE runs'[q].decision \in {"approved", "rejected"}
      <4> DEFINE T == Decisions(s)'
      <4>1. Cardinality(Busy(s) \ {q}) <= Cardinality(Busy(s))
        BY BusyAre, Fewer
      <4>2. Cardinality(Busy(s)) <= 1 + Cardinality(Decisions(s))
        BY BusyBound
      <4>3. q \in T /\ Decisions(s) \in SUBSET (T \ {q})
        BY <1>1, <1>2, <1>5, <1>6, <3>2 DEF Decisions
      <4>4. /\ Cardinality(T) = Cardinality(T \ {q}) + 1
            /\ Cardinality(Decisions(s)) <= Cardinality(T \ {q})
            /\ Cardinality(T \ {q}) \in Nat
        <5>1. T \in SUBSET RunIds /\ T \ {q} \in SUBSET RunIds
          BY <2>2
        <5> HIDE DEF T
        <5> QED
          BY <4>3, <5>1, OneLess, Fewer, RunsFinite
      <4> QED
        BY <2>2, <4>1, <4>2, <4>4
    <3> QED
      BY <3>1, <3>2 DEF Resumed
  <2> QED
    BY <1>3, <2>1, <2>2, <2>3, NewestKeeps
<1> QED
  BY <1>7, <1>8 DEF Orderly

LEMMA OrderlyKept ==
    ASSUME Blank, Dense, ParkedAlone, DecidedIsCompleted, Orderly, Effects PROVE Orderly'
BY MovingOrderly, BegunOrderly, ResumedOrderly DEF Effects

---------------------------------------------------------------------------
(* The invariant, and what it gives. *)

LEMMA InitJ == ASSUME Init PROVE JInv
<1>1. IInv
  BY InitEstablishes
<1>2. \A r \in RunIds : runs[r] = NoRow
  BY DEF Init
<1>3. NoRow.status = "absent" /\ NoRow.decision = "none"
  BY DEF NoRow
<1>4. Blank /\ Dense /\ ParkedAlone /\ Resumable /\ DecidableApproval
  BY <1>2, <1>3 DEF Blank, Dense, ParkedAlone, Resumable, DecidableApproval, AwaitsDecision
<1>5. Orderly
  BY <1>2, <1>3 DEF Orderly
<1>6. KeyOnce
  BY DEF Init, KeyOnce, HasMessage
<1>7. ActiveCap
  <2>1. {r \in RunIds : runs[r].status \in Active} = {}
    BY <1>2, <1>3 DEF Active
  <2> QED
    BY <2>1, FS_EmptySet, RunAssumption DEF ActiveCap
<1> QED
  BY <1>1, <1>4, <1>5, <1>6, <1>7 DEF JInv

LEMMA StutterIsCalm == ASSUME UNCHANGED vars PROVE Kinds
BY DEF vars, Kinds, Calm, Like, Onward

LEMMA StepEffects == ASSUME JInv, [Next]_vars PROVE Effects /\ Kinds
<1>1. TypeOK /\ Occupied /\ OneTurnPerRun
  BY RowsOccupied DEF JInv, IInv
<1> QED
  BY <1>1, NextEffects, NextIs, StutterEffects, StutterIsCalm

LEMMA StepKeepsJ == ASSUME JInv, [Next]_vars PROVE JInv'
<1>1. Effects /\ Kinds
  BY StepEffects
<1>2. IInv'
  BY NextIs, KindsKeep, StutterKeeps DEF JInv, IInv
<1>3. Blank' /\ Dense' /\ ParkedAlone' /\ Resumable'
  BY <1>1, BlankKept, DenseKept, ParkedAloneKept, ResumableKept DEF JInv
<1>4. Orderly'
  BY <1>1, OrderlyKept DEF JInv, IInv
<1>5. KeyOnce' /\ DecidableApproval' /\ ActiveCap'
  BY <1>1, KeyOnceKept, DecidableKept, ActiveCapKept DEF JInv, IInv
<1> QED
  BY <1>2, <1>3, <1>4, <1>5 DEF JInv

\* The invariant behind the request side holds in every reachable state.
THEOREM RequestInvariance == Spec => []JInv
<1>1. Init => JInv
  BY InitJ
<1>2. JInv /\ [Next]_vars => JInv'
  BY StepKeepsJ
<1> QED
  BY <1>1, <1>2, PTL DEF Spec

LEMMA Continued == ASSUME IInv, Resumable PROVE OneContinuation
<1>1. SUFFICES ASSUME NEW q \in RunIds
               PROVE  LET after == {r \in RunIds : runs[r].parent = q} IN
                      /\ AwaitsAnswer(q) \/ AwaitsDecision(q) => after = {}
                      /\ runs[q].decision # "none" => Cardinality(after) = 1
  BY DEF OneContinuation
<1> DEFINE after == {r \in RunIds : runs[r].parent = q}
<1>2. AwaitsAnswer(q) \/ AwaitsDecision(q) => after = {}
  BY DEF IInv, ParentEnded, AwaitsAnswer, AwaitsDecision, Terminal
<1>3. ASSUME runs[q].decision # "none" PROVE Cardinality(after) = 1
  <2>1. PICK r \in RunIds : runs[r].parent = q
    BY <1>3 DEF Resumable
  <2>2. after = {r}
    BY <1>3, <2>1 DEF IInv, OnlyChild
  <2> QED
    BY <2>2, FS_Singleton
<1> QED
  BY <1>2, <1>3

LEMMA ExtraTurns == ASSUME Orderly PROVE ExtraTurnsAreDecisions
<1>1. SUFFICES ASSUME NEW s \in Sessions
               PROVE  Cardinality(InSession(s, Active)) <= 1 + Cardinality(Decisions(s))
  BY DEF ExtraTurnsAreDecisions, Decisions
<1>2. InSession(s, Active) \in SUBSET Busy(s) /\ InSession(s, Active) \in SUBSET RunIds
  BY DEF InSession, Busy
<1>3. Cardinality(InSession(s, Active)) <= Cardinality(Busy(s))
  BY <1>2, BusyAre, Fewer
<1>4. Cardinality(Busy(s)) <= 1 + Cardinality(Decisions(s))
  BY BusyBound
<1>5. /\ Cardinality(InSession(s, Active)) \in Nat /\ Cardinality(Busy(s)) \in Nat
      /\ Cardinality(Decisions(s)) \in Nat
  BY <1>2, BusyAre, RunsFinite
<1> QED
  BY <1>3, <1>4, <1>5

\* A request key takes effect once, a parked run is carried on by one run and stays decidable
\* until then, and a session has a second turn only by a decision (submit, resumeWaiting,
\* resumeApproval), however requests, workers and crashes interleave.
THEOREM RunsSafe == Spec => []RunsSafety
<1>1. JInv => RunsSafety
  BY Continued, ExtraTurns DEF JInv, RunsSafety
<1> QED
  BY <1>1, RequestInvariance, PTL

\* The profile's queued and running runs never pass ACTIVE_RUN_LIMIT, whichever way they start.
THEOREM CapKept == Spec => []ActiveCap
<1>1. JInv => ActiveCap
  BY DEF JInv
<1> QED
  BY <1>1, RequestInvariance, PTL

\* No step changes the status of an ended run: late heartbeats, finishes and recoveries miss it.
THEOREM EndedStays == Spec => TerminalStays
<1>1. ASSUME JInv, [Next]_vars, NEW r \in RunIds, runs[r].status \in Terminal
      PROVE  runs'[r].status = runs[r].status
  <2>1. Effects
    BY <1>1, StepEffects
  <2>2. CASE Moving
    BY <1>1, <2>2 DEF Moving, Moves, SameStanding, Puts, Terminal, Active
  <2>3. ASSUME NEW n \in RunIds, NEW s \in Sessions, NEW k \in Keys, Begun(n, s, k)
        PROVE  runs'[r].status = runs[r].status
    BY <1>1, <2>3 DEF Begun, Added, Others, IsNext, Terminal
  <2>4. ASSUME NEW q \in RunIds, NEW n \in RunIds, NEW key, Resumed(q, n, key)
        PROVE  runs'[r].status = runs[r].status
    BY <1>1, <2>4 DEF Resumed, Added, IsNext, Terminal
  <2> QED
    BY <2>1, <2>2, <2>3, <2>4 DEF Effects
<1>2. JInv /\ [Next]_vars =>
        [\A r \in RunIds : runs[r].status \in Terminal => runs'[r].status = runs[r].status]_vars
  BY <1>1
<1> QED
  BY <1>2, RequestInvariance, PTL DEF Spec, TerminalStays

\* A run whose lease lapsed stays as it is, is interrupted or is cancelled: its turn's own
\* answer, question or failure no longer reaches the row.
THEOREM LapsedStaysSilent == Spec => LapsedIsSilent
<1>1. ASSUME JInv, [Next]_vars, NEW r \in RunIds,
             runs[r].status = "running", runs[r].lease = "lapsed"
      PROVE  runs'[r].status \in {"running", "interrupted", "cancelled"}
  <2>1. Effects
    BY <1>1, StepEffects
  <2>2. CASE Moving
    BY <1>1, <2>2 DEF Moving, Moves, SameStanding, Puts
  <2>3. ASSUME NEW n \in RunIds, NEW s \in Sessions, NEW k \in Keys, Begun(n, s, k)
        PROVE  runs'[r].status = "running"
    BY <1>1, <2>3 DEF Begun, Added, Others, IsNext
  <2>4. ASSUME NEW q \in RunIds, NEW n \in RunIds, NEW key, Resumed(q, n, key)
        PROVE  runs'[r].status = "running"
    BY <1>1, <2>4 DEF Resumed, Added, IsNext
  <2> QED
    BY <2>1, <2>2, <2>3, <2>4 DEF Effects
<1>2. JInv /\ [Next]_vars =>
        [\A r \in RunIds : runs[r].status = "running" /\ runs[r].lease = "lapsed"
            => runs'[r].status \in {"running", "interrupted", "cancelled"}]_vars
  BY <1>1
<1> QED
  BY <1>2, RequestInvariance, PTL DEF Spec, LapsedIsSilent

\* A message steered into a run stays in its row until a model was given it: takeSteer's second
\* statement never wipes a message that came after its first.
THEOREM SteeredIsKept == Spec => SteerKept
<1>1. ASSUME JInv, [Next]_vars, NEW r \in RunIds PROVE SteerStands(runs'[r], runs[r])
  <2>1. Effects /\ Blank
    BY <1>1, StepEffects DEF JInv
  <2>2. runs'[r].steer = runs[r].steer => SteerStands(runs'[r], runs[r])
    BY SameSteerStands
  <2>3. ASSUME NEW n \in RunIds, IsNext(n), r = n PROVE SteerStands(runs'[r], runs[r])
    <3>1. runs[r].steer = <<>>
      BY <2>1, <2>3, AddedIsBlank
    <3> QED
      BY <3>1 DEF SteerStands
  <2>4. CASE Moving
    BY <2>2, <2>4 DEF Moving, Moves
  <2>5. ASSUME NEW n \in RunIds, NEW s \in Sessions, NEW k \in Keys, Begun(n, s, k)
        PROVE  SteerStands(runs'[r], runs[r])
    BY <2>2, <2>3, <2>5 DEF Begun, Added, Others
  <2>6. ASSUME NEW q \in RunIds, NEW n \in RunIds, NEW key, Resumed(q, n, key)
        PROVE  SteerStands(runs'[r], runs[r])
    BY <2>2, <2>3, <2>6 DEF Resumed, Added
  <2> QED
    BY <2>1, <2>4, <2>5, <2>6 DEF Effects
<1>2. JInv /\ [Next]_vars =>
        [\A r \in RunIds : \A i \in DOMAIN runs[r].steer :
           LET k == runs[r].steer[i] IN
             \/ k \in heard'
             \/ \E j \in DOMAIN runs'[r].steer : runs'[r].steer[j] = k]_vars
  BY <1>1 DEF SteerStands
<1> QED
  BY <1>2, RequestInvariance, PTL DEF Spec, SteerKept
=============================================================================
