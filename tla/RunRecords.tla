---------------------------- MODULE RunRecords ----------------------------
(***************************************************************************)
(* The rows the run subsystem shares: the `runs` table, the keyed rows of   *)
(* `messages`, and the turns a worker process holds in memory.  The finders *)
(* of runs/repository.ts are operators here.  One profile: every operation  *)
(* written as store.transaction(profileId, ...) holds that profile's lock   *)
(* and is one atomic step.                                                  *)
(***************************************************************************)
EXTENDS Integers, Sequences, FiniteSets

CONSTANTS
    Workers,       \* gateway processes that execute runs
    Sessions,      \* conversations of the profile
    ChatSessions,  \* those of them that belong to a chat channel
    Keys,          \* request keys of messages; a key stands for one message
    PanelKeys,     \* request keys the panel gives an answer or a decision
    Nobody,        \* no lease owner, no session
    ActiveLimit,   \* ACTIVE_RUN_LIMIT
    MaxRuns        \* bound: the rows the `runs` table may grow to

ASSUME RunAssumption ==
    /\ ChatSessions \subseteq Sessions
    /\ Nobody \notin Workers
    /\ Nobody \notin Sessions
    /\ Keys \cap PanelKeys = {}   \* the panel draws a key of its own for each request
    /\ MaxRuns \in Nat
    /\ ActiveLimit \in Nat

VARIABLES
    runs,    \* the `runs` table, by creation order
    joined,  \* the run a keyed message was filed under, or NoRun
    turns,   \* AgentRuntime.controllers and owners, and where each turn stands
    ran,     \* history: times the approved action of a run was executed
    heard    \* history: steered messages given to a model

vars == <<runs, joined, turns, ran, heard>>

RunIds == 1..MaxRuns
NoRun == 0

Active == {"queued", "running"}
Terminal == {"completed", "failed", "interrupted", "cancelled"}
Statuses == {"absent", "waiting"} \cup Active \cup Terminal

\* A request key is the client's own, or one the service derives from a parked run.
SendKey(k) == <<"send", k>>
AnswerKey(p) == <<"ask-answer", p>>
ApprovalKey(p) == <<"approval", p>>
NoKey == <<"none", NoRun>>
RequestKeys == {SendKey(k) : k \in Keys \cup PanelKeys}
                 \cup {AnswerKey(p) : p \in RunIds}
                 \cup {ApprovalKey(p) : p \in RunIds}

Row == [session  : Sessions \cup {Nobody},
        key      : RequestKeys \cup {NoKey},
        parent   : RunIds \cup {NoRun},          \* continuationOf
        status   : Statuses,
        asks     : {"nothing", "question", "approval"},
        decision : {"none", "answered", "approved", "rejected"},
        action   : {"none", "pending", "approved"},
        steer    : Seq(Keys),
        owner    : Workers \cup {Nobody},        \* leaseOwner
        lease    : {"none", "live", "lapsed"}]   \* leaseUntil against the clock

NoRow == [session |-> Nobody, key |-> NoKey, parent |-> NoRun, status |-> "absent",
          asks |-> "nothing", decision |-> "none", action |-> "none", steer |-> <<>>,
          owner |-> Nobody, lease |-> "none"]

QueuedRow(s, key, parent, action) ==
    [NoRow EXCEPT !.session = s, !.key = key, !.parent = parent,
                  !.status = "queued", !.action = action]

\* Where AgentRuntime.execute stands, between two of its awaits.
Steps == {"none", "begun", "spending", "spent", "acting", "stepping", "steering",
          "clearing", "thinking", "asking", "parking", "finishing", "failing"}
Turn == [pc : Steps, aborted : BOOLEAN, held : Seq(Keys)]
NoTurn == [pc |-> "none", aborted |-> FALSE, held |-> <<>>]
Later(turn, pc) == [turn EXCEPT !.pc = pc]
Aborted(turn) == [turn EXCEPT !.aborted = TRUE]
Turned(w, r, turn) == turns' = [turns EXCEPT ![w][r] = turn]

\* updateRun: what a run asks for and the action it stores; a run that leaves "running" gives its lease up.
Unowned(row, status) == [row EXCEPT !.status = status, !.owner = Nobody, !.lease = "none"]
Asking(row, asks, action) == [row EXCEPT !.asks = asks, !.action = action]
Write(r, row) == runs' = [runs EXCEPT ![r] = row]

---------------------------------------------------------------------------
(* Finders.  createdAt orders rows, so the latest row has the greatest id. *)

IsNext(n) == n \in RunIds /\ runs[n].status = "absent"
               /\ \A q \in RunIds : q < n => runs[q].status # "absent"

InSession(s, statuses) == {r \in RunIds : runs[r].session = s /\ runs[r].status \in statuses}
IsLatest(r, S) == r \in S /\ \A q \in S : q <= r

\* findActiveSessionRun and findWaitingSessionRun
InFlight(s, r) == IsLatest(r, InSession(s, Active))
Waiting(s, r) == IsLatest(r, InSession(s, {"waiting"}))
NoneInFlightMissesQueued(s) == InSession(s, {"running"}) = {}   \* a plausible bug
NoneInFlight(s) == InSession(s, Active) = {}

\* A parked run whose question, or whose approval, is still open.
Questioned(s, q) == Waiting(s, q) /\ runs[q].asks = "question"
Undecided(s, q) == Waiting(s, q) /\ runs[q].asks = "approval" /\ runs[q].decision = "none"

\* findRunByRequestKey and findMessageByKey: what a retry of a request meets first.
HasRun(s, key) == \E r \in RunIds : runs[r].session = s /\ runs[r].key = key
HasMessage(s, k) == joined[k][s] # NoRun

\* countActiveRuns below the cap
HasRoomOffByOne ==
    Cardinality({r \in RunIds : runs[r].status \in Active}) <= ActiveLimit   \* a plausible bug
HasRoom == Cardinality({r \in RunIds : runs[r].status \in Active}) < ActiveLimit

\* assertOwned: the lease is the right to apply external effects.
OwnedWhileLapsed(w, r) == runs[r].status = "running" /\ runs[r].owner = w   \* a plausible bug
Owned(w, r) == runs[r].status = "running" /\ runs[r].owner = w /\ runs[r].lease = "live"

Init == /\ runs = [r \in RunIds |-> NoRow]
        /\ joined = [k \in Keys |-> [s \in Sessions |-> NoRun]]
        /\ turns = [w \in Workers |-> [r \in RunIds |-> NoTurn]]
        /\ ran = [r \in RunIds |-> 0]
        /\ heard = {}

TypeOK == /\ runs \in [RunIds -> Row]
          /\ joined \in [Keys -> [Sessions -> RunIds \cup {NoRun}]]
          /\ turns \in [Workers -> [RunIds -> Turn]]
          /\ ran \in [RunIds -> Nat]
          /\ heard \subseteq Keys
===========================================================================
