-------------------------------- MODULE Runs --------------------------------
(***************************************************************************)
(* The run subsystem: requests and workers interleaved over the same rows.  *)
(***************************************************************************)
EXTENDS RunRequests, RunTurns

Next == Request \/ Execution

Spec == Init /\ [][Next]_vars

\* A running row whose turn no process is in any more.
Orphaned(r) == runs[r].status = "running"
                 /\ ~\E w \in Workers : runs[r].owner = w /\ InTurn(w, r)

\* Time passes for an abandoned lease, and the workers' ticks call recover.
Fairness == \A r \in RunIds : /\ WF_vars(Lapse(r) /\ Orphaned(r))
                              /\ WF_vars(\E w \in Workers : Recover(w, r))

LiveSpec == Spec /\ Fairness

---------------------------------------------------------------------------
(* Safety *)

\* A run is executed by one turn only: whatever is recovered or stalls, no second process is
\* ever inside a run another process still works on (claim takes queued runs alone).
OneTurnPerRun == \A r \in RunIds : \A v, w \in Workers :
                   InTurn(v, r) /\ InTurn(w, r) => v = w

\* A request key stands for one message: however a send is retried, and whatever became of the
\* run it reached meanwhile, it starts a run or joins one, never both.
KeyOnce == \A s \in Sessions, k \in Keys :
             HasMessage(s, k) => ~HasRun(s, SendKey(k))

\* A parked run is carried on exactly once: by one continuation after it is answered or
\* decided, whichever route and key did it, and by none before.
OneContinuation == \A q \in RunIds :
    LET after == {r \in RunIds : runs[r].parent = q} IN
    /\ AwaitsAnswer(q) \/ AwaitsDecision(q) => after = {}
    /\ runs[q].decision # "none" => Cardinality(after) = 1

\* An undecided action can always be approved: its call is kept until the decision, so a yes
\* never meets "The action to approve is no longer available".
DecidableApproval == \A q \in RunIds : AwaitsDecision(q) => runs[q].action = "pending"

\* Beyond the one turn a session admits, only a decided approval lets another in: a message
\* sent while an approval waits starts a turn, and the decision queues a second one.
ExtraTurnsAreDecisions == \A s \in Sessions :
    Cardinality(InSession(s, Active))
      <= 1 + Cardinality({q \in RunIds : runs[q].session = s
                                           /\ runs[q].decision \in {"approved", "rejected"}})

\* A key takes effect once, a parked run is carried on once and stays decidable, and only
\* decisions queue a run beside another.
RunsSafety == KeyOnce /\ OneContinuation /\ DecidableApproval /\ ExtraTurnsAreDecisions

\* The profile never has more than ACTIVE_RUN_LIMIT runs queued or running, resumed and
\* continued ones included.
ActiveCap == Cardinality({r \in RunIds : runs[r].status \in Active}) <= ActiveLimit

\* A run that ended stays as it ended: no late heartbeat, finish or recovery revives it.
TerminalStays == [][\A r \in RunIds :
    runs[r].status \in Terminal => runs'[r].status = runs[r].status]_vars

\* A turn whose lease lapsed cannot answer, park or fail its run until the lease is renewed:
\* all that can happen to such a run is recovery or a cancel.
LapsedIsSilent == [][\A r \in RunIds :
    runs[r].status = "running" /\ runs[r].lease = "lapsed"
      => runs'[r].status \in {"running", "interrupted", "cancelled"}]_vars

\* A steered message leaves the row only by reaching a model: one appended between the two
\* statements of takeSteer, outside the lock, is not wiped with the text already read.
SteerKept == [][\A r \in RunIds : \A i \in DOMAIN runs[r].steer :
    LET k == runs[r].steer[i] IN
      \/ k \in heard'
      \/ \E j \in DOMAIN runs'[r].steer : runs'[r].steer[j] = k]_vars

---------------------------------------------------------------------------
(* The promise of an approval, refined. *)

Continuations(q) == {r \in RunIds : runs[r].parent = q}
Fate(q) == CASE runs[q].asks # "approval" -> "unasked"
             [] AwaitsDecision(q) -> "asked"
             [] runs[q].asks = "approval" /\ runs[q].decision = "approved" -> "approved"
             [] OTHER -> "dropped"
Performances(q) == {<<r, ran[r]>> : r \in {x \in Continuations(q) : ran[x] > 0}}

Approval == INSTANCE ApprovedAction WITH
              Calls <- RunIds,
              fate <- [q \in RunIds |-> Fate(q)],
              performances <- [q \in RunIds |-> Performances(q)]

\* Leases, crashes, cancels and retries implement it: an approved action runs at most once,
\* and never without its yes (resumeApproval, and the spend before the call in execute).
ApprovalPromise == Approval!Spec

---------------------------------------------------------------------------
(* The inductive invariant behind OneTurnPerRun and ApprovalPromise. *)

Acting == {"spending", "spent", "acting"}   \* the turn has met an approved action

\* A run not claimed yet has no turn in it and has run nothing.
Unclaimed == \A r \in RunIds : runs[r].status \in {"absent", "queued"}
                => ran[r] = 0 /\ \A w \in Workers : ~InTurn(w, r)
\* Only a parked run, or one that was parked, asks for something.
AskedWhenParked == \A r \in RunIds :
    runs[r].status \in {"absent", "queued", "running"} => runs[r].asks = "nothing"
\* A decision completes the run that was parked.
DecidedIsCompleted == \A r \in RunIds :
    runs[r].decision # "none" => runs[r].status = "completed"
\* Only an ended run is carried on; one that was answered or decided, by one run alone.
ParentEnded == \A r \in RunIds : \A q \in RunIds :
    runs[r].parent = q => runs[q].status \in Terminal
OnlyChild == \A q \in RunIds : \A x, y \in RunIds :
    runs[q].decision # "none" /\ runs[x].parent = q /\ runs[y].parent = q => x = y
\* What runs as approved was approved: the run's parent asked for it and got a yes.
Approved(r) == \E q \in RunIds : /\ runs[r].parent = q
                                 /\ runs[q].asks = "approval"
                                 /\ runs[q].decision = "approved"
Allowed == \A r \in RunIds :
    runs[r].action = "approved" \/ (\E w \in Workers : turns[w][r].pc \in Acting) => Approved(r)
\* A turn that has yet to pass the approved action has not run it.
NotYetRun == \A r \in RunIds : \A w \in Workers :
    turns[w][r].pc \in {"begun"} \cup Acting => ran[r] = 0

\* Everything an approval's single execution rests on holds together in every state.
IInv == /\ TypeOK
        /\ Unclaimed /\ OneTurnPerRun
        /\ AskedWhenParked /\ DecidedIsCompleted
        /\ ParentEnded /\ OnlyChild
        /\ Allowed /\ NotYetRun

---------------------------------------------------------------------------
(* Liveness *)

\* A run whose process died, or whose turn gave up with its lease gone, does not stay "running"
\* for ever: some worker's recover ends it.
OrphansEnd == \A r \in RunIds : Orphaned(r) ~> ~Orphaned(r)
=============================================================================
