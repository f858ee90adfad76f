------------------------------- MODULE Peers -------------------------------
(***************************************************************************)
(* Calls between the agents of one installation (peers/service.ts).  A run  *)
(* asks a colleague: its question becomes a run, or joins one, in the       *)
(* session the two profiles share, and the caller looks at that run until   *)
(* it ends or 45 seconds pass.  Then the run is asked to carry its answer   *)
(* into the asking session (relayTo), which it does after it ended          *)
(* (deliverLate).  Every look, write and submit is a step of its own.       *)
(***************************************************************************)
EXTENDS Integers, Sequences, FiniteSets, SequencesExt

CONSTANTS
    Profiles,    \* the agents
    Owner,       \* who writes in a session that is not between two agents
    NoSession,   \* no address
    DepthLimit,  \* AGENT_CALL_DEPTH_LIMIT
    Slots,       \* runs executed at once
    Addressed,   \* bound: the agents the person writes to
    MaxRuns      \* bound: the runs there may ever be

ASSUME PeersAssumption ==
    /\ Owner \notin Profiles /\ Addressed \subseteq Profiles
    /\ DepthLimit \in Nat /\ Slots \in Nat \ {0} /\ MaxRuns \in Nat

VARIABLES
    runs,      \* the `runs` table, by creation order
    call,      \* the open ask of a run: being waited for, or given up and not relayed yet
    late,      \* deliverLate of a run, with the address it read
    told,      \* history: answers promised for later, as <run, asking session>
    answered,  \* history: answers returned in time, as <run, asking session>
    arrived    \* history: late answers carried, as <run, asking session>

peersVars == <<runs, call, late, told, answered, arrived>>

RunIds == 1..MaxRuns
NoRun == 0
SessionsOf(p) == {p} \X (Profiles \cup {Owner})
Sessions == Profiles \X (Profiles \cup {Owner})
Ended == {"completed", "failed", "interrupted", "cancelled"}
Row == [session : Sessions \cup {NoSession}, chain : Seq(Profiles),
        status : {"absent", "queued", "running", "waiting"} \cup Ended,
        relay : Sessions \cup {NoSession}]
NoRow == [session |-> NoSession, chain |-> <<>>, status |-> "absent", relay |-> NoSession]
NoCall == [pc |-> "none", to |-> NoRun]
NotLate == [pc |-> "none", to |-> NoSession]

ProfileOf(r) == runs[r].session[1]

PeersInit ==
    /\ runs = [r \in RunIds |-> NoRow]
    /\ call = [r \in RunIds |-> NoCall]
    /\ late = [r \in RunIds |-> NotLate]
    /\ told = {} /\ answered = {} /\ arrived = {}

PeersTypeOK ==
    /\ runs \in [RunIds -> Row]
    /\ call \in [RunIds -> [pc : {"none", "waiting", "giving-up"}, to : RunIds \cup {NoRun}]]
    /\ late \in [RunIds -> [pc : {"none", "reading", "clearing", "carrying"},
                            to : Sessions \cup {NoSession}]]
    /\ told \cup answered \cup arrived \subseteq RunIds \X Sessions

---------------------------------------------------------------------------
(* submit, for what peers ask of it. *)

IsNext(n) == n \in RunIds /\ runs[n].status = "absent" /\ \A q \in RunIds : q < n => runs[q].status # "absent"
InSession(s, statuses) == {r \in RunIds : runs[r].session = s /\ runs[r].status \in statuses}
\* The run a message to the session joins: one with an open question, or else one in flight.
Joins(s, r) ==
    IF InSession(s, {"waiting"}) # {} THEN r \in InSession(s, {"waiting"})
    ELSE r \in InSession(s, {"queued", "running"})
NobodyIn(s) == InSession(s, {"waiting", "queued", "running"}) = {}

\* The message joins run r as it is, or starts run r with the chain it came along.
Submit(s, chain, r) ==
    \/ Joins(s, r) /\ UNCHANGED runs
    \/ /\ NobodyIn(s) /\ IsNext(r)
       /\ runs' = [runs EXCEPT ![r] =
            [NoRow EXCEPT !.session = s, !.chain = chain, !.status = "queued"]]

\* A person writes to an agent.
Message(p) ==
    /\ NobodyIn(<<p, Owner>>)
    /\ \E r \in RunIds : Submit(<<p, Owner>>, <<>>, r)
    /\ UNCHANGED <<call, late, told, answered, arrived>>

---------------------------------------------------------------------------
(* ask *)

Working(r) == runs[r].status = "running" /\ call[r] = NoCall

\* The chain of a run that no agent asked for begins with itself.
Chain(r) == IF runs[r].chain = <<>> THEN <<ProfileOf(r)>> ELSE runs[r].chain

\* A plausible bug: only the one who asks is refused, not everyone before it.
MayAskBack(r, q) == q # ProfileOf(r) /\ Len(Chain(r)) <= DepthLimit
\* address: not itself, within the depth budget, and nobody twice in one chain.
MayAsk(r, q) == /\ q # ProfileOf(r)
                /\ Len(Chain(r)) <= DepthLimit
                /\ \A i \in DOMAIN Chain(r) : Chain(r)[i] # q

Ask(r, q) ==
    /\ Working(r) /\ MayAsk(r, q)
    /\ \E t \in RunIds : /\ Submit(<<q, ProfileOf(r)>>, Append(Chain(r), q), t)
                         /\ call' = [call EXCEPT ![r] = [pc |-> "waiting", to |-> t]]
    /\ UNCHANGED <<late, told, answered, arrived>>

Hang(r) == call' = [call EXCEPT ![r] = NoCall]

\* A plausible bug: the caller waits until the colleague is done.
LookForever(r) ==
    LET t == call[r].to IN
    /\ call[r].pc = "waiting"
    /\ runs[t].status \in Ended \cup {"waiting"}
    /\ Hang(r)
    /\ answered' = answered \cup {<<t, runs[r].session>>}
    /\ UNCHANGED <<runs, late, told, arrived>>

\* One look at the colleague's run: its answer, the news that it could not, the caller's own
\* cancellation, or the deadline.
Look(r) ==
    LET t == call[r].to IN
    /\ call[r].pc = "waiting"
    /\ \/ /\ runs[t].status = "completed"
          /\ Hang(r)
          /\ answered' = answered \cup {<<t, runs[r].session>>}
       \/ /\ runs[t].status \notin {"completed", "queued", "running"}
          /\ Hang(r) /\ UNCHANGED answered
       \/ /\ runs[t].status \in {"queued", "running"} /\ runs[r].status # "running"
          /\ Hang(r) /\ UNCHANGED answered
       \/ /\ runs[t].status \in {"queued", "running"} /\ runs[r].status = "running"
          /\ call' = [call EXCEPT ![r] = [@ EXCEPT !.pc = "giving-up"]]
          /\ UNCHANGED answered
    /\ UNCHANGED <<runs, late, told, arrived>>

\* relayTo, past the deadline: the answer is addressed to the asking session.
GiveUp(r) ==
    LET t == call[r].to IN
    /\ call[r].pc = "giving-up"
    /\ runs' = [runs EXCEPT ![t].relay = runs[r].session]
    /\ told' = told \cup {<<t, runs[r].session>>}
    /\ Hang(r)
    /\ UNCHANGED <<late, answered, arrived>>

---------------------------------------------------------------------------
(* The life of a run, as far as its calls go. *)

Executing == {r \in RunIds :
    runs[r].status = "running" \/ call[r] # NoCall \/ late[r] # NotLate}

Begin(r) ==
    /\ runs[r].status = "queued"
    /\ Cardinality(Executing) < Slots
    /\ runs' = [runs EXCEPT ![r].status = "running"]
    /\ UNCHANGED <<call, late, told, answered, arrived>>

\* finish, well or badly; deliverLate follows.
Finish(r, status) ==
    /\ Working(r)
    /\ runs' = [runs EXCEPT ![r].status = status]
    /\ late' = [late EXCEPT ![r] = [NotLate EXCEPT !.pc = "reading"]]
    /\ UNCHANGED <<call, told, answered, arrived>>

\* The run asks a person and parks.
Park(r) ==
    /\ Working(r)
    /\ runs' = [runs EXCEPT ![r].status = "waiting"]
    /\ UNCHANGED <<call, late, told, answered, arrived>>

\* The person answers: the parked run is complete, and a continuation of its chain works on.
Resume(q) ==
    /\ runs[q].status = "waiting"
    /\ \E n \in RunIds :
         /\ IsNext(n)
         /\ runs' = [runs EXCEPT ![q].status = "completed",
                                 ![n] = [NoRow EXCEPT !.session = runs[q].session,
                                                      !.chain = runs[q].chain,
                                                      !.status = "queued"]]
    /\ UNCHANGED <<call, late, told, answered, arrived>>

\* Cancelled, or interrupted with its process: nothing is delivered.  An open ask dies with its
\* process; a cancelled one notices at its next look.
Break(r, status) ==
    /\ \/ runs[r].status = "running"
       \/ status = "cancelled" /\ runs[r].status \in {"queued", "waiting"}
    /\ runs' = [runs EXCEPT ![r].status = status]
    /\ IF status = "interrupted" THEN Hang(r) ELSE UNCHANGED call
    /\ UNCHANGED <<late, told, answered, arrived>>

\* The submit of deliverLate is refused, which nobody hears of, or the process dies between two steps of deliverLate.
DieLate(r) ==
    /\ late[r] # NotLate
    /\ late' = [late EXCEPT ![r] = NotLate]
    /\ UNCHANGED <<runs, call, told, answered, arrived>>

---------------------------------------------------------------------------
(* deliverLate *)

ReadRelay(r) ==
    /\ late[r].pc = "reading"
    /\ late' = [late EXCEPT ![r] = IF runs[r].relay = NoSession \/ runs[r].chain = <<>>
                                   THEN NotLate
                                   ELSE [pc |-> "clearing", to |-> runs[r].relay]]
    /\ UNCHANGED <<runs, call, told, answered, arrived>>

ClearRelay(r) ==
    /\ late[r].pc = "clearing"
    /\ runs' = [runs EXCEPT ![r].relay = NoSession]
    /\ late' = [late EXCEPT ![r].pc = "carrying"]
    /\ UNCHANGED <<call, told, answered, arrived>>

\* A plausible bug: the address a run has by now, rather than the one it read.
CarryAnew(r) ==
    /\ late[r].pc = "carrying"
    /\ \E s \in SessionsOf(Head(runs[r].chain)), t \in RunIds :
         Submit(s, <<>>, t) /\ arrived' = arrived \cup {<<r, s>>}
    /\ late' = [late EXCEPT ![r] = NotLate]
    /\ UNCHANGED <<call, told, answered>>

\* The answer is submitted as an ordinary turn of the asking session, outside any chain.
Carry(r) ==
    /\ late[r].pc = "carrying"
    /\ \E t \in RunIds : Submit(late[r].to, <<>>, t)
    /\ arrived' = arrived \cup {<<r, late[r].to>>}
    /\ late' = [late EXCEPT ![r] = NotLate]
    /\ UNCHANGED <<call, told, answered>>

PeersNext ==
    \/ \E p \in Addressed : Message(p)
    \/ \E r \in RunIds :
         \/ \E q \in Profiles : Ask(r, q)
         \/ Look(r) \/ GiveUp(r) \/ Begin(r) \/ Park(r) \/ Resume(r)
         \/ Finish(r, "completed") \/ Finish(r, "failed")
         \/ Break(r, "cancelled") \/ Break(r, "interrupted") \/ DieLate(r)
         \/ ReadRelay(r) \/ ClearRelay(r) \/ Carry(r)

PeersSpec == PeersInit /\ [][PeersNext]_peersVars

\* A call polls on and its deadline comes.
PeersLiveSpec == PeersSpec /\ \A r \in RunIds : WF_peersVars(Look(r)) /\ WF_peersVars(GiveUp(r))

---------------------------------------------------------------------------
\* An answer reaches a session that asked in one way: a late answer is carried only to a session
\* that was told to expect it, and never in place of one returned in time to its call.
LateOnlyWhenTold == arrived \subseteq told

\* Every chain of questions ends: no agent twice in it, and no longer than the budget.
ChainsEnd == \A r \in RunIds :
    LET chain == runs[r].chain IN IsInjective(chain) /\ Len(chain) <= DepthLimit + 1

\* Late answers go to a caller who was promised one, and chains of calls end.
PeersSafety == PeersTypeOK /\ LateOnlyWhenTold /\ ChainsEnd

\* Nobody waits for ever, although the colleague asked may need the slot its caller holds.
AsksEnd == \A r \in RunIds : (call[r] # NoCall) ~> (call[r] = NoCall)

\* "the call is not lost: the answer is carried back": once a run completed and its delivery is
\* over, every session that was told to expect its answer has it.
LateAnswerKept == \A r \in RunIds, s \in Sessions :
    <<r, s>> \in told /\ runs[r].status = "completed" /\ late[r] = NotLate => <<r, s>> \in arrived
============================================================================
