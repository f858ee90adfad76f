--------------------------- MODULE ArrivalProofs ---------------------------
(***************************************************************************)
(* Theorems about three components that carry what happened to who waits    *)
(* for it, and share no state: calls between agents, the event feed, and    *)
(* the answers on their way to a chat.                                      *)
(*                                                                         *)
(* Peers, for every set of agents, every depth budget and any number of     *)
(* runs: a late answer goes only to a session that was promised one, and    *)
(* every chain of questions ends.                                           *)
(*                                                                         *)
(* EventFeed, for any number of transactions, any page and any socket: a    *)
(* client hears every event since it came in, once, in order, across lost   *)
(* connections, and a stream that waits has told all it read.               *)
(*                                                                         *)
(* Deliveries, for any set of processes and any number of turns, lines and  *)
(* parts: an answer is told once, in order and without a gap, is there when *)
(* its row reads "sent", and stops at a pause.                              *)
(***************************************************************************)
EXTENDS Peers, EventFeed, Deliveries, SequenceTheorems, FiniteSetTheorems, TLAPS

---------------------------------------------------------------------------
(* Peers: what is true of every state *)

CallState == [pc : {"none", "waiting", "giving-up"}, to : RunIds \cup {NoRun}]
LateState == [pc : {"none", "reading", "clearing", "carrying"}, to : Sessions \cup {NoSession}]

\* A run that exists is in a session, and so is the caller of an open ask, which waits for a run.
Placed == \A r \in RunIds :
    /\ runs[r].status # "absent" => runs[r].session \in Sessions
    /\ call[r].pc # "none" => runs[r].status # "absent" /\ call[r].to \in RunIds

\* An address on a run, or in the hands of its delivery, was promised an answer of that run.
Promised == \A r \in RunIds :
    /\ runs[r].relay # NoSession => <<r, runs[r].relay>> \in told
    /\ late[r].pc \in {"clearing", "carrying"} => <<r, late[r].to>> \in told

Ends(chain) == (\A i, j \in DOMAIN chain : chain[i] = chain[j] => i = j) /\ Len(chain) <= DepthLimit + 1
Short == \A r \in RunIds : Ends(runs[r].chain)

PInv == PeersTypeOK /\ Placed /\ Promised /\ LateOnlyWhenTold /\ Short

LEMMA PeersTypes == PeersTypeOK <=>
    /\ runs \in [RunIds -> Row] /\ call \in [RunIds -> CallState] /\ late \in [RunIds -> LateState]
    /\ told \subseteq RunIds \X Sessions /\ answered \subseteq RunIds \X Sessions
    /\ arrived \subseteq RunIds \X Sessions
BY DEF PeersTypeOK, CallState, LateState

---------------------------------------------------------------------------
(* What a step may do to the runs, the asks and the deliveries *)

\* Runs keep what they are, or are new ones; an address is dropped or was promised.
RunsGoOn ==
    /\ runs' \in [RunIds -> Row]
    /\ \A r \in RunIds :
         /\ runs'[r].status # "absent" => runs'[r].session \in Sessions
         /\ runs[r].status # "absent" => runs'[r].status # "absent"
         /\ runs'[r].relay \in {runs[r].relay, NoSession} \/ <<r, runs'[r].relay>> \in told'
         /\ Ends(runs'[r].chain)

CallsGoOn ==
    /\ call' \in [RunIds -> CallState]
    /\ \A r \in RunIds : call'[r].pc # "none" => runs'[r].status # "absent" /\ call'[r].to \in RunIds

LateGoesOn ==
    /\ late' \in [RunIds -> LateState]
    /\ \A r \in RunIds : late'[r].pc \in {"clearing", "carrying"} => <<r, late'[r].to>> \in told'

LEMMA GoingOn ==
    ASSUME PInv, RunsGoOn, CallsGoOn, LateGoesOn,
           told \subseteq told' /\ told' \subseteq RunIds \X Sessions, answered' \subseteq RunIds \X Sessions,
           arrived' \subseteq told'
    PROVE  PInv'
<1> USE DEF PInv
<1>1. PeersTypeOK'
  BY PeersTypes DEF RunsGoOn, CallsGoOn, LateGoesOn, PeersTypeOK, CallState, LateState
<1>2. Placed'
  BY DEF Placed, RunsGoOn, CallsGoOn
<1>3. Promised'
  BY DEF Promised, RunsGoOn, LateGoesOn
<1>4. LateOnlyWhenTold' /\ Short'
  BY DEF LateOnlyWhenTold, Short, RunsGoOn
<1> QED
  BY <1>1, <1>2, <1>3, <1>4

\* What stays as it is goes on.
LEMMA Unchanged ==
    ASSUME PInv, told \subseteq told'
    PROVE  /\ UNCHANGED runs => RunsGoOn
           /\ UNCHANGED call /\ RunsGoOn => CallsGoOn
           /\ UNCHANGED late => LateGoesOn
           /\ arrived \subseteq told' /\ told \subseteq RunIds \X Sessions /\ answered \subseteq RunIds \X Sessions
BY PeersTypes DEF PInv, Placed, Promised, LateOnlyWhenTold, Short, RunsGoOn, CallsGoOn, LateGoesOn

LEMMA EmptyEnds == Ends(<<>>)
BY PeersAssumption DEF Ends, PeersAssumption

LEMMA NewRow ==
    ASSUME NEW s, NEW chain
    PROVE  [NoRow EXCEPT !.session = s, !.chain = chain, !.status = "queued"]
             = [session |-> s, chain |-> chain, status |-> "queued", relay |-> NoSession]
<1> DEFINE one == [NoRow EXCEPT !.session = s]
           two == [one EXCEPT !.chain = chain]
<1>1. one = [session |-> s, chain |-> <<>>, status |-> "absent", relay |-> NoSession]
  BY DEF NoRow
<1> HIDE DEF one, two
<1>2. two = [session |-> s, chain |-> chain, status |-> "absent", relay |-> NoSession]
  BY <1>1 DEF two
<1>3. [two EXCEPT !.status = "queued"]
        = [session |-> s, chain |-> chain, status |-> "queued", relay |-> NoSession]
  BY <1>2
<1> QED
  BY <1>3 DEF one, two

LEMMA SubmitGoesOn ==
    ASSUME PInv, NEW s \in Sessions, NEW chain \in Seq(Profiles), Ends(chain),
           NEW r \in RunIds, Submit(s, chain, r)
    PROVE  RunsGoOn
<1>0. runs \in [RunIds -> Row]
  BY PeersTypes DEF PInv
<1>1. CASE UNCHANGED runs
  BY <1>0, <1>1 DEF PInv, Placed, Short, RunsGoOn
<1>2. CASE runs[r].status = "absent"
           /\ runs' = [runs EXCEPT ![r] = [NoRow EXCEPT !.session = s, !.chain = chain, !.status = "queued"]]
  <2>1. [NoRow EXCEPT !.session = s, !.chain = chain, !.status = "queued"]
          = [session |-> s, chain |-> chain, status |-> "queued", relay |-> NoSession]
    BY NewRow
  <2>2. /\ runs' \in [RunIds -> Row] /\ \A q \in RunIds : q # r => runs'[q] = runs[q]
        /\ runs'[r].session = s /\ runs'[r].chain = chain /\ runs'[r].status = "queued"
        /\ runs'[r].relay = NoSession
    BY <1>0, <1>2, <2>1 DEF Row
  <2> QED
    BY <2>2 DEF PInv, Placed, Short, RunsGoOn
<1> QED
  BY <1>1, <1>2 DEF Submit, IsNext

\* A change of status, or of the address, of one run.
Rewritten(r, status, relay) ==
    /\ runs' \in [RunIds -> Row] /\ \A q \in RunIds : q # r => runs'[q] = runs[q]
    /\ runs'[r].session = runs[r].session /\ runs'[r].chain = runs[r].chain
    /\ runs'[r].status = status /\ runs'[r].relay = relay

LEMMA StatusRewrites ==
    ASSUME runs \in [RunIds -> Row], NEW r \in RunIds,
           NEW status \in {"queued", "running", "waiting"} \cup Ended, runs' = [runs EXCEPT ![r].status = status]
    PROVE  Rewritten(r, status, runs[r].relay)
BY DEF Rewritten, Row

LEMMA RelayRewrites ==
    ASSUME runs \in [RunIds -> Row], NEW r \in RunIds,
           NEW relay \in Sessions \cup {NoSession}, runs' = [runs EXCEPT ![r].relay = relay]
    PROVE  Rewritten(r, runs[r].status, relay)
BY DEF Rewritten, Row

LEMMA RewrittenGoesOn ==
    ASSUME PInv, NEW r \in RunIds, NEW status, NEW relay, Rewritten(r, status, relay),
           runs[r].status # "absent" \/ status = runs[r].status, status # "absent" \/ status = runs[r].status,
           relay \in {runs[r].relay, NoSession} \/ <<r, relay>> \in told'
    PROVE  RunsGoOn
BY DEF PInv, Placed, Short, Rewritten, RunsGoOn

LEMMA Hanging ==
    ASSUME PInv, NEW r \in RunIds, RunsGoOn, Hang(r) PROVE CallsGoOn
<1>1. /\ call' \in [RunIds -> CallState] /\ call'[r].pc = "none"
      /\ \A q \in RunIds : q # r => call'[q] = call[q]
  BY PeersTypes DEF PInv, Hang, NoCall, CallState
<1> QED
  BY <1>1 DEF PInv, Placed, CallsGoOn, RunsGoOn

\* The delivery of run r moves on, with an address that was promised.
LateMoved(r, pc, to) ==
    /\ late' \in [RunIds -> LateState] /\ \A q \in RunIds : q # r => late'[q] = late[q]
    /\ late'[r].pc = pc /\ late'[r].to = to

LEMMA LateMoving ==
    ASSUME PInv, NEW r \in RunIds, NEW pc, NEW to, LateMoved(r, pc, to), told \subseteq told',
           pc \in {"clearing", "carrying"} => <<r, to>> \in told
    PROVE  LateGoesOn
BY DEF PInv, Promised, LateMoved, LateGoesOn

---------------------------------------------------------------------------
(* The steps *)

LEMMA MessageHolds == ASSUME PInv, NEW p \in Addressed, Message(p) PROVE PInv'
<1>1. <<p, Owner>> \in Sessions /\ <<>> \in Seq(Profiles)
  BY PeersAssumption DEF PeersAssumption, Sessions
<1>2. RunsGoOn
  BY <1>1, EmptyEnds, SubmitGoesOn DEF Message
<1> QED
  BY <1>2, Unchanged, GoingOn DEF Message

\* What is asked goes further along a chain of agents, each there once.
LEMMA ChainGrows ==
    ASSUME PInv, NEW r \in RunIds, NEW q \in Profiles, runs[r].status # "absent", MayAsk(r, q)
    PROVE  Append(Chain(r), q) \in Seq(Profiles) /\ Ends(Append(Chain(r), q))
<1>1. runs[r].session \in Sessions /\ runs[r].chain \in Seq(Profiles) /\ Ends(runs[r].chain)
  BY PeersTypes DEF PInv, Placed, Short, Row
<1>2. ProfileOf(r) \in Profiles
  BY <1>1 DEF ProfileOf, Sessions
<1>3. Chain(r) \in Seq(Profiles) /\ \A i, j \in DOMAIN Chain(r) : Chain(r)[i] = Chain(r)[j] => i = j
  <2>1. CASE runs[r].chain = <<>>
    BY <1>2, <2>1 DEF Chain
  <2>2. CASE runs[r].chain # <<>>
    BY <1>1, <2>2 DEF Chain, Ends
  <2> QED
    BY <2>1, <2>2
<1> DEFINE c == Chain(r)
<1>4. Len(c) <= DepthLimit /\ \A i \in DOMAIN c : c[i] # q
  BY DEF MayAsk
<1> HIDE DEF c
<1>5. c \in Seq(Profiles) /\ \A i, j \in DOMAIN c : c[i] = c[j] => i = j
  BY <1>3 DEF c
<1>6. Append(c, q) \in Seq(Profiles) /\ Ends(Append(c, q))
  BY <1>4, <1>5, PeersAssumption DEF Ends, PeersAssumption
<1> QED
  BY <1>6 DEF c

LEMMA AskHolds == ASSUME PInv, NEW r \in RunIds, NEW q \in Profiles, Ask(r, q) PROVE PInv'
<1>0. call \in [RunIds -> CallState] /\ runs[r].session \in Sessions /\ runs[r].status # "absent"
  BY PeersTypes DEF PInv, Placed, Ask, Working
<1>1. ProfileOf(r) \in Profiles /\ <<q, ProfileOf(r)>> \in Sessions
  BY <1>0 DEF ProfileOf, Sessions
<1>2. Append(Chain(r), q) \in Seq(Profiles) /\ Ends(Append(Chain(r), q))
  BY <1>0, ChainGrows DEF Ask
<1>3. PICK t \in RunIds : /\ Submit(<<q, ProfileOf(r)>>, Append(Chain(r), q), t)
                          /\ call' = [call EXCEPT ![r] = [pc |-> "waiting", to |-> t]]
  BY DEF Ask
<1>4. RunsGoOn
  BY <1>1, <1>2, <1>3, SubmitGoesOn
<1>5. /\ call' \in [RunIds -> CallState] /\ call'[r].to = t
      /\ \A u \in RunIds : u # r => call'[u] = call[u]
  BY <1>0, <1>3 DEF CallState
<1>6. CallsGoOn
  BY <1>0, <1>4, <1>5 DEF PInv, Placed, CallsGoOn, RunsGoOn
<1> QED
  BY <1>4, <1>6, Unchanged, GoingOn DEF Ask

LEMMA LookHolds == ASSUME PInv, NEW r \in RunIds, Look(r) PROVE PInv'
<1>0. call \in [RunIds -> CallState] /\ runs[r].session \in Sessions /\ call[r].to \in RunIds
  BY PeersTypes DEF PInv, Placed, Look
<1>1. RunsGoOn
  BY Unchanged DEF Look
<1>2. CallsGoOn
  <2>1. CASE Hang(r)
    BY <1>1, <2>1, Hanging
  <2>2. CASE call' = [call EXCEPT ![r] = [@ EXCEPT !.pc = "giving-up"]]
    <3>1. /\ call' \in [RunIds -> CallState] /\ call'[r].to = call[r].to
          /\ \A u \in RunIds : u # r => call'[u] = call[u]
      BY <1>0, <2>2 DEF CallState
    <3> QED
      BY <1>1, <3>1 DEF PInv, Placed, CallsGoOn, RunsGoOn, Look
  <2> QED
    BY <2>1, <2>2 DEF Look
<1>3. answered' \subseteq RunIds \X Sessions
  BY <1>0, Unchanged DEF Look
<1> QED
  BY <1>1, <1>2, <1>3, Unchanged, GoingOn DEF Look

LEMMA GiveUpHolds == ASSUME PInv, NEW r \in RunIds, GiveUp(r) PROVE PInv'
<1> DEFINE t == call[r].to
<1>0. runs \in [RunIds -> Row] /\ runs[r].session \in Sessions /\ t \in RunIds
  BY PeersTypes DEF PInv, Placed, GiveUp
<1>1. Rewritten(t, runs[t].status, runs[r].session)
  BY <1>0, RelayRewrites DEF GiveUp
<1>2. told' = told \cup {<<t, runs[r].session>>}
  BY DEF GiveUp
<1>3. RunsGoOn
  BY <1>0, <1>1, <1>2, RewrittenGoesOn
<1>4. CallsGoOn
  BY <1>3, Hanging DEF GiveUp
<1>5. told' \subseteq RunIds \X Sessions
  BY <1>0, <1>2, Unchanged
<1> QED
  BY <1>2, <1>3, <1>4, <1>5, Unchanged, GoingOn DEF GiveUp

LEMMA LifeHolds ==
    ASSUME PInv, NEW r \in RunIds,
           Begin(r) \/ Park(r) \/ Finish(r, "completed") \/ Finish(r, "failed")
             \/ Break(r, "cancelled") \/ Break(r, "interrupted")
    PROVE  PInv'
<1>0. /\ runs \in [RunIds -> Row] /\ late \in [RunIds -> LateState]
      /\ UNCHANGED <<told, answered, arrived>>
  BY PeersTypes DEF PInv, Begin, Park, Finish, Break
<1>1. PICK status \in {"queued", "running", "waiting"} \cup Ended :
        runs[r].status # "absent" /\ runs' = [runs EXCEPT ![r].status = status]
  BY DEF Begin, Park, Finish, Break, Working, Ended
<1>2. RunsGoOn
  BY <1>0, <1>1, StatusRewrites, RewrittenGoesOn DEF Ended
<1>3. CallsGoOn
  BY <1>0, <1>2, Unchanged, Hanging DEF Begin, Park, Finish, Break
<1>4. LateGoesOn
  <2>1. CASE UNCHANGED late
    BY <1>0, <2>1, Unchanged
  <2>2. CASE late' = [late EXCEPT ![r] = [NotLate EXCEPT !.pc = "reading"]]
    <3>1. LateMoved(r, "reading", NoSession)
      BY <1>0, <2>2 DEF NotLate, LateMoved, LateState
    <3> QED
      BY <1>0, <3>1, LateMoving
  <2> QED
    BY <2>1, <2>2 DEF Begin, Park, Finish, Break
<1> QED
  BY <1>0, <1>2, <1>3, <1>4, Unchanged, GoingOn

LEMMA ResumeHolds == ASSUME PInv, NEW q \in RunIds, Resume(q) PROVE PInv'
<1>0. runs \in [RunIds -> Row] /\ runs[q].session \in Sessions /\ Ends(runs[q].chain)
  BY PeersTypes DEF PInv, Placed, Short, Resume
<1>1. PICK n \in RunIds :
        /\ IsNext(n)
        /\ runs' = [runs EXCEPT ![q].status = "completed",
                                ![n] = [NoRow EXCEPT !.session = runs[q].session,
                                                     !.chain = runs[q].chain,
                                                     !.status = "queued"]]
  BY DEF Resume
<1>2. n # q /\ runs[n].status = "absent"
  BY <1>1 DEF IsNext, Resume
<1>3. [NoRow EXCEPT !.session = runs[q].session, !.chain = runs[q].chain, !.status = "queued"]
        = [session |-> runs[q].session, chain |-> runs[q].chain, status |-> "queued", relay |-> NoSession]
  BY NewRow
<1>4. /\ runs' \in [RunIds -> Row] /\ \A u \in RunIds \ {q, n} : runs'[u] = runs[u]
      /\ runs'[n].session = runs[q].session /\ runs'[n].chain = runs[q].chain
      /\ runs'[n].status = "queued" /\ runs'[n].relay = NoSession
      /\ runs'[q].session = runs[q].session /\ runs'[q].chain = runs[q].chain
      /\ runs'[q].status = "completed" /\ runs'[q].relay = runs[q].relay
  BY <1>0, <1>1, <1>2, <1>3 DEF Row, Ended
<1>5. RunsGoOn
  BY <1>0, <1>4 DEF PInv, Placed, Short, RunsGoOn
<1> QED
  BY <1>5, Unchanged, GoingOn DEF Resume

LEMMA DeliveryHolds ==
    ASSUME PInv, NEW r \in RunIds, DieLate(r) \/ ReadRelay(r) PROVE PInv'
<1>0. /\ runs \in [RunIds -> Row] /\ late \in [RunIds -> LateState]
      /\ UNCHANGED <<runs, call, told, answered, arrived>>
  BY PeersTypes DEF PInv, DieLate, ReadRelay
<1>1. CASE late' = [late EXCEPT ![r] = NotLate]
  <2>1. LateMoved(r, "none", NoSession)
    BY <1>0, <1>1 DEF NotLate, LateMoved, LateState
  <2> QED
    BY <1>0, <2>1, LateMoving, Unchanged, GoingOn
<1>2. CASE late' = [late EXCEPT ![r] = [pc |-> "clearing", to |-> runs[r].relay]]
           /\ runs[r].relay # NoSession
  <2>1. LateMoved(r, "clearing", runs[r].relay)
    BY <1>0, <1>2 DEF LateMoved, LateState, Row
  <2>2. <<r, runs[r].relay>> \in told
    BY <1>2 DEF PInv, Promised
  <2> QED
    BY <1>0, <2>1, <2>2, LateMoving, Unchanged, GoingOn
<1> QED
  BY <1>1, <1>2 DEF DieLate, ReadRelay

LEMMA ClearRelayHolds == ASSUME PInv, NEW r \in RunIds, ClearRelay(r) PROVE PInv'
<1>0. runs \in [RunIds -> Row] /\ late \in [RunIds -> LateState]
  BY PeersTypes DEF PInv
<1>1. Rewritten(r, runs[r].status, NoSession)
  BY <1>0, RelayRewrites DEF ClearRelay
<1>2. RunsGoOn
  BY <1>1, RewrittenGoesOn
<1>3. LateMoved(r, "carrying", late[r].to)
  BY <1>0 DEF ClearRelay, LateMoved, LateState
<1>4. <<r, late[r].to>> \in told
  BY DEF ClearRelay, PInv, Promised
<1>5. LateGoesOn
  BY <1>3, <1>4, LateMoving DEF ClearRelay
<1> QED
  BY <1>2, <1>5, Unchanged, GoingOn DEF ClearRelay

LEMMA CarryHolds == ASSUME PInv, NEW r \in RunIds, Carry(r) PROVE PInv'
<1>0. /\ late \in [RunIds -> LateState] /\ <<r, late[r].to>> \in told
      /\ told \subseteq RunIds \X Sessions
  BY PeersTypes DEF PInv, Promised, Carry
<1>1. late[r].to \in Sessions /\ <<>> \in Seq(Profiles)
  BY <1>0
<1>2. RunsGoOn
  BY <1>1, EmptyEnds, SubmitGoesOn DEF Carry
<1>3. LateMoved(r, "none", NoSession)
  BY <1>0 DEF Carry, NotLate, LateMoved, LateState
<1>4. LateGoesOn
  BY <1>3, LateMoving DEF Carry
<1>5. arrived' \subseteq told
  BY <1>0 DEF Carry, PInv, LateOnlyWhenTold
<1> QED
  BY <1>0, <1>2, <1>4, <1>5, Unchanged, GoingOn DEF Carry

---------------------------------------------------------------------------
\* The invariant of the proofs holds of every run of the calls, whatever answers come and get lost.
THEOREM PeersInvariance == PeersSpec => []PInv
<1>1. PeersInit => PInv
  <2> SUFFICES ASSUME PeersInit PROVE PInv
    OBVIOUS
  <2>1. runs \in [RunIds -> Row] /\ call \in [RunIds -> CallState] /\ late \in [RunIds -> LateState]
    BY DEF PeersInit, NoRow, NoCall, NotLate, Row, CallState, LateState
  <2>2. PeersTypeOK
    BY <2>1, PeersTypes DEF PeersInit
  <2>3. Placed /\ Promised /\ LateOnlyWhenTold
    BY DEF PeersInit, NoRow, NoCall, NotLate, Placed, Promised, LateOnlyWhenTold
  <2>4. Short
    BY EmptyEnds DEF PeersInit, NoRow, Short
  <2> QED
    BY <2>2, <2>3, <2>4 DEF PInv
<1>2. PInv /\ [PeersNext]_peersVars => PInv'
  <2> SUFFICES ASSUME PInv, [PeersNext]_peersVars PROVE PInv'
    OBVIOUS
  <2>1. ASSUME NEW p \in Addressed, Message(p) PROVE PInv'
    BY <2>1, MessageHolds
  <2>2. ASSUME NEW r \in RunIds, NEW q \in Profiles, Ask(r, q) PROVE PInv'
    BY <2>2, AskHolds
  <2>3. ASSUME NEW r \in RunIds, Look(r) \/ GiveUp(r) PROVE PInv'
    BY <2>3, LookHolds, GiveUpHolds
  <2>4. ASSUME NEW r \in RunIds,
               Begin(r) \/ Park(r) \/ Resume(r) \/ Finish(r, "completed") \/ Finish(r, "failed")
                 \/ Break(r, "cancelled") \/ Break(r, "interrupted")
        PROVE  PInv'
    BY <2>4, LifeHolds, ResumeHolds
  <2>5. ASSUME NEW r \in RunIds, DieLate(r) \/ ReadRelay(r) \/ ClearRelay(r) \/ Carry(r) PROVE PInv'
    BY <2>5, DeliveryHolds, ClearRelayHolds, CarryHolds
  <2>6. CASE UNCHANGED peersVars
    BY <2>6, Unchanged, GoingOn DEF peersVars
  <2> QED
    BY <2>1, <2>2, <2>3, <2>4, <2>5, <2>6 DEF PeersNext
<1> QED
  BY <1>1, <1>2, PTL DEF PeersSpec

\* PeersSafety for every set of agents: a late answer is carried only to a session that was promised
\* it when its call was given up, and a chain of questions names nobody twice and stays in its budget.
THEOREM PeersSafe == PeersSpec => []PeersSafety
<1>1. PInv => PeersSafety
  BY DEF PInv, PeersSafety, Short, Ends, ChainsEnd, IsInjective
<1> QED
  BY <1>1, PeersInvariance, PTL

---------------------------------------------------------------------------
(* EventFeed: what is true of every state *)

Rising(s) == \A i, j \in DOMAIN s : i < j => s[i] < s[j]

\* An id the log has, or where it began.
Reached(id) == id = 0 \/ id \in ToSet(log)

\* b is the next event after a.
Follows(a, b) == /\ b \in ToSet(log) /\ a < b
                 /\ \A e \in ToSet(log) : e <= a \/ b <= e

\* Ids are committed as they rise: only the holder of the lock has drawn any that are not committed.
Committed ==
    /\ Rising(log) /\ \A e \in ToSet(log) : e <= drawn
    /\ \A w \in Writers :
         /\ inserted[w] # <<>> => holder = w
         /\ Rising(inserted[w])
         /\ \A i \in DOMAIN inserted[w] :
              inserted[w][i] <= drawn /\ \A e \in ToSet(log) : e < inserted[w][i]

\* From the client's cursor, what is in the socket goes on event by event to the stream's cursor,
\* and from there what was read.
LastSent == IF socket = <<>> THEN client.cursor ELSE socket[Len(socket)].id
Linked ==
    /\ \A i \in DOMAIN socket :
         /\ socket[i].opens <=> i = 1 /\ client.cursor = NoCursor
         /\ socket[i].opens => Reached(socket[i].id)
         /\ ~socket[i].opens => Follows(IF i = 1 THEN client.cursor ELSE socket[i - 1].id, socket[i].id)
    /\ stream.pc = "closed" => stream = Closed /\ socket = <<>>
    /\ stream.pc # "closed" => stream.cursor = LastSent
    /\ Rising(stream.page)
    /\ \A i \in DOMAIN stream.page :
         Follows(IF i = 1 THEN stream.cursor ELSE stream.page[i - 1], stream.page[i])

\* What the client heard is the log, from the k events there were where it came in.
UpTo(id, k) == \A i \in DOMAIN log : log[i] <= id <=> i <= k
HeardFrom(k) ==
    /\ UpTo(client.since, k) /\ Reached(client.since)
    /\ k + Len(client.heard) <= Len(log)
    /\ \A i \in DOMAIN client.heard : client.heard[i] = log[k + i]
    /\ client.cursor = IF client.heard = <<>> THEN client.since ELSE client.heard[Len(client.heard)]
Heard == IF client.since = NoCursor THEN client.cursor = NoCursor /\ client.heard = <<>>
         ELSE \E k \in 0..Len(log) : HeardFrom(k)

\* What a stream read, and then what it told, is all there is while nothing comes to wake it.
Fresh ==
    stream.waiter /\ listening /\ notices = 0 =>
        /\ stream.pc = "writing" /\ Len(stream.page) # Page =>
             \A e \in ToSet(log) : e <= stream.cursor \/ e \in ToSet(stream.page)
        /\ stream.pc = "waiting" /\ ~stream.cut => \A e \in ToSet(log) : e <= stream.cursor

FInv == TypeOK /\ Committed /\ Linked /\ Heard /\ Fresh

StreamState == [pc : {"closed", "pump", "reading", "writing", "waiting"}, cursor : 0..MaxId,
                page : Seq(Ids), waiter : BOOLEAN, draining : BOOLEAN, cut : BOOLEAN]
SocketMessage == [id : 0..MaxId, opens : BOOLEAN]
ClientState == [cursor : Cursors, since : Cursors, heard : Seq(Ids)]

LEMMA Types == TypeOK <=>
    /\ drawn \in 0..MaxId /\ holder \in Writers \cup {Nobody}
    /\ inserted \in [Writers -> Seq(Ids)] /\ log \in Seq(Ids)
    /\ notices \in Nat /\ listening \in BOOLEAN
    /\ stream \in StreamState /\ socket \in Seq(SocketMessage) /\ client \in ClientState
BY DEF TypeOK, StreamState, SocketMessage, ClientState

LEMMA Numbers == MaxId \in Nat /\ Page \in Nat /\ Room \in Nat
BY FeedAssumption DEF FeedAssumption

---------------------------------------------------------------------------
(* The log and its order *)

\* Where an id of the log, or its beginning, is in the log.
LEMMA Position ==
    ASSUME log \in Seq(Ids), Rising(log), NEW id, Reached(id)
    PROVE  \E k \in 0..Len(log) : UpTo(id, k)
<1>0. \A i \in DOMAIN log : log[i] \in Nat /\ log[i] > 0 /\ DOMAIN log = 1..Len(log)
  BY Numbers DEF Ids
<1>1. CASE id = 0
  <2>1. UpTo(id, 0)
    BY <1>0, <1>1 DEF UpTo
  <2> QED
    BY <2>1
<1>2. CASE id # 0
  <2>1. PICK k \in DOMAIN log : log[k] = id
    BY <1>2 DEF Reached, ToSet
  <2>2. UpTo(id, k)
    BY <1>0, <2>1 DEF UpTo, Rising
  <2> QED
    BY <1>0, <2>1, <2>2
<1> QED
  BY <1>1, <1>2

\* The event after the first k is the next one of the log.
LEMMA NextIs ==
    ASSUME log \in Seq(Ids), Rising(log), NEW a \in Int, NEW b, NEW k \in 0..Len(log),
           UpTo(a, k), Follows(a, b)
    PROVE  k + 1 \in DOMAIN log /\ b = log[k + 1]
<1>0. DOMAIN log = 1..Len(log) /\ Len(log) \in Nat /\ \A i \in DOMAIN log : log[i] \in Int
  BY Numbers DEF Ids
<1>1. PICK j \in DOMAIN log : log[j] = b
  BY DEF Follows, ToSet
<1>2. j > k
  BY <1>0, <1>1 DEF Follows, UpTo
<1>3. k + 1 \in DOMAIN log
  BY <1>0, <1>2
<1>4. log[k + 1] \in ToSet(log) /\ ~(log[k + 1] <= a)
  BY <1>0, <1>3 DEF ToSet, UpTo
<1>5. b <= log[k + 1]
  BY <1>4 DEF Follows
<1>6. ~(k + 1 < j)
  BY <1>0, <1>1, <1>3, <1>5 DEF Rising
<1> QED
  BY <1>0, <1>1, <1>2, <1>3, <1>6

\* How many events there were up to an id.
LEMMA CountUpTo ==
    ASSUME log \in Seq(Ids), NEW id, NEW k \in 0..Len(log), UpTo(id, k)
    PROVE  Cardinality({i \in DOMAIN log : log[i] <= id}) = k
<1>1. {i \in DOMAIN log : log[i] <= id} = 1..k
  BY DEF UpTo
<1>2. Cardinality(1..k) = k
  BY FS_Interval
<1> QED
  BY <1>1, <1>2

\* The log grows by later ids.
Grown == /\ log' \in Seq(Ids) /\ Len(log) <= Len(log') /\ \A i \in DOMAIN log : log'[i] = log[i]
         /\ Rising(log') /\ \A i \in DOMAIN log' \ DOMAIN log : \A e \in ToSet(log) : e < log'[i]

LEMMA GrownKeeps ==
    ASSUME log \in Seq(Ids), Grown
    PROVE  /\ ToSet(log) \subseteq ToSet(log')
           /\ \A id : Reached(id) => Reached(id)'
           /\ \A a, b : Follows(a, b) => Follows(a, b)'
<1>0. /\ DOMAIN log = 1..Len(log) /\ Len(log) \in Nat /\ DOMAIN log' = 1..Len(log')
      /\ \A i \in DOMAIN log : log[i] \in Int /\ \A j \in DOMAIN log' : log'[j] \in Int
  BY Numbers DEF Grown, Ids
<1>1. ToSet(log) \subseteq ToSet(log')
  BY <1>0 DEF Grown, ToSet
<1>2. \A id : Reached(id) => Reached(id)'
  BY <1>1 DEF Reached
<1>3. ASSUME NEW a, NEW b, Follows(a, b) PROVE Follows(a, b)'
  <2>1. b \in ToSet(log') /\ a < b
    BY <1>1, <1>3 DEF Follows
  <2>2. ASSUME NEW e \in ToSet(log') PROVE e <= a \/ b <= e
    <3>1. PICK i \in DOMAIN log' : log'[i] = e
      BY DEF ToSet
    <3>2. CASE i \in DOMAIN log
      BY <1>3, <3>1, <3>2 DEF Grown, Follows, ToSet
    <3>3. CASE i \notin DOMAIN log
      <4>1. b < e
        BY <1>3, <3>1, <3>3 DEF Grown, Follows
      <4>2. b \in Int /\ e \in Int
        BY <1>0, <1>3, <3>1 DEF Follows, ToSet
      <4> QED
        BY <4>1, <4>2
    <3> QED
      BY <3>2, <3>3
  <2> QED
    BY <2>1, <2>2 DEF Follows
<1> QED
  BY <1>1, <1>2, <1>3

LEMMA GrownKeepsUpTo ==
    ASSUME log \in Seq(Ids), Rising(log), Grown, NEW id, Reached(id), NEW k \in 0..Len(log), UpTo(id, k)
    PROVE  UpTo(id, k)'
<1>0. /\ DOMAIN log = 1..Len(log) /\ Len(log) \in Nat /\ DOMAIN log' = 1..Len(log') /\ Len(log') \in Nat
      /\ \A j \in DOMAIN log' : log'[j] \in Int /\ log'[j] > 0
  BY Numbers DEF Grown, Ids
<1>1. ASSUME NEW i \in DOMAIN log' PROVE log'[i] <= id <=> i <= k
  <2>1. CASE i \in DOMAIN log
    BY <2>1 DEF Grown, UpTo
  <2>2. CASE i \notin DOMAIN log
    <3>1. id = 0 \/ id < log'[i]
      BY <2>2 DEF Grown, Reached
    <3>2. id \in Int
      BY Numbers DEF Reached, ToSet, Ids
    <3> QED
      BY <1>0, <2>2, <3>1, <3>2
  <2> QED
    BY <2>1, <2>2
<1> QED
  BY <1>1 DEF UpTo

---------------------------------------------------------------------------
(* Transactions *)

LEMMA CommittedTypes ==
    ASSUME TypeOK, NEW w \in Writers
    PROVE  /\ inserted[w] \in Seq(Ids) /\ DOMAIN inserted[w] = 1..Len(inserted[w])
           /\ Len(inserted[w]) \in Nat /\ \A i \in DOMAIN inserted[w] : inserted[w][i] \in Int
           /\ log \in Seq(Ids) /\ DOMAIN log = 1..Len(log) /\ Len(log) \in Nat
           /\ (\A i \in DOMAIN log : log[i] \in Int) /\ \A e \in ToSet(log) : e \in Int
<1>1. inserted[w] \in Seq(Ids) /\ log \in Seq(Ids) /\ Ids \subseteq Int
  BY Types, Numbers DEF Ids
<1>2. /\ DOMAIN inserted[w] = 1..Len(inserted[w]) /\ Len(inserted[w]) \in Nat
      /\ \A i \in DOMAIN inserted[w] : inserted[w][i] \in Ids
  BY <1>1
<1>3. DOMAIN log = 1..Len(log) /\ Len(log) \in Nat /\ \A i \in DOMAIN log : log[i] \in Ids
  BY <1>1
<1>4. \A e \in ToSet(log) : e \in Int
  BY <1>1, <1>3 DEF ToSet
<1> QED
  BY <1>1, <1>2, <1>3, <1>4

\* What leaves the log, the stream and the client alone.
LEMMA QuietHolds ==
    ASSUME FInv, TypeOK', Committed',
           UNCHANGED <<log, notices, listening, stream, socket, client>>
    PROVE  FInv'
BY DEF FInv, Linked, LastSent, Reached, Follows, Heard, HeardFrom, UpTo, Fresh

LEMMA LockHolds == ASSUME FInv, NEW w \in Writers, Lock(w) PROVE FInv'
<1>1. TypeOK'
  BY Types DEF FInv, Lock, TypeOK, StreamState, SocketMessage, ClientState
<1>2. Committed'
  BY FeedAssumption DEF FeedAssumption, FInv, Committed, Lock
<1> QED
  BY <1>1, <1>2, QuietHolds DEF Lock

LEMMA InsertHolds == ASSUME FInv, NEW w \in Writers, Insert(w) PROVE FInv'
<1> DEFINE new == Append(inserted[w], drawn + 1)
<1>0. drawn + 1 \in Ids /\ drawn' = drawn + 1 /\ inserted' = [inserted EXCEPT ![w] = new]
  BY Types, Numbers DEF FInv, Insert, Ids
<1>1. /\ new \in Seq(Ids) /\ Len(new) = Len(inserted[w]) + 1
      /\ \A i \in 1..Len(inserted[w]) : new[i] = inserted[w][i]
      /\ new[Len(inserted[w]) + 1] = drawn + 1
  BY <1>0, CommittedTypes, AppendProperties DEF FInv
<1> HIDE DEF new
<1>2. TypeOK'
  <2>1. inserted' \in [Writers -> Seq(Ids)]
    BY <1>0, <1>1, Types DEF FInv
  <2> QED
    BY <1>0, <2>1, Types, Numbers DEF FInv, Insert, TypeOK, StreamState, SocketMessage, ClientState, Ids
<1>3. /\ holder = w /\ \A v \in Writers : v # w => inserted'[v] = inserted[v]
      /\ inserted'[w] = new
  BY <1>0, Types DEF FInv, Committed, Insert
<1>4. DOMAIN new = 1..Len(inserted[w]) + 1
  BY <1>1, CommittedTypes DEF FInv
<1>5. Rising(new)
  <2> SUFFICES ASSUME NEW i \in DOMAIN new, NEW j \in DOMAIN new, i < j PROVE new[i] < new[j]
    BY DEF Rising
  <2>1. i \in DOMAIN inserted[w] /\ inserted[w][i] <= drawn
    BY <1>4, CommittedTypes DEF FInv, Committed
  <2>2. inserted[w][i] < drawn + 1
    BY <2>1, CommittedTypes, Types DEF FInv
  <2>3. CASE j = Len(inserted[w]) + 1
    BY <1>1, <2>1, <2>2, <2>3, CommittedTypes DEF FInv
  <2>4. CASE j # Len(inserted[w]) + 1
    <3>1. j \in DOMAIN inserted[w]
      BY <1>4, <2>4, CommittedTypes DEF FInv
    <3> QED
      BY <1>1, <2>1, <3>1, CommittedTypes DEF FInv, Committed, Rising
  <2> QED
    BY <2>3, <2>4
<1>6. ASSUME NEW i \in DOMAIN new
      PROVE  new[i] <= drawn + 1 /\ \A e \in ToSet(log) : e < new[i]
  <2>1. CASE i = Len(inserted[w]) + 1
    <3>1. \A e \in ToSet(log) : e \in Int /\ e <= drawn
      BY CommittedTypes DEF FInv, Committed
    <3> QED
      BY <1>1, <2>1, <3>1, Types DEF FInv
  <2>2. CASE i # Len(inserted[w]) + 1
    <3>1. i \in DOMAIN inserted[w]
      BY <1>4, <2>2, CommittedTypes DEF FInv
    <3> QED
      BY <1>1, <3>1, CommittedTypes, Types DEF FInv, Committed
  <2> QED
    BY <2>1, <2>2
<1>7. \A e \in ToSet(log) : e <= drawn + 1
  BY CommittedTypes, Types DEF FInv, Committed
<1>8. \A v \in Writers : v # w => inserted[v] = <<>>
  BY <1>3 DEF FInv, Committed
<1>9. Committed'
  <2>1. Rising(log)' /\ \A e \in ToSet(log') : e <= drawn'
    BY <1>0, <1>7 DEF FInv, Committed, Insert, Rising
  <2>2. ASSUME NEW v \in Writers
        PROVE  /\ inserted'[v] # <<>> => holder' = v
               /\ Rising(inserted'[v])
               /\ \A i \in DOMAIN inserted'[v] :
                    inserted'[v][i] <= drawn' /\ \A e \in ToSet(log') : e < inserted'[v][i]
    <3>1. CASE v = w
      BY <1>0, <1>3, <1>5, <1>6, <3>1 DEF Insert
    <3>2. CASE v # w
      BY <1>3, <1>8, <3>2 DEF Rising
    <3> QED
      BY <3>1, <3>2
  <2> QED
    BY <2>1, <2>2 DEF Committed, Rising
<1> QED
  BY <1>2, <1>9, QuietHolds DEF Insert

LEMMA EndEffect ==
    ASSUME TypeOK, NEW w \in Writers, End(w)
    PROVE  /\ inserted' \in [Writers -> Seq(Ids)] /\ inserted'[w] = <<>>
           /\ \A v \in Writers : v # w => inserted'[v] = inserted[v]
           /\ holder' \in Writers \cup {Nobody} /\ (holder # w => holder' = holder)
BY Types DEF End

LEMMA RollbackHolds == ASSUME FInv, NEW w \in Writers, Rollback(w) PROVE FInv'
<1>1. TypeOK'
  <2>1. inserted' \in [Writers -> Seq(Ids)] /\ holder' \in Writers \cup {Nobody}
    BY EndEffect DEF FInv, Rollback
  <2> QED
    BY <2>1, Types DEF FInv, Rollback, TypeOK, StreamState, SocketMessage, ClientState
<1>2. \A v \in Writers : inserted'[v] = <<>>
  BY EndEffect DEF FInv, Committed, Rollback
<1>3. Committed'
  BY <1>2 DEF FInv, Committed, Rollback, Rising
<1> QED
  BY <1>1, <1>3, QuietHolds DEF Rollback

LEMMA ElsewhereHolds == ASSUME FInv, Elsewhere PROVE FInv'
<1>1. TypeOK'
  BY Types, Numbers DEF FInv, Elsewhere, TypeOK, StreamState, SocketMessage, ClientState
<1>2. \A e \in ToSet(log) : e <= drawn + 1
  <2>1. \A e \in ToSet(log) : e \in Int /\ e <= drawn
    BY Types, Numbers DEF FInv, Committed, ToSet, Ids
  <2> QED
    BY <2>1, Types DEF FInv
<1>3. ASSUME NEW w \in Writers, NEW i \in DOMAIN inserted[w] PROVE inserted[w][i] <= drawn + 1
  BY CommittedTypes, Types DEF FInv, Committed
<1>4. Committed'
  BY <1>2, <1>3 DEF FInv, Committed, Elsewhere, Rising
<1> QED
  BY <1>1, <1>4, QuietHolds DEF Elsewhere

\* A commit makes the log grow by later ids.
LEMMA CommitGrows ==
    ASSUME FInv, NEW w \in Writers, Commit(w)
    PROVE  Grown /\ ToSet(log') \subseteq ToSet(log) \cup ToSet(inserted[w]) /\ Len(log) < Len(log')
<1> DEFINE new == inserted[w]
<1>1. /\ new \in Seq(Ids) /\ DOMAIN new = 1..Len(new) /\ Len(new) \in Nat /\ new # <<>>
      /\ log \in Seq(Ids) /\ DOMAIN log = 1..Len(log) /\ Len(log) \in Nat
      /\ Rising(log) /\ Rising(new) /\ log' = log \o new
      /\ \A i \in DOMAIN new : \A e \in ToSet(log) : e < new[i]
  BY CommittedTypes DEF FInv, Committed, Commit
<1> HIDE DEF new
<1>2. /\ log' \in Seq(Ids) /\ Len(log') = Len(log) + Len(new)
      /\ \A i \in 1..Len(log) + Len(new) : log'[i] = IF i <= Len(log) THEN log[i] ELSE new[i - Len(log)]
  BY <1>1, ConcatProperties
<1>3. DOMAIN log' = 1..Len(log) + Len(new) /\ Len(new) > 0
  BY <1>1, <1>2
<1>4. \A i \in DOMAIN log : log'[i] = log[i]
  BY <1>1, <1>2
<1>5. ASSUME NEW i \in DOMAIN log' \ DOMAIN log
      PROVE  i - Len(log) \in DOMAIN new /\ log'[i] = new[i - Len(log)]
  BY <1>1, <1>2, <1>3
<1>6. \A i \in DOMAIN log' \ DOMAIN log : \A e \in ToSet(log) : e < log'[i]
  BY <1>1, <1>5
<1>7. Rising(log')
  <2> SUFFICES ASSUME NEW i \in DOMAIN log', NEW j \in DOMAIN log', i < j PROVE log'[i] < log'[j]
    BY DEF Rising
  <2>1. CASE j \in DOMAIN log
    BY <1>1, <1>3, <1>4, <2>1 DEF Rising
  <2>2. CASE j \notin DOMAIN log /\ i \in DOMAIN log
    BY <1>4, <1>6, <2>2 DEF ToSet
  <2>3. CASE j \notin DOMAIN log /\ i \notin DOMAIN log
    <3>1. i - Len(log) < j - Len(log)
      BY <1>1, <1>3
    <3> QED
      BY <1>1, <1>5, <2>3, <3>1 DEF Rising
  <2> QED
    BY <2>1, <2>2, <2>3
<1>8. ToSet(log') \subseteq ToSet(log) \cup ToSet(new)
  <2> SUFFICES ASSUME NEW i \in DOMAIN log' PROVE log'[i] \in ToSet(log) \cup ToSet(new)
    BY DEF ToSet
  <2> QED
    BY <1>4, <1>5 DEF ToSet
<1> QED
  BY <1>1, <1>2, <1>3, <1>4, <1>6, <1>7, <1>8 DEF Grown, new

LEMMA CommitHolds == ASSUME FInv, NEW w \in Writers, Commit(w) PROVE FInv'
<1>0. Grown /\ ToSet(log') \subseteq ToSet(log) \cup ToSet(inserted[w]) /\ log \in Seq(Ids)
  BY CommitGrows, Types DEF FInv
<1>1. TypeOK'
  <2>1. inserted' \in [Writers -> Seq(Ids)] /\ holder' \in Writers \cup {Nobody}
    BY EndEffect DEF FInv, Commit
  <2>2. notices' \in Nat /\ log' \in Seq(Ids)
    BY <1>0, Types DEF FInv, Commit, Grown
  <2> QED
    BY <2>1, <2>2, Types DEF FInv, Commit, TypeOK, StreamState, SocketMessage, ClientState
<1>2. holder = w /\ \A v \in Writers : inserted'[v] = <<>>
  BY EndEffect DEF FInv, Committed, Commit
<1>3. \A e \in ToSet(log') : e <= drawn
  BY <1>0 DEF FInv, Committed, ToSet
<1>4. Committed'
  BY <1>0, <1>2, <1>3 DEF Committed, Commit, Grown, Rising
<1>5. /\ \A id : Reached(id) => Reached(id)'
      /\ \A a, b : Follows(a, b) => Follows(a, b)'
  BY <1>0, GrownKeeps
<1>6. Linked'
  <2> USE DEF FInv, Linked
  <2>0. UNCHANGED <<stream, socket, client>>
    BY DEF Commit
  <2>1. \A i \in DOMAIN socket' :
          /\ socket'[i].opens <=> i = 1 /\ client'.cursor = NoCursor
          /\ socket'[i].opens => Reached(socket[i].id)'
    BY <1>5, <2>0
  <2>2. \A i \in DOMAIN socket' : ~socket'[i].opens =>
          Follows(IF i = 1 THEN client.cursor ELSE socket[i - 1].id, socket[i].id)'
    BY <1>5, <2>0
  <2>3. /\ stream'.pc = "closed" => stream' = Closed /\ socket' = <<>>
        /\ stream'.pc # "closed" => stream'.cursor = LastSent'
        /\ Rising(stream'.page)
    BY <2>0 DEF LastSent, Rising
  <2>4. \A i \in DOMAIN stream'.page :
          Follows(IF i = 1 THEN stream.cursor ELSE stream.page[i - 1], stream.page[i])'
    BY <1>5, <2>0
  <2> QED
    BY <2>1, <2>2, <2>3, <2>4
<1>7. Heard'
  <2>1. CASE client.since = NoCursor
    BY <2>1 DEF FInv, Heard, Commit
  <2>2. CASE client.since # NoCursor
    <3>1. PICK k \in 0..Len(log) : HeardFrom(k)
      BY <2>2 DEF FInv, Heard
    <3>2. UpTo(client.since, k)' /\ Reached(client.since)'
      <4>1. UpTo(client.since, k) /\ Reached(client.since)
        BY <3>1 DEF HeardFrom
      <4>2. \A id : Reached(id) /\ UpTo(id, k) => UpTo(id, k)'
        BY <1>0, GrownKeepsUpTo DEF FInv, Committed
      <4> QED
        BY <1>5, <4>1, <4>2 DEF Commit
    <3>3. Len(client.heard) \in Nat /\ DOMAIN client.heard = 1..Len(client.heard)
      BY Types DEF FInv, ClientState
    <3>4. k + Len(client.heard) <= Len(log') /\ \A i \in DOMAIN client.heard : log'[k + i] = log[k + i]
      BY <1>0, <3>1, <3>3 DEF HeardFrom, Grown
    <3>5. HeardFrom(k)'
      BY <3>1, <3>2, <3>4 DEF HeardFrom, Commit
    <3>6. k \in 0..Len(log')
      BY <1>0 DEF Grown
    <3> QED
      BY <2>2, <3>5, <3>6 DEF Heard, Commit
  <2> QED
    BY <2>1, <2>2
<1>8. Fresh'
  BY Types DEF FInv, Fresh, Commit
<1> QED
  BY <1>1, <1>4, <1>6, <1>7, <1>8 DEF FInv

---------------------------------------------------------------------------
(* The listener and the stream *)

\* The log is as it was, and so is what was said of it.
LEMMA SameLog ==
    ASSUME FInv, UNCHANGED <<drawn, holder, inserted, log>>
    PROVE  /\ Committed' /\ (\A id : Reached(id)' <=> Reached(id))
           /\ \A a, b : Follows(a, b)' <=> Follows(a, b)
BY DEF FInv, Committed, Rising, Reached, Follows

\* The stream goes on with what it read.
LEMMA PlaceHolds ==
    ASSUME FInv, stream' \in StreamState, stream'.cursor = stream.cursor, stream'.page = stream.page,
           IF stream.pc = "closed" THEN stream' = stream ELSE stream'.pc # "closed",
           notices' \in Nat, listening' \in BOOLEAN, Fresh', UNCHANGED <<database, socket, client>>
    PROVE  FInv'
<1> USE DEF database
<1>1. TypeOK'
  BY Types DEF FInv, TypeOK, StreamState, SocketMessage, ClientState
<1>2. Linked'
  BY SameLog DEF FInv, Linked, LastSent, Rising
<1>3. Heard'
  BY DEF FInv, Heard, HeardFrom, UpTo, Reached
<1> QED
  BY <1>1, <1>2, <1>3, SameLog DEF FInv

LEMMA ListenerHolds == ASSUME FInv, Notice \/ DropListener \/ Listen PROVE FInv'
<1>0. stream \in StreamState /\ notices \in Nat /\ listening \in BOOLEAN
  BY Types DEF FInv
<1>1. CASE DropListener
  BY <1>0, <1>1, PlaceHolds DEF DropListener, Fresh
<1>2. CASE Notice \/ Listen
  <2>1. Wake /\ notices' \in Nat /\ listening' \in BOOLEAN /\ UNCHANGED <<database, socket, client>>
    <3>1. CASE Notice
      BY <1>0, <3>1 DEF Notice
    <3>2. CASE Listen
      <4>1. listening' = TRUE /\ notices' = notices
        BY <3>2 DEF Listen
      <4> QED
        BY <1>0, <3>2, <4>1 DEF Listen
    <3> QED
      BY <1>2, <3>1, <3>2
  <2>2. /\ stream' \in StreamState /\ stream'.pc = stream.pc /\ stream'.cursor = stream.cursor
        /\ stream'.page = stream.page /\ stream'.waiter = FALSE
    BY <1>0, <2>1 DEF Wake, StreamState
  <2>3. ASSUME stream.pc = "closed" PROVE stream' = stream
    <3>1. stream = Closed
      BY <2>3 DEF FInv, Linked
    <3>2. stream.waiter = FALSE
      BY <3>1 DEF Closed
    <3> QED
      BY <1>0, <2>1, <3>2 DEF Wake, StreamState
  <2>4. Fresh'
    BY <2>2 DEF Fresh
  <2> QED
    BY <2>1, <2>2, <2>3, <2>4, PlaceHolds
<1> QED
  BY <1>1, <1>2

LEMMA PlacesHold == ASSUME FInv, Subscribe \/ Woken \/ Heartbeat PROVE FInv'
<1>0. stream \in StreamState /\ notices \in Nat /\ listening \in BOOLEAN
  BY Types DEF FInv
<1>1. /\ stream' \in StreamState /\ stream'.pc \in {"reading", "pump"} /\ stream.pc # "closed"
      /\ stream'.cursor = stream.cursor /\ stream'.page = stream.page
  BY <1>0 DEF Subscribe, Woken, Heartbeat, StreamState
<1>2. Fresh'
  BY <1>1 DEF Fresh
<1> QED
  BY <1>0, <1>1, <1>2, PlaceHolds DEF Subscribe, Woken, Heartbeat

\* A page goes on event by event from the cursor, and has all there is unless it is full.
LEMMA PageFollows ==
    ASSUME log \in Seq(Ids), NEW cursor \in 0..MaxId, NEW page \in Pages(cursor)
    PROVE  /\ page \in Seq(Ids) /\ Rising(page)
           /\ \A i \in DOMAIN page : Follows(IF i = 1 THEN cursor ELSE page[i - 1], page[i])
           /\ Len(page) # Page => \A e \in ToSet(log) : e <= cursor \/ e \in ToSet(page)
<1>0. \A e \in ToSet(log) : e \in Ids /\ e \in Int
  BY Numbers DEF ToSet, Ids
<1>1. PICK n \in 0..Page : page \in [1..n -> After(cursor)]
  BY DEF Pages
<1>2. After(cursor) \subseteq Ids /\ After(cursor) \subseteq ToSet(log)
  BY <1>0 DEF After
<1>3. page \in Seq(Ids) /\ DOMAIN page = 1..n /\ Len(page) = n /\ n \in Nat
  BY <1>1, <1>2, Numbers
<1>4. Rising(page)
  BY DEF Pages, Rising
<1>5. ASSUME NEW i \in DOMAIN page PROVE Follows(IF i = 1 THEN cursor ELSE page[i - 1], page[i])
  <2> DEFINE a == IF i = 1 THEN cursor ELSE page[i - 1]
  <2>0. i # 1 => i - 1 \in DOMAIN page
    BY <1>3
  <2>1. page[i] \in After(cursor) /\ (i # 1 => page[i - 1] \in After(cursor))
    BY <1>1, <1>3, <2>0
  <2>2. a < page[i] /\ cursor <= a /\ a \in Int
    BY <1>0, <1>3, <1>4, <2>0, <2>1 DEF After, Rising
  <2>3. ASSUME NEW e \in ToSet(log), ~(e <= a) PROVE page[i] <= e
    <3>1. e \in After(cursor)
      BY <1>0, <2>2, <2>3 DEF After
    <3>2. CASE \E j \in DOMAIN page : page[j] = e
      <4>1. PICK j \in DOMAIN page : page[j] = e
        BY <3>2
      <4>2. ~(j < i)
        <5> SUFFICES ASSUME j < i PROVE FALSE
          OBVIOUS
        <5>1. i # 1 /\ j <= i - 1 /\ page[i - 1] \in Int
          BY <1>0, <1>2, <1>3, <2>1
        <5>3. j # i - 1 => page[j] < page[i - 1]
          BY <1>3, <1>4, <2>0, <5>1 DEF Rising
        <5>4. page[j] \in Int
          BY <1>0, <4>1
        <5>2. page[j] <= page[i - 1]
          BY <5>1, <5>3, <5>4
        <5> QED
          BY <2>3, <4>1, <5>1, <5>2
      <4>3. e \in Int /\ page[i] \in Int
        BY <1>0, <1>2, <2>1
      <4> QED
        BY <1>3, <1>4, <4>1, <4>2, <4>3 DEF Rising
    <3>3. CASE \A j \in DOMAIN page : page[j] < e
      BY <1>0, <1>2, <2>1, <3>3
    <3> QED
      BY <3>1, <3>2, <3>3 DEF Pages
  <2> QED
    BY <1>2, <2>1, <2>2, <2>3 DEF Follows
<1>6. ASSUME Len(page) # Page, NEW e \in ToSet(log), ~(e <= cursor) PROVE e \in ToSet(page)
  <2>1. e \in After(cursor)
    BY <1>0, <1>6, Numbers DEF After
  <2>2. \E i \in DOMAIN page : page[i] = e
    BY <1>6, <2>1 DEF Pages
  <2> QED
    BY <2>2 DEF ToSet
<1> QED
  BY <1>3, <1>4, <1>5, <1>6

LEMMA ReadHolds == ASSUME FInv, Read PROVE FInv'
<1>0. /\ stream \in StreamState /\ notices \in Nat /\ listening \in BOOLEAN /\ log \in Seq(Ids)
      /\ stream.cursor \in 0..MaxId
  BY Types DEF FInv, StreamState
<1>1. PICK page \in Pages(stream.cursor) : stream' = [stream EXCEPT !.pc = "writing", !.page = page]
  BY DEF Read
<1>2. /\ page \in Seq(Ids) /\ Rising(page)
      /\ \A i \in DOMAIN page : Follows(IF i = 1 THEN stream.cursor ELSE page[i - 1], page[i])
      /\ Len(page) # Page => \A e \in ToSet(log) : e <= stream.cursor \/ e \in ToSet(page)
  BY <1>0, <1>1, PageFollows
<1>3. /\ stream' \in StreamState /\ stream'.pc = "writing" /\ stream'.page = page
      /\ stream'.cursor = stream.cursor /\ stream.pc = "reading"
  BY <1>0, <1>1, <1>2 DEF Read, StreamState
<1>4. TypeOK'
  BY <1>3, Types DEF FInv, Read, database, TypeOK, StreamState, SocketMessage, ClientState
<1>5. Committed' /\ \A a, b : Follows(a, b)' <=> Follows(a, b)
  BY SameLog DEF Read, database
<1>6. Linked'
  <2>1. \A i \in DOMAIN socket : socket[i].opens => Reached(socket[i].id)'
    BY SameLog DEF FInv, Linked, Read, database
  <2> QED
    BY <1>2, <1>3, <1>5, <2>1 DEF FInv, Linked, LastSent, Read, Rising
<1>7. Heard'
  BY DEF FInv, Heard, HeardFrom, UpTo, Reached, Read, database
<1>8. Fresh'
  BY <1>2, <1>3 DEF Fresh, Read, database
<1> QED
  BY <1>4, <1>5, <1>6, <1>7, <1>8 DEF FInv

LEMMA CloseHolds == ASSUME FInv, Close PROVE FInv'
<1>1. TypeOK'
  <2>1. Closed \in StreamState /\ <<>> \in Seq(SocketMessage)
    BY Numbers DEF Closed, StreamState
  <2> QED
    BY <2>1, Types DEF FInv, Close, database, TypeOK, StreamState, SocketMessage, ClientState
<1>2. Linked' /\ Fresh'
  BY DEF Close, Closed, Linked, Fresh, Rising
<1>3. Heard'
  BY DEF FInv, Heard, HeardFrom, UpTo, Reached, Close, database
<1> QED
  BY <1>1, <1>2, <1>3, SameLog DEF FInv, Close, database

LEMMA LatestReached == ASSUME FInv PROVE Reached(Latest) /\ Latest \in 0..MaxId
<1>0. log \in Seq(Ids) /\ Rising(log)
  BY Types DEF FInv, Committed
<1>1. CASE log = <<>>
  BY <1>1, Numbers DEF Latest, Reached
<1>2. CASE log # <<>>
  <2>1. Len(log) \in DOMAIN log /\ \A i \in DOMAIN log : i <= Len(log) /\ log[i] \in Int
    BY <1>0, <1>2, Numbers DEF Ids
  <2>2. log[Len(log)] \in ToSet(log) /\ \A e \in ToSet(log) : e <= log[Len(log)]
    BY <1>0, <2>1 DEF ToSet, Rising
  <2>3. Latest \in ToSet(log)
    BY <1>2, <2>2 DEF Latest
  <2>4. ToSet(log) \subseteq 0..MaxId
    BY <1>0, Numbers DEF ToSet, Ids
  <2> QED
    BY <2>3, <2>4 DEF Reached
<1> QED
  BY <1>1, <1>2

LEMMA OpenHolds == ASSUME FInv, Open PROVE FInv'
<1>0. /\ (client.cursor = NoCursor => Latest \in 0..MaxId /\ Reached(Latest))
      /\ (client.cursor # NoCursor => client.cursor \in 0..MaxId)
  BY LatestReached, Types DEF FInv, ClientState, Cursors
<1>1. PICK cursor \in 0..MaxId :
        /\ cursor = IF client.cursor = NoCursor THEN Latest ELSE client.cursor
        /\ client.cursor = NoCursor => Reached(cursor)
  BY <1>0
<1>2. /\ socket' = IF client.cursor = NoCursor THEN <<[id |-> cursor, opens |-> TRUE]>> ELSE <<>>
      /\ stream' = [Closed EXCEPT !.pc = "pump", !.cursor = cursor, !.draining = Len(socket') >= Room]
  BY <1>1 DEF Open
<1>3. [id |-> cursor, opens |-> TRUE] \in SocketMessage
  BY DEF SocketMessage
<1>4. socket' \in Seq(SocketMessage)
  BY <1>2, <1>3
<1>5. stream' \in StreamState /\ stream'.pc = "pump" /\ stream'.page = <<>> /\ stream'.cursor = cursor
  <2> DEFINE full == Len(socket') >= Room
             one == [Closed EXCEPT !.pc = "pump"]
             two == [one EXCEPT !.cursor = cursor]
  <2>1. full \in BOOLEAN
    OBVIOUS
  <2>2. stream' = [two EXCEPT !.draining = full]
    BY <1>2
  <2>3. Closed \in StreamState /\ Closed.page = <<>>
    BY Numbers DEF Closed, StreamState
  <2> HIDE DEF full, one, two
  <2>4. one \in StreamState /\ one.pc = "pump" /\ one.page = <<>>
    BY <2>3 DEF one, StreamState
  <2>5. two \in StreamState /\ two.pc = "pump" /\ two.page = <<>> /\ two.cursor = cursor
    BY <2>4 DEF two, StreamState
  <2> QED
    BY <2>1, <2>2, <2>5 DEF StreamState
<1>6. TypeOK'
  BY <1>4, <1>5, Types DEF FInv, Open, database, TypeOK, StreamState, SocketMessage, ClientState
<1>7. Linked'
  <2>1. CASE client.cursor = NoCursor
    <3>1. /\ Len(socket') = 1 /\ DOMAIN socket' = {1} /\ socket' # <<>>
          /\ socket'[1] = [id |-> cursor, opens |-> TRUE]
      BY <1>2, <2>1
    <3>2. socket'[1].opens = TRUE /\ socket'[1].id = cursor
      BY <3>1
    <3>3. Reached(socket[1].id)'
      BY <1>1, <2>1, <3>1, <3>2, SameLog DEF Open, database
    <3> QED
      BY <1>5, <2>1, <3>1, <3>2, <3>3 DEF Linked, LastSent, Open, Rising
  <2>2. CASE client.cursor # NoCursor
    <3>1. socket' = <<>> /\ cursor = client.cursor
      BY <1>1, <1>2, <2>2
    <3> QED
      BY <1>5, <3>1 DEF Linked, LastSent, Open, Rising
  <2> QED
    BY <2>1, <2>2
<1>8. Heard'
  BY DEF FInv, Heard, HeardFrom, UpTo, Reached, Open, database
<1>9. Fresh'
  BY <1>5 DEF Fresh
<1> QED
  BY <1>6, <1>7, <1>8, <1>9, SameLog DEF FInv, Open, database

\* What a write does: the first n events of the page go into the socket, and the cursor follows.
Wrote(n) ==
    /\ socket' \in Seq(SocketMessage) /\ Len(socket') = Len(socket) + n
    /\ \A i \in DOMAIN socket : socket'[i] = socket[i]
    /\ \A i \in 1..n : socket'[Len(socket) + i].id = stream.page[i]
                       /\ socket'[Len(socket) + i].opens = FALSE
    /\ stream' \in StreamState /\ stream'.pc \in {"pump", "waiting"} /\ stream'.page = <<>>
    /\ stream'.cursor = IF n = 0 THEN stream.cursor ELSE stream.page[n]
    /\ stream'.pc = "waiting" => Len(stream.page) # Page
    /\ stream'.waiter => stream.waiter
    /\ ~stream'.cut => n = Len(stream.page)

LEMMA WriteWrites ==
    ASSUME FInv, Write PROVE \E n \in 0..Len(stream.page) : Wrote(n)
<1> DEFINE page == stream.page
           sent == Written
           more == [i \in DOMAIN sent |-> [id |-> sent[i], opens |-> FALSE]]
<1>0. /\ page \in Seq(Ids) /\ Len(page) \in Nat /\ DOMAIN page = 1..Len(page)
      /\ socket \in Seq(SocketMessage) /\ Len(socket) \in Nat /\ DOMAIN socket = 1..Len(socket)
      /\ stream \in StreamState /\ stream.cursor \in 0..MaxId /\ stream.waiter \in BOOLEAN
  BY Types DEF FInv, StreamState
<1>1. /\ socket' = socket \o more
      /\ stream' = [pc |-> IF Behind THEN "pump" ELSE "waiting", page |-> <<>>,
                    cursor |-> IF sent = <<>> THEN stream.cursor ELSE Last(sent),
                    waiter |-> ~Behind /\ stream.waiter, draining |-> Len(socket') >= Room,
                    cut |-> Len(sent) < Len(page)]
  BY Zenon DEF Write, Told
<1>2. PICK n \in 0..Len(page) : sent = SubSeq(page, 1, n)
  <2> DEFINE left == IF Len(socket) < Room THEN Room - Len(socket) ELSE 1
  <2>1. left \in Nat /\ sent = SubSeq(page, 1, IF Len(page) < left THEN Len(page) ELSE left)
    BY <1>0, Numbers DEF Written
  <2>2. Len(page) \in Nat
    BY <1>0
  <2> HIDE DEF left, sent
  <2>3. (IF Len(page) < left THEN Len(page) ELSE left) \in 0..Len(page)
    BY <2>1, <2>2
  <2> QED
    BY <2>1, <2>3
<1>3. \A i \in 1..n : page[i] \in Ids
  BY <1>0
<1>4. /\ sent \in Seq(Ids) /\ Len(sent) = n /\ DOMAIN sent = 1..n
      /\ \A i \in 1..n : sent[i] = page[i]
  <2> HIDE DEF sent
  <2>1. /\ SubSeq(page, 1, n) \in Seq(Ids) /\ Len(SubSeq(page, 1, n)) = IF 1 <= n THEN n - 1 + 1 ELSE 0
        /\ \A i \in 1..n - 1 + 1 : SubSeq(page, 1, n)[i] = page[1 + i - 1]
    BY <1>3, SubSeqProperties
  <2> QED
    BY <1>0, <1>2, <2>1
<1> HIDE DEF sent, page
<1>5. /\ more \in Seq(SocketMessage) /\ Len(more) = n
      /\ \A i \in 1..n : more[i].id = page[i] /\ more[i].opens = FALSE
  <2>1. \A i \in 1..n : [id |-> sent[i], opens |-> FALSE] \in SocketMessage
    BY <1>3, <1>4, Numbers DEF SocketMessage, Ids
  <2>2. more \in [1..n -> SocketMessage]
    BY <1>4, <2>1
  <2> QED
    BY <1>4, <2>2
<1> HIDE DEF more
<1>6. /\ socket' \in Seq(SocketMessage) /\ Len(socket') = Len(socket) + n
      /\ \A i \in 1..Len(socket) + n : socket'[i] = IF i <= Len(socket) THEN socket[i] ELSE more[i - Len(socket)]
  BY <1>0, <1>1, <1>5, ConcatProperties
<1>7. /\ \A i \in DOMAIN socket : socket'[i] = socket[i]
      /\ \A i \in 1..n : socket'[Len(socket) + i] = more[i]
  <2>1. ASSUME NEW i \in DOMAIN socket PROVE socket'[i] = socket[i]
    BY <1>0, <1>6
  <2>2. ASSUME NEW i \in 1..n PROVE socket'[Len(socket) + i] = more[i]
    <3>1. /\ Len(socket) + i \in 1..Len(socket) + n /\ ~(Len(socket) + i <= Len(socket))
          /\ Len(socket) + i - Len(socket) = i
      BY <1>0
    <3> QED
      BY <1>6, <3>1
  <2> QED
    BY <2>1, <2>2
<1>8. /\ (IF sent = <<>> THEN stream.cursor ELSE Last(sent)) = (IF n = 0 THEN stream.cursor ELSE page[n])
      /\ (IF n = 0 THEN stream.cursor ELSE page[n]) \in 0..MaxId
  BY <1>0, <1>3, <1>4, Numbers DEF Last, Ids
<1>9. /\ stream' \in StreamState /\ stream'.pc \in {"pump", "waiting"} /\ stream'.page = <<>>
      /\ stream'.cursor = IF n = 0 THEN stream.cursor ELSE page[n]
      /\ (stream'.pc = "waiting" => Len(page) # Page)
      /\ (stream'.waiter => stream.waiter)
      /\ (~stream'.cut => n = Len(page))
  <2> DEFINE place == IF Behind THEN "pump" ELSE "waiting"
             waits == ~Behind /\ stream.waiter
             full == Len(socket') >= Room
             short == Len(sent) < Len(page)
             to == IF sent = <<>> THEN stream.cursor ELSE Last(sent)
  <2>1. place \in {"pump", "waiting"} /\ (place = "waiting" => Len(page) # Page)
    BY DEF Behind, page
  <2>2. waits \in BOOLEAN /\ (waits => stream.waiter) /\ full \in BOOLEAN
    OBVIOUS
  <2>3. short \in BOOLEAN /\ (~short => n = Len(page))
    <3>1. n \in Nat /\ n <= Len(page) /\ Len(sent) = n /\ Len(page) \in Nat
      BY <1>0, <1>4 DEF page
    <3>2. ~(Len(sent) < Len(page)) => n = Len(page)
      BY <3>1
    <3>3. (Len(sent) < Len(page)) \in BOOLEAN
      OBVIOUS
    <3> QED
      BY <3>2, <3>3
  <2>4. to \in 0..MaxId /\ to = IF n = 0 THEN stream.cursor ELSE page[n]
    BY <1>8
  <2>5. stream' = [pc |-> place, page |-> <<>>, cursor |-> to, waiter |-> waits, draining |-> full,
                   cut |-> short]
    BY <1>1
  <2> HIDE DEF place, waits, full, short, to
  <2>6. /\ stream'.pc = place /\ stream'.page = <<>> /\ stream'.cursor = to
        /\ stream'.waiter = waits /\ stream'.cut = short
    BY <2>5
  <2>7. stream' \in StreamState
    BY <2>1, <2>2, <2>3, <2>4, <2>5 DEF StreamState
  <2> QED
    BY <2>1, <2>2, <2>3, <2>4, <2>6, <2>7
<1>10. Wrote(n)
  BY <1>5, <1>6, <1>7, <1>9 DEF Wrote, page
<1> QED
  BY <1>10 DEF page

LEMMA WriteHolds == ASSUME FInv, Write PROVE FInv'
<1>0. PICK n \in 0..Len(stream.page) : Wrote(n)
  BY WriteWrites
<1>1. /\ stream.page \in Seq(Ids) /\ Len(stream.page) \in Nat /\ DOMAIN stream.page = 1..Len(stream.page)
      /\ Len(socket) \in Nat /\ DOMAIN socket = 1..Len(socket)
      /\ DOMAIN socket' = 1..Len(socket) + n
      /\ stream.cursor \in 0..MaxId
      /\ stream.pc = "writing" /\ UNCHANGED <<drawn, holder, inserted, log, notices, listening, client>>
      /\ stream.cursor = LastSent
  BY <1>0, Types DEF FInv, Wrote, StreamState, Write, Told, database, Linked
<1>2. TypeOK'
  BY <1>0, <1>1, Types DEF FInv, Wrote, TypeOK, StreamState, SocketMessage, ClientState
<1>3. Committed' /\ (\A id : Reached(id)' <=> Reached(id)) /\ \A a, b : Follows(a, b)' <=> Follows(a, b)
  BY <1>1, SameLog
<1>4. socket = <<>> => client.cursor # NoCursor
  BY <1>1 DEF LastSent, NoCursor
<1>5. ASSUME NEW i \in DOMAIN socket'
      PROVE  /\ socket'[i].opens <=> i = 1 /\ client.cursor = NoCursor
             /\ socket'[i].opens => Reached(socket'[i].id)
             /\ ~socket'[i].opens => Follows(IF i = 1 THEN client.cursor ELSE socket'[i - 1].id, socket'[i].id)
  <2>1. CASE i \in DOMAIN socket
    <3>1. socket'[i] = socket[i] /\ (i # 1 => socket'[i - 1] = socket[i - 1])
      BY <1>0, <1>1, <2>1 DEF Wrote
    <3>2. /\ socket[i].opens <=> i = 1 /\ client.cursor = NoCursor
          /\ socket[i].opens => Reached(socket[i].id)
          /\ ~socket[i].opens => Follows(IF i = 1 THEN client.cursor ELSE socket[i - 1].id, socket[i].id)
      BY <2>1 DEF FInv, Linked
    <3> QED
      BY <3>1, <3>2
  <2>2. CASE i \notin DOMAIN socket
    <3> DEFINE j == i - Len(socket)
    <3>1. j \in 1..n /\ i = Len(socket) + j /\ j \in DOMAIN stream.page
      BY <1>1, <2>2
    <3>2. socket'[i].id = stream.page[j] /\ socket'[i].opens = FALSE
      BY <1>0, <3>1 DEF Wrote
    <3>3. Follows(IF j = 1 THEN stream.cursor ELSE stream.page[j - 1], stream.page[j])
      BY <3>1 DEF FInv, Linked
    <3>4. ~(i = 1 /\ client.cursor = NoCursor)
      BY <1>1, <1>4, <2>2
    <3>5. (IF i = 1 THEN client.cursor ELSE socket'[i - 1].id)
             = (IF j = 1 THEN stream.cursor ELSE stream.page[j - 1])
      <4>1. CASE j = 1 /\ i = 1
        BY <1>1, <3>1, <4>1 DEF LastSent
      <4>2. CASE j = 1 /\ i # 1
        <5>1. i - 1 = Len(socket) /\ i - 1 \in DOMAIN socket /\ socket # <<>>
          <6>1. i - 1 = Len(socket) /\ i - 1 \in DOMAIN socket
            BY <1>1, <3>1, <4>2
          <6> QED
            BY <1>1, <6>1
        <5> QED
          BY <1>0, <1>1, <4>2, <5>1 DEF LastSent, Wrote
      <4>3. CASE j # 1
        <5>1. j - 1 \in 1..n /\ i - 1 = Len(socket) + (j - 1) /\ i # 1
          BY <1>1, <3>1, <4>3
        <5> QED
          BY <1>0, <4>3, <5>1 DEF Wrote
      <4> QED
        BY <4>1, <4>2, <4>3
    <3> QED
      BY <3>2, <3>3, <3>4, <3>5
  <2> QED
    BY <2>1, <2>2
<1>6. stream'.cursor = LastSent'
  <2>1. CASE n = 0
    <3>1. Len(socket') = Len(socket) /\ (socket = <<>> <=> socket' = <<>>)
      BY <1>0, <1>1, <2>1, Types DEF FInv, Wrote
    <3>2. socket # <<>> => Len(socket) \in DOMAIN socket
      BY <1>1, Types DEF FInv
    <3> QED
      BY <1>0, <1>1, <2>1, <3>1, <3>2 DEF LastSent, Wrote
  <2>2. CASE n # 0
    <3>1. socket' # <<>> /\ Len(socket') = Len(socket) + n /\ n \in 1..n
      BY <1>0, <1>1, <2>2 DEF Wrote
    <3> QED
      BY <1>0, <2>2, <3>1 DEF LastSent, Wrote
  <2> QED
    BY <2>1, <2>2
<1>7. Linked'
  <2>1. \A i \in DOMAIN socket' :
         /\ socket'[i].opens <=> i = 1 /\ client'.cursor = NoCursor
         /\ socket'[i].opens => Reached(socket[i].id)'
         /\ ~socket'[i].opens => Follows(IF i = 1 THEN client.cursor ELSE socket[i - 1].id, socket[i].id)'
    BY <1>1, <1>3, <1>5
  <2>2. stream'.pc # "closed" /\ stream'.page = <<>>
    BY <1>0 DEF Wrote
  <2> QED
    BY <1>6, <2>1, <2>2 DEF Linked, Rising
<1>8. Heard'
  BY <1>1 DEF FInv, Heard, HeardFrom, UpTo, Reached
<1>9. Fresh'
  <2> SUFFICES ASSUME stream'.waiter, listening', notices' = 0, stream'.pc = "waiting", ~stream'.cut,
                      NEW e \in ToSet(log)
               PROVE  e <= stream'.cursor
    BY <1>0, <1>1 DEF Fresh, Wrote
  <2>1. n = Len(stream.page) /\ (e <= stream.cursor \/ e \in ToSet(stream.page))
    BY <1>0, <1>1 DEF FInv, Fresh, Wrote
  <2>2. e \in Int /\ \A i \in DOMAIN stream.page : stream.page[i] \in Int
    <3>1. log \in Seq(Int) /\ stream.page \in Seq(Int)
      <4>1. log \in Seq(Ids) /\ Ids \subseteq Int
        BY Types, Numbers DEF FInv, Ids
      <4> QED
        BY <1>1, <4>1, SeqMonotonic
    <3> QED
      BY <1>1, <3>1 DEF ToSet
  <2>3. CASE n = 0
    BY <1>0, <1>1, <2>1, <2>3 DEF Wrote, ToSet
  <2>4. CASE n # 0
    <3>1. n \in DOMAIN stream.page /\ stream'.cursor = stream.page[n]
      BY <1>0, <1>1, <2>1, <2>4 DEF Wrote
    <3>2. \A i \in DOMAIN stream.page : stream.page[i] <= stream.page[n]
      BY <1>1, <2>1, <2>2, <3>1 DEF FInv, Linked, Rising
    <3>3. stream.cursor <= stream.page[n]
      <4>1. 1 \in DOMAIN stream.page /\ stream.cursor < stream.page[1]
        BY <1>1, <2>1, <2>4 DEF FInv, Linked, Follows
      <4>2. stream.page[1] <= stream.page[n] /\ stream.page[1] \in Int /\ stream.page[n] \in Int
        BY <2>2, <3>1, <3>2, <4>1
      <4>3. stream.cursor \in Int
        BY <1>1, Numbers
      <4> QED
        BY <4>1, <4>2, <4>3
    <3>4. CASE e \in ToSet(stream.page)
      BY <3>1, <3>2, <3>4 DEF ToSet
    <3>5. CASE e <= stream.cursor
      <4>1. stream.cursor \in Int /\ stream.page[n] \in Int
        BY <1>1, <2>2, <3>1, Numbers
      <4> QED
        BY <2>2, <3>1, <3>3, <3>5, <4>1
    <3> QED
      BY <2>1, <3>4, <3>5
  <2> QED
    BY <2>3, <2>4
<1> QED
  BY <1>2, <1>3, <1>7, <1>8, <1>9 DEF FInv

---------------------------------------------------------------------------
(* The client *)

\* The client comes in with the message that opens its first stream, ...
ComesIn == /\ client.since = NoCursor /\ client.heard = <<>> /\ client'.heard = <<>>
           /\ client'.since \in 0..MaxId /\ client'.cursor = client'.since /\ Reached(client'.since)
\* ... and from then on hears the event after the last one it heard.
HearsNext(k) == /\ client.since # NoCursor /\ client'.since = client.since /\ HeardFrom(k)
                /\ k + Len(client.heard) + 1 \in DOMAIN log
                /\ client'.cursor = log[k + Len(client.heard) + 1]
                /\ client'.heard = Append(client.heard, log[k + Len(client.heard) + 1])

LEMMA ReceiveHears ==
    ASSUME FInv, Receive
    PROVE  /\ client'.cursor = socket[1].id /\ client' \in ClientState
           /\ ComesIn \/ \E k \in 0..Len(log) : HearsNext(k)
<1> DEFINE message == Head(socket)
<1>0. /\ 1 \in DOMAIN socket /\ message = socket[1] /\ message \in SocketMessage /\ message.id \in 0..MaxId
      /\ log \in Seq(Ids) /\ Rising(log) /\ client \in ClientState
  <2>1. /\ socket \in Seq(SocketMessage) /\ socket # <<>> /\ log \in Seq(Ids) /\ Rising(log)
        /\ client \in ClientState
    BY Types DEF FInv, Receive, Committed
  <2>2. 1 \in DOMAIN socket /\ message = socket[1]
    BY <2>1
  <2>3. message \in SocketMessage
    BY <2>1, <2>2
  <2> QED
    BY <2>1, <2>2, <2>3 DEF SocketMessage
<1>1. client' = IF message.id <= client.cursor /\ ~message.opens THEN client ELSE
                 [cursor |-> message.id,
                  since |-> IF client.since = NoCursor THEN message.id ELSE client.since,
                  heard |-> IF message.opens THEN client.heard ELSE Append(client.heard, message.id)]
  BY DEF Receive
<1>2. /\ message.opens <=> client.cursor = NoCursor
      /\ message.opens => Reached(message.id)
      /\ ~message.opens => Follows(client.cursor, message.id)
  BY <1>0 DEF FInv, Linked
<1> HIDE DEF message
<1>3. CASE client.cursor = NoCursor
  <2>1. client.since = NoCursor /\ client.heard = <<>>
    <3>1. ASSUME client.since # NoCursor PROVE FALSE
      <4>1. PICK k \in 0..Len(log) : HeardFrom(k)
        BY <3>1 DEF FInv, Heard
      <4>2. client.since \in 0..MaxId /\ client.heard \in Seq(Ids)
        BY <1>0, <3>1 DEF ClientState, Cursors
      <4>3. client.heard # <<>> => client.heard[Len(client.heard)] \in Ids
        BY <4>2
      <4> QED
        BY <1>3, <4>1, <4>2, <4>3, Numbers DEF HeardFrom, NoCursor, Ids
    <3> QED
      BY <3>1 DEF FInv, Heard
  <2>2. client' = [cursor |-> message.id, since |-> message.id, heard |-> client.heard]
    BY <1>1, <1>2, <1>3, <2>1
  <2>3. client' \in ClientState
    BY <1>0, <2>1, <2>2 DEF ClientState, Cursors
  <2> QED
    BY <1>0, <1>2, <1>3, <2>1, <2>2, <2>3 DEF ComesIn
<1>4. CASE client.cursor # NoCursor
  <2>1. Follows(client.cursor, message.id) /\ ~message.opens /\ client.since # NoCursor
    BY <1>2, <1>4 DEF FInv, Heard
  <2>2. client.cursor \in 0..MaxId /\ client.cursor < message.id
    BY <1>0, <1>4, <2>1 DEF ClientState, Cursors, Follows
  <2>3. ~(message.id <= client.cursor)
    BY <1>0, <2>2, Numbers
  <2>4. client' = [cursor |-> message.id, since |-> client.since, heard |-> Append(client.heard, message.id)]
    BY <1>1, <2>1, <2>3
  <2>5. PICK k \in 0..Len(log) : HeardFrom(k)
    BY <2>1 DEF FInv, Heard
  <2> DEFINE at == k + Len(client.heard)
  <2>6. /\ client.heard \in Seq(Ids) /\ Len(client.heard) \in Nat /\ at \in 0..Len(log)
        /\ Len(log) \in Nat /\ DOMAIN log = 1..Len(log) /\ \A i \in DOMAIN log : log[i] \in Int
    BY <1>0, <2>5, Numbers DEF ClientState, HeardFrom, Ids
  <2>7. UpTo(client.cursor, at)
    <3>1. CASE client.heard = <<>>
      BY <2>5, <2>6, <3>1 DEF HeardFrom
    <3>2. CASE client.heard # <<>>
      <4>1. Len(client.heard) \in DOMAIN client.heard
        BY <2>6, <3>2
      <4>2. at \in DOMAIN log
        BY <2>6, <4>1
      <4>3. client.cursor = log[at]
        BY <2>5, <3>2, <4>1 DEF HeardFrom
      <4> HIDE DEF at
      <4>4. ASSUME NEW i \in DOMAIN log PROVE log[i] <= log[at] <=> i <= at
        <5>1. /\ i \in Int /\ at \in Int /\ log[i] \in Int /\ log[at] \in Int
              /\ i < at => log[i] < log[at]
              /\ at < i => log[at] < log[i]
          BY <1>0, <2>6, <4>2 DEF Rising
        <5> QED
          BY <5>1
      <4> QED
        BY <4>3, <4>4 DEF UpTo
    <3> QED
      BY <3>1, <3>2
  <2>8. at + 1 \in DOMAIN log /\ message.id = log[at + 1]
    BY <1>0, <2>1, <2>2, <2>6, <2>7, NextIs, Numbers
  <2>9. client' \in ClientState
    <3>1. Append(client.heard, message.id) \in Seq(Ids)
      BY <1>0, <2>6, <2>8
    <3> QED
      BY <1>0, <2>4, <3>1 DEF ClientState, Cursors
  <2> QED
    BY <1>0, <2>1, <2>4, <2>5, <2>8, <2>9 DEF HearsNext
<1> QED
  BY <1>3, <1>4

LEMMA ReceiveHolds == ASSUME FInv, Receive PROVE FInv'
<1>0. /\ socket \in Seq(SocketMessage) /\ socket # <<>> /\ log \in Seq(Ids) /\ Rising(log)
      /\ client \in ClientState /\ stream \in StreamState
      /\ UNCHANGED <<drawn, holder, inserted, log, notices, listening>>
  BY Types DEF FInv, Receive, Committed, database
<1>1. /\ DOMAIN socket = 1..Len(socket) /\ Len(socket) \in Nat
      /\ \A i \in DOMAIN socket : socket[i].id \in 0..MaxId /\ socket[i].id \in Int
  <2>1. DOMAIN socket = 1..Len(socket) /\ Len(socket) \in Nat /\ \A i \in DOMAIN socket : socket[i] \in SocketMessage
    BY <1>0
  <2>2. \A m \in SocketMessage : m.id \in 0..MaxId /\ m.id \in Int
    BY Numbers DEF SocketMessage
  <2> QED
    BY <2>1, <2>2
<1>2. /\ socket' \in Seq(SocketMessage) /\ Len(socket') = Len(socket) - 1 /\ DOMAIN socket' = 1..Len(socket) - 1
      /\ \A i \in 1..Len(socket) - 1 : socket'[i] = socket[i + 1]
  BY <1>0, HeadTailProperties DEF Receive
<1>3. stream' = [stream EXCEPT !.draining = @ /\ socket' # <<>>] /\ stream.pc # "closed"
  BY <1>0 DEF FInv, Linked, Receive
<1>4. /\ stream' \in StreamState /\ stream'.pc = stream.pc /\ stream'.cursor = stream.cursor
      /\ stream'.page = stream.page /\ stream'.waiter = stream.waiter /\ stream'.cut = stream.cut
  <2>1. (stream.draining /\ socket' # <<>>) \in BOOLEAN
    OBVIOUS
  <2> QED
    BY <1>0, <1>3, <2>1 DEF StreamState
<1>5. client'.cursor = socket[1].id /\ client' \in ClientState /\ client'.cursor # NoCursor
  BY <1>0, <1>1, ReceiveHears, Numbers DEF NoCursor
<1>6. Heard'
  <2>1. CASE ComesIn
    <3>1. Reached(client'.since) /\ client'.since # NoCursor
      BY <2>1, Numbers DEF ComesIn, NoCursor
    <3>2. PICK k \in 0..Len(log) : UpTo(client'.since, k)
      BY <1>0, <3>1, Position
    <3>3. HeardFrom(k)'
      <4>1. UpTo(client.since, k)' /\ Reached(client.since)'
        BY <1>0, <3>1, <3>2 DEF UpTo, Reached
      <4> QED
        BY <1>0, <2>1, <4>1 DEF HeardFrom, ComesIn
    <3> QED
      BY <1>0, <3>1, <3>3 DEF Heard
  <2>2. ASSUME NEW k \in 0..Len(log), HearsNext(k) PROVE Heard'
    <3> DEFINE at == k + Len(client.heard) + 1
    <3>1. /\ client.heard \in Seq(Ids) /\ Len(client.heard) \in Nat /\ log[at] \in Ids
          /\ at \in DOMAIN log /\ HeardFrom(k)
      BY <1>0, <2>2 DEF HearsNext, ClientState
    <3>2. /\ client'.heard \in Seq(Ids) /\ client'.heard # <<>>
          /\ Len(client'.heard) = Len(client.heard) + 1
          /\ \A i \in 1..Len(client.heard) : client'.heard[i] = client.heard[i]
          /\ client'.heard[Len(client.heard) + 1] = log[at]
      BY <2>2, <3>1, AppendProperties DEF HearsNext
    <3>3. ASSUME NEW i \in DOMAIN client'.heard PROVE client'.heard[i] = log[k + i]
      <4>1. i \in 1..Len(client.heard) + 1
        BY <3>1, <3>2
      <4>2. CASE i = Len(client.heard) + 1
        BY <3>1, <3>2, <4>2
      <4>3. CASE i # Len(client.heard) + 1
        <5>1. i \in 1..Len(client.heard) /\ i \in DOMAIN client.heard
          BY <3>1, <4>1, <4>3
        <5> QED
          BY <3>1, <3>2, <5>1 DEF HeardFrom
      <4> QED
        BY <4>2, <4>3
    <3>4. UpTo(client.since, k)' /\ Reached(client.since)'
      BY <1>0, <2>2, <3>1 DEF HearsNext, HeardFrom, UpTo, Reached
    <3>5. k + Len(client'.heard) <= Len(log)
      BY <1>0, <3>1, <3>2
    <3>6. HeardFrom(k)'
      BY <1>0, <2>2, <3>2, <3>3, <3>4, <3>5 DEF HearsNext, HeardFrom
    <3> QED
      BY <1>0, <2>2, <3>6 DEF HearsNext, Heard
  <2> QED
    BY <2>1, <2>2, ReceiveHears
<1>7. Linked'
  <2>1. (\A id : Reached(id)' <=> Reached(id)) /\ \A a, b : Follows(a, b)' <=> Follows(a, b)
    BY <1>0, SameLog
  <2>2. ASSUME NEW i \in DOMAIN socket'
        PROVE  /\ socket'[i].opens = FALSE
               /\ Follows(IF i = 1 THEN client'.cursor ELSE socket'[i - 1].id, socket'[i].id)
    <3>1. /\ i + 1 \in DOMAIN socket /\ i \in DOMAIN socket /\ i + 1 # 1 /\ i + 1 - 1 = i
          /\ i \in Int /\ socket'[i] = socket[i + 1]
      BY <1>1, <1>2
    <3>2. socket[i + 1].opens = FALSE /\ Follows(socket[i].id, socket[i + 1].id)
      <4>1. socket[i + 1] \in SocketMessage
        BY <1>0, <3>1
      <4>2. socket[i + 1].opens \in BOOLEAN
        BY <4>1 DEF SocketMessage
      <4>3. PICK j \in DOMAIN socket : j = i + 1 /\ j # 1 /\ j - 1 = i
        BY <3>1
      <4>4. ~socket[j].opens /\ Follows(socket[j - 1].id, socket[j].id)
        BY <4>3 DEF FInv, Linked
      <4> QED
        BY <4>2, <4>3, <4>4
    <3>3. socket[i].id = IF i = 1 THEN client'.cursor ELSE socket'[i - 1].id
      <4>1. CASE i = 1
        BY <1>5, <4>1
      <4>2. CASE i # 1
        <5>1. i - 1 \in 1..Len(socket) - 1 /\ i - 1 + 1 = i
          BY <1>1, <1>2, <4>2
        <5> QED
          BY <1>2, <4>2, <5>1
      <4> QED
        BY <4>1, <4>2
    <3> QED
      BY <3>1, <3>2, <3>3
  <2>3. \A i \in DOMAIN socket' :
         /\ socket'[i].opens = FALSE
         /\ Follows(IF i = 1 THEN client.cursor ELSE socket[i - 1].id, socket[i].id)'
    BY <2>1, <2>2
  <2>4. stream.cursor = socket[Len(socket)].id
    BY <1>0, <1>3 DEF FInv, Linked, LastSent
  <2>5. LastSent' = socket[Len(socket)].id
    <3>1. CASE Len(socket) = 1
      <4>1. socket' = <<>>
        BY <1>2, <3>1
      <4> QED
        BY <1>5, <3>1, <4>1 DEF LastSent
    <3>2. CASE Len(socket) # 1
      <4>1. Len(socket) # 0
        BY <1>0, <1>1
      <4>2. Len(socket) - 1 \in 1..Len(socket) - 1 /\ Len(socket) - 1 + 1 = Len(socket)
        BY <1>1, <3>2, <4>1
      <4>3. socket' # <<>>
        BY <1>2, <4>2
      <4> QED
        BY <1>2, <4>2, <4>3 DEF LastSent
    <3> QED
      BY <3>1, <3>2
  <2>6. /\ Rising(stream'.page)
        /\ \A i \in DOMAIN stream'.page :
             Follows(IF i = 1 THEN stream.cursor ELSE stream.page[i - 1], stream.page[i])'
    BY <1>4, <2>1 DEF FInv, Linked, Rising
  <2> QED
    BY <1>3, <1>4, <1>5, <2>3, <2>4, <2>5, <2>6 DEF Linked, Rising
<1>8. Fresh'
  BY <1>0, <1>4 DEF FInv, Fresh
<1>9. TypeOK'
  BY <1>0, <1>2, <1>4, <1>5, Types DEF FInv, TypeOK, StreamState, SocketMessage, ClientState
<1> QED
  BY <1>0, <1>6, <1>7, <1>8, <1>9, SameLog DEF FInv

---------------------------------------------------------------------------
LEMMA StepHolds == ASSUME FInv, [Next]_vars PROVE FInv'
<1>1. ASSUME NEW w \in Writers, Lock(w) \/ Insert(w) \/ Commit(w) \/ Rollback(w) PROVE FInv'
  BY <1>1, LockHolds, InsertHolds, CommitHolds, RollbackHolds
<1>2. CASE Elsewhere
  BY <1>2, ElsewhereHolds
<1>3. CASE Notice \/ DropListener \/ Listen
  BY <1>3, ListenerHolds
<1>4. CASE Open \/ Close
  BY <1>4, OpenHolds, CloseHolds
<1>5. CASE Subscribe \/ Woken \/ Heartbeat
  BY <1>5, PlacesHold
<1>6. CASE Read \/ Write \/ Receive
  BY <1>6, ReadHolds, WriteHolds, ReceiveHolds
<1>7. CASE UNCHANGED vars
  <2>1. TypeOK' /\ Committed'
    BY <1>7 DEF vars, FInv, TypeOK, Committed, Rising
  <2> QED
    BY <1>7, <2>1, QuietHolds DEF vars
<1> QED
  BY <1>1, <1>2, <1>3, <1>4, <1>5, <1>6, <1>7 DEF Next

\* The invariant of the proofs holds of every feed, whatever connections and notifications are lost.
THEOREM Invariance == Spec => []FInv
<1>1. Init => FInv
  <2> SUFFICES ASSUME Init PROVE FInv
    OBVIOUS
  <2>1. stream \in StreamState /\ client \in ClientState
    BY Numbers DEF Init, Closed, StreamState, ClientState, Cursors, NoCursor
  <2>2. TypeOK
    BY <2>1, Types, Numbers DEF Init
  <2>3. Committed
    BY DEF Init, Committed, Rising, ToSet
  <2>4. Linked /\ Heard /\ Fresh
    BY DEF Init, Closed, Linked, Heard, Fresh, Rising
  <2> QED
    BY <2>2, <2>3, <2>4 DEF FInv
<1>2. FInv /\ [Next]_vars => FInv'
  BY StepHolds
<1> QED
  BY <1>1, <1>2, PTL DEF Spec

\* EventFeedSafety for any page and socket: a stream that waits, with nothing on its way to wake it,
\* has told every committed event, unless its socket was full before the end of the page it read.
THEOREM EventFeedSafe == Spec => []EventFeedSafety
<1>1. FInv => EventFeedSafety
  BY DEF FInv, Fresh, EventFeedSafety, NothingWaits, ToSet
<1> QED
  BY <1>1, Invariance, PTL

---------------------------------------------------------------------------
(* EventFeed implements Feed. *)

\* Where a client that heard of the first k events came in.
Origin == IF client.since = NoCursor THEN -1
         ELSE Cardinality({i \in DOMAIN log : log[i] <= client.since})

LEMMA StartIs ==
    ASSUME FInv, NEW k \in 0..Len(log), HeardFrom(k), client.since # NoCursor PROVE Origin = k
<1>1. log \in Seq(Ids) /\ UpTo(client.since, k)
  BY Types DEF FInv, HeardFrom
<1> QED
  BY <1>1, CountUpTo DEF Origin

LEMMA CommitRecords ==
    ASSUME FInv, NEW w \in Writers, Commit(w)
    PROVE  Len(log') > Len(log) /\ SubSeq(log', 1, Len(log)) = log /\ Origin' = Origin /\ UNCHANGED client
<1>0. log \in Seq(Ids) /\ Len(log) \in Nat /\ Rising(log)
  BY Types DEF FInv, Committed
<1>1. Grown /\ Len(log') > Len(log)
  BY <1>0, CommitGrows DEF Grown
<1>2. SubSeq(log', 1, Len(log)) = log
  <2>1. inserted[w] \in Seq(Ids) /\ log' = log \o inserted[w] /\ SubSeq(log, 1, Len(log)) = log
    BY <1>0, CommittedTypes, SubSeqFull DEF FInv, Commit
  <2>2. CASE log = <<>>
    BY <2>2, SubSeqEmpty
  <2>3. CASE log # <<>>
    <3>1. 1 \in 1..Len(log) /\ Len(log) \in 1..Len(log)
      BY <1>0, <2>3
    <3> QED
      BY <1>0, <2>1, <3>1, SubSeqOfConcat1
  <2> QED
    BY <2>2, <2>3
<1>3. Origin' = Origin
  <2>1. CASE client.since = NoCursor
    BY <2>1 DEF Origin, Commit
  <2>2. CASE client.since # NoCursor
    <3>1. PICK k \in 0..Len(log) : HeardFrom(k)
      BY <2>2 DEF FInv, Heard
    <3>2. \A id : Reached(id) /\ UpTo(id, k) => UpTo(id, k)'
      BY <1>0, <1>1, GrownKeepsUpTo
    <3>3. UpTo(client.since, k)'
      BY <3>1, <3>2 DEF HeardFrom, Commit
    <3>4. log' \in Seq(Ids) /\ k \in 0..Len(log')
      BY <1>0, <1>1 DEF Grown
    <3>5. {i \in DOMAIN log' : log'[i] <= client.since} = 1..k
      BY <3>3, <3>4 DEF UpTo, Commit
    <3>6. Origin' = Cardinality(1..k)
      BY <2>2, <3>5 DEF Origin, Commit
    <3>7. Origin' = k
      BY <3>6, FS_Interval
    <3> QED
      BY <2>2, <3>1, <3>7, StartIs
  <2> QED
    BY <2>1, <2>2
<1> QED
  BY <1>1, <1>2, <1>3 DEF Commit

\* A client comes in at a place of the log, and hears the event after those it heard.
LEMMA ReceiveTells ==
    ASSUME FInv, Receive
    PROVE  /\ UNCHANGED log
           /\ \/ Origin = -1 /\ Origin' \in 0..Len(log) /\ client'.heard = client.heard
              \/ /\ Origin \in 0..Len(log) /\ Origin' = Origin /\ Origin + Len(client.heard) < Len(log)
                 /\ client'.heard = Append(client.heard, log[Origin + Len(client.heard) + 1])
<1>0. log \in Seq(Ids) /\ Rising(log) /\ UNCHANGED log /\ client.heard \in Seq(Ids)
  BY Types DEF FInv, Committed, Receive, database, ClientState
<1>1. CASE ComesIn
  <2>1. PICK k \in 0..Len(log) : UpTo(client'.since, k)
    BY <1>0, <1>1, Position DEF ComesIn
  <2>2. client'.since # NoCursor
    BY <1>1, Numbers DEF ComesIn, NoCursor
  <2>3. Origin' = Cardinality({i \in DOMAIN log : log[i] <= client'.since})
    BY <1>0, <2>2 DEF Origin
  <2>4. Cardinality({i \in DOMAIN log : log[i] <= client'.since}) = k
    BY <1>0, <2>1, CountUpTo
  <2> QED
    BY <1>0, <1>1, <2>3, <2>4 DEF ComesIn, Origin
<1>2. ASSUME NEW k \in 0..Len(log), HearsNext(k)
      PROVE  /\ Origin \in 0..Len(log) /\ Origin' = Origin /\ Origin + Len(client.heard) < Len(log)
             /\ client'.heard = Append(client.heard, log[Origin + Len(client.heard) + 1])
  <2>1. Origin = k
    BY <1>2, StartIs DEF HearsNext
  <2>2. Origin' = Origin
    BY <1>0, <1>2 DEF HearsNext, Origin
  <2>3. k + Len(client.heard) + 1 \in 1..Len(log) /\ Len(client.heard) \in Nat /\ Len(log) \in Nat
    BY <1>0, <1>2 DEF HearsNext
  <2> QED
    BY <1>2, <2>1, <2>2, <2>3 DEF HearsNext
<1> QED
  BY <1>0, <1>1, <1>2, ReceiveHears

\* EventFeed implements Feed: across lost connections, listeners and notifications, a client hears
\* from where it came in every event, once, in the order they were committed.
THEOREM PromiseKept == Spec => KeepsPromise
<1>1. Init => Promise!Init
  BY DEF Init, Promise!Init
<1>2. FInv /\ [Next]_vars =>
        [Promise!Record \/ Promise!ComeIn \/ Promise!Hear]_<<log, Origin, client.heard>>
  <2> SUFFICES ASSUME FInv, [Next]_vars
               PROVE  Promise!Record \/ Promise!ComeIn \/ Promise!Hear
                      \/ UNCHANGED <<log, Origin, client.heard>>
    OBVIOUS
  <2>1. ASSUME NEW w \in Writers, Commit(w) PROVE Promise!Record
    BY <2>1, CommitRecords DEF Promise!Record, Origin
  <2>2. CASE Receive
    <3>1. CASE Origin = -1 /\ Origin' \in 0..Len(log) /\ client'.heard = client.heard
      BY <2>2, <3>1, ReceiveTells DEF Promise!ComeIn, Origin
    <3>2. CASE /\ Origin \in 0..Len(log) /\ Origin' = Origin /\ Origin + Len(client.heard) < Len(log)
               /\ client'.heard = Append(client.heard, log[Origin + Len(client.heard) + 1])
      <4>1. Origin >= 0
        BY <3>2
      <4> QED
        BY <2>2, <3>2, <4>1, ReceiveTells DEF Promise!Hear, Origin
    <3> QED
      BY <2>2, <3>1, <3>2, ReceiveTells
  <2>3. CASE UNCHANGED <<log, client>>
    BY <2>3 DEF Origin
  <2>4. ASSUME NEW w \in Writers, Lock(w) \/ Insert(w) \/ Rollback(w) PROVE UNCHANGED <<log, client>>
    BY <2>4 DEF Lock, Insert, Rollback
  <2>5. CASE Elsewhere \/ Notice \/ DropListener \/ Listen \/ UNCHANGED vars
    BY <2>3, <2>5 DEF Elsewhere, Notice, DropListener, Listen, database, vars
  <2>6. CASE Open \/ Close \/ Subscribe \/ Read \/ Write \/ Woken \/ Heartbeat
    BY <2>3, <2>6 DEF Open, Close, Subscribe, Read, Write, Told, Woken, Heartbeat, database
  <2> QED
    BY <2>1, <2>2, <2>3, <2>4, <2>5, <2>6 DEF Next
<1> QED
  BY <1>1, <1>2, Invariance, PTL DEF Spec, KeepsPromise, Promise!Spec, Origin

---------------------------------------------------------------------------
(* Deliveries: what is true of every state *)

\* The item is in the chat of the turn.
Has(r, item) == \E i \in DOMAIN chat[r] : chat[r][i] = item
HasAll(r) == \A k \in 1..Parts : Has(r, <<"part", k>>)
HasNone(r) == \A k \in 1..Parts : ~Has(r, <<"part", k>>)

\* A turn that says nothing more, and one that has words of its own for the chat.
Still(r) == run[r].status \in {"ended", "waiting", "cancelled"}
Worded(r) == run[r].answer \in {"own", "panel"}

Saying(w) == worker[w].pc \in {"line", "line_out"}
Sending(w) == worker[w].then = "send"
Claimed == {"sending", "unknown", "sent"}

\* A turn has no answer before it ends or asks, and no row before it starts.
TurnIs(r) ==
    /\ run[r].status \in {"none", "active"} => run[r].answer = "none"
    /\ run[r].status = "none" => delivery[r].status = "none"
    /\ run[r].answer = "last_line" => run[r].lines > 0

\* What a row has come to: it is claimed only when its turn is still and its lines were taken.
RowIs(r) ==
    /\ delivery[r].said <= run[r].lines
    /\ delivery[r].status \in Claimed => Still(r) /\ KeptLines(run[r].lines) <= delivery[r].said
    /\ delivery[r].status \in {"none", "pending"} => HasNone(r)
    /\ delivery[r].status = "sent" /\ run[r].answer = "own" => HasAll(r)

\* Each line is taken once: those a turn still keeps come after those taken before.
TakenIs(r) ==
    /\ taken[r] \subseteq 1..run[r].lines
    /\ delivery[r].said < Kept => taken[r] \subseteq 1..delivery[r].said
    /\ run[r].lines <= Kept => 1..delivery[r].said \subseteq taken[r]

\* What is in the chat is there once, was taken or is of the turn's own words.
ChatIs(r) ==
    /\ \A i, j \in DOMAIN chat[r] : chat[r][i] = chat[r][j] => i = j
    /\ \A k \in Lines : Has(r, <<"line", k>>) => k \in taken[r]
    /\ ~HasNone(r) => Worded(r)

\* A process goes on with rows there are, and knows what a still turn said.
LookIs(w) ==
    /\ At(w, "idle") => worker[w] = Idle
    /\ ~At(w, "idle") => Current(w) \in Turns
    /\ ~At(w, "idle") => delivery[Current(w)].status # "none"
    /\ \A q \in worker[w].rows : delivery[q].status # "none"
    /\ worker[w].pc \in {"looping", "said"} => ~Sending(w)
    /\ At(w, "looping") => worker[w].then = "next"
    /\ worker[w].pc \in {"part", "part_out", "settling"} => worker[w].then # "next"
    /\ worker[w].pc \in {"part_out", "settling"} => Sending(w)
    /\ At(w, "part") /\ ~Sending(w) => worker[w].next = 1
ReadIs(w) ==
    /\ ~At(w, "idle") => worker[w].total <= run[Current(w)].lines
    /\ worker[w].then # "next" =>
         /\ Still(Current(w)) /\ worker[w].total = run[Current(w)].lines
         /\ worker[w].answer # 0 => Worded(Current(w))
         /\ run[Current(w)].answer = "own" => worker[w].answer # 0
    /\ worker[w].then = "claim" /\ ~At(w, "said") =>
         \/ delivery[Current(w)].status = "failed"
         \/ KeptLines(worker[w].total) <= delivery[Current(w)].said

\* The lines in hand are this process's to send.
SayingIs(w) == Saying(w) =>
    /\ ~Sending(w) /\ worker[w].next \in 1..worker[w].total
    /\ \A k \in worker[w].next..worker[w].total :
         k \in taken[Current(w)] /\ ~Has(Current(w), <<"line", k>>)

\* The parts sent are those in the chat.
SendingIs(w) == Sending(w) =>
    /\ delivery[Current(w)].status \in {"sending", "unknown"}
    /\ worker[w].pc \in {"part", "part_out"} =>
         /\ worker[w].answer = Parts /\ worker[w].next \in 1..Parts
         /\ \A k \in 1..Parts : Has(Current(w), <<"part", k>>) <=> k < worker[w].next
    /\ At(w, "settling") /\ worker[w].outcome = "pending" => HasNone(Current(w))
    /\ At(w, "settling") /\ worker[w].outcome = "sent" => worker[w].answer = 0 \/ HasAll(Current(w))

\* No two processes send an answer, or have a line of it in hand, at once.
Apart(v, w) == v # w /\ Current(v) = Current(w) =>
    /\ ~(Sending(v) /\ Sending(w))
    /\ Saying(v) /\ Saying(w) =>
         \A k \in worker[v].next..worker[v].total : k \notin worker[w].next..worker[w].total

\* Whoever had one message pass a switch has no other on its way that the switch stops.
Held(w) == /\ escaped[w] <= 1
           /\ escaped[w] = 1 /\ worker[w].pc \in {"line_out", "part_out"} => ~Stopped(Current(w))

DInv ==
    /\ DeliveriesTypeOK /\ AnswerInOrder
    /\ \A r \in Turns : TurnIs(r) /\ RowIs(r) /\ TakenIs(r) /\ ChatIs(r)
    /\ \A w \in Workers : LookIs(w) /\ ReadIs(w) /\ SayingIs(w) /\ SendingIs(w) /\ Held(w)
    /\ \A v, w \in Workers : Apart(v, w)

---------------------------------------------------------------------------
(* What a record of the state holds, and how a process goes on *)

TurnState == [status : {"none", "ended", "cancelled"} \cup UnderWay, lines : 0..MaxLines,
              answer : Answers \cup {"none"}, born : 0..MaxSwitches]
RowState == [status : Outcomes \cup {"none", "sending"}, said : 0..Kept]

LEMMA DeliveriesTypes == DeliveriesTypeOK <=>
    /\ scope \in Scopes /\ switches \in 0..scope.switches
    /\ run \in [Turns -> TurnState] /\ delivery \in [Turns -> RowState]
    /\ worker \in [Workers -> WorkerStates]
    /\ chat \in [Turns -> Seq(Items)] /\ taken \in [Turns -> SUBSET Lines]
    /\ escaped \in [Workers -> Nat]
BY DEF DeliveriesTypeOK, TurnState, RowState

LEMMA Bounds ==
    /\ MaxTurns \in Nat /\ MaxTurns > 0 /\ MaxLines \in Nat /\ Kept \in Nat /\ Kept > 0
    /\ Parts \in Nat /\ Parts > 0 /\ Batch \in Nat /\ Batch > 0 /\ MaxSwitches \in Nat
BY DeliveriesAssumption

LEMMA TurnFields ==
    ASSUME NEW turn \in TurnState
    PROVE  /\ turn.status \in {"none", "active", "waiting", "ended", "cancelled"}
           /\ turn.lines \in Nat /\ turn.lines <= MaxLines
           /\ turn.answer \in {"none", "own", "last_line", "panel"} /\ turn.born \in Nat /\ turn.born <= MaxSwitches
<1>1. /\ turn.status \in {"none", "active", "waiting", "ended", "cancelled"}
      /\ turn.lines \in 0..MaxLines /\ turn.born \in 0..MaxSwitches
      /\ turn.answer \in {"none", "own", "last_line", "panel"}
  BY DEF TurnState, UnderWay, Answers
<1> QED
  BY <1>1, Bounds

\* A turn that begins, and one that is given what it ends with or asks.
Begun(turn, born) == [turn EXCEPT !.status = "active", !.born = born]
Concluded(turn, status, answer) == [turn EXCEPT !.status = status, !.answer = answer]

LEMMA Begins ==
    ASSUME NEW turn \in TurnState, NEW born \in 0..MaxSwitches
    PROVE  /\ Begun(turn, born) \in TurnState /\ Begun(turn, born).status = "active"
           /\ Begun(turn, born).lines = turn.lines /\ Begun(turn, born).answer = turn.answer
           /\ Begun(turn, born).born = born
BY DEF Begun, TurnState, UnderWay

LEMMA Concludes ==
    ASSUME NEW turn \in TurnState, NEW status \in {"ended", "waiting"}, NEW answer \in Answers
    PROVE  /\ Concluded(turn, status, answer) \in TurnState
           /\ Concluded(turn, status, answer).status = status
           /\ Concluded(turn, status, answer).lines = turn.lines
           /\ Concluded(turn, status, answer).answer = answer
           /\ Concluded(turn, status, answer).born = turn.born
BY DEF Concluded, TurnState, UnderWay

LEMMA RowFields ==
    ASSUME NEW row \in RowState
    PROVE  /\ row.status \in {"none", "pending", "sending", "sent", "failed", "unknown"}
           /\ row.said \in Nat /\ row.said <= Kept
<1>1. row.status \in {"none", "pending", "sending", "sent", "failed", "unknown"} /\ row.said \in 0..Kept
  BY DEF RowState, Outcomes
<1> QED
  BY <1>1, Bounds

LEMMA ScopeBounds ==
    ASSUME DeliveriesTypeOK
    PROVE  /\ switches \in Nat /\ switches <= MaxSwitches /\ scope.switches \in Nat
           /\ scope.switches <= MaxSwitches /\ scope.lines \in Nat /\ scope.lines <= MaxLines
           /\ scope.workers \subseteq Workers
<1>1. scope \in [workers : SUBSET Workers, runs : 1..MaxTurns, lines : 0..MaxLines, switches : 0..MaxSwitches]
  BY DeliveriesAssumption DEF DeliveriesTypeOK
<1> QED
  BY <1>1, DeliveriesAssumption DEF DeliveriesTypeOK

LEMMA WorkerFields ==
    ASSUME NEW record \in WorkerStates
    PROVE  /\ record.pc \in {"idle", "looping", "said", "line", "line_out", "part", "part_out", "settling"}
           /\ record.row \in Turns \cup {0} /\ record.rows \in SUBSET Turns
           /\ record.total \in 0..MaxLines /\ record.answer \in {0, Parts}
           /\ record.then \in {"next", "claim", "send"} /\ record.next \in Nat /\ record.outcome \in Outcomes
BY DEF WorkerStates

LEMMA SetWorker ==
    ASSUME worker \in [Workers -> WorkerStates], NEW w \in Workers, NEW record \in WorkerStates, Set(w, record)
    PROVE  /\ worker' \in [Workers -> WorkerStates] /\ worker'[w] = record
           /\ \A v \in Workers : v # w => worker'[v] = worker[v]
BY DEF Set

LEMMA IdleWorker == Idle \in WorkerStates
BY DeliveriesAssumption DEF Idle, WorkerStates, Outcomes

\* A process at the start of its loop over some rows, or through with them.
AtLoop(record, rows) ==
    /\ record \in WorkerStates /\ record.then = "next" /\ record.total = 0
    /\ \/ record = Idle
       \/ record.pc = "looping" /\ record.row \in rows
    /\ record.rows \subseteq rows

\* Only this process's record changes.
Alone(w) ==
    /\ worker' \in [Workers -> WorkerStates]
    /\ \A v \in Workers : v # w => worker'[v] = worker[v]

LEMMA GoingOnLooking ==
    ASSUME worker \in [Workers -> WorkerStates], NEW w \in Workers, NEW rows \in SUBSET Turns, LookAt(w, rows)
    PROVE  Alone(w) /\ AtLoop(worker'[w], rows)
<1>1. CASE rows = {} /\ Set(w, Idle)
  BY <1>1, SetWorker, IdleWorker DEF Alone, AtLoop, Idle
<1>2. CASE \E r \in rows : Set(w, [Idle EXCEPT !.pc = "looping", !.row = r, !.rows = rows \ {r}])
  <2>1. PICK r \in rows : Set(w, [Idle EXCEPT !.pc = "looping", !.row = r, !.rows = rows \ {r}])
    BY <1>2
  <2>2. PICK record : record = [Idle EXCEPT !.pc = "looping", !.row = r, !.rows = rows \ {r}]
    OBVIOUS
  <2>3. r \in Turns /\ rows \ {r} \in SUBSET Turns /\ Idle.then = "next" /\ Idle.total = 0
    BY DEF Idle
  <2>4. /\ record \in WorkerStates /\ record.pc = "looping" /\ record.row = r /\ record.rows = rows \ {r}
        /\ record.then = "next" /\ record.total = 0
    BY <2>2, <2>3, IdleWorker DEF WorkerStates
  <2>5. Alone(w) /\ worker'[w] = record
    BY <2>1, <2>2, <2>4, SetWorker DEF Alone
  <2> QED
    BY <2>4, <2>5 DEF AtLoop
<1> QED
  BY <1>1, <1>2 DEF LookAt

---------------------------------------------------------------------------
(* What the others do to a process, and to the rows it is not at *)

WInv(w) == LookIs(w) /\ ReadIs(w) /\ SayingIs(w) /\ SendingIs(w)
TInv(r) == TurnIs(r) /\ RowIs(r) /\ TakenIs(r) /\ ChatIs(r)

\* A turn says more, and once it is still it stays what it is.
RunsGrow == \A r \in Turns :
    /\ run[r].lines <= run'[r].lines
    /\ Still(r) => Still(r)' /\ run'[r].lines = run[r].lines /\ run'[r].answer = run[r].answer
    /\ Worded(r) => Worded(r)'

\* A row, once there, stays, counts up, and is not taken up again when it failed.
RowsGrow == \A r \in Turns :
    /\ delivery[r].status # "none" => delivery'[r].status # "none"
    /\ delivery[r].status = "failed" => delivery'[r].status = "failed"
    /\ delivery[r].said <= delivery'[r].said
    /\ taken[r] \subseteq taken'[r]

\* Nobody puts what this process has in hand in the chat, or takes its row from it.
HandsOff(v) ==
    /\ Saying(v) => \A k \in worker[v].next..worker[v].total :
         Has(Current(v), <<"line", k>>)' => Has(Current(v), <<"line", k>>)
    /\ Sending(v) =>
         /\ delivery'[Current(v)].status \in {"sending", "unknown"}
         /\ \A k \in 1..Parts : Has(Current(v), <<"part", k>>)' <=> Has(Current(v), <<"part", k>>)

LEMMA Onlooker ==
    ASSUME DeliveriesTypeOK, DeliveriesTypeOK', NEW v \in Workers, WInv(v), worker'[v] = worker[v],
           RunsGrow, RowsGrow, HandsOff(v)
    PROVE  WInv(v)'
<1> USE DEF Current, At, Saying, Sending
<1> DEFINE r == worker[v].row
<1>1. worker[v] \in WorkerStates
  BY DEF DeliveriesTypeOK
<1>2. worker[v].rows \subseteq Turns /\ r \in Turns \cup {0} /\ worker[v].total \in 0..MaxLines /\ worker[v].next \in Nat
  BY <1>1, WorkerFields
<1>3. LookIs(v)'
  BY <1>2 DEF LookIs, WInv, RowsGrow
<1>4. ~At(v, "idle") => r \in Turns
  BY DEF WInv, LookIs
<1>5. ReadIs(v)'
  <2>1. CASE At(v, "idle")
    BY <2>1 DEF WInv, LookIs, Idle, ReadIs
  <2>2. CASE ~At(v, "idle")
    <3>1. /\ run[r].lines \in Nat /\ run'[r].lines \in Nat /\ run[r].lines <= run'[r].lines
          /\ delivery[r].said \in Nat /\ delivery'[r].said \in Nat /\ delivery[r].said <= delivery'[r].said
      BY <1>4, <2>2, DeliveriesAssumption DEF DeliveriesTypeOK, RunsGrow, RowsGrow
    <3>2. KeptLines(worker[v].total) \in Nat
      BY <1>2, DeliveriesAssumption DEF KeptLines
    <3>3. ~At(v, "idle")' => worker'[v].total <= run'[Current(v)'].lines
      BY <3>1, <2>2, <1>2 DEF WInv, ReadIs
    <3>4. worker[v].then # "next" =>
             /\ Still(r)' /\ worker[v].total = run'[r].lines
             /\ worker[v].answer # 0 => Worded(r)'
             /\ run'[r].answer = "own" => worker[v].answer # 0
      BY <2>2, <1>4 DEF WInv, ReadIs, RunsGrow
    <3>5. worker[v].then = "claim" /\ ~At(v, "said") =>
             delivery'[r].status = "failed" \/ KeptLines(worker[v].total) <= delivery'[r].said
      BY <2>2, <1>4, <3>1, <3>2 DEF WInv, ReadIs, RowsGrow
    <3> QED
      BY <3>3, <3>4, <3>5 DEF ReadIs, KeptLines, Still, Worded
  <2> QED
    BY <2>1, <2>2
<1>6. SayingIs(v)'
  <2> SUFFICES ASSUME Saying(v) PROVE SayingIs(v)'
    BY DEF SayingIs
  <2>1. r \in Turns
    BY <1>4
  <2>2. \A k \in worker[v].next..worker[v].total : k \in taken'[r] /\ ~Has(r, <<"line", k>>)'
    BY <2>1 DEF WInv, SayingIs, RowsGrow, HandsOff, Has
  <2> QED
    BY <2>2 DEF WInv, SayingIs, Has
<1>7. SendingIs(v)'
  <2> SUFFICES ASSUME Sending(v) PROVE SendingIs(v)'
    BY DEF SendingIs
  <2>1. /\ delivery'[r].status \in {"sending", "unknown"}
        /\ \A k \in 1..Parts : Has(r, <<"part", k>>)' <=> Has(r, <<"part", k>>)
    BY DEF HandsOff, Has
  <2>2. (HasNone(r)' <=> HasNone(r)) /\ (HasAll(r)' <=> HasAll(r))
    BY <2>1 DEF HasNone, HasAll, Has
  <2> QED
    BY <2>1, <2>2 DEF WInv, SendingIs, Has, HasNone, HasAll
<1> QED
  BY <1>3, <1>5, <1>6, <1>7 DEF WInv

\* A row nobody touches, of a turn that stays as it is, is as it was.
LEMMA RowAside ==
    ASSUME NEW r \in Turns, TInv(r), run'[r] = run[r], delivery'[r] = delivery[r], chat'[r] = chat[r],
           taken'[r] = taken[r]
    PROVE  TInv(r)'
BY DEF TInv, TurnIs, RowIs, TakenIs, ChatIs, Still, Worded, HasNone, HasAll, Has, KeptLines, Claimed

---------------------------------------------------------------------------
(* Three kinds of step: of a turn, of one process on its own, of one process on its row *)

LEMMA ApartEither == ASSUME NEW v \in Workers, NEW w \in Workers, Apart(v, w)' PROVE Apart(w, v)'
BY DEF Apart, Saying, Sending, Current

LEMMA DInvParts ==
    ASSUME DInv
    PROVE  /\ DeliveriesTypeOK /\ AnswerInOrder /\ \A r \in Turns : TInv(r)
           /\ \A w \in Workers : WInv(w) /\ Held(w) /\ \A v \in Workers : Apart(v, w)
BY DEF DInv, TInv, WInv

LEMMA DInvFromParts ==
    ASSUME DeliveriesTypeOK', AnswerInOrder', \A r \in Turns : TInv(r)',
           \A w \in Workers : WInv(w)' /\ Held(w)' /\ \A v \in Workers : Apart(v, w)'
    PROVE  DInv'
BY DEF DInv, TInv, WInv

LEMMA SameChat == ASSUME AnswerInOrder, chat' = chat PROVE AnswerInOrder'
BY DEF AnswerInOrder

LEMMA SameRuns == ASSUME DeliveriesTypeOK, UNCHANGED run PROVE RunsGrow
<1>1. ASSUME NEW r \in Turns PROVE run[r].lines \in Nat
  BY DeliveriesTypes, TurnFields
<1> QED
  BY <1>1 DEF RunsGrow, Still, Worded

LEMMA SameRows == ASSUME DeliveriesTypeOK, UNCHANGED <<delivery, taken>> PROVE RowsGrow
<1>1. ASSUME NEW r \in Turns PROVE delivery[r].said \in Nat
  BY DeliveriesTypes, RowFields
<1> QED
  BY <1>1 DEF RowsGrow

LEMMA TurnStep ==
    ASSUME DInv, UNCHANGED <<delivery, worker, chat, taken>>, DeliveriesTypeOK', RunsGrow,
           \A r \in Turns : TInv(r)', \A w \in Workers : Held(w)'
    PROVE  DInv'
<1> USE DInvParts
<1>1. RowsGrow
  BY SameRows
<1>2. ASSUME NEW w \in Workers PROVE WInv(w)'
  <2>1. HandsOff(w)
    BY DEF HandsOff, WInv, SendingIs, Has, Current
  <2> QED
    BY <1>1, <2>1, Onlooker
<1>3. \A v, w \in Workers : Apart(v, w)'
  BY DEF Apart, Saying, Sending, Current
<1>4. AnswerInOrder'
  <2>1. AnswerInOrder /\ chat' = chat
    OBVIOUS
  <2> QED
    BY <2>1, SameChat
<1> QED
  BY <1>2, <1>3, <1>4, DInvFromParts

LEMMA RowStep ==
    ASSUME DInv, UNCHANGED <<scope, switches, run>>, NEW w \in Workers, NEW r \in Turns, Alone(w),
           delivery' \in [Turns -> RowState], chat' \in [Turns -> Seq(Items)],
           taken' \in [Turns -> SUBSET Lines], escaped' \in [Workers -> Nat], RowsGrow,
           \A q \in Turns : q # r => delivery'[q] = delivery[q] /\ chat'[q] = chat[q] /\ taken'[q] = taken[q],
           \A v \in Workers : v # w => HandsOff(v) /\ Apart(v, w)' /\ escaped'[v] = escaped[v],
           AnswerInOrder', TInv(r)', WInv(w)', Held(w)'
    PROVE  DInv'
<1> USE DInvParts
<1>1. DeliveriesTypeOK'
  BY DEF DeliveriesTypeOK, RowState, Alone
<1>2. RunsGrow
  BY SameRuns
<1>3. ASSUME NEW v \in Workers PROVE WInv(v)'
  BY <1>1, <1>2, Onlooker DEF Alone
<1>4. ASSUME NEW v \in Workers PROVE Held(v)'
  <2>1. CASE v # w
    BY <2>1 DEF Held, Alone, Stopped, Paused, Current
  <2> QED
    BY <2>1
<1>5. ASSUME NEW u \in Workers, NEW v \in Workers PROVE Apart(u, v)'
  <2>1. CASE u # w /\ v # w
    BY <2>1 DEF Apart, Alone, Saying, Sending, Current
  <2>2. CASE u = w /\ v # w
    BY <2>2, ApartEither
  <2>3. CASE u # w /\ v = w
    BY <2>3
  <2>4. CASE u = w /\ v = w
    BY <2>4 DEF Apart
  <2> QED
    BY <2>1, <2>2, <2>3, <2>4
<1>6. ASSUME NEW q \in Turns PROVE TInv(q)'
  <2>1. CASE q # r
    BY <2>1, RowAside
  <2> QED
    BY <2>1
<1> QED
  BY <1>1, <1>3, <1>4, <1>5, <1>6, DInvFromParts

LEMMA OwnStep ==
    ASSUME DInv, UNCHANGED <<scope, switches, run, delivery, chat, taken, escaped>>, NEW w \in Workers, Alone(w),
           WInv(w)', Held(w)', \A v \in Workers : v # w => Apart(v, w)'
    PROVE  DInv'
<1> USE DInvParts
<1>1. PICK r \in Turns : TRUE
  BY DeliveriesAssumption DEF Turns
<1>2. RowsGrow
  BY DeliveriesAssumption DEF RowsGrow, DeliveriesTypeOK
<1>3. ASSUME NEW v \in Workers, v # w PROVE HandsOff(v)
  <2>1. WInv(v) /\ chat' = chat /\ delivery' = delivery /\ worker'[v] = worker[v]
    BY <1>3 DEF Alone
  <2> QED
    BY <2>1 DEF HandsOff, WInv, SendingIs, Has, Current
<1>4. AnswerInOrder' /\ TInv(r)'
  BY SameChat, RowAside
<1> QED
  BY <1>2, <1>3, <1>4, RowStep, DeliveriesTypes DEF DeliveriesTypeOK, RowState

\* Whoever starts its loop over, or is through with it, has nothing in hand.
LEMMA FreshStart ==
    ASSUME DeliveriesTypeOK, UNCHANGED run, NEW w \in Workers, Alone(w), NEW rows, AtLoop(worker'[w], rows),
           rows \in SUBSET Turns, \A q \in rows : delivery'[q].status # "none", escaped'[w] <= 1
    PROVE  WInv(w)' /\ Held(w)' /\ \A v \in Workers : v # w => Apart(v, w)'
<1>1. /\ worker'[w].pc \in {"idle", "looping"} /\ worker'[w].then = "next" /\ worker'[w].total = 0
      /\ worker'[w].pc = "idle" => worker'[w] = Idle
      /\ worker'[w].pc = "looping" => worker'[w].row \in rows
      /\ worker'[w].rows \subseteq rows
  BY DEF AtLoop, Idle
<1>2. LookIs(w)'
  BY <1>1 DEF LookIs, At, Current, Sending
<1>3. ReadIs(w)'
  BY <1>1, DeliveriesAssumption DEF ReadIs, At, Current, DeliveriesTypeOK
<1>4. SayingIs(w)' /\ SendingIs(w)'
  BY <1>1 DEF SayingIs, Saying, SendingIs, Sending
<1>5. Held(w)'
  BY <1>1 DEF Held
<1>6. \A v \in Workers : v # w => Apart(v, w)'
  BY <1>1 DEF Apart, Saying, Sending
<1> QED
  BY <1>2, <1>3, <1>4, <1>5, <1>6 DEF WInv

---------------------------------------------------------------------------
(* The turns *)

LEMMA InitHolds == DeliveriesInit => DInv
<1> SUFFICES ASSUME DeliveriesInit PROVE DInv
  OBVIOUS
<1> USE DeliveriesAssumption DEF DeliveriesInit
<1>1. DeliveriesTypeOK
  <2>1. scope.switches \in Nat
    OBVIOUS
  <2>2. Unborn \in TurnState /\ NoDelivery \in RowState
    BY DEF Unborn, NoDelivery, TurnState, RowState, Answers, UnderWay, Outcomes
  <2> QED
    BY <2>1, <2>2, IdleWorker, DeliveriesTypes
<1>2. \A r \in Turns : InOrder(chat[r])
  BY DEF InOrder
<1>3. ASSUME NEW r \in Turns PROVE TInv(r)
  <2>1. HasNone(r) /\ ~HasAll(r) /\ \A k \in Lines : ~Has(r, <<"line", k>>)
    BY DEF HasNone, HasAll, Has
  <2>2. /\ run[r].status = "none" /\ run[r].lines = 0 /\ run[r].answer = "none"
        /\ delivery[r].status = "none" /\ delivery[r].said = 0 /\ taken[r] = {} /\ chat[r] = <<>>
    BY DEF Unborn, NoDelivery
  <2>3. TurnIs(r) /\ RowIs(r)
    BY <2>1, <2>2 DEF TurnIs, RowIs, Claimed
  <2>4. TakenIs(r)
    BY <2>2 DEF TakenIs
  <2>5. ChatIs(r)
    BY <2>1, <2>2 DEF ChatIs
  <2> QED
    BY <2>3, <2>4, <2>5 DEF TInv
<1>4. ASSUME NEW w \in Workers PROVE WInv(w) /\ Held(w)
  <2>1. worker[w] = Idle /\ worker[w].pc = "idle" /\ worker[w].then = "next" /\ worker[w].rows = {}
    BY DEF Idle
  <2>2. escaped[w] = 0
    OBVIOUS
  <2>3. LookIs(w)
    BY <2>1 DEF LookIs, At, Sending
  <2>4. ReadIs(w)
    BY <2>1 DEF ReadIs, At
  <2>5. SayingIs(w) /\ SendingIs(w) /\ Held(w)
    BY <2>1, <2>2 DEF SayingIs, SendingIs, Held, Saying, Sending
  <2> QED
    BY <2>3, <2>4, <2>5 DEF WInv
<1>5. \A v, w \in Workers : Apart(v, w)
  BY DEF Apart, Saying, Sending, Idle
<1> QED
  BY <1>1, <1>2, <1>3, <1>4, <1>5 DEF DInv, TInv, WInv, AnswerInOrder

\* What a turn may become.
TurnGoesOn(before, after) ==
    /\ before.lines <= after.lines
    /\ after.status = "none" => before.status = "none"
    /\ after.status \in {"none", "active"} => after.answer = "none"
    /\ after.answer = "last_line" => after.lines > 0
    /\ before.answer # "none" => after.answer = before.answer
    /\ before.status \in {"ended", "waiting", "cancelled"} =>
         /\ after.status \in {"ended", "waiting", "cancelled"}
         /\ after.lines = before.lines /\ after.answer = before.answer

LEMMA TurnsGoOn ==
    ASSUME DInv, UNCHANGED <<scope, delivery, worker, chat, taken>>, switches' \in 0..scope.switches,
           run' \in [Turns -> TurnState], escaped' \in [Workers -> Nat],
           \A r \in Turns : TurnGoesOn(run[r], run'[r]), \A w \in Workers : Held(w)'
    PROVE  DInv'
<1> USE DEF TurnGoesOn
<1>1. DeliveriesTypeOK /\ DeliveriesTypeOK'
  BY DInvParts DEF DeliveriesTypeOK, TurnState
<1>2. RunsGrow
  BY <1>1 DEF RunsGrow, Still, Worded
<1>3. ASSUME NEW r \in Turns PROVE TInv(r)'
  <2>1. TInv(r) /\ TurnGoesOn(run[r], run'[r])
    BY DInvParts
  <2>2. /\ delivery'[r] = delivery[r] /\ taken'[r] = taken[r] /\ chat'[r] = chat[r]
        /\ run[r].lines \in Nat /\ run'[r].lines \in Nat /\ delivery[r].said \in Nat /\ Kept \in Nat
    <3>1. run[r] \in TurnState /\ run'[r] \in TurnState /\ delivery[r] \in RowState
      BY <1>1, DeliveriesTypes
    <3> QED
      BY <3>1, TurnFields, RowFields, Bounds
  <2>3. (HasNone(r)' <=> HasNone(r)) /\ (HasAll(r)' <=> HasAll(r))
        /\ \A k \in Lines : Has(r, <<"line", k>>)' <=> Has(r, <<"line", k>>)
    BY <2>2 DEF HasNone, HasAll, Has
  <2>4. TurnIs(r)'
    BY <2>1, <2>2 DEF TInv, TurnIs
  <2>5. RowIs(r)'
    BY <2>1, <2>2, <2>3 DEF TInv, RowIs, Still, Claimed, KeptLines
  <2>6. TakenIs(r)'
    BY <2>1, <2>2 DEF TInv, TakenIs
  <2>7. ChatIs(r)'
    BY <2>1, <2>2, <2>3 DEF TInv, ChatIs, Worded
  <2> QED
    BY <2>4, <2>5, <2>6, <2>7 DEF TInv
<1> QED
  BY <1>1, <1>2, <1>3, TurnStep

\* Nothing is held less for a turn that goes on.
LEMMA HeldOn ==
    ASSUME DInv, UNCHANGED <<worker, escaped>>, NEW w \in Workers,
           \A r \in Turns : Stopped(r)' => Stopped(r)
    PROVE  Held(w)'
<1>1. worker[w].pc \in {"line_out", "part_out"} => worker[w].row \in Turns
  BY DInvParts DEF WInv, LookIs, At, Current
<1> QED
  BY <1>1, DInvParts DEF Held, Current, Stopped

LEMMA StartStep ==
    ASSUME DInv, NEW r \in Turns, Start(r)
    PROVE  DInv' /\ \A q \in Turns : TurnGoesOn(run[q], run'[q])
<1> USE DEF Start
<1>1. DeliveriesTypeOK /\ run \in [Turns -> TurnState] /\ switches \in 0..scope.switches /\ escaped \in [Workers -> Nat]
  BY DInvParts, DeliveriesTypes
<1>0. switches \in 0..MaxSwitches
  BY <1>1, ScopeBounds
<1>2. /\ run'[r].status = "active" /\ run'[r].lines = run[r].lines /\ run'[r].answer = run[r].answer
      /\ run'[r].born = switches /\ \A q \in Turns : q # r => run'[q] = run[q]
      /\ run' \in [Turns -> TurnState]
  <2>1. run[r] \in TurnState /\ run' = [run EXCEPT ![r] = Begun(run[r], switches)]
    BY <1>1 DEF Begun
  <2>2. run'[r] = Begun(run[r], switches) /\ \A q \in Turns : q # r => run'[q] = run[q]
    BY <1>1, <2>1
  <2> HIDE DEF Start
  <2> QED
    BY <1>0, <1>1, <2>1, <2>2, Begins
<1>4. ASSUME NEW q \in Turns PROVE TurnGoesOn(run[q], run'[q]) /\ (Stopped(q)' => Stopped(q))
  <2>1. TurnIs(q) /\ run[q] \in TurnState /\ switches \in Nat
    BY <1>1, DInvParts, ScopeBounds DEF TInv
  <2>2. CASE q = r
    <3>1. run[q].status = "none" /\ run[q].lines \in Nat
      BY <2>1, <2>2, TurnFields
    <3>2. TurnGoesOn(run[q], run'[q])
      BY <1>2, <2>1, <2>2, <3>1 DEF TurnGoesOn, TurnIs
    <3>3. ~(run'[q].born < switches')
      BY <1>2, <2>1, <2>2
    <3> QED
      BY <3>2, <3>3 DEF Stopped, Paused
  <2>3. CASE q # r
    <3>1. run'[q] = run[q] /\ run[q].lines \in Nat
      BY <1>2, <2>1, <2>3, TurnFields
    <3>2. TurnGoesOn(run[q], run'[q])
      BY <2>1, <3>1 DEF TurnGoesOn, TurnIs
    <3> QED
      BY <3>1, <3>2 DEF Stopped, Paused
  <2> QED
    BY <2>2, <2>3
<1> QED
  BY <1>1, <1>2, <1>4, HeldOn, TurnsGoOn

LEMMA SpeakStep ==
    ASSUME DInv, NEW r \in Turns, Say(r) \/ EndTurn(r) \/ Wait(r) \/ Answered(r) \/ Cancel(r)
    PROVE  DInv' /\ \A q \in Turns : TurnGoesOn(run[q], run'[q])
<1>1. /\ DeliveriesTypeOK /\ run \in [Turns -> TurnState] /\ switches \in 0..scope.switches
      /\ escaped \in [Workers -> Nat] /\ \A q \in Turns : TurnIs(q)
  BY DInvParts, DeliveriesTypes DEF TInv
<1>2. run[r] \in TurnState
  BY <1>1
<1>3. /\ UNCHANGED <<scope, switches, delivery, worker, chat, taken, escaped>>
      /\ run' \in [Turns -> TurnState] /\ \A q \in Turns : q # r => run'[q] = run[q]
      /\ TurnGoesOn(run[r], run'[r]) /\ run'[r].born = run[r].born
  <2>1. CASE Say(r)
    <3>1. /\ run'[r].status = "active" /\ run[r].status = "active" /\ run'[r].lines = run[r].lines + 1
          /\ run'[r].answer = run[r].answer /\ run'[r].born = run[r].born
      BY <1>2, <2>1, <1>1 DEF Say, Speaking, TurnState
    <3>2. run[r].lines + 1 \in 0..MaxLines
      BY <1>1, <1>2, <2>1, ScopeBounds, TurnFields, Bounds DEF Say
    <3>3. run' \in [Turns -> TurnState]
      BY <1>1, <2>1, <3>2 DEF Say, TurnState
    <3>4. TurnGoesOn(run[r], run'[r])
      BY <1>1, <1>2, <3>1, TurnFields DEF TurnGoesOn, TurnIs
    <3> QED
      BY <1>1, <2>1, <3>1, <3>3, <3>4 DEF Say
  <2>2. CASE EndTurn(r) \/ Wait(r)
    <3>1. PICK status \in {"ended", "waiting"}, answer \in Answers :
             /\ run[r].status = "active" /\ (answer = "last_line" => run[r].lines > 0)
             /\ run' = [run EXCEPT ![r].status = status, ![r].answer = answer]
             /\ UNCHANGED <<scope, switches, delivery, worker, chat, taken, escaped>>
      BY <2>2 DEF EndTurn, Wait, Speaking, Answers
    <3>2. /\ run'[r].status = status /\ run'[r].lines = run[r].lines
          /\ run'[r].answer = answer /\ run'[r].born = run[r].born
          /\ run' \in [Turns -> TurnState]
      <4>1. run[r] \in TurnState /\ run' = [run EXCEPT ![r] = Concluded(run[r], status, answer)]
        BY <1>1, <3>1 DEF Concluded
      <4>2. run'[r] = Concluded(run[r], status, answer)
        BY <1>1, <4>1
      <4> QED
        BY <1>1, <4>1, <4>2, Concludes
    <3>4. run[r].lines \in Nat /\ run[r].answer = "none"
      BY <1>1, <1>2, <3>1, TurnFields DEF TurnIs
    <3>5. /\ run[r].status = "active" /\ run'[r].status \in {"ended", "waiting"}
          /\ run'[r].answer = "last_line" => run'[r].lines > 0
      BY <3>1, <3>2
    <3>6. TurnGoesOn(run[r], run'[r])
      BY <3>2, <3>4, <3>5 DEF TurnGoesOn
    <3> QED
      BY <1>1, <3>1, <3>2, <3>6
  <2>3. CASE Answered(r) \/ Cancel(r)
    <3>1. PICK status \in {"ended", "cancelled"} :
             /\ run[r].status \in UnderWay /\ run' = [run EXCEPT ![r].status = status]
             /\ status = "ended" => run[r].status = "waiting"
             /\ UNCHANGED <<scope, switches, delivery, worker, chat, taken, escaped>>
      BY <2>3 DEF Answered, Cancel, UnderWay
    <3>2. /\ run'[r].status = status /\ run'[r].lines = run[r].lines
          /\ run'[r].answer = run[r].answer /\ run'[r].born = run[r].born
      BY <1>1, <1>2, <3>1 DEF TurnState
    <3>3. run' \in [Turns -> TurnState]
      BY <1>1, <3>1 DEF TurnState
    <3>4. TurnGoesOn(run[r], run'[r])
      BY <1>1, <1>2, <3>1, <3>2, TurnFields DEF TurnGoesOn, TurnIs
    <3> QED
      BY <1>1, <3>1, <3>2, <3>3, <3>4
  <2> QED
    BY <2>1, <2>2, <2>3
<1>4. ASSUME NEW q \in Turns PROVE TurnGoesOn(run[q], run'[q]) /\ (Stopped(q)' => Stopped(q))
  <2>1. TurnGoesOn(run[q], run'[q])
    <3>1. run[q] \in TurnState /\ TurnIs(q)
      BY <1>1
    <3> QED
      BY <1>3, <3>1, TurnFields DEF TurnGoesOn, TurnIs
  <2> QED
    BY <1>3, <2>1 DEF Stopped, Paused
<1> QED
  BY <1>1, <1>3, <1>4, HeldOn, TurnsGoOn

LEMMA SwitchStep ==
    ASSUME DInv, Switch
    PROVE  DInv' /\ \A q \in Turns : TurnGoesOn(run[q], run'[q])
<1> USE DEF Switch
<1>1. DeliveriesTypeOK /\ \A q \in Turns : TurnIs(q)
  BY DInvParts DEF TInv
<1>2. ASSUME NEW q \in Turns PROVE run'[q] \in TurnState /\ TurnGoesOn(run[q], run'[q])
  <2>1. TurnIs(q) /\ run[q] \in TurnState
    BY <1>1, DeliveriesTypes
  <2>2. CASE run[q].status \in UnderWay
    <3>1. run'[q] = [run[q] EXCEPT !.status = "cancelled"]
      BY <2>2
    <3>2. /\ run'[q].status = "cancelled" /\ run'[q].lines = run[q].lines
          /\ run'[q].answer = run[q].answer /\ run'[q] \in TurnState
      BY <2>1, <3>1 DEF TurnState
    <3> QED
      BY <2>1, <2>2, <3>2, TurnFields DEF TurnGoesOn, TurnIs
  <2>3. CASE run[q].status \notin UnderWay
    BY <2>1, <2>3, TurnFields DEF TurnGoesOn, TurnIs
  <2> QED
    BY <2>2, <2>3
<1>3. run' \in [Turns -> TurnState]
  BY <1>2
<1>4. switches' \in 0..scope.switches /\ escaped' \in [Workers -> Nat] /\ \A w \in Workers : Held(w)'
  BY <1>1, ScopeBounds DEF DeliveriesTypeOK, Held
<1> QED
  BY <1>2, <1>3, <1>4, TurnsGoOn

---------------------------------------------------------------------------
(* One process on its own *)

\* The process stays with its row and what it read there.
Goes(w, pc, next, then, outcome) ==
    /\ Alone(w)
    /\ worker'[w].pc = pc /\ worker'[w].next = next /\ worker'[w].then = then /\ worker'[w].outcome = outcome
    /\ worker'[w].row = worker[w].row /\ worker'[w].rows = worker[w].rows
    /\ worker'[w].total = worker[w].total /\ worker'[w].answer = worker[w].answer

LEMMA SetPc ==
    ASSUME worker \in [Workers -> WorkerStates], NEW w \in Workers,
           NEW pc \in {"line", "line_out", "part", "part_out", "settling"}, Set(w, [worker[w] EXCEPT !.pc = pc])
    PROVE  Goes(w, pc, worker[w].next, worker[w].then, worker[w].outcome)
<1>1. PICK record : record = [worker[w] EXCEPT !.pc = pc]
  OBVIOUS
<1>2. /\ record \in WorkerStates /\ record.pc = pc /\ record.next = worker[w].next /\ record.then = worker[w].then
      /\ record.outcome = worker[w].outcome /\ record.row = worker[w].row /\ record.rows = worker[w].rows
      /\ record.total = worker[w].total /\ record.answer = worker[w].answer
  BY <1>1 DEF WorkerStates
<1> QED
  BY <1>1, <1>2, SetWorker DEF Goes, Alone

LEMMA SetNext ==
    ASSUME worker \in [Workers -> WorkerStates], NEW w \in Workers, NEW pc \in {"line", "part"}, NEW next \in Nat,
           Set(w, [worker[w] EXCEPT !.pc = pc, !.next = next])
    PROVE  Goes(w, pc, next, worker[w].then, worker[w].outcome)
<1>1. PICK record : record = [worker[w] EXCEPT !.pc = pc, !.next = next]
  OBVIOUS
<1>2. /\ record \in WorkerStates /\ record.pc = pc /\ record.next = next /\ record.then = worker[w].then
      /\ record.outcome = worker[w].outcome /\ record.row = worker[w].row /\ record.rows = worker[w].rows
      /\ record.total = worker[w].total /\ record.answer = worker[w].answer
  BY <1>1 DEF WorkerStates
<1> QED
  BY <1>1, <1>2, SetWorker DEF Goes, Alone

LEMMA SetOutcome ==
    ASSUME worker \in [Workers -> WorkerStates], NEW w \in Workers, NEW outcome \in Outcomes, SettleAs(w, outcome)
    PROVE  Goes(w, "settling", worker[w].next, worker[w].then, outcome)
<1>1. PICK record : record = [worker[w] EXCEPT !.pc = "settling", !.outcome = outcome]
  OBVIOUS
<1>2. /\ record \in WorkerStates /\ record.pc = "settling" /\ record.next = worker[w].next
      /\ record.then = worker[w].then
      /\ record.outcome = outcome /\ record.row = worker[w].row /\ record.rows = worker[w].rows
      /\ record.total = worker[w].total /\ record.answer = worker[w].answer
  BY <1>1 DEF WorkerStates
<1> QED
  BY <1>1, <1>2, SetWorker DEF Goes, Alone, SettleAs

\* What each of its steps may rely on.
LEMMA WorkerFacts ==
    ASSUME DInv, NEW w \in Workers
    PROVE  /\ worker \in [Workers -> WorkerStates] /\ worker[w] \in WorkerStates /\ WInv(w) /\ Held(w)
           /\ worker[w].rows \in SUBSET Turns /\ worker[w].total \in Nat /\ worker[w].next \in Nat
           /\ worker[w].then \in {"next", "claim", "send"} /\ worker[w].answer \in {0, Parts}
           /\ \A q \in worker[w].rows : delivery[q].status # "none"
           /\ worker[w].pc # "idle" =>
                /\ worker[w].row \in Turns /\ delivery[worker[w].row].status # "none"
                /\ worker[w].total <= run[worker[w].row].lines
                /\ TInv(worker[w].row) /\ delivery[worker[w].row] \in RowState /\ run[worker[w].row] \in TurnState
<1>1. worker \in [Workers -> WorkerStates] /\ WInv(w) /\ Held(w) /\ \A r \in Turns : TInv(r)
  BY DInvParts, DeliveriesTypes
<1>2. delivery \in [Turns -> RowState] /\ run \in [Turns -> TurnState]
  BY DInvParts, DeliveriesTypes
<1>3. worker[w] \in WorkerStates
  BY <1>1
<1>4. /\ worker[w].rows \in SUBSET Turns /\ worker[w].total \in Nat /\ worker[w].next \in Nat
      /\ worker[w].then \in {"next", "claim", "send"} /\ worker[w].answer \in {0, Parts}
  BY <1>3, WorkerFields, Bounds
<1>5. \A q \in worker[w].rows : delivery[q].status # "none"
  BY <1>1 DEF WInv, LookIs
<1>6. worker[w].pc # "idle" => /\ worker[w].row \in Turns /\ delivery[worker[w].row].status # "none"
                               /\ worker[w].total <= run[worker[w].row].lines
  BY <1>1 DEF WInv, LookIs, ReadIs, At, Current
<1> QED
  BY <1>1, <1>2, <1>3, <1>4, <1>5, <1>6

\* The loop goes on, and the rows are those there were.
LEMMA OnwardStep ==
    ASSUME DInv, NEW w \in Workers, Onward(w), UNCHANGED run, escaped'[w] <= 1,
           \A r \in Turns : delivery[r].status # "none" => delivery'[r].status # "none"
    PROVE  Alone(w) /\ WInv(w)' /\ Held(w)' /\ \A v \in Workers : v # w => Apart(v, w)'
<1>1. Alone(w) /\ AtLoop(worker'[w], worker[w].rows)
  BY WorkerFacts, GoingOnLooking DEF Onward
<1>2. \A q \in worker[w].rows : delivery'[q].status # "none"
  BY WorkerFacts
<1> QED
  BY <1>1, <1>2, WorkerFacts, DInvParts, FreshStart

LEMMA TickStep == ASSUME DInv, NEW w \in Workers, Tick(w) PROVE DInv'
<1> USE DEF Tick
<1>1. Oldest(Pending) \in SUBSET Turns /\ \A q \in Oldest(Pending) : delivery'[q].status # "none"
  BY DEF Oldest, Pending
<1>2. Alone(w) /\ AtLoop(worker'[w], Oldest(Pending))
  BY <1>1, WorkerFacts, GoingOnLooking
<1>3. escaped'[w] <= 1
  BY WorkerFacts DEF Held
<1>4. WInv(w)' /\ Held(w)' /\ \A v \in Workers : v # w => Apart(v, w)'
  BY <1>1, <1>2, <1>3, DInvParts, FreshStart
<1> QED
  BY <1>2, <1>4, OwnStep

LEMMA PassByStep == ASSUME DInv, NEW w \in Workers, PassBy(w) PROVE DInv'
<1>1. escaped'[w] <= 1
  BY WorkerFacts DEF Held, PassBy
<1>2. Alone(w) /\ WInv(w)' /\ Held(w)' /\ \A v \in Workers : v # w => Apart(v, w)'
  BY <1>1, OnwardStep DEF PassBy
<1> QED
  BY <1>2, OwnStep DEF PassBy

LEMMA CrashStep == ASSUME DInv, NEW w \in Workers, Crash(w) PROVE DInv'
<1> USE DEF Crash
<1>1. Alone(w) /\ AtLoop(worker'[w], {})
  BY WorkerFacts, SetWorker, IdleWorker DEF Alone, AtLoop, Idle
<1>2. escaped'[w] <= 1
  BY WorkerFacts DEF Held
<1>3. {} \in SUBSET Turns /\ (\A q \in {} : delivery'[q].status # "none") /\ DeliveriesTypeOK /\ UNCHANGED run
  BY DInvParts
<1>4. WInv(w)' /\ Held(w)' /\ \A v \in Workers : v # w => Apart(v, w)'
  BY <1>1, <1>2, <1>3, FreshStart
<1> QED
  BY <1>1, <1>4, OwnStep

LEMMA ReadStep == ASSUME DInv, NEW w \in Workers, Follow(w) \/ Prepare(w) PROVE DInv'
<1> DEFINE r == worker[w].row
<1>1. PICK then \in {"next", "claim"} :
         /\ ReadTurn(w, then) /\ worker[w].pc = "looping"
         /\ then = "claim" => run[r].status \in {"ended", "waiting"}
  BY DEF Follow, Prepare, At, Current
<1> USE <1>1 DEF ReadTurn
<1>2. /\ r \in Turns /\ run[r] \in TurnState /\ worker[w] \in WorkerStates
      /\ worker \in [Workers -> WorkerStates] /\ WInv(w) /\ Held(w)
  BY WorkerFacts
<1>3. Outbound(run[r]) \in {0, Parts} /\ run[r].lines \in 0..MaxLines
  BY <1>2, TurnFields DEF Outbound, TurnState
<1>4. PICK record : record = [worker[w] EXCEPT !.pc = "said", !.total = run[r].lines, !.then = then,
                                               !.answer = Outbound(run[r])]
  OBVIOUS
<1>5. /\ record \in WorkerStates /\ record.pc = "said" /\ record.total = run[r].lines /\ record.then = then
      /\ record.answer = Outbound(run[r]) /\ record.row = r /\ record.rows = worker[w].rows
  BY <1>2, <1>3, <1>4 DEF WorkerStates
<1>6. Alone(w) /\ worker'[w] = record
  BY <1>2, <1>4, <1>5, SetWorker DEF Alone, Current
<1>7. LookIs(w)'
  BY <1>2, <1>5, <1>6 DEF LookIs, WInv, At, Current, Sending
<1>8. ReadIs(w)'
  <2>1. record.total <= run'[r].lines
    BY <1>2, <1>5, TurnFields
  <2>2. ASSUME then # "next"
        PROVE  /\ run'[r].status \in {"ended", "waiting", "cancelled"} /\ record.total = run'[r].lines
               /\ record.answer # 0 => run'[r].answer \in {"own", "panel"}
               /\ run'[r].answer = "own" => record.answer # 0
    BY <1>5, <2>2, Bounds DEF Outbound
  <2> QED
    BY <1>5, <1>6, <2>1, <2>2 DEF ReadIs, At, Current, Still, Worded
<1>9. SayingIs(w)' /\ SendingIs(w)' /\ \A v \in Workers : v # w => Apart(v, w)'
  BY <1>5, <1>6 DEF SayingIs, SendingIs, Apart, Saying, Sending
<1>10. Held(w)'
  BY <1>2, <1>5, <1>6 DEF Held
<1> QED
  BY <1>6, <1>7, <1>8, <1>9, <1>10, OwnStep DEF WInv

\* What comes after the lines.
LEMMA FollowedStep ==
    ASSUME DInv, NEW w \in Workers, worker[w].pc \in {"said", "line", "line_out"}, ~Sending(w), Followed(w),
           UNCHANGED run, escaped'[w] <= 1,
           \A r \in Turns : delivery[r].status # "none" => delivery'[r].status # "none",
           worker[w].then = "claim" => \/ delivery'[worker[w].row].status = "failed"
                                       \/ KeptLines(worker[w].total) <= delivery'[worker[w].row].said
    PROVE  Alone(w) /\ WInv(w)' /\ Held(w)' /\ \A v \in Workers : v # w => Apart(v, w)'
<1>1. CASE worker[w].then = "next"
  BY <1>1, OnwardStep DEF Followed
<1>2. CASE worker[w].then = "claim"
  <2> DEFINE r == worker[w].row
  <2>1. /\ r \in Turns /\ worker[w].rows \subseteq Turns /\ WInv(w) /\ worker \in [Workers -> WorkerStates]
        /\ delivery[r].status # "none" /\ \A q \in worker[w].rows : delivery[q].status # "none"
    BY WorkerFacts
  <2>2. Goes(w, "part", 1, "claim", worker[w].outcome)
    BY <1>2, <2>1, SetNext DEF Followed
  <2>3. LookIs(w)'
    BY <2>1, <2>2 DEF Goes, LookIs, At, Current, Sending
  <2>4. ReadIs(w)'
    BY <1>2, <2>1, <2>2 DEF Goes, WInv, ReadIs, At, Current, Still, Worded, KeptLines
  <2>5. SayingIs(w)' /\ SendingIs(w)' /\ Held(w)' /\ \A v \in Workers : v # w => Apart(v, w)'
    BY <2>2 DEF Goes, SayingIs, SendingIs, Held, Apart, Saying, Sending
  <2> QED
    BY <2>2, <2>3, <2>4, <2>5 DEF WInv, Goes
<1> QED
  BY <1>1, <1>2, WorkerFacts DEF Sending

\* A line is out, or is passed over: the ones after it are still in hand.
LEMMA LineEnds ==
    ASSUME DInv, NEW w \in Workers, Saying(w), NextLine(w), UNCHANGED <<run, delivery, taken>>, escaped'[w] <= 1,
           NEW r, r = worker[w].row,
           \A k \in worker[w].next + 1..worker[w].total : Has(r, <<"line", k>>)' => Has(r, <<"line", k>>)
    PROVE  Alone(w) /\ WInv(w)' /\ Held(w)' /\ \A v \in Workers : v # w => Apart(v, w)'
<1>1. /\ r \in Turns /\ worker[w].rows \subseteq Turns /\ WInv(w) /\ worker \in [Workers -> WorkerStates]
      /\ delivery[r].status # "none" /\ \A q \in worker[w].rows : delivery[q].status # "none"
      /\ worker[w].next \in Nat /\ worker[w].total \in Nat /\ worker[w].pc \in {"line", "line_out"}
  BY WorkerFacts DEF Saying
<1>2. /\ ~Sending(w) /\ worker[w].next \in 1..worker[w].total
      /\ \A k \in worker[w].next..worker[w].total : k \in taken[r] /\ ~Has(r, <<"line", k>>)
  BY <1>1 DEF WInv, SayingIs, Current
<1>3. worker[w].then = "claim" => \/ delivery'[r].status = "failed"
                                  \/ KeptLines(worker[w].total) <= delivery'[r].said
  BY <1>1 DEF WInv, ReadIs, At, Current
<1>4. CASE worker[w].next = worker[w].total
  <2>1. Followed(w)
    BY <1>4 DEF NextLine
  <2>2. \A q \in Turns : delivery[q].status # "none" => delivery'[q].status # "none"
    OBVIOUS
  <2>3. worker[w].pc \in {"said", "line", "line_out"}
    BY <1>1
  <2> QED
    BY <1>2, <1>3, <2>1, <2>2, <2>3, FollowedStep
<1>5. CASE worker[w].next # worker[w].total
  <2>1. Goes(w, "line", worker[w].next + 1, worker[w].then, worker[w].outcome)
    <3>1. Set(w, [worker[w] EXCEPT !.pc = "line", !.next = worker[w].next + 1])
      BY <1>5 DEF NextLine
    <3>2. worker[w].next + 1 \in Nat
      BY <1>1
    <3> QED
      BY <1>1, <3>1, <3>2, SetNext
  <2>2. LookIs(w)'
    BY <1>1, <1>2, <2>1 DEF Goes, WInv, LookIs, At, Current, Sending
  <2>3. ReadIs(w)'
    BY <1>1, <1>3, <2>1 DEF Goes, WInv, ReadIs, At, Current, Still, Worded, KeptLines
  <2>4. /\ worker[w].next + 1 \in 1..worker[w].total
        /\ \A k \in worker[w].next + 1..worker[w].total : k \in taken'[r] /\ ~Has(r, <<"line", k>>)'
    BY <1>1, <1>2, <1>5
  <2>5. SayingIs(w)'
    BY <1>2, <2>1, <2>4 DEF Goes, SayingIs, Saying, Sending, Current, Has
  <2>6. SendingIs(w)' /\ Held(w)'
    BY <1>2, <2>1 DEF Goes, SendingIs, Held, Sending
  <2>7. ASSUME NEW v \in Workers, v # w PROVE Apart(v, w)'
    <3>1. Apart(v, w) /\ worker'[v] = worker[v]
      BY <2>1, <2>7, DInvParts DEF Goes, Alone
    <3> QED
      BY <1>1, <1>2, <2>1, <3>1 DEF Goes, Apart, Saying, Sending, Current
  <2> QED
    BY <2>1, <2>2, <2>3, <2>5, <2>6, <2>7 DEF Goes, WInv
<1> QED
  BY <1>4, <1>5

LEMMA SendLineStep == ASSUME DInv, NEW w \in Workers, SendLine(w) PROVE DInv'
<1> USE DEF SendLine
<1>1. /\ WInv(w) /\ Held(w) /\ worker \in [Workers -> WorkerStates] /\ worker[w].pc = "line"
  BY WorkerFacts DEF At
<1>2. CASE Checked(w)
  <2>1. Goes(w, "line_out", worker[w].next, worker[w].then, worker[w].outcome)
    BY <1>1, <1>2, SetPc
  <2>2. WInv(w)'
    BY <1>1, <2>1 DEF Goes, WInv, LookIs, ReadIs, SayingIs, SendingIs, At, Current, Saying, Sending, Has, HasNone, HasAll,
                      Still, Worded, KeptLines
  <2>3. Held(w)'
    BY <1>1, <1>2, <2>1 DEF Goes, Held, Checked, Denied, Stopped, Paused, Current
  <2>4. ASSUME NEW v \in Workers, v # w PROVE Apart(v, w)'
    <3>1. Apart(v, w) /\ worker'[v] = worker[v]
      BY <2>1, <2>4, DInvParts DEF Goes, Alone
    <3> QED
      BY <1>1, <2>1, <3>1 DEF Goes, Apart, Saying, Sending, Current
  <2> QED
    BY <2>1, <2>2, <2>3, <2>4, OwnStep DEF Goes
<1>3. CASE ~Checked(w)
  <2>1. Saying(w) /\ NextLine(w) /\ escaped'[w] <= 1
    BY <1>1, <1>3 DEF Saying, Held
  <2>2. PICK r : r = worker[w].row
    OBVIOUS
  <2>3. \A k \in worker[w].next + 1..worker[w].total : Has(r, <<"line", k>>)' => Has(r, <<"line", k>>)
    BY DEF Has
  <2>4. Alone(w) /\ WInv(w)' /\ Held(w)' /\ \A v \in Workers : v # w => Apart(v, w)'
    BY <2>1, <2>2, <2>3, LineEnds
  <2> QED
    BY <2>4, OwnStep
<1> QED
  BY <1>2, <1>3

---------------------------------------------------------------------------
(* A row, and its process *)

\* A row that is being sent goes on being sent, or becomes uncertain.
RowsHeld == \A q \in Turns :
    delivery[q].status \in {"sending", "unknown"} => delivery'[q].status \in {"sending", "unknown"}

LEMMA HandsOffRows ==
    ASSUME DInv, NEW v \in Workers, worker'[v] = worker[v], chat' = chat, RowsHeld
    PROVE  HandsOff(v)
<1>1. WInv(v) /\ (Sending(v) => worker[v].row \in Turns)
  BY WorkerFacts DEF WInv, LookIs, Sending, Current, At, Idle
<1> QED
  BY <1>1 DEF HandsOff, WInv, SendingIs, Has, Current, RowsHeld

LEMMA RowOnlyStep ==
    ASSUME DInv, UNCHANGED <<scope, switches, run, worker, chat, taken, escaped>>, NEW r \in Turns,
           delivery' \in [Turns -> RowState], RowsGrow, RowsHeld,
           \A q \in Turns : q # r => delivery'[q] = delivery[q], TInv(r)'
    PROVE  DInv'
<1> USE DInvParts
<1>1. DeliveriesTypeOK'
  BY DEF DeliveriesTypeOK, RowState
<1>2. RunsGrow
  BY SameRuns
<1>3. ASSUME NEW v \in Workers PROVE WInv(v)' /\ Held(v)'
  <2>1. HandsOff(v)
    BY HandsOffRows
  <2>2. WInv(v)'
    BY <1>1, <1>2, <2>1, Onlooker
  <2> QED
    BY <2>2 DEF Held, Stopped, Paused, Current
<1>4. \A u, v \in Workers : Apart(u, v)'
  BY DEF Apart, Saying, Sending, Current
<1>5. ASSUME NEW q \in Turns PROVE TInv(q)'
  <2>1. CASE q # r
    BY <2>1, RowAside
  <2> QED
    BY <2>1
<1>6. AnswerInOrder'
  <2>1. AnswerInOrder /\ chat' = chat
    OBVIOUS
  <2> QED
    BY <2>1, SameChat
<1> QED
  BY <1>1, <1>3, <1>4, <1>5, <1>6, DInvFromParts

\* What a change of one row's status leaves to be shown.
LEMMA StatusSet ==
    ASSUME DInv, NEW r \in Turns, NEW status \in {"pending", "sending", "unknown", "failed", "sent"},
           delivery' = [delivery EXCEPT ![r].status = status]
    PROVE  /\ delivery' \in [Turns -> RowState] /\ \A q \in Turns : q # r => delivery'[q] = delivery[q]
           /\ delivery'[r].status = status /\ delivery'[r].said = delivery[r].said
<1>1. delivery \in [Turns -> RowState]
  BY DInvParts, DeliveriesTypes
<1> QED
  BY <1>1 DEF RowState, Outcomes

LEMMA StatusRow ==
    ASSUME NEW r \in Turns, TInv(r), NEW status \in {"pending", "sending", "unknown", "failed", "sent"},
           delivery'[r].status = status, delivery'[r].said = delivery[r].said,
           UNCHANGED <<run, chat, taken>>, run[r].status # "none",
           status \in Claimed => Still(r) /\ KeptLines(run[r].lines) <= delivery[r].said,
           status = "pending" => HasNone(r), status = "sent" /\ run[r].answer = "own" => HasAll(r)
    PROVE  TInv(r)'
<1>1. TurnIs(r)'
  BY DEF TInv, TurnIs
<1>2. RowIs(r)'
  BY DEF TInv, RowIs, HasNone, HasAll, Has, Still, KeptLines, Claimed
<1>3. TakenIs(r)' /\ ChatIs(r)'
  BY DEF TInv, TakenIs, ChatIs, HasNone, Has, Worded
<1> QED
  BY <1>1, <1>2, <1>3 DEF TInv

LEMMA StatusGrows ==
    ASSUME DInv, NEW r \in Turns, UNCHANGED taken, delivery'[r].said = delivery[r].said,
           \A q \in Turns : q # r => delivery'[q] = delivery[q],
           delivery'[r].status # "none", delivery[r].status # "failed"
    PROVE  RowsGrow
<1>1. ASSUME NEW q \in Turns PROVE delivery[q].said <= delivery'[q].said
  <2>1. delivery[q] \in RowState /\ delivery'[q].said = delivery[q].said
    BY DInvParts, DeliveriesTypes
  <2> QED
    BY <2>1, RowFields
<1> QED
  BY <1>1 DEF RowsGrow

LEMMA AttachStep == ASSUME DInv, NEW r \in Turns, Attach(r) PROVE DInv'
<1> USE DEF Attach
<1>1. TInv(r) /\ delivery[r].status = "none" /\ run[r].status # "none"
  BY DInvParts
<1>2. /\ delivery' \in [Turns -> RowState] /\ \A q \in Turns : q # r => delivery'[q] = delivery[q]
      /\ delivery'[r].status = "pending" /\ delivery'[r].said = delivery[r].said
  BY StatusSet
<1>3. TInv(r)'
  <2>1. HasNone(r)
    BY <1>1 DEF TInv, RowIs
  <2> QED
    BY <1>1, <1>2, <2>1, StatusRow DEF Claimed
<1>4. RowsGrow /\ RowsHeld
  BY <1>1, <1>2, StatusGrows DEF RowsHeld
<1> QED
  BY <1>2, <1>3, <1>4, RowOnlyStep

LEMMA RecoverStep == ASSUME DInv, NEW w \in Workers, NEW r \in Turns, Recover(w, r) PROVE DInv'
<1> USE DEF Recover, Recovered
<1>1. TInv(r) /\ delivery[r].status = "sending" /\ delivery \in [Turns -> RowState]
  BY DInvParts, DeliveriesTypes
<1>2. /\ delivery' \in [Turns -> RowState] /\ \A q \in Turns : q # r => delivery'[q] = delivery[q]
      /\ delivery'[r].status = "unknown" /\ delivery'[r].said = delivery[r].said
  BY <1>1 DEF RowState, Outcomes
<1>3. run[r].status # "none" /\ Still(r) /\ KeptLines(run[r].lines) <= delivery[r].said
  BY <1>1 DEF TInv, TurnIs, RowIs, Claimed
<1>4. TInv(r)'
  BY <1>1, <1>2, <1>3, StatusRow
<1>5. RowsGrow /\ RowsHeld
  BY <1>1, <1>2, StatusGrows DEF RowsHeld
<1> QED
  BY <1>2, <1>4, <1>5, RowOnlyStep

LEMMA DenyStep == ASSUME DInv, NEW w \in Workers, Deny(w) PROVE DInv'
<1> USE DEF Deny
<1>1. PICK r \in Turns : r = worker[w].row /\ TInv(r) /\ delivery[r].status # "none"
  BY WorkerFacts DEF At
<1>2. escaped'[w] <= 1
  BY WorkerFacts DEF Held
<1>3. CASE delivery[r].status # "pending"
  <2>1. delivery' = delivery
    BY <1>1, <1>3 DEF Current
  <2>2. Alone(w) /\ WInv(w)' /\ Held(w)' /\ \A v \in Workers : v # w => Apart(v, w)'
    BY <1>2, <2>1, OnwardStep
  <2> QED
    BY <2>1, <2>2, OwnStep
<1>4. CASE delivery[r].status = "pending"
  <2>1. /\ delivery' \in [Turns -> RowState] /\ \A q \in Turns : q # r => delivery'[q] = delivery[q]
        /\ delivery'[r].status = "failed" /\ delivery'[r].said = delivery[r].said
    BY <1>1, <1>4, StatusSet DEF Current
  <2>2. Alone(w) /\ WInv(w)' /\ Held(w)' /\ \A v \in Workers : v # w => Apart(v, w)'
    BY <1>2, <2>1, OnwardStep
  <2>3. TInv(r)'
    <3>1. run[r].status # "none"
      BY <1>1 DEF TInv, TurnIs
    <3> QED
      BY <1>1, <2>1, <3>1, StatusRow DEF Claimed
  <2>4. RowsGrow /\ RowsHeld
    BY <1>1, <1>4, <2>1, StatusGrows DEF RowsHeld
  <2>5. \A v \in Workers : v # w => HandsOff(v)
    BY <2>2, <2>4, HandsOffRows DEF Alone
  <2>6. /\ AnswerInOrder' /\ chat' \in [Turns -> Seq(Items)] /\ taken' \in [Turns -> SUBSET Lines]
        /\ escaped' \in [Workers -> Nat]
    BY DInvParts, DeliveriesTypes, SameChat
  <2> QED
    BY <2>1, <2>2, <2>3, <2>4, <2>5, <2>6, RowStep
<1> QED
  BY <1>3, <1>4

LEMMA TakeStep == ASSUME DInv, NEW w \in Workers, Take(w) PROVE DInv'
<1> USE DEF Take
<1>1. PICK r \in Turns :
         /\ r = worker[w].row /\ TInv(r) /\ WInv(w) /\ Held(w) /\ worker[w].pc = "said"
         /\ worker \in [Workers -> WorkerStates] /\ worker[w].rows \subseteq Turns
         /\ delivery[r].status # "none" /\ delivery[r] \in RowState /\ run[r] \in TurnState
         /\ worker[w].total \in Nat /\ worker[w].total <= run[r].lines
  BY WorkerFacts DEF At
<1>2. ~Sending(w) /\ ~Saying(w) /\ escaped'[w] <= 1
  BY <1>1 DEF WInv, LookIs, Held, Saying
<1> DEFINE total == worker[w].total
           said == delivery[r].said
           keeps == KeptLines(total)
           first == NextUnsaid(total, said)
<1>3. /\ said \in Nat /\ said <= Kept /\ Kept \in Nat /\ run[r].lines \in Nat /\ run[r].lines <= MaxLines
      /\ total \in Nat /\ total <= run[r].lines
  BY <1>1, RowFields, TurnFields, Bounds
<1>4. keeps \in Nat /\ keeps <= total /\ keeps <= Kept /\ (total <= Kept => keeps = total) /\ (total >= Kept => keeps = Kept)
  BY <1>3 DEF KeptLines
<1>5. CASE delivery[r].status = "pending" /\ said < keeps
  <2>1. /\ delivery' = [delivery EXCEPT ![r].said = keeps]
        /\ taken' = [taken EXCEPT ![r] = @ \cup first..total]
        /\ Set(w, [worker[w] EXCEPT !.pc = "line", !.next = first])
    BY <1>1, <1>5 DEF Current
  <2>2. first = total - keeps + said + 1 /\ first \in 1..total /\ first > said
    BY <1>3, <1>4, <1>5 DEF NextUnsaid
  <2>3. Goes(w, "line", first, worker[w].then, worker[w].outcome)
    <3>1. first \in Nat
      BY <2>2
    <3> HIDE DEF first
    <3> QED
      BY <1>1, <2>1, <3>1, SetNext
  <2>4. /\ delivery' \in [Turns -> RowState] /\ delivery'[r].said = keeps /\ delivery'[r].status = "pending"
        /\ \A q \in Turns : q # r => delivery'[q] = delivery[q]
    <3>1. delivery \in [Turns -> RowState] /\ keeps \in 0..Kept
      BY <1>3, <1>4, DInvParts, DeliveriesTypes
    <3> QED
      BY <1>5, <2>1, <3>1 DEF RowState
  <2>5. /\ taken' \in [Turns -> SUBSET Lines] /\ taken'[r] = taken[r] \cup first..total
        /\ \A q \in Turns : q # r => taken'[q] = taken[q]
    <3>1. taken \in [Turns -> SUBSET Lines]
      BY DInvParts, DeliveriesTypes
    <3>2. first..total \subseteq Lines
      BY <1>3, <2>2, Bounds DEF Lines
    <3> QED
      BY <2>1, <3>1, <3>2
  <2>6. \A k \in first..total : k \notin taken[r] /\ ~Has(r, <<"line", k>>)
    <3>1. taken[r] \subseteq 1..said /\ first..total \subseteq Lines
      BY <1>1, <1>3, <1>4, <1>5, <2>2, Bounds DEF TInv, TakenIs, Lines
    <3>2. \A k \in first..total : k \notin taken[r]
      BY <1>3, <2>2, <3>1
    <3> QED
      BY <1>1, <3>1, <3>2 DEF TInv, ChatIs
  <2>7. WInv(w)'
    <3>1. LookIs(w)'
      <4>1. delivery'[r].status # "none" /\ \A q \in worker[w].rows : delivery'[q].status # "none"
        BY <1>1, <2>4 DEF WInv, LookIs
      <4> QED
        BY <1>1, <1>2, <2>3, <4>1 DEF Goes, LookIs, At, Current, Sending
    <3>2. ReadIs(w)'
      <4>1. worker[w].then = "claim" => keeps <= delivery'[r].said
        BY <1>4, <2>4
      <4> QED
        BY <1>1, <1>3, <2>3, <2>4, <4>1 DEF Goes, WInv, ReadIs, At, Current, Still, Worded, KeptLines
    <3>3. SayingIs(w)'
      <4>1. \A k \in first..total : k \in taken'[r] /\ ~Has(r, <<"line", k>>)'
        BY <2>5, <2>6 DEF Has
      <4> QED
        BY <1>1, <1>2, <2>2, <2>3, <4>1 DEF Goes, SayingIs, Saying, Sending, Current, Has
    <3>4. SendingIs(w)'
      BY <1>2, <2>3 DEF Goes, SendingIs, Sending
    <3> QED
      BY <3>1, <3>2, <3>3, <3>4 DEF WInv
  <2>8. Held(w)'
    BY <1>2, <2>3 DEF Goes, Held
  <2>9. ASSUME NEW v \in Workers, v # w PROVE Apart(v, w)'
    <3>1. worker'[v] = worker[v] /\ SayingIs(v)
      BY <2>3, <2>9, DInvParts DEF Goes, Alone, WInv
    <3>2. Saying(v) /\ worker[v].row = r =>
            \A k \in worker[v].next..worker[v].total : k \notin first..total
      BY <1>1, <2>6, <3>1 DEF SayingIs, Current
    <3> QED
      BY <1>1, <1>2, <2>3, <3>1, <3>2 DEF Goes, Apart, Saying, Sending, Current
  <2>10. TInv(r)'
    <3>1. TurnIs(r)'
      BY <1>1, <2>4 DEF TInv, TurnIs
    <3>2. RowIs(r)'
      BY <1>1, <1>3, <1>4, <1>5, <2>4 DEF TInv, RowIs, Claimed, HasNone, Has
    <3>3. TakenIs(r)'
      <4>0. TakenIs(r)
        BY <1>1 DEF TInv
      <4>1. taken'[r] \subseteq 1..run[r].lines
        <5>1. taken[r] \subseteq 1..run[r].lines
          BY <4>0 DEF TakenIs
        <5>2. first..total \subseteq 1..run[r].lines
          BY <1>3, <2>2
        <5> HIDE DEF first, total
        <5> QED
          BY <2>5, <5>1, <5>2
      <4>2. keeps < Kept => taken'[r] \subseteq 1..keeps
        <5> SUFFICES ASSUME keeps < Kept PROVE taken'[r] \subseteq 1..keeps
          OBVIOUS
        <5>1. keeps = total
          BY <1>3, <1>4
        <5>2. taken[r] \subseteq 1..said
          BY <1>3, <1>4, <1>5, <4>0 DEF TakenIs
        <5>3. 1..said \subseteq 1..keeps /\ first..total \subseteq 1..keeps
          BY <1>3, <1>4, <1>5, <2>2, <5>1
        <5> HIDE DEF first, total, keeps
        <5> QED
          BY <2>5, <5>2, <5>3
      <4>3. run[r].lines <= Kept => 1..keeps \subseteq taken'[r]
        <5> SUFFICES ASSUME run[r].lines <= Kept PROVE 1..keeps \subseteq taken'[r]
          OBVIOUS
        <5>1. keeps = total /\ first = said + 1
          BY <1>3, <1>4, <2>2
        <5>2. 1..said \subseteq taken[r]
          BY <4>0 DEF TakenIs
        <5>3. 1..keeps \subseteq (1..said) \cup first..total
          BY <1>3, <5>1
        <5> HIDE DEF first, total, keeps
        <5> QED
          BY <2>5, <5>2, <5>3
      <4> QED
        BY <2>4, <4>1, <4>2, <4>3 DEF TakenIs
    <3>4. ChatIs(r)'
      BY <1>1, <2>5 DEF TInv, ChatIs, HasNone, Has, Worded
    <3> QED
      BY <3>1, <3>2, <3>3, <3>4 DEF TInv
  <2>11. RowsGrow
    <3>1. ASSUME NEW q \in Turns PROVE delivery[q].said <= delivery'[q].said
      <4>1. delivery[q] \in RowState
        BY DInvParts, DeliveriesTypes
      <4> QED
        BY <1>5, <2>4, <4>1, RowFields
    <3> QED
      BY <1>5, <2>4, <2>5, <3>1 DEF RowsGrow
  <2>12. \A v \in Workers : v # w => HandsOff(v)
    <3>1. RowsHeld
      BY <1>5, <2>4 DEF RowsHeld
    <3> QED
      BY <2>3, <3>1, HandsOffRows DEF Goes, Alone
  <2>13. AnswerInOrder' /\ chat' \in [Turns -> Seq(Items)] /\ escaped' \in [Workers -> Nat]
    BY DInvParts, DeliveriesTypes, SameChat
  <2> HIDE DEF first, total, keeps, said
  <2> QED
    BY <2>3, <2>4, <2>5, <2>7, <2>8, <2>9, <2>10, <2>11, <2>12, <2>13, RowStep DEF Goes
<1>6. CASE ~(delivery[r].status = "pending" /\ said < keeps)
  <2>1. UNCHANGED <<delivery, taken>> /\ Followed(w)
    BY <1>1, <1>6 DEF Current
  <2>2. worker[w].then = "claim" => delivery'[r].status = "failed" \/ keeps <= delivery'[r].said
    <3>1. CASE delivery[r].status \in Claimed
      BY <1>1, <2>1, <3>1 DEF TInv, RowIs, WInv, ReadIs, Current
    <3>2. CASE delivery[r].status = "pending"
      BY <1>3, <1>4, <1>6, <2>1, <3>2
    <3>3. CASE delivery[r].status = "failed"
      BY <2>1, <3>3
    <3> QED
      BY <1>1, <3>1, <3>2, <3>3, RowFields DEF Claimed
  <2>3. Alone(w) /\ WInv(w)' /\ Held(w)' /\ \A v \in Workers : v # w => Apart(v, w)'
    BY <1>1, <1>2, <2>1, <2>2, FollowedStep
  <2> QED
    BY <2>1, <2>3, OwnStep
<1> QED
  BY <1>5, <1>6

---------------------------------------------------------------------------
(* A message that lands *)

LEMMA Lands ==
    ASSUME DInv, NEW r \in Turns, NEW item \in Items, chat' = [chat EXCEPT ![r] = Append(@, item)], ~Has(r, item)
    PROVE  /\ chat' \in [Turns -> Seq(Items)] /\ \A q \in Turns : q # r => chat'[q] = chat[q]
           /\ \A other : Has(r, other)' <=> Has(r, other) \/ other = item
           /\ \A i, j \in DOMAIN chat'[r] : chat'[r][i] = chat'[r][j] => i = j
<1>1. chat \in [Turns -> Seq(Items)] /\ chat[r] \in Seq(Items)
  BY DInvParts, DeliveriesTypes
<1>2. chat' \in [Turns -> Seq(Items)] /\ \A q \in Turns : q # r => chat'[q] = chat[q]
  BY <1>1
<1>3. /\ DOMAIN chat'[r] = 1..Len(chat[r]) + 1 /\ DOMAIN chat[r] = 1..Len(chat[r]) /\ Len(chat[r]) \in Nat
      /\ chat'[r][Len(chat[r]) + 1] = item /\ \A i \in 1..Len(chat[r]) : chat'[r][i] = chat[r][i]
  BY <1>1
<1>4. ASSUME NEW other PROVE Has(r, other)' <=> Has(r, other) \/ other = item
  BY <1>3 DEF Has
<1>5. \A i, j \in DOMAIN chat[r] : chat[r][i] = chat[r][j] => i = j
  BY DInvParts DEF TInv, ChatIs
<1>6. \A i, j \in DOMAIN chat'[r] : chat'[r][i] = chat'[r][j] => i = j
  BY <1>3, <1>5 DEF Has
<1> QED
  BY <1>2, <1>4, <1>6

\* Only what is in a process's hand lands, and at most one message the switch stops.
LEMMA LandsHeld ==
    ASSUME DInv, NEW w \in Workers, NEW r \in Turns, NEW item, r = worker[w].row,
           worker[w].pc \in {"line_out", "part_out"}, Landing(w, r, item)
    PROVE  /\ escaped' \in [Workers -> Nat] /\ escaped'[w] <= 1
           /\ \A v \in Workers : v # w => escaped'[v] = escaped[v]
<1>1. escaped \in [Workers -> Nat] /\ Held(w)
  BY DInvParts, DeliveriesTypes
<1>2. CASE Stopped(r)
  <2>1. escaped' = [escaped EXCEPT ![w] = @ + 1]
    BY <1>2 DEF Landing
  <2>2. escaped[w] = 0
    BY <1>1, <1>2 DEF Held, Current
  <2> QED
    BY <1>1, <2>1, <2>2
<1>3. CASE ~Stopped(r)
  BY <1>1, <1>3 DEF Landing, Held
<1> QED
  BY <1>2, <1>3

LEMMA LineLands ==
    ASSUME NEW messages \in Seq(Items), InOrder(messages), NEW k
    PROVE  InOrder(Append(messages, <<"line", k>>))
<1> DEFINE longer == Append(messages, <<"line", k>>)
<1>1. /\ DOMAIN longer = 1..Len(messages) + 1 /\ DOMAIN messages = 1..Len(messages) /\ Len(messages) \in Nat
      /\ longer[Len(messages) + 1] = <<"line", k>>
      /\ \A i \in 1..Len(messages) : longer[i] = messages[i]
  OBVIOUS
<1> HIDE DEF longer
<1> SUFFICES ASSUME NEW j \in DOMAIN longer, NEW n \in 1..Parts, longer[j] = <<"part", n>>
             PROVE  /\ \A i \in 1..j - 1, m \in 1..Parts : longer[i] = <<"part", m>> => m < n
                    /\ \A m \in 1..n - 1 : \E i \in 1..j - 1 : longer[i] = <<"part", m>>
  BY DEF InOrder, longer
<1>2. j \in DOMAIN messages /\ messages[j] = <<"part", n>>
  BY <1>1
<1>3. \A i \in 1..j - 1 : i \in 1..Len(messages) /\ longer[i] = messages[i]
  BY <1>1, <1>2
<1>4. /\ \A i \in 1..j - 1, m \in 1..Parts : messages[i] = <<"part", m>> => m < n
      /\ \A m \in 1..n - 1 : \E i \in 1..j - 1 : messages[i] = <<"part", m>>
  BY <1>2 DEF InOrder
<1> QED
  BY <1>3, <1>4

LEMMA PartLands ==
    ASSUME NEW messages \in Seq(Items), InOrder(messages), NEW k \in 1..Parts,
           \A n \in 1..Parts : (\E i \in DOMAIN messages : messages[i] = <<"part", n>>) <=> n < k
    PROVE  InOrder(Append(messages, <<"part", k>>))
<1> DEFINE longer == Append(messages, <<"part", k>>)
<1>1. /\ DOMAIN longer = 1..Len(messages) + 1 /\ DOMAIN messages = 1..Len(messages) /\ Len(messages) \in Nat
      /\ longer[Len(messages) + 1] = <<"part", k>>
      /\ \A i \in 1..Len(messages) : longer[i] = messages[i]
  OBVIOUS
<1> HIDE DEF longer
<1> SUFFICES ASSUME NEW j \in DOMAIN longer, NEW n \in 1..Parts, longer[j] = <<"part", n>>
             PROVE  /\ \A i \in 1..j - 1, m \in 1..Parts : longer[i] = <<"part", m>> => m < n
                    /\ \A m \in 1..n - 1 : \E i \in 1..j - 1 : longer[i] = <<"part", m>>
  BY DEF InOrder, longer
<1>2. \A i \in 1..j - 1 : i \in 1..Len(messages) /\ longer[i] = messages[i]
  BY <1>1
<1>3. CASE j \in DOMAIN messages
  <2>1. messages[j] = <<"part", n>>
    BY <1>1, <1>3
  <2>2. /\ \A i \in 1..j - 1, m \in 1..Parts : messages[i] = <<"part", m>> => m < n
        /\ \A m \in 1..n - 1 : \E i \in 1..j - 1 : messages[i] = <<"part", m>>
    BY <1>3, <2>1 DEF InOrder
  <2> QED
    BY <1>2, <2>2
<1>4. CASE j = Len(messages) + 1
  <2>1. n = k
    BY <1>1, <1>4
  <2>2. \A i \in 1..j - 1, m \in 1..Parts : longer[i] = <<"part", m>> => m < n
    BY <1>1, <1>2, <2>1
  <2>3. ASSUME NEW m \in 1..n - 1 PROVE \E i \in 1..j - 1 : longer[i] = <<"part", m>>
    <3>1. m \in 1..Parts /\ m < k
      BY <2>1, Bounds
    <3>2. PICK i \in DOMAIN messages : messages[i] = <<"part", m>>
      BY <3>1
    <3>3. i \in 1..j - 1 /\ longer[i] = <<"part", m>>
      BY <1>1, <1>4, <3>2
    <3> QED
      BY <3>3
  <2> QED
    BY <2>2, <2>3
<1>5. j \in DOMAIN messages \/ j = Len(messages) + 1
  BY <1>1
<1> QED
  BY <1>3, <1>4, <1>5

\* What lands is in no other process's hand.
LEMMA HandsOffChat ==
    ASSUME DInv, NEW v \in Workers, NEW r \in Turns, NEW item, worker'[v] = worker[v], UNCHANGED delivery,
           \A q \in Turns : q # r => chat'[q] = chat[q],
           \A other : Has(r, other)' <=> Has(r, other) \/ other = item,
           worker[v].row = r /\ Saying(v) => \A k \in worker[v].next..worker[v].total : item # <<"line", k>>,
           worker[v].row = r /\ Sending(v) => \A k \in 1..Parts : item # <<"part", k>>
    PROVE  HandsOff(v)
<1>1. WInv(v)
  BY WorkerFacts
<1>2. CASE worker[v].pc = "idle"
  <2>1. worker[v] = Idle
    BY <1>1, <1>2 DEF WInv, LookIs, At
  <2> QED
    BY <2>1 DEF HandsOff, Saying, Sending, Idle
<1>3. CASE worker[v].pc # "idle"
  <2>1. PICK q \in Turns : q = worker[v].row
    BY <1>3, WorkerFacts
  <2>2. Sending(v) => delivery'[q].status \in {"sending", "unknown"}
    BY <1>1, <2>1 DEF WInv, SendingIs, Current
  <2>3. \A other : Has(q, other)' <=> Has(q, other) \/ (q = r /\ other = item)
    BY DEF Has
  <2>4. Saying(v) => \A k \in worker[v].next..worker[v].total : Has(q, <<"line", k>>)' => Has(q, <<"line", k>>)
    BY <2>1, <2>3
  <2>5. Sending(v) => \A k \in 1..Parts : Has(q, <<"part", k>>)' <=> Has(q, <<"part", k>>)
    BY <2>1, <2>3
  <2>6. worker[v].row = q /\ worker'[v].row = q
    BY <2>1
  <2>7. ASSUME NEW other
        PROVE  (Has(Current(v), other)' <=> Has(q, other)') /\ (Has(Current(v), other) <=> Has(q, other))
    BY <2>6 DEF Has, Current
  <2>8. Saying(v) => \A k \in worker[v].next..worker[v].total :
          Has(Current(v), <<"line", k>>)' => Has(Current(v), <<"line", k>>)
    BY <2>4, <2>7
  <2>9. Sending(v) => \A k \in 1..Parts : Has(Current(v), <<"part", k>>)' <=> Has(Current(v), <<"part", k>>)
    BY <2>5, <2>7
  <2>10. Sending(v) => delivery'[Current(v)].status \in {"sending", "unknown"}
    BY <2>2, <2>6 DEF Current
  <2> QED
    BY <2>8, <2>9, <2>10 DEF HandsOff
<1> QED
  BY <1>2, <1>3

LEMMA SameRowsGrow == ASSUME DInv, UNCHANGED <<delivery, taken>> PROVE RowsGrow
<1>1. ASSUME NEW q \in Turns PROVE delivery[q].said <= delivery'[q].said
  <2>1. delivery[q] \in RowState
    BY DInvParts, DeliveriesTypes
  <2> QED
    BY <2>1, RowFields
<1> QED
  BY <1>1 DEF RowsGrow

LEMMA LineOutStep == ASSUME DInv, NEW w \in Workers, LineOut(w) PROVE DInv'
<1> USE DEF LineOut
<1>1. PICK r \in Turns :
         /\ r = worker[w].row /\ TInv(r) /\ WInv(w) /\ Held(w) /\ worker[w].pc = "line_out"
         /\ worker[w].next \in Nat /\ worker[w].total \in Nat /\ worker[w].total <= run[r].lines
         /\ run[r] \in TurnState
  BY WorkerFacts DEF At
<1>2. Saying(w) /\ NextLine(w)
  BY <1>1 DEF Saying
<1>3. /\ ~Sending(w) /\ worker[w].next \in 1..worker[w].total
      /\ \A k \in worker[w].next..worker[w].total : k \in taken[r] /\ ~Has(r, <<"line", k>>)
  BY <1>1, <1>2 DEF WInv, SayingIs, Current
<1>4. CASE NotLanding
  <2>1. escaped'[w] <= 1 /\ \A k \in worker[w].next + 1..worker[w].total : Has(r, <<"line", k>>)' => Has(r, <<"line", k>>)
    BY <1>1, <1>4 DEF NotLanding, Has, Held
  <2>2. Alone(w) /\ WInv(w)' /\ Held(w)' /\ \A v \in Workers : v # w => Apart(v, w)'
    BY <1>1, <1>2, <2>1, LineEnds
  <2> QED
    BY <1>4, <2>2, OwnStep DEF NotLanding
<1>5. CASE Landing(w, r, Line(w))
  <2> DEFINE n == worker[w].next
             item == <<"line", n>>
  <2>1. item \in Items /\ n \in Lines /\ n \in taken[r] /\ ~Has(r, item)
    <3>1. n \in 1..MaxLines
      BY <1>1, <1>3, TurnFields, Bounds
    <3> QED
      BY <1>1, <1>3, <3>1 DEF Items, Lines
  <2>2. PICK landing \in Items : landing = item
    BY <2>1
  <2>3. chat' = [chat EXCEPT ![r] = Append(@, landing)] /\ ~Has(r, landing)
    BY <1>5, <2>1, <2>2 DEF Landing, Line
  <2>4. /\ chat' \in [Turns -> Seq(Items)] /\ \A q \in Turns : q # r => chat'[q] = chat[q]
        /\ \A other : Has(r, other)' <=> Has(r, other) \/ other = landing
        /\ \A i, j \in DOMAIN chat'[r] : chat'[r][i] = chat'[r][j] => i = j
    BY <2>3, Lands
  <2>5. /\ escaped' \in [Workers -> Nat] /\ escaped'[w] <= 1
        /\ \A v \in Workers : v # w => escaped'[v] = escaped[v]
    BY <1>1, <1>5, LandsHeld
  <2>6. /\ \A k \in 1..Parts : Has(r, <<"part", k>>)' <=> Has(r, <<"part", k>>)
        /\ \A k : Has(r, <<"line", k>>)' <=> Has(r, <<"line", k>>) \/ k = n
    BY <2>2, <2>4
  <2>7. Alone(w) /\ WInv(w)' /\ Held(w)' /\ \A v \in Workers : v # w => Apart(v, w)'
    <3>1. \A k \in n + 1..worker[w].total : Has(r, <<"line", k>>)' => Has(r, <<"line", k>>)
      BY <1>1, <2>6
    <3> QED
      BY <1>1, <1>2, <2>5, <3>1, LineEnds
  <2>8. TInv(r)'
    <3>1. (HasNone(r)' <=> HasNone(r)) /\ (HasAll(r)' <=> HasAll(r))
      BY <2>6 DEF HasNone, HasAll
    <3>2. TurnIs(r)' /\ RowIs(r)' /\ TakenIs(r)'
      BY <1>1, <3>1 DEF TInv, TurnIs, RowIs, TakenIs, Still, KeptLines
    <3>3. ChatIs(r)'
      BY <1>1, <2>1, <2>4, <2>6, <3>1 DEF TInv, ChatIs, Worded
    <3> QED
      BY <3>2, <3>3 DEF TInv
  <2>9. ASSUME NEW v \in Workers, v # w PROVE HandsOff(v)
    <3>1. worker'[v] = worker[v] /\ Apart(v, w)
      BY <2>7, <2>9, DInvParts DEF Alone
    <3>2. worker[v].row = r /\ Saying(v) => \A k \in worker[v].next..worker[v].total : landing # <<"line", k>>
      BY <1>1, <1>2, <1>3, <2>2, <2>9, <3>1 DEF Apart, Current
    <3>3. \A k \in 1..Parts : landing # <<"part", k>>
      BY <2>2
    <3> QED
      BY <2>4, <3>1, <3>2, <3>3, HandsOffChat
  <2>10. RowsGrow
    BY SameRowsGrow
  <2>11. AnswerInOrder'
    <3>1. chat \in [Turns -> Seq(Items)] /\ chat[r] \in Seq(Items) /\ InOrder(chat[r])
      BY DInvParts, DeliveriesTypes DEF AnswerInOrder
    <3>2. chat'[r] = Append(chat[r], item)
      BY <2>2, <2>3, <3>1
    <3>3. InOrder(chat'[r])
      BY <3>1, <3>2, LineLands
    <3> QED
      BY <2>4, <3>3, DInvParts DEF AnswerInOrder
  <2>12. delivery' \in [Turns -> RowState] /\ taken' \in [Turns -> SUBSET Lines]
    BY DInvParts, DeliveriesTypes
  <2> QED
    BY <2>4, <2>5, <2>7, <2>8, <2>9, <2>10, <2>11, <2>12, RowStep
<1> QED
  BY <1>1, <1>4, <1>5 DEF Current

---------------------------------------------------------------------------
(* The answer *)

LEMMA ClaimStep == ASSUME DInv, NEW w \in Workers, Claim(w) PROVE DInv'
<1> USE DEF Claim
<1>1. PICK r \in Turns :
         /\ r = worker[w].row /\ TInv(r) /\ WInv(w) /\ Held(w) /\ worker[w].pc = "part" /\ worker[w].then = "claim"
         /\ worker \in [Workers -> WorkerStates] /\ worker[w] \in WorkerStates
         /\ delivery[r].status # "none" /\ worker[w].rows \subseteq Turns /\ worker[w].answer \in {0, Parts}
  BY WorkerFacts DEF At
<1>2. escaped'[w] <= 1
  BY <1>1 DEF Held
<1>3. CASE delivery[r].status = "pending"
  <2> DEFINE pc == IF worker[w].answer = 0 THEN "settling" ELSE "part"
  <2>1. PICK record : record = [worker[w] EXCEPT !.then = "send", !.pc = pc]
    OBVIOUS
  <2>2. /\ record \in WorkerStates /\ record.pc = pc /\ record.next = worker[w].next /\ record.then = "send"
        /\ record.outcome = worker[w].outcome /\ record.row = r /\ record.rows = worker[w].rows
        /\ record.total = worker[w].total /\ record.answer = worker[w].answer
    BY <1>1, <2>1 DEF WorkerStates
  <2>3. Goes(w, pc, worker[w].next, "send", worker[w].outcome)
    BY <1>1, <1>3, <2>1, <2>2, SetWorker DEF Goes, Alone, Current
  <2>4. /\ delivery' \in [Turns -> RowState] /\ \A q \in Turns : q # r => delivery'[q] = delivery[q]
        /\ delivery'[r].status = "sending" /\ delivery'[r].said = delivery[r].said
    BY <1>1, <1>3, StatusSet DEF Current
  <2>5. HasNone(r) /\ run[r].status # "none"
    BY <1>1, <1>3 DEF TInv, TurnIs, RowIs
  <2>6. /\ Still(r) /\ worker[w].total = run[r].lines /\ (worker[w].answer # 0 => Worded(r))
        /\ (run[r].answer = "own" => worker[w].answer # 0) /\ KeptLines(worker[w].total) <= delivery[r].said
    BY <1>1, <1>3 DEF WInv, ReadIs, At, Current
  <2>7. TInv(r)'
    BY <1>1, <2>4, <2>5, <2>6, StatusRow
  <2>8. LookIs(w)'
    <3>1. \A q \in worker[w].rows : delivery'[q].status # "none"
      BY <1>1, <2>4 DEF WInv, LookIs
    <3> QED
      BY <1>1, <2>3, <2>4, <3>1 DEF Goes, LookIs, At, Current, Sending
  <2>9. ReadIs(w)'
    BY <1>1, <2>3, <2>6 DEF Goes, WInv, ReadIs, At, Current, Still, Worded, KeptLines
  <2>10. SayingIs(w)'
    BY <2>3 DEF Goes, SayingIs, Saying
  <2>11. SendingIs(w)'
    <3>1. HasNone(r)' /\ \A k \in 1..Parts : ~Has(r, <<"part", k>>)'
      BY <2>5 DEF HasNone, Has
    <3>2. worker[w].next = 1 /\ 1 \in 1..Parts
      BY <1>1, Bounds DEF WInv, LookIs, At, Sending
    <3>3. worker'[w].pc = "part" => worker'[w].answer = Parts
      BY <1>1, <2>3 DEF Goes
    <3>4. worker'[w].pc = "settling" => worker'[w].answer = 0
      BY <2>3 DEF Goes
    <3>5. \A k \in 1..Parts : Has(r, <<"part", k>>)' <=> k < 1
      <4>1. \A k \in 1..Parts : ~(k < 1)
        BY Bounds
      <4> QED
        BY <3>1, <4>1
    <3>6. Current(w)' = r /\ worker'[w].next = 1 /\ worker'[w].pc # "part_out"
      BY <1>1, <2>3, <3>2 DEF Goes, Current
    <3> QED
      BY <2>4, <3>1, <3>2, <3>3, <3>4, <3>5, <3>6 DEF SendingIs, At, HasNone, Has
  <2>12. Held(w)'
    BY <1>2, <2>3 DEF Goes, Held
  <2>13. ASSUME NEW v \in Workers, v # w PROVE Apart(v, w)'
    <3>1. worker'[v] = worker[v] /\ SendingIs(v)
      BY <2>3, <2>13, DInvParts DEF Goes, Alone, WInv
    <3>2. ~(Sending(v) /\ worker[v].row = r)
      BY <1>3, <3>1 DEF SendingIs, Current
    <3> QED
      BY <1>1, <2>3, <3>1, <3>2 DEF Goes, Apart, Saying, Sending, Current
  <2>14. RowsGrow /\ RowsHeld
    BY <1>3, <2>4, StatusGrows DEF RowsHeld
  <2>15. \A v \in Workers : v # w => HandsOff(v)
    BY <2>3, <2>14, HandsOffRows DEF Goes, Alone
  <2>16. /\ AnswerInOrder' /\ chat' \in [Turns -> Seq(Items)] /\ taken' \in [Turns -> SUBSET Lines]
         /\ escaped' \in [Workers -> Nat]
    BY DInvParts, DeliveriesTypes, SameChat
  <2>17. WInv(w)' /\ Alone(w)
    BY <2>3, <2>8, <2>9, <2>10, <2>11 DEF WInv, Goes
  <2> QED
    BY <2>4, <2>7, <2>12, <2>13, <2>14, <2>15, <2>16, <2>17, RowStep
<1>4. CASE delivery[r].status # "pending"
  <2>1. UNCHANGED delivery /\ Onward(w)
    BY <1>1, <1>4 DEF Current
  <2>2. Alone(w) /\ WInv(w)' /\ Held(w)' /\ \A v \in Workers : v # w => Apart(v, w)'
    BY <1>2, <2>1, OnwardStep
  <2> QED
    BY <2>1, <2>2, OwnStep
<1> QED
  BY <1>3, <1>4

\* The process that sends the answer goes on to a part, or has an outcome to settle.
LEMMA AnswerGoesOn ==
    ASSUME DInv, NEW w \in Workers, worker[w].pc \in {"part", "part_out"}, Sending(w),
           UNCHANGED <<run, delivery>>, escaped'[w] <= 1, NEW r, r = worker[w].row,
           NEW pc \in {"part", "part_out", "settling"}, NEW next, NEW outcome, Goes(w, pc, next, "send", outcome),
           pc # "settling" => next \in 1..Parts /\ \A k \in 1..Parts : Has(r, <<"part", k>>)' <=> k < next,
           pc = "settling" /\ outcome = "pending" => HasNone(r)',
           pc = "settling" /\ outcome = "sent" => HasAll(r)',
           pc = "part_out" => Held(w)'
    PROVE  Alone(w) /\ WInv(w)' /\ Held(w)' /\ \A v \in Workers : v # w => Apart(v, w)'
<1>1. WInv(w) /\ worker[w].rows \subseteq Turns /\ r \in Turns
  BY WorkerFacts
<1>2. LookIs(w)'
  BY <1>1 DEF Goes, WInv, LookIs, At, Current, Sending
<1>3. ReadIs(w)'
  BY <1>1 DEF Goes, WInv, ReadIs, At, Current, Still, Worded, KeptLines, Sending
<1>4. SayingIs(w)'
  BY DEF Goes, SayingIs, Saying
<1>5. SendingIs(w)'
  <2>1. /\ delivery'[r].status \in {"sending", "unknown"} /\ worker[w].answer = Parts
    BY <1>1 DEF WInv, SendingIs, Current
  <2>2. worker'[w].row = r /\ worker'[w].pc = pc /\ worker'[w].next = next /\ worker'[w].outcome = outcome
        /\ worker'[w].answer = Parts
    BY <2>1 DEF Goes
  <2> QED
    BY <2>1, <2>2 DEF SendingIs, At, HasNone, HasAll, Has, Current
<1>6. Held(w)'
  BY DEF Goes, Held
<1>7. ASSUME NEW v \in Workers, v # w PROVE Apart(v, w)'
  <2>1. Apart(v, w) /\ worker'[v] = worker[v]
    BY <1>7, DInvParts DEF Goes, Alone
  <2> QED
    BY <2>1 DEF Goes, Apart, Saying, Sending, Current
<1> QED
  BY <1>2, <1>3, <1>4, <1>5, <1>6, <1>7 DEF Goes, WInv

LEMMA SendPartStep == ASSUME DInv, NEW w \in Workers, SendPart(w) PROVE DInv'
<1> USE DEF SendPart
<1>1. PICK r \in Turns :
         /\ r = worker[w].row /\ WInv(w) /\ Held(w) /\ worker[w].pc = "part" /\ worker[w].then = "send"
         /\ worker \in [Workers -> WorkerStates]
  BY WorkerFacts DEF At
<1>2. /\ Sending(w) /\ escaped'[w] <= 1 /\ worker[w].next \in 1..Parts
      /\ \A k \in 1..Parts : Has(r, <<"part", k>>) <=> k < worker[w].next
  BY <1>1 DEF WInv, SendingIs, Sending, Current, Held
<1>3. \A k \in 1..Parts : Has(r, <<"part", k>>)' <=> k < worker[w].next
  BY <1>2 DEF Has
<1>4. CASE Checked(w)
  <2>1. Goes(w, "part_out", worker[w].next, "send", worker[w].outcome)
    BY <1>1, <1>4, SetPc
  <2>2. Held(w)'
    BY <1>1, <1>4, <2>1 DEF Goes, Held, Checked, Denied, Stopped, Paused, Current
  <2>3. Alone(w) /\ WInv(w)' /\ Held(w)' /\ \A v \in Workers : v # w => Apart(v, w)'
    BY <1>1, <1>2, <1>3, <2>1, <2>2, AnswerGoesOn
  <2> QED
    BY <2>3, OwnStep
<1>5. CASE ~Checked(w)
  <2>1. PICK outcome \in {"unknown", "failed"} : SettleAs(w, outcome)
    BY <1>5
  <2>2. Goes(w, "settling", worker[w].next, "send", outcome)
    BY <1>1, <2>1, SetOutcome DEF Outcomes
  <2>3. Alone(w) /\ WInv(w)' /\ Held(w)' /\ \A v \in Workers : v # w => Apart(v, w)'
    BY <1>1, <1>2, <2>1, <2>2, AnswerGoesOn
  <2> QED
    BY <2>3, OwnStep
<1> QED
  BY <1>4, <1>5

LEMMA SettleStep == ASSUME DInv, NEW w \in Workers, Settle(w) PROVE DInv'
<1> USE DEF Settle
<1>1. PICK r \in Turns :
         /\ r = worker[w].row /\ TInv(r) /\ WInv(w) /\ Held(w) /\ worker[w].pc = "settling"
         /\ worker[w] \in WorkerStates
  BY WorkerFacts DEF At
<1>2. PICK outcome \in {"pending", "sending", "unknown", "failed", "sent"} : outcome = worker[w].outcome
  BY <1>1, WorkerFields DEF Outcomes
<1>3. Sending(w) /\ escaped'[w] <= 1
  BY <1>1 DEF WInv, LookIs, At, Held
<1>4. /\ delivery[r].status \in {"sending", "unknown"}
      /\ outcome = "pending" => HasNone(r)
      /\ outcome = "sent" => worker[w].answer = 0 \/ HasAll(r)
  BY <1>1, <1>2, <1>3 DEF WInv, SendingIs, Current, At
<1>5. run[r].answer = "own" => worker[w].answer # 0
  BY <1>1, <1>3 DEF WInv, ReadIs, Current, Sending
<1>6. /\ delivery' \in [Turns -> RowState] /\ \A q \in Turns : q # r => delivery'[q] = delivery[q]
      /\ delivery'[r].status = outcome /\ delivery'[r].said = delivery[r].said
  BY <1>1, <1>2, StatusSet DEF Current
<1>7. Still(r) /\ KeptLines(run[r].lines) <= delivery[r].said /\ run[r].status # "none"
  BY <1>1, <1>4 DEF TInv, RowIs, TurnIs, Claimed
<1>8. TInv(r)'
  BY <1>1, <1>4, <1>5, <1>6, <1>7, StatusRow
<1>9. RowsGrow
  BY <1>4, <1>6, StatusGrows
<1>10. Alone(w) /\ WInv(w)' /\ Held(w)' /\ \A v \in Workers : v # w => Apart(v, w)'
  BY <1>3, <1>9, OnwardStep DEF RowsGrow
<1>11. ASSUME NEW v \in Workers, v # w PROVE HandsOff(v)
  <2>1. worker'[v] = worker[v] /\ Apart(v, w) /\ WInv(v) /\ (worker[v].pc # "idle" => worker[v].row \in Turns)
    BY <1>10, <1>11, DInvParts, WorkerFacts DEF Alone
  <2>2. Sending(v) => worker[v].row # r /\ worker[v].pc # "idle"
    BY <1>1, <1>3, <1>11, <2>1 DEF Apart, Current, WInv, LookIs, At, Sending, Idle
  <2>3. Sending(v) => delivery'[worker[v].row].status \in {"sending", "unknown"}
    BY <1>6, <2>1, <2>2 DEF WInv, SendingIs, Current
  <2> QED
    BY <2>1, <2>3 DEF HandsOff, Has, Current
<1>12. /\ AnswerInOrder' /\ chat' \in [Turns -> Seq(Items)] /\ taken' \in [Turns -> SUBSET Lines]
       /\ escaped' \in [Workers -> Nat]
  BY DInvParts, DeliveriesTypes, SameChat
<1> QED
  BY <1>6, <1>8, <1>9, <1>10, <1>11, <1>12, RowStep

\* A part of the answer lands, and the process goes on to the next or has an outcome to settle.
LEMMA PartLandsStep ==
    ASSUME DInv, NEW w \in Workers, At(w, "part_out"), UNCHANGED <<scope, switches, run, delivery, taken>>,
           Landing(w, Current(w), Part(w)), NextPart(w) \/ SettleAs(w, "unknown")
    PROVE  DInv'
<1>1. PICK r \in Turns :
         /\ r = worker[w].row /\ TInv(r) /\ WInv(w) /\ Held(w) /\ worker[w].pc = "part_out"
         /\ worker \in [Workers -> WorkerStates] /\ worker[w].next \in Nat
  BY WorkerFacts DEF At
<1> DEFINE n == worker[w].next
<1>2. /\ Sending(w) /\ worker[w].then = "send" /\ n \in 1..Parts /\ worker[w].answer = Parts
      /\ \A k \in 1..Parts : Has(r, <<"part", k>>) <=> k < n
      /\ delivery[r].status \in {"sending", "unknown"} /\ Worded(r)
  BY <1>1, Bounds DEF WInv, LookIs, ReadIs, SendingIs, Sending, Current, At
<1>3. PICK landing \in Items : landing = <<"part", n>>
  BY <1>2 DEF Items
<1>4. chat' = [chat EXCEPT ![r] = Append(@, landing)] /\ ~Has(r, landing)
  BY <1>1, <1>2, <1>3 DEF Landing, Part, Current
<1>5. /\ chat' \in [Turns -> Seq(Items)] /\ \A q \in Turns : q # r => chat'[q] = chat[q]
      /\ \A other : Has(r, other)' <=> Has(r, other) \/ other = landing
      /\ \A i, j \in DOMAIN chat'[r] : chat'[r][i] = chat'[r][j] => i = j
  BY <1>4, Lands
<1>6. /\ escaped' \in [Workers -> Nat] /\ escaped'[w] <= 1
      /\ \A v \in Workers : v # w => escaped'[v] = escaped[v]
  BY <1>1, LandsHeld DEF Current
<1>7. /\ \A k \in 1..Parts : Has(r, <<"part", k>>)' <=> k < n + 1
      /\ \A k : Has(r, <<"line", k>>)' <=> Has(r, <<"line", k>>)
  <2>1. \A k \in 1..Parts : Has(r, <<"part", k>>)' <=> Has(r, <<"part", k>>) \/ k = n
    BY <1>3, <1>5
  <2>2. \A k : Has(r, <<"line", k>>)' <=> Has(r, <<"line", k>>)
    BY <1>3, <1>5
  <2> QED
    BY <1>1, <1>2, <2>1, <2>2
<1>8. Alone(w) /\ WInv(w)' /\ Held(w)' /\ \A v \in Workers : v # w => Apart(v, w)'
  <2>1. CASE SettleAs(w, "unknown")
    <3>1. Goes(w, "settling", n, "send", "unknown")
      BY <1>1, <1>2, <2>1, SetOutcome DEF Outcomes
    <3> QED
      BY <1>1, <1>2, <1>6, <3>1, AnswerGoesOn
  <2>2. CASE NextPart(w) /\ n = Parts
    <3>1. Goes(w, "settling", n, "send", "sent")
      BY <1>1, <1>2, <2>2, SetOutcome DEF Outcomes, NextPart
    <3>2. HasAll(r)'
      <4>1. \A k \in 1..Parts : k < n + 1
        BY <1>1, <2>2, Bounds
      <4> QED
        BY <1>7, <4>1 DEF HasAll
    <3> QED
      BY <1>1, <1>2, <1>6, <3>1, <3>2, AnswerGoesOn
  <2>3. CASE NextPart(w) /\ n # Parts
    <3>1. Set(w, [worker[w] EXCEPT !.pc = "part", !.next = n + 1]) /\ n + 1 \in Nat
      BY <1>1, <1>2, <2>3 DEF NextPart
    <3>2. Goes(w, "part", n + 1, "send", worker[w].outcome)
      BY <1>1, <1>2, <3>1, SetNext
    <3>3. n + 1 \in 1..Parts
      BY <1>1, <1>2, <2>3, Bounds
    <3> QED
      BY <1>1, <1>2, <1>6, <1>7, <3>2, <3>3, AnswerGoesOn
  <2> QED
    BY <2>1, <2>2, <2>3
<1>9. TInv(r)'
  <2>1. HasAll(r) => HasAll(r)'
    BY <1>5 DEF HasAll
  <2>2. TurnIs(r)' /\ TakenIs(r)'
    BY <1>1 DEF TInv, TurnIs, TakenIs
  <2>3. RowIs(r)'
    BY <1>1, <1>2, <2>1 DEF TInv, RowIs, Still, KeptLines, Claimed
  <2>4. ChatIs(r)'
    BY <1>1, <1>2, <1>5, <1>7 DEF TInv, ChatIs, Worded
  <2> QED
    BY <2>2, <2>3, <2>4 DEF TInv
<1>10. ASSUME NEW v \in Workers, v # w PROVE HandsOff(v)
  <2>1. worker'[v] = worker[v] /\ Apart(v, w)
    BY <1>8, <1>10, DInvParts DEF Alone
  <2>2. ~(worker[v].row = r /\ Sending(v))
    BY <1>1, <1>2, <1>10, <2>1 DEF Apart, Current
  <2>3. \A k : landing # <<"line", k>>
    BY <1>3
  <2> QED
    BY <1>5, <2>1, <2>2, <2>3, HandsOffChat
<1>11. AnswerInOrder'
  <2>1. chat \in [Turns -> Seq(Items)] /\ chat[r] \in Seq(Items) /\ InOrder(chat[r])
    BY DInvParts, DeliveriesTypes DEF AnswerInOrder
  <2>2. chat'[r] = Append(chat[r], <<"part", n>>)
    BY <1>3, <1>4, <2>1
  <2>3. InOrder(chat'[r])
    BY <1>2, <2>1, <2>2, PartLands DEF Has
  <2> QED
    BY <1>5, <2>3, DInvParts DEF AnswerInOrder
<1>12. delivery' \in [Turns -> RowState] /\ taken' \in [Turns -> SUBSET Lines] /\ RowsGrow
  BY DInvParts, DeliveriesTypes, SameRowsGrow
<1> QED
  BY <1>5, <1>6, <1>8, <1>9, <1>10, <1>11, <1>12, RowStep

LEMMA PartRefusedStep == ASSUME DInv, NEW w \in Workers, PartRefused(w) PROVE DInv'
<1> USE DEF PartRefused
<1>1. PICK outcome \in {"failed", "pending", "unknown"} :
         /\ NotLanding \/ (outcome = "unknown" /\ Landing(w, Current(w), Part(w)))
         /\ SettleAs(w, AfterRefusal(w, outcome))
  OBVIOUS
<1>2. CASE outcome = "unknown" /\ Landing(w, Current(w), Part(w))
  BY <1>1, <1>2, PartLandsStep DEF AfterRefusal
<1>3. CASE NotLanding
  <2>1. PICK r \in Turns :
           /\ r = worker[w].row /\ WInv(w) /\ Held(w) /\ worker[w].pc = "part_out"
           /\ worker \in [Workers -> WorkerStates] /\ worker[w].next \in Nat
    BY WorkerFacts DEF At
  <2>2. /\ Sending(w) /\ worker[w].then = "send" /\ escaped'[w] <= 1 /\ worker[w].next \in 1..Parts
        /\ \A k \in 1..Parts : Has(r, <<"part", k>>) <=> k < worker[w].next
    BY <1>3, <2>1 DEF WInv, LookIs, SendingIs, Sending, Current, At, Held, NotLanding
  <2>3. PICK final \in {"failed", "pending", "unknown"} :
           SettleAs(w, final) /\ (final = "pending" => ~(worker[w].next > 1))
    BY <1>1 DEF AfterRefusal, Landed
  <2>4. Goes(w, "settling", worker[w].next, "send", final)
    BY <2>1, <2>2, <2>3, SetOutcome DEF Outcomes
  <2>5. final = "pending" => HasNone(r)'
    BY <1>3, <2>1, <2>2, <2>3, Bounds DEF HasNone, Has, NotLanding
  <2>6. Alone(w) /\ WInv(w)' /\ Held(w)' /\ \A v \in Workers : v # w => Apart(v, w)'
    BY <2>1, <2>2, <2>4, <2>5, AnswerGoesOn
  <2> QED
    BY <1>3, <2>6, OwnStep DEF NotLanding
<1> QED
  BY <1>1, <1>2, <1>3

---------------------------------------------------------------------------
(* Every step, and what the turns' rows and the chat may be relied on for *)

LEMMA DeliveriesStep == DInv /\ [DeliveriesNext]_deliveriesVars => DInv'
<1> SUFFICES ASSUME DInv, [DeliveriesNext]_deliveriesVars PROVE DInv'
  OBVIOUS
<1>1. CASE UNCHANGED deliveriesVars
  <2>1. /\ UNCHANGED <<scope, switches, run, delivery, worker, chat, taken, escaped>>
        /\ escaped' \in [Workers -> Nat] /\ run' \in [Turns -> TurnState] /\ switches' \in 0..scope.switches
    BY <1>1, DInvParts, DeliveriesTypes DEF deliveriesVars
  <2>2. \A r \in Turns : TurnGoesOn(run[r], run'[r])
    <3>1. ASSUME NEW r \in Turns PROVE TurnGoesOn(run[r], run'[r])
      <4>1. run'[r] = run[r] /\ run[r] \in TurnState /\ TurnIs(r)
        BY <2>1, DInvParts DEF TInv
      <4> QED
        BY <4>1, TurnFields DEF TurnGoesOn, TurnIs
    <3> QED
      BY <3>1
  <2>3. \A w \in Workers : Held(w)'
    BY <2>1, HeldOn DEF Stopped, Paused
  <2> QED
    BY <2>1, <2>2, <2>3, TurnsGoOn
<1>2. ASSUME NEW r \in Turns,
             Start(r) \/ Attach(r) \/ Say(r) \/ EndTurn(r) \/ Wait(r) \/ Answered(r) \/ Cancel(r)
      PROVE  DInv'
  BY <1>2, StartStep, AttachStep, SpeakStep
<1>3. CASE Switch
  BY <1>3, SwitchStep
<1>4. ASSUME NEW w \in Workers, Dispatch(w) PROVE DInv'
  <2>1. CASE PartSent(w)
    BY <2>1, PartLandsStep DEF PartSent
  <2> QED
    BY <1>4, <2>1, TickStep, DenyStep, ReadStep, PassByStep, TakeStep, SendLineStep, LineOutStep, ClaimStep,
       SendPartStep, PartRefusedStep, SettleStep DEF Dispatch
<1>5. ASSUME NEW w \in Workers, Crash(w) \/ \E r \in Turns : Recover(w, r) PROVE DInv'
  BY <1>5, CrashStep, RecoverStep
<1> QED
  BY <1>1, <1>2, <1>3, <1>4, <1>5 DEF DeliveriesNext

LEMMA DeliveriesInvariance == DeliveriesSpec => []DInv
BY InitHolds, DeliveriesStep, PTL DEF DeliveriesSpec

LEMMA RangeOfChat ==
    ASSUME NEW r \in Turns, NEW item
    PROVE  item \in Range(chat[r]) <=> Has(r, item)
BY DEF Range, Has

LEMMA DInvTells == DInv => DeliveriesSafety
<1> SUFFICES ASSUME DInv PROVE DeliveriesSafety
  OBVIOUS
<1>1. DeliveriesTypeOK /\ AnswerInOrder
  BY DInvParts
<1>2. ASSUME NEW r \in Turns, run[r].answer = "last_line" => run[r].lines <= Kept,
             delivery[r].status = "sent", \A i \in taken[r] : <<"line", i>> \in Range(chat[r])
      PROVE  Owed(r) \subseteq Range(chat[r])
  <2>1. TInv(r) /\ run[r] \in TurnState /\ delivery[r] \in RowState
    BY DInvParts, DeliveriesTypes
  <2>2. CASE run[r].answer = "own"
    <3>1. HasAll(r)
      BY <1>2, <2>1, <2>2 DEF TInv, RowIs
    <3> QED
      BY <2>2, <3>1, RangeOfChat DEF Owed, HasAll
  <2>3. CASE run[r].answer = "last_line"
    <3>1. run[r].lines \in Nat /\ run[r].lines > 0 /\ run[r].lines <= Kept /\ delivery[r].said \in Nat
      BY <1>2, <2>1, <2>3, TurnFields, RowFields DEF TInv, TurnIs
    <3>2. run[r].lines <= delivery[r].said /\ 1..delivery[r].said \subseteq taken[r]
      BY <1>2, <2>1, <3>1, Bounds DEF TInv, RowIs, TakenIs, Claimed, KeptLines
    <3>3. run[r].lines \in taken[r]
      BY <3>1, <3>2
    <3> QED
      BY <1>2, <2>3, <3>3 DEF Owed
  <2>4. CASE run[r].answer \notin {"own", "last_line"}
    BY <2>4 DEF Owed
  <2> QED
    BY <2>2, <2>3, <2>4
<1>3. KeptIsTold
  BY <1>2 DEF KeptIsTold, IsTold
<1>4. PauseHolds
  BY DInvParts DEF PauseHolds, Held
<1> QED
  BY <1>1, <1>3, <1>4 DEF DeliveriesSafety

\* An answer reaches the chat in order and without a gap; a delivery that reads "sent" has its
\* answer there, unless a line of it was lost or the turn said more than it keeps; and past a
\* switch of the channel each process lands at most the one message it had handed over
\* (saySoFar, claimDelivery and deliver of channels/service.ts, in any number of processes).
THEOREM DeliveriesSafe == DeliveriesSpec => []DeliveriesSafety
BY DeliveriesInvariance, DInvTells, PTL

---------------------------------------------------------------------------
(* Every message is told at most once, and once it is there to be told *)

LEMMA MessageIs ==
    ASSUME NEW m \in Messages
    PROVE  /\ m[1] \in Turns /\ m[2] \in Items /\ m = <<m[1], m[2]>>
           /\ \/ m[2][1] = "line" /\ m[2][2] \in Lines
              \/ m[2][1] = "part" /\ m[2][2] \in 1..Parts
BY DEF Messages, Items

LEMMA NotTold == ASSUME NEW m \in Messages, Places(m) = {} PROVE TimesTold[m] = <<>>
<1>1. Cardinality(Places(m)) = 0
  BY FS_EmptySet
<1> QED
  BY <1>1 DEF TimesTold

LEMMA TellingInit == DeliveriesInit => Telling!Init
<1> SUFFICES ASSUME DeliveriesInit PROVE Telling!Init
  OBVIOUS
<1>1. ASSUME NEW m \in Messages PROVE m \notin Produced
  <2>1. run[m[1]].lines = 0 /\ run[m[1]].answer = "none"
    BY MessageIs DEF DeliveriesInit, Unborn
  <2>2. CASE m[2][1] = "line" /\ m[2][2] \in Lines
    BY <2>1, <2>2, Bounds DEF Produced, Lines
  <2>3. CASE m[2][1] = "part"
    BY <2>1, <2>3 DEF Produced
  <2> QED
    BY <2>2, <2>3, MessageIs
<1>2. Produced = {}
  BY <1>1 DEF Produced
<1>3. ASSUME NEW m \in Messages PROVE TimesTold[m] = <<>>
  <2>1. Places(m) = {}
    BY MessageIs DEF DeliveriesInit, Places
  <2> QED
    BY <2>1, NotTold
<1>4. TimesTold = [m \in Messages |-> <<>>]
  BY <1>3 DEF TimesTold
<1> QED
  BY <1>2, <1>4 DEF Telling!Init

\* A turn that goes on may have more to tell, and tells nothing by that.
LEMMA SilentStep ==
    ASSUME DInv, UNCHANGED chat, run' \in [Turns -> TurnState],
           \A r \in Turns : run[r].lines <= run'[r].lines /\ (Worded(r) => Worded(r)')
    PROVE  Telling!Finish
<1>1. TimesTold' = TimesTold
  BY DEF TimesTold, Places
<1>2. ASSUME NEW m \in Produced PROVE m \in Produced'
  <2>1. m \in Messages /\ run \in [Turns -> TurnState]
    BY DInvParts, DeliveriesTypes DEF Produced
  <2>2. m[1] \in Turns /\ run[m[1]] \in TurnState /\ run'[m[1]] \in TurnState
    BY <2>1, MessageIs
  <2>3. CASE m[2][1] = "line" /\ m[2][2] \in Lines
    <3>1. run[m[1]].lines \in Nat /\ run'[m[1]].lines \in Nat /\ run[m[1]].lines <= run'[m[1]].lines
      BY <2>2, TurnFields
    <3>2. m[2][2] <= run[m[1]].lines /\ m[2][2] \in Nat
      BY <2>3, Bounds DEF Produced, Lines
    <3>3. m[2][2] <= run'[m[1]].lines
      BY <3>1, <3>2
    <3> QED
      BY <2>1, <2>3, <3>3 DEF Produced
  <2>4. CASE m[2][1] = "part"
    BY <2>1, <2>2, <2>4 DEF Produced, Worded
  <2> QED
    BY <2>1, <2>3, <2>4, MessageIs
<1>3. Produced' \subseteq Messages
  BY DEF Produced
<1> QED
  BY <1>1, <1>2, <1>3 DEF Telling!Finish

LEMMA SpeakingSilent ==
    ASSUME DInv, DInv', UNCHANGED chat, \A r \in Turns : TurnGoesOn(run[r], run'[r])
    PROVE  Telling!Next
<1>1. run' \in [Turns -> TurnState]
  BY DInvParts DEF DInv, DeliveriesTypeOK, TurnState
<1>2. ASSUME NEW r \in Turns PROVE run[r].lines <= run'[r].lines /\ (Worded(r) => Worded(r)')
  BY DEF TurnGoesOn, Worded
<1>3. Telling!Finish
  BY <1>1, <1>2, SilentStep
<1> QED
  BY <1>3 DEF Telling!Next

LEMMA StillSilent == ASSUME DInv, UNCHANGED <<chat, run>> PROVE Telling!Next
<1>1. run \in [Turns -> TurnState]
  BY DInvParts, DeliveriesTypes
<1>2. ASSUME NEW r \in Turns PROVE run[r].lines <= run'[r].lines /\ (Worded(r) => Worded(r)')
  <2>1. run[r].lines \in Nat
    BY <1>1, TurnFields
  <2> QED
    BY <2>1 DEF Worded
<1>3. Telling!Finish
  BY <1>1, <1>2, SilentStep
<1> QED
  BY <1>3 DEF Telling!Next

LEMMA TellingLands ==
    ASSUME DInv, UNCHANGED run, NEW r \in Turns, NEW item \in Items, <<r, item>> \in Produced, ~Has(r, item),
           chat' = [chat EXCEPT ![r] = Append(@, item)]
    PROVE  Telling!Next
<1> DEFINE landing == <<r, item>>
<1>1. chat \in [Turns -> Seq(Items)] /\ chat[r] \in Seq(Items) /\ landing \in Messages
  BY DInvParts, DeliveriesTypes DEF Messages
<1>2. /\ DOMAIN chat'[r] = 1..Len(chat[r]) + 1 /\ DOMAIN chat[r] = 1..Len(chat[r]) /\ Len(chat[r]) \in Nat
      /\ chat'[r][Len(chat[r]) + 1] = item /\ \A i \in 1..Len(chat[r]) : chat'[r][i] = chat[r][i]
      /\ \A q \in Turns : q # r => chat'[q] = chat[q]
  BY <1>1
<1>3. ASSUME NEW m \in Messages, m # landing PROVE TimesTold'[m] = TimesTold[m]
  <2>1. Places(m)' = Places(m)
    <3>1. CASE m[1] # r
      BY <1>2, <3>1, MessageIs DEF Places
    <3>2. CASE m[1] = r
      <4>1. m[2] # item
        BY <1>3, <3>2, MessageIs
      <4> QED
        BY <1>2, <3>2, <4>1 DEF Places
    <3> QED
      BY <3>1, <3>2
  <2> QED
    BY <2>1 DEF TimesTold
<1>4. TimesTold[landing] = <<>>
  <2>1. Places(landing) = {}
    BY DEF Places, Has
  <2> QED
    BY <1>1, <2>1, NotTold
<1>5. TimesTold'[landing] = <<"told">>
  <2>1. Places(landing)' = {Len(chat[r]) + 1}
    BY <1>2 DEF Places, Has
  <2>2. Cardinality(Places(landing))' = 1
    BY <2>1, FS_Singleton
  <2>3. TimesTold'[landing] = [i \in 1..Cardinality(Places(landing))' |-> "told"]
    BY <1>1 DEF TimesTold
  <2>4. [i \in 1..1 |-> "told"] = <<"told">>
    OBVIOUS
  <2> QED
    BY <2>2, <2>3, <2>4
<1>6. TimesTold' = [TimesTold EXCEPT ![landing] = <<"told">>]
  BY <1>1, <1>3, <1>5 DEF TimesTold
<1>7. Produced' = Produced
  BY DEF Produced
<1>8. Telling!Hand(landing)
  BY <1>4, <1>6, <1>7 DEF Telling!Hand
<1> QED
  BY <1>1, <1>8 DEF Telling!Next

LEMMA LineTells ==
    ASSUME DInv, NEW w \in Workers, LineOut(w)
    PROVE  Telling!Next
<1> USE DEF LineOut
<1>1. PICK r \in Turns :
         /\ r = worker[w].row /\ TInv(r) /\ WInv(w) /\ worker[w].pc = "line_out" /\ worker[w].next \in Nat
         /\ worker[w].total \in Nat /\ worker[w].total <= run[r].lines /\ run[r] \in TurnState
  BY WorkerFacts DEF At
<1>2. CASE NotLanding
  BY <1>2, StillSilent DEF NotLanding
<1>3. CASE Landing(w, r, Line(w))
  <2> DEFINE n == worker[w].next
  <2>1. n \in 1..worker[w].total /\ n \in taken[r] /\ ~Has(r, <<"line", n>>)
    BY <1>1 DEF WInv, SayingIs, Saying, Current
  <2>2. n \in Lines /\ n <= run[r].lines
    BY <1>1, <2>1, TurnFields, Bounds DEF Lines
  <2>3. PICK item \in Items : item = <<"line", n>>
    BY <2>2 DEF Items
  <2>4. <<r, item>> \in Produced
    BY <2>2, <2>3 DEF Produced, Messages
  <2> QED
    BY <1>3, <2>1, <2>3, <2>4, TellingLands DEF Landing, Line
<1> QED
  BY <1>1, <1>2, <1>3 DEF Current

LEMMA PartTells ==
    ASSUME DInv, NEW w \in Workers, PartSent(w) \/ PartRefused(w)
    PROVE  Telling!Next
<1>1. PICK r \in Turns :
         /\ r = worker[w].row /\ WInv(w) /\ worker[w].pc = "part_out" /\ worker[w].next \in Nat
  BY WorkerFacts DEF PartSent, PartRefused, At
<1>2. CASE NotLanding
  BY <1>2, StillSilent DEF NotLanding, PartSent, PartRefused
<1>3. CASE Landing(w, r, Part(w))
  <2> DEFINE n == worker[w].next
  <2>1. /\ n \in 1..Parts /\ Worded(r) /\ \A k \in 1..Parts : Has(r, <<"part", k>>) <=> k < n
    BY <1>1, Bounds DEF WInv, LookIs, ReadIs, SendingIs, Sending, Current, At
  <2>2. ~Has(r, <<"part", n>>)
    BY <1>1, <2>1
  <2>3. PICK item \in Items : item = <<"part", n>>
    BY <2>1 DEF Items
  <2>4. <<r, item>> \in Produced
    BY <2>1, <2>3 DEF Produced, Messages, Worded
  <2>5. chat' = [chat EXCEPT ![r] = Append(@, item)] /\ UNCHANGED run /\ ~Has(r, item)
    BY <1>3, <2>2, <2>3 DEF Landing, Part, PartSent, PartRefused
  <2> QED
    BY <2>4, <2>5, TellingLands
<1> QED
  BY <1>1, <1>2, <1>3 DEF Current, PartSent, PartRefused

LEMMA TellingStep == DInv /\ [DeliveriesNext]_deliveriesVars => [Telling!Next]_<<Produced, TimesTold>>
<1> SUFFICES ASSUME DInv, [DeliveriesNext]_deliveriesVars PROVE Telling!Next
  OBVIOUS
<1>1. CASE UNCHANGED deliveriesVars
  BY <1>1, StillSilent DEF deliveriesVars
<1>2. ASSUME NEW r \in Turns, Start(r) \/ Say(r) \/ EndTurn(r) \/ Wait(r) \/ Answered(r) \/ Cancel(r)
      PROVE  Telling!Next
  <2>1. UNCHANGED chat
    BY <1>2 DEF Start, Say, EndTurn, Wait, Answered, Cancel
  <2>2. DInv' /\ \A q \in Turns : TurnGoesOn(run[q], run'[q])
    BY <1>2, StartStep, SpeakStep
  <2> QED
    BY <2>1, <2>2, SpeakingSilent
<1>3. CASE Switch
  BY <1>3, SwitchStep, SpeakingSilent DEF Switch
<1>4. ASSUME NEW r \in Turns, Attach(r) PROVE Telling!Next
  BY <1>4, StillSilent DEF Attach
<1>5. ASSUME NEW w \in Workers, Dispatch(w) PROVE Telling!Next
  <2>1. CASE LineOut(w)
    BY <2>1, LineTells
  <2>2. CASE PartSent(w) \/ PartRefused(w)
    BY <2>2, PartTells
  <2>3. CASE ~(LineOut(w) \/ PartSent(w) \/ PartRefused(w))
    <3>1. UNCHANGED <<chat, run>>
      BY <1>5, <2>3 DEF Dispatch, Tick, Deny, Follow, Prepare, ReadTurn, PassBy, Take, SendLine, Claim, SendPart, Settle
    <3> QED
      BY <3>1, StillSilent
  <2> QED
    BY <2>1, <2>2, <2>3
<1>6. ASSUME NEW w \in Workers, Crash(w) \/ \E r \in Turns : Recover(w, r) PROVE Telling!Next
  BY <1>6, StillSilent DEF Crash, Recover
<1> QED
  BY <1>1, <1>2, <1>3, <1>4, <1>5, <1>6 DEF DeliveriesNext

\* However many processes race, die and recover each other's deliveries, each message of a turn, a
\* line or a part of its answer, is told to the chat at most once, and only once the turn has it
\* (the count raised before the lines leave, the claim, and what is never replayed: saySoFar,
\* claimDelivery, deliver and recoverUncertainDeliveries of channels/service.ts).
THEOREM EachToldOnce == DeliveriesSpec => ToldOnce
<1>1. DInv /\ [DeliveriesNext]_deliveriesVars => [Telling!Next]_<<Produced, TimesTold>>
  BY TellingStep
<1> QED
  BY <1>1, TellingInit, DeliveriesInvariance, PTL DEF DeliveriesSpec, ToldOnce, Telling!Spec
=============================================================================
