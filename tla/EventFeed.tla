----------------------------- MODULE EventFeed -----------------------------
(***************************************************************************)
(* The durable feed of one profile and one client that follows it.          *)
(* Transactions insert events under the profile's lock (storage/postgres.ts,*)
(* core/events.ts); a commit notifies the process that serves the stream,   *)
(* whose listener may drop; the stream subscribes, reads a page past its    *)
(* cursor, writes it to the client's socket and waits (http/events.ts).     *)
(* The client resumes from the last id it received.                         *)
(***************************************************************************)
EXTENDS Integers, Sequences, FiniteSets, SequencesExt

CONSTANTS
    Writers,  \* transactions under way at once
    Page,     \* EVENTS_PAGE
    Room,     \* events the socket takes before it asks the stream to let it drain
    MaxId     \* bound: ids the sequence draws

Nobody == "nobody"

ASSUME FeedAssumption ==
    /\ Nobody \notin Writers
    /\ Page \in Nat \ {0} /\ Room \in Nat \ {0} /\ MaxId \in Nat

VARIABLES
    drawn,      \* the last id of the table's sequence
    holder,     \* who holds the profile's advisory lock
    inserted,   \* the ids each open transaction inserted
    log,        \* the committed events, as committed
    notices,    \* notifications on their way to the process
    listening,  \* whether its listener is connected
    stream,     \* the stream's place, cursor and page; history: whether its last write left some
    socket,     \* what was written and the client has not received
    client      \* the id it would resume from, and what it heard

database == <<drawn, holder, inserted, log>>
vars == <<drawn, holder, inserted, log, notices, listening, stream, socket, client>>

Ids == 1..MaxId
NoCursor == -1
Cursors == {NoCursor} \cup 0..MaxId
Closed == [pc |-> "closed", cursor |-> 0, page |-> <<>>, waiter |-> FALSE, draining |-> FALSE,
           cut |-> FALSE]

Init == /\ drawn = 0 /\ holder = Nobody /\ inserted = [w \in Writers |-> <<>>]
        /\ log = <<>> /\ notices = 0 /\ listening = TRUE
        /\ stream = Closed /\ socket = <<>>
        /\ client = [cursor |-> NoCursor, since |-> NoCursor, heard |-> <<>>]

TypeOK ==
    /\ drawn \in 0..MaxId /\ holder \in Writers \cup {Nobody}
    /\ inserted \in [Writers -> Seq(Ids)] /\ log \in Seq(Ids)
    /\ notices \in Nat /\ listening \in BOOLEAN
    /\ stream \in [pc : {"closed", "pump", "reading", "writing", "waiting"}, cursor : 0..MaxId,
                   page : Seq(Ids), waiter : BOOLEAN, draining : BOOLEAN, cut : BOOLEAN]
    /\ socket \in Seq([id : 0..MaxId, opens : BOOLEAN])
    /\ client \in [cursor : Cursors, since : Cursors, heard : Seq(Ids)]

---------------------------------------------------------------------------
(* transaction and recordEvent *)

\* A plausible bug: a transaction that does not wait for the profile's lock.
LockNothing(w) ==
    /\ holder' = w
    /\ UNCHANGED <<drawn, inserted, log, notices, listening, stream, socket, client>>
Lock(w) ==
    /\ holder = Nobody
    /\ holder' = w
    /\ UNCHANGED <<drawn, inserted, log, notices, listening, stream, socket, client>>

\* An insert draws the next id, which nobody sees before the commit.
Insert(w) ==
    /\ holder = w \/ inserted[w] # <<>>
    /\ drawn < MaxId
    /\ drawn' = drawn + 1
    /\ inserted' = [inserted EXCEPT ![w] = Append(@, drawn + 1)]
    /\ UNCHANGED <<holder, log, notices, listening, stream, socket, client>>

End(w) == /\ inserted' = [inserted EXCEPT ![w] = <<>>]
          /\ holder' = IF holder = w THEN Nobody ELSE holder

\* A commit shows its events at once and notifies, if anybody listens.
Commit(w) ==
    /\ inserted[w] # <<>> /\ End(w)
    /\ log' = log \o inserted[w]
    /\ notices' = IF listening THEN notices + 1 ELSE notices
    /\ UNCHANGED <<drawn, listening, stream, socket, client>>

Rollback(w) ==
    /\ holder = w /\ End(w)
    /\ UNCHANGED <<drawn, log, notices, listening, stream, socket, client>>

\* An event of another profile draws from the same sequence.
Elsewhere ==
    /\ drawn < MaxId /\ drawn' = drawn + 1
    /\ UNCHANGED <<holder, inserted, log, notices, listening, stream, socket, client>>

---------------------------------------------------------------------------
(* listen: the process's listener, and who waits for it. *)

Wake == stream' = [stream EXCEPT !.waiter = FALSE]

Notice ==
    /\ notices > 0 /\ notices' = notices - 1
    /\ Wake
    /\ UNCHANGED <<database, listening, socket, client>>

DropListener ==
    /\ listening /\ listening' = FALSE /\ notices' = 0
    /\ UNCHANGED <<database, stream, socket, client>>

\* A plausible bug: a listener that comes back wakes nobody.
ListenQuietly ==
    /\ ~listening /\ listening' = TRUE
    /\ UNCHANGED <<database, notices, stream, socket, client>>
Listen ==
    /\ ~listening /\ listening' = TRUE
    /\ Wake
    /\ UNCHANGED <<database, notices, socket, client>>

---------------------------------------------------------------------------
(* The stream. *)

Latest == IF log = <<>> THEN 0 ELSE CHOOSE id \in ToSet(log) : \A e \in ToSet(log) : e <= id
\* What a read may return: the events after the cursor by their ids, as many as a page takes.
After(cursor) == {e \in ToSet(log) : e > cursor}
Pages(cursor) ==
    {page \in UNION {[1..n -> After(cursor)] : n \in 0..Page} :
        /\ \A i, j \in DOMAIN page : i < j => page[i] < page[j]
        /\ \A e \in After(cursor) :
             \/ \E i \in DOMAIN page : page[i] = e
             \/ Len(page) = Page /\ \A i \in DOMAIN page : page[i] < e}

\* A client comes in from now, and is told where that is, or from the last id it has.
Open ==
    /\ stream.pc = "closed"
    /\ LET cursor == IF client.cursor = NoCursor THEN Latest ELSE client.cursor IN
       /\ socket' = IF client.cursor = NoCursor THEN <<[id |-> cursor, opens |-> TRUE]>> ELSE <<>>
       /\ stream' = [Closed EXCEPT !.pc = "pump", !.cursor = cursor,
                       !.draining = Len(socket') >= Room]
    /\ UNCHANGED <<database, notices, listening, client>>

\* The connection ends: what the client did not receive is gone.
Close ==
    /\ stream.pc # "closed"
    /\ stream' = Closed /\ socket' = <<>>
    /\ UNCHANGED <<database, notices, listening, client>>

\* Once the socket drained, the stream subscribes, and only then reads.
Subscribe ==
    /\ stream.pc = "pump" /\ ~stream.draining
    /\ stream' = [stream EXCEPT !.pc = "reading", !.waiter = TRUE]
    /\ UNCHANGED <<database, notices, listening, socket, client>>

Read ==
    /\ stream.pc = "reading"
    /\ \E page \in Pages(stream.cursor) :
         stream' = [stream EXCEPT !.pc = "writing", !.page = page]
    /\ UNCHANGED <<database, notices, listening, socket, client>>

\* A write past a full socket still goes through, and says so.
Written == LET left == IF Len(socket) < Room THEN Room - Len(socket) ELSE 1
           IN  SubSeq(stream.page, 1, IF Len(stream.page) < left THEN Len(stream.page) ELSE left)
Behind == Len(stream.page) = Page
Told(cursor, waiter) ==
    /\ stream.pc = "writing"
    /\ socket' = socket \o [i \in DOMAIN Written |-> [id |-> Written[i], opens |-> FALSE]]
    /\ stream' = [pc |-> IF Behind THEN "pump" ELSE "waiting", page |-> <<>>,
                  cursor |-> IF Written = <<>> THEN stream.cursor ELSE cursor,
                  waiter |-> ~Behind /\ waiter, draining |-> Len(socket') >= Room,
                  cut |-> Len(Written) < Len(stream.page)]
    /\ UNCHANGED <<database, notices, listening, client>>

\* A plausible bug: the cursor is kept as the next id to send, which the read then starts after.
WriteNextId == Told(Last(Written) + 1, stream.waiter)
\* A plausible bug: it subscribes only now, after the read.
WriteThenSubscribe == Told(Last(Written), TRUE)
\* The page is written until the socket is full.  After a full page the stream reads on at once;
\* else it waits, also with what it did not write.
Write == Told(Last(Written), stream.waiter)

Woken ==
    /\ stream.pc = "waiting" /\ ~stream.waiter
    /\ stream' = [stream EXCEPT !.pc = "pump"]
    /\ UNCHANGED <<database, notices, listening, socket, client>>

Heartbeat ==
    /\ stream.pc = "waiting"
    /\ stream' = [stream EXCEPT !.pc = "pump", !.waiter = FALSE]
    /\ UNCHANGED <<database, notices, listening, socket, client>>

\* The client takes the next message, unless it is no later than what it has, and resumes from it.
Receive ==
    /\ socket # <<>>
    /\ socket' = Tail(socket)
    /\ stream' = [stream EXCEPT !.draining = @ /\ socket' # <<>>]
    /\ LET message == Head(socket) IN
       client' = IF message.id <= client.cursor /\ ~message.opens THEN client ELSE
                 [cursor |-> message.id,
                  since |-> IF client.since = NoCursor THEN message.id ELSE client.since,
                  heard |-> IF message.opens THEN client.heard
                                             ELSE Append(client.heard, message.id)]
    /\ UNCHANGED <<database, notices, listening>>

Next ==
    \/ \E w \in Writers : Lock(w) \/ Insert(w) \/ Commit(w) \/ Rollback(w)
    \/ Elsewhere \/ Notice \/ DropListener \/ Listen
    \/ Open \/ Close \/ Subscribe \/ Read \/ Write \/ Woken \/ Heartbeat \/ Receive

Spec == Init /\ [][Next]_vars

\* A client comes back, its connection holds long enough for each step, and the heartbeat beats.
LiveSpec ==
    /\ Spec /\ WF_vars(Open) /\ SF_vars(Subscribe) /\ SF_vars(Read) /\ SF_vars(Write)
    /\ SF_vars(Heartbeat) /\ SF_vars(Receive)

---------------------------------------------------------------------------
\* A client hears of every event since it came in, once, in order, across lost connections.
Promise == INSTANCE Feed WITH
    from <- IF client.since = NoCursor THEN -1
            ELSE Cardinality({i \in DOMAIN log : log[i] <= client.since}),
    heard <- client.heard
KeepsPromise == Promise!Spec

\* "Subscribe before reading": a stream that waits, with nothing on its way to wake it, has told
\* every committed event, unless the socket was full before the end of the page it read.
NothingWaits ==
    stream.pc = "waiting" /\ stream.waiter /\ ~stream.cut /\ listening /\ notices = 0
        => \A i \in DOMAIN log : log[i] <= stream.cursor

\* A stream that is at rest has nothing left to say.
EventFeedSafety == TypeOK /\ NothingWaits

\* An event of a client that came in before it is heard in the end.
EventsArrive == \A id \in Ids :
    (client.since # NoCursor /\ id > client.since /\ id \in ToSet(log))
        ~> id \in ToSet(client.heard)
============================================================================
