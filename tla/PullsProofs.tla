---------------------------- MODULE PullsProofs ----------------------------
(***************************************************************************)
(* Theorems about Pulls for any workers, comments, commits and scopes: its  *)
(* type, that comments and the end of the watch are told once, that commits *)
(* are told but for those listed under a head of the agent's own, and that  *)
(* nothing is told past the end.                                            *)
(*                                                                          *)
(* The argument is about the one look that is current: it goes by the row   *)
(* as it stands, so what it tells is exactly what it adds to the row.       *)
(***************************************************************************)
EXTENDS Pulls, FiniteSetTheorems, TLAPS

Mine == {n \in 1..Len(pull.by) : pull.by[n] = "agent"}

\* The branch starts with the agent's commit.
Branch == Len(pull.by) \in 1..MaxCommits
\* What is taken for the agent's own push is one.
OwnPushes == pushing \subseteq Mine /\ row.own \subseteq Mine
               /\ \A w \in Workers : looks[w].own \subseteq Mine
\* A look never finds an older head than the row had, and the list it read, or was told it still
\* has, goes up to the head it moved to.
Ahead(look) ==
    /\ look.before.head <= Len(pull.by)
    /\ look.pc \in {"lists", "commits", "save"} =>
         /\ look.found.started /\ look.found.head \in 1..Len(pull.by)
         /\ look.before.head <= look.found.head
    /\ look.pc \in {"lists", "commits"} => look.found.listed = look.before.listed
    /\ look.pc = "commits" => HeadMoved(look)
    /\ look.pc = "save" =>
         /\ \/ look.found.listed = look.before.listed
            \/ HeadMoved(look) /\ look.commits = 1..look.found.listed
         /\ ~look.ended /\ HeadMoved(look) => look.found.head <= look.found.listed
LooksAhead == \A w \in Workers : Ahead(looks[w])
\* The current look goes by the row as it is, and there is one at most.
Current == \A w \in Workers : looks[w].current =>
    looks[w].pc # "idle" /\ looks[w].before = row.state /\ row.status = "watching"
OneCurrent == \A v, w \in Workers : looks[v].current /\ looks[w].current => v = w
\* The row before its first look, and after.
Watched == /\ row.state.started => row.state.head \in 1..Len(pull.by)
           /\ ~row.state.started => row.state.head = 0 /\ row.state.comments = {}
           /\ row.status = "absent" => ~row.state.started
           /\ baseline.comments \subseteq row.state.comments

Accounted(sha) == Times(<<"commit", sha>>) > 0 \/ sha \in quiet
\* What was listed is accounted for: an unchanged list holds nothing to tell.
ListedTold == /\ ~row.state.started => row.state.listed = 0
              /\ \A sha \in Commits : baseline.head < sha /\ sha <= row.state.listed => Accounted(sha)

WInv == /\ TypeOK
        /\ Branch /\ OwnPushes /\ LooksAhead
        /\ Current /\ OneCurrent /\ Watched
        /\ CommentsToldOnce /\ EndToldOnce /\ CommitsTold /\ ListedTold

---------------------------------------------------------------------------
(* Telling. *)

LEMMA ChangesAre ==
    /\ \A c \in Comments : <<"comment", c>> \in Changes
    /\ \A n \in Commits : <<"commit", n>> \in Changes
    /\ <<"merged", 0>> \in Changes /\ <<"lost", 0>> \in Changes /\ <<"conflict", 0>> \in Changes
    /\ <<"check-failed", 0>> \in Changes /\ <<"checks-passed", 0>> \in Changes
BY DEF Changes

LEMMA TimesType ==
    ASSUME told \in Seq(SUBSET Changes), NEW c
    PROVE  Times(c) \in Nat /\ IsFiniteSet({i \in DOMAIN told : c \in told[i]})
<1>1. DOMAIN told = 1..Len(told) /\ Len(told) \in Nat
  OBVIOUS
<1>2. IsFiniteSet(DOMAIN told)
  BY <1>1, FS_Interval
<1>3. IsFiniteSet({i \in DOMAIN told : c \in told[i]})
  BY <1>2, FS_Subset
<1> QED
  BY <1>3, FS_CardinalityType DEF Times

\* A note counts once for each change it holds.
LEMMA Telling ==
    ASSUME told \in Seq(SUBSET Changes), NEW S \in SUBSET Changes, Tell(S)
    PROVE  /\ told' \in Seq(SUBSET Changes)
           /\ \A c \in Changes : Times(c)' = IF c \in S THEN Times(c) + 1 ELSE Times(c)
<1>1. CASE S = {}
  BY <1>1 DEF Tell, Times
<1>2. CASE S # {}
  <2>1. told' = Append(told, S) /\ told' \in Seq(SUBSET Changes)
    BY <1>2 DEF Tell
  <2>2. ASSUME NEW c \in Changes
        PROVE  Times(c)' = IF c \in S THEN Times(c) + 1 ELSE Times(c)
    <3> DEFINE n == Len(told) + 1
               Before == {i \in DOMAIN told : c \in told[i]}
               After == {i \in DOMAIN told' : c \in told'[i]}
    <3>1. /\ DOMAIN told = 1..Len(told) /\ Len(told) \in Nat /\ DOMAIN told' = 1..n
          /\ told'[n] = S /\ \A i \in DOMAIN told : told'[i] = told[i]
      BY <2>1
    <3>2. n \notin Before /\ IsFiniteSet(Before) /\ Cardinality(Before) \in Nat
      <4>1. IsFiniteSet(Before) /\ Cardinality(Before) \in Nat
        BY TimesType DEF Times
      <4>2. n \notin DOMAIN told
        BY <3>1
      <4> QED
        BY <4>1, <4>2
    <3>3. After = IF c \in S THEN Before \cup {n} ELSE Before
      BY <3>1
    <3>4. Cardinality(Before \cup {n}) = Cardinality(Before) + 1
      BY <3>2, FS_AddElement
    <3>5. Times(c) = Cardinality(Before) /\ Times(c)' = Cardinality(After)
      BY DEF Times
    <3> HIDE DEF Before, After
    <3> QED
      BY <3>3, <3>4, <3>5
  <2> QED
    BY <2>1, <2>2
<1> QED
  BY <1>1, <1>2

LEMMA SameTold == ASSUME told' = told PROVE \A c : Times(c)' = Times(c)
BY DEF Times

LEMMA CompareType == ASSUME NEW look \in Looks PROVE Compare(look) \in SUBSET Changes
<1>1. NewComments(look) \in SUBSET Changes
  BY ChangesAre DEF NewComments, Looks, State
<1>2. NewCommits(look) \in SUBSET Changes
  BY ChangesAre DEF NewCommits, Past, Looks
<1>3. Conflicts(look) \in SUBSET Changes /\ Endings(look) \in SUBSET Changes
  BY ChangesAre DEF Conflicts, Endings
<1>4. CheckChanges(look) \in SUBSET Changes
  <2> DEFINE said == [failed |-> "check-failed", passed |-> "checks-passed"]
  <2>1. \A x \in DOMAIN said : <<said[x], 0>> \in Changes
    BY ChangesAre
  <2> QED
    BY <2>1 DEF CheckChanges
<1> QED
  BY <1>1, <1>2, <1>3, <1>4 DEF Compare

\* What a look tells: comments it found new, and its end.
LEMMA CompareTells ==
    ASSUME NEW look \in Looks
    PROVE  /\ \A c \in Comments : <<"comment", c>> \in Compare(look) <=>
                look.before.started /\ c \in look.found.comments \ look.before.comments
           /\ <<"merged", 0>> \in Compare(look) <=> look.ended
           /\ <<"lost", 0>> \notin Compare(look)
           /\ \A n \in Commits : /\ look.before.started /\ HeadMoved(look)
                                 /\ look.found.head \notin look.own
                                 /\ n \in look.commits /\ n > look.before.head
                => <<"commit", n>> \in Compare(look)
<1> DEFINE said == [failed |-> "check-failed", passed |-> "checks-passed"]
<1>1. /\ \A x \in CheckChanges(look) : x[1] \in {"check-failed", "checks-passed"}
      /\ \A x \in Conflicts(look) : x[1] = "conflict"
      /\ \A x \in NewCommits(look) : x[1] = "commit"
      /\ \A x \in NewComments(look) : x[1] = "comment"
      /\ \A x \in Endings(look) : x[1] = "merged"
  <2>1. \A x \in DOMAIN said : said[x] \in {"check-failed", "checks-passed"}
    OBVIOUS
  <2>2. \A x \in CheckChanges(look) : x[1] \in {"check-failed", "checks-passed"}
    BY <2>1 DEF CheckChanges
  <2> QED
    BY <2>2 DEF Conflicts, NewCommits, NewComments, Endings
<1>2. \A c \in Comments : <<"comment", c>> \in NewComments(look) <=>
                          c \in look.found.comments \ look.before.comments
  BY DEF NewComments
<1>3. ASSUME NEW c \in Comments
      PROVE  <<"comment", c>> \in Compare(look) <=>
                look.before.started /\ c \in look.found.comments \ look.before.comments
  <2>1. <<"comment", c>>[1] = "comment"
    OBVIOUS
  <2> QED
    BY <1>1, <1>2, <2>1 DEF Compare
<1>4. <<"merged", 0>> \in Compare(look) <=> look.ended
  <2>1. <<"merged", 0>>[1] = "merged" /\ (<<"merged", 0>> \in Endings(look) <=> look.ended)
    BY DEF Endings
  <2> QED
    BY <1>1, <2>1 DEF Compare
<1>5. <<"lost", 0>> \notin Compare(look)
  <2>1. <<"lost", 0>>[1] = "lost"
    OBVIOUS
  <2> QED
    BY <1>1, <2>1 DEF Compare
<1>6. ASSUME NEW n \in Commits, look.before.started, HeadMoved(look),
             look.found.head \notin look.own, n \in look.commits, n > look.before.head
      PROVE  <<"commit", n>> \in Compare(look)
  <2>1. <<"commit", n>> \in NewCommits(look)
    BY <1>6 DEF NewCommits, Past
  <2> QED
    BY <1>6, <2>1 DEF Compare
<1> QED
  BY <1>3, <1>4, <1>5, <1>6

---------------------------------------------------------------------------
(* The kinds of step. *)

Grows == /\ Len(pull.by) <= Len(pull'.by) /\ Len(pull'.by) \in 1..MaxCommits
         /\ \A n \in 1..Len(pull.by) : pull'.by[n] = pull.by[n]

\* The row keeps what was seen of the pull request.
SameSight == row'.state = row.state /\ row'.own = row.own
OtherLooks(w) == \A v \in Workers : v # w => looks'[v] = looks[v]
Dropped(w) == looks'[w] = NoLook /\ OtherLooks(w)

Outside == /\ Grows /\ pushing' \subseteq pushing \cup Mine'
           /\ UNCHANGED <<row, looks, told, baseline, quiet>>

Tending == /\ UNCHANGED <<pull, looks, told, baseline, quiet>>
           /\ pushing' \subseteq pushing
           /\ row'.state = row.state /\ row'.own \subseteq row.own \cup pushing
           /\ \/ row'.status = row.status
              \/ row.status = "absent" /\ row'.status \in {"watching", "unreachable"}

Claiming(w) ==
    /\ UNCHANGED <<pull, pushing, told, baseline, quiet>>
    /\ SameSight /\ row.status = "watching" /\ row'.status = "watching"
    /\ looks'[w].pc = "pull" /\ looks'[w].before = row.state /\ looks'[w].own = row.own
    /\ \A v \in Workers : v # w =>
          /\ ~looks'[v].current /\ looks'[v].pc = looks[v].pc
          /\ looks'[v].before = looks[v].before /\ looks'[v].own = looks[v].own
          /\ looks'[v].found = looks[v].found /\ looks'[v].ended = looks[v].ended
          /\ looks'[v].commits = looks[v].commits

Reading(w) ==
    /\ UNCHANGED <<pull, row, pushing, told, baseline, quiet>> /\ OtherLooks(w)
    /\ looks[w].pc # "idle" /\ looks'[w].pc # "idle"
    /\ looks'[w].current = looks[w].current /\ looks'[w].before = looks[w].before
    /\ looks'[w].own = looks[w].own
    /\ Ahead(looks[w]) => Ahead(looks'[w])

Dropping(w) ==
    /\ UNCHANGED <<pull, pushing, told, baseline, quiet>> /\ Dropped(w)
    /\ SameSight /\ row'.status = row.status

Saving(w) ==
    LET look == looks[w] IN
    /\ UNCHANGED <<pull, pushing>> /\ Dropped(w)
    /\ look.pc = "save" /\ look.current
    /\ row'.own = row.own /\ row'.state.started = look.found.started
    /\ row'.state.head = look.found.head /\ row'.state.listed = look.found.listed
    /\ row'.state.comments = look.before.comments \cup look.found.comments
    /\ row'.status = IF look.ended THEN "ended" ELSE row.status
    /\ baseline' = IF look.before.started THEN baseline
                   ELSE [head |-> look.found.head, comments |-> look.found.comments]
    /\ quiet' = IF HeadMoved(look) /\ pull.by[look.found.head] = "agent"
                THEN quiet \cup Past(look) ELSE quiet
    /\ Tell(Compare(look))

GivingUp(w) ==
    /\ UNCHANGED <<pull, pushing, baseline, quiet>> /\ Dropped(w)
    /\ looks[w].current /\ SameSight /\ row'.status = "unreachable"
    /\ Tell(IF looks[w].before.started THEN {<<"lost", 0>>} ELSE {})

Kinds == \/ Outside \/ Tending
         \/ \E w \in Workers : Claiming(w) \/ Reading(w) \/ Dropping(w) \/ Saving(w) \/ GivingUp(w)

---------------------------------------------------------------------------
(* Each kind keeps the invariant. *)

NoLookIs == /\ NoLook.pc = "idle" /\ ~NoLook.current /\ NoLook.own = {}
            /\ NoLook.before.head = 0 /\ NoLook.found.head = 0

LEMMA NoLookFacts == NoLookIs
BY DEF NoLookIs, NoLook, NotStarted

LEMMA OutsideKeeps == ASSUME WInv, TypeOK', Outside PROVE WInv'
<1> USE DEF WInv
<1>1. Branch'
  BY DEF Outside, Grows, Branch
<1>2. Mine \subseteq Mine'
  BY DEF Outside, Grows, Mine, Branch
<1>3. OwnPushes'
  BY <1>2 DEF Outside, OwnPushes
<1>4. Len(pull.by) \in Nat /\ Len(pull'.by) \in Nat /\ Len(pull.by) <= Len(pull'.by)
  BY DEF Outside, Grows, Branch
<1>5. LooksAhead'
  <2>1. ASSUME NEW w \in Workers PROVE Ahead(looks[w])'
    <3>1. Ahead(looks[w]) /\ looks[w].before.head \in Nat
      BY DEF LooksAhead, TypeOK, Looks, State
    <3> QED
      BY <1>4, <3>1 DEF Ahead, HeadMoved, Outside
  <2> QED
    BY <2>1 DEF LooksAhead
<1>6. Current' /\ OneCurrent'
  BY DEF Outside, Current, OneCurrent
<1>7. Watched'
  BY <1>4 DEF Outside, Watched
<1>8. CommentsToldOnce' /\ EndToldOnce'
  BY SameTold DEF Outside, CommentsToldOnce, EndToldOnce
<1>9. CommitsTold' /\ ListedTold'
  BY SameTold DEF Outside, CommitsTold, ListedTold, Accounted
<1> QED
  BY <1>1, <1>3, <1>5, <1>6, <1>7, <1>8, <1>9

LEMMA TendingKeeps == ASSUME WInv, TypeOK', Tending PROVE WInv'
<1> USE DEF WInv
<1>1. Branch' /\ OwnPushes'
  BY DEF Tending, Branch, OwnPushes, Mine
<1>2. LooksAhead'
  BY DEF Tending, LooksAhead, Ahead, HeadMoved
<1>3. Current' /\ OneCurrent'
  BY DEF Tending, Current, OneCurrent
<1>4. Watched'
  BY DEF Tending, Watched
<1>5. CommentsToldOnce'
  BY SameTold DEF Tending, CommentsToldOnce
<1>6. EndToldOnce'
  BY SameTold DEF Tending, EndToldOnce, Watched
<1>7. CommitsTold' /\ ListedTold'
  <2>1. ListedTold'
    BY SameTold DEF Tending, ListedTold, Accounted
  <2>2. CASE row'.status = row.status
    <3>1. row.state = row'.state /\ quiet' = quiet /\ baseline' = baseline /\ told' = told
      BY DEF Tending
    <3> QED
      BY <2>1, <2>2, <3>1, SameTold DEF CommitsTold
  <2>3. CASE row.status = "absent"
    <3>1. row'.state.head = 0
      BY <2>3 DEF Tending, Watched
    <3>2. baseline'.head \in Nat
      BY DEF TypeOK
    <3> QED
      BY <2>1, <3>1, <3>2, PullsAssumption DEF CommitsTold, Commits
  <2> QED
    BY <2>1, <2>2, <2>3 DEF Tending
<1> QED
  BY <1>1, <1>2, <1>3, <1>4, <1>5, <1>6, <1>7

LEMMA ClaimingKeeps == ASSUME WInv, TypeOK', NEW w \in Workers, Claiming(w) PROVE WInv'
<1> USE DEF WInv
<1>1. Branch' /\ OwnPushes'
  BY DEF Claiming, SameSight, Branch, OwnPushes, Mine
<1>2. LooksAhead'
  <2>1. ASSUME NEW v \in Workers, v # w PROVE Ahead(looks[v])'
    BY <2>1 DEF Claiming, LooksAhead, Ahead, HeadMoved
  <2>2. Ahead(looks[w])'
    <3>1. row.state.head <= Len(pull.by)
      BY DEF Watched, Branch
    <3> QED
      BY <3>1 DEF Claiming, Ahead
  <2> QED
    BY <2>1, <2>2 DEF LooksAhead
<1>3. Current' /\ OneCurrent'
  BY DEF Claiming, SameSight, Current, OneCurrent
<1>4. Watched'
  BY DEF Claiming, SameSight, Watched
<1>5. CommentsToldOnce' /\ EndToldOnce'
  BY SameTold DEF Claiming, SameSight, CommentsToldOnce, EndToldOnce
<1>6. CommitsTold' /\ ListedTold'
  BY SameTold DEF Claiming, SameSight, CommitsTold, ListedTold, Accounted
<1> QED
  BY <1>1, <1>2, <1>3, <1>4, <1>5, <1>6

LEMMA ReadingKeeps == ASSUME WInv, TypeOK', NEW w \in Workers, Reading(w) PROVE WInv'
<1> USE DEF WInv
<1>1. Branch' /\ OwnPushes'
  BY DEF Reading, OtherLooks, Branch, OwnPushes, Mine
<1>2. LooksAhead'
  <2>1. ASSUME NEW v \in Workers PROVE Ahead(looks[v])'
    <3>1. Ahead(looks'[v])
      BY DEF Reading, OtherLooks, LooksAhead
    <3> QED
      BY <3>1 DEF Reading, Ahead, HeadMoved
  <2> QED
    BY <2>1 DEF LooksAhead
<1>3. Current' /\ OneCurrent'
  BY DEF Reading, OtherLooks, Current, OneCurrent
<1>4. Watched'
  BY DEF Reading, Watched
<1>5. CommentsToldOnce' /\ EndToldOnce' /\ CommitsTold' /\ ListedTold'
  BY SameTold DEF Reading, CommentsToldOnce, EndToldOnce, CommitsTold, ListedTold, Accounted
<1> QED
  BY <1>1, <1>2, <1>3, <1>4, <1>5

\* A look that is over leaves the rest of the looks as they were.
LEMMA DroppedLooks ==
    ASSUME WInv, NEW w \in Workers, Dropped(w), pull' = pull, pushing' = pushing,
           row'.own = row.own
    PROVE  Branch' /\ OwnPushes' /\ LooksAhead' /\ OneCurrent'
<1> USE DEF WInv
<1>1. Branch' /\ OwnPushes'
  BY NoLookFacts DEF NoLookIs, Dropped, OtherLooks, Branch, OwnPushes, Mine
<1>2. LooksAhead'
  <2>1. ASSUME NEW v \in Workers, v # w PROVE Ahead(looks[v])'
    BY <2>1 DEF Dropped, OtherLooks, LooksAhead, Ahead, HeadMoved
  <2>2. Ahead(looks[w])'
    BY NoLookFacts DEF NoLookIs, Dropped, Ahead, Branch
  <2> QED
    BY <2>1, <2>2 DEF LooksAhead
<1>3. OneCurrent'
  BY NoLookFacts DEF NoLookIs, Dropped, OtherLooks, OneCurrent
<1> QED
  BY <1>1, <1>2, <1>3

LEMMA DroppingKeeps == ASSUME WInv, TypeOK', NEW w \in Workers, Dropping(w) PROVE WInv'
<1>1. Branch' /\ OwnPushes' /\ LooksAhead' /\ OneCurrent'
  BY DroppedLooks DEF Dropping, SameSight
<1> USE DEF WInv
<1>2. Current'
  BY NoLookFacts DEF NoLookIs, Dropping, Dropped, OtherLooks, SameSight, Current
<1>3. Watched'
  BY DEF Dropping, SameSight, Watched
<1>4. CommentsToldOnce' /\ EndToldOnce'
  BY SameTold DEF Dropping, SameSight, CommentsToldOnce, EndToldOnce
<1>5. CommitsTold' /\ ListedTold'
  BY SameTold DEF Dropping, SameSight, CommitsTold, ListedTold, Accounted
<1> QED
  BY <1>1, <1>2, <1>3, <1>4, <1>5

\* With the current look gone, none is current.
LEMMA NoneCurrent ==
    ASSUME WInv, NEW w \in Workers, Dropped(w), looks[w].current PROVE Current'
BY NoLookFacts DEF NoLookIs, WInv, Dropped, OtherLooks, OneCurrent, Current

LEMMA GivingUpKeeps == ASSUME WInv, TypeOK', NEW w \in Workers, GivingUp(w) PROVE WInv'
<1>1. Branch' /\ OwnPushes' /\ LooksAhead' /\ OneCurrent' /\ Current'
  BY DroppedLooks, NoneCurrent DEF GivingUp, SameSight
<1> USE DEF WInv
<1>2. Watched'
  BY DEF GivingUp, SameSight, Watched, Current
<1> DEFINE S == IF looks[w].before.started THEN {<<"lost", 0>>} ELSE {}
<1>3. /\ S \in SUBSET Changes
      /\ <<"lost", 0>> \in S <=> row.state.started
      /\ \A c : c \in S => c = <<"lost", 0>>
  BY ChangesAre DEF GivingUp, Current
<1>4. \A c \in Changes : Times(c)' = IF c \in S THEN Times(c) + 1 ELSE Times(c)
  BY <1>3, Telling DEF GivingUp, TypeOK
<1> HIDE DEF S
<1>5. CommentsToldOnce'
  <2>1. \A c \in Comments : Times(<<"comment", c>>)' = Times(<<"comment", c>>)
    BY <1>3, <1>4, ChangesAre
  <2> QED
    BY <2>1 DEF CommentsToldOnce, GivingUp, SameSight
<1>6. EndToldOnce'
  <2>1. row.status = "watching"
    BY DEF GivingUp, Current
  <2>2. Times(<<"merged", 0>>) = 0 /\ Times(<<"lost", 0>>) = 0
    BY <2>1 DEF EndToldOnce
  <2>3. Times(<<"merged", 0>>)' = 0
    BY <1>3, <1>4, <2>2, ChangesAre
  <2>4. Times(<<"lost", 0>>)' = IF row.state.started THEN 1 ELSE 0
    BY <1>3, <1>4, <2>2, ChangesAre
  <2> QED
    BY <2>3, <2>4 DEF EndToldOnce, GivingUp, SameSight
<1>7. CommitsTold' /\ ListedTold'
  <2>1. \A sha \in Commits : Accounted(sha)' <=> Accounted(sha)
    <3>1. \A sha \in Commits : Times(<<"commit", sha>>)' = Times(<<"commit", sha>>)
      BY <1>3, <1>4, ChangesAre
    <3> QED
      BY <3>1 DEF Accounted, GivingUp
  <2> QED
    BY <2>1 DEF CommitsTold, ListedTold, GivingUp, SameSight
<1> QED
  BY <1>1, <1>2, <1>5, <1>6, <1>7

LEMMA SavingKeeps == ASSUME WInv, TypeOK', NEW w \in Workers, Saving(w) PROVE WInv'
<1> DEFINE look == looks[w]
<1>1. Branch' /\ OwnPushes' /\ LooksAhead' /\ OneCurrent' /\ Current'
  BY DroppedLooks, NoneCurrent DEF Saving
<1>2. /\ look \in Looks /\ look.before = row.state /\ row.status = "watching"
      /\ look.before.head \in Nat /\ look.found.head \in Nat /\ baseline.head \in Nat
      /\ Len(pull.by) \in Nat
  <2>1. look \in Looks /\ baseline.head \in Nat /\ Len(pull.by) \in Nat
    BY DEF WInv, TypeOK, Branch
  <2>2. look.before = row.state /\ row.status = "watching"
    BY DEF WInv, Saving, Current
  <2>3. look.before \in State /\ look.found \in State
    BY <2>1 DEF Looks
  <2>4. look.before.head \in Nat /\ look.found.head \in Nat
    BY <2>3 DEF State
  <2> QED
    BY <2>1, <2>2, <2>4
<1>3. /\ look.found.started /\ look.found.head \in 1..Len(pull.by)
      /\ look.before.head <= look.found.head
      /\ \/ look.found.listed = look.before.listed
         \/ HeadMoved(look) /\ look.commits = 1..look.found.listed
      /\ ~look.ended /\ HeadMoved(look) => look.found.head <= look.found.listed
  BY DEF WInv, LooksAhead, Ahead, Saving
<1>4. /\ Compare(look) \in SUBSET Changes
      /\ \A c \in Changes : Times(c)' = IF c \in Compare(look) THEN Times(c) + 1 ELSE Times(c)
  BY <1>2, CompareType, Telling DEF WInv, TypeOK, Saving
<1>5. \A c : Times(c) \in Nat
  BY TimesType DEF WInv, TypeOK
<1>6. Watched'
  <2>1. CASE look.before.started
    BY <1>2, <1>3, <2>1 DEF Saving, WInv, Watched
  <2>2. CASE ~look.before.started
    BY <1>2, <1>3, <2>2 DEF Saving, WInv, Watched
  <2> QED
    BY <2>1, <2>2
<1>7. CommentsToldOnce'
  <2>1. SUFFICES ASSUME NEW c \in Comments
                 PROVE  Times(<<"comment", c>>)' =
                          IF c \in row'.state.comments \ baseline'.comments THEN 1 ELSE 0
    BY DEF CommentsToldOnce
  <2>2. /\ Times(<<"comment", c>>) =
             IF c \in look.before.comments \ baseline.comments THEN 1 ELSE 0
        /\ <<"comment", c>> \in Changes
    BY <1>2, ChangesAre DEF WInv, CommentsToldOnce
  <2>3. <<"comment", c>> \in Compare(look) <=>
           look.before.started /\ c \in look.found.comments \ look.before.comments
    BY <1>2, CompareTells
  <2>4. row'.state.comments = look.before.comments \cup look.found.comments
    BY DEF Saving
  <2>5. CASE look.before.started
    <3>1. baseline' = baseline /\ baseline.comments \subseteq look.before.comments
      BY <1>2, <2>5 DEF Saving, WInv, Watched
    <3>2. CASE c \in look.found.comments \ look.before.comments
      <4>1. Times(<<"comment", c>>)' = Times(<<"comment", c>>) + 1
        BY <1>4, <2>2, <2>3, <2>5, <3>2
      <4> QED
        BY <2>2, <2>4, <3>1, <3>2, <4>1
    <3>3. CASE c \notin look.found.comments \ look.before.comments
      <4>1. Times(<<"comment", c>>)' = Times(<<"comment", c>>)
        BY <1>4, <2>2, <2>3, <3>3
      <4> QED
        BY <2>2, <2>4, <3>1, <3>3, <4>1
    <3> QED
      BY <3>2, <3>3
  <2>6. CASE ~look.before.started
    <3>1. look.before.comments = {} /\ baseline'.comments = look.found.comments
      BY <1>2, <2>6 DEF Saving, WInv, Watched
    <3>2. Times(<<"comment", c>>)' = Times(<<"comment", c>>)
      BY <1>4, <2>2, <2>3, <2>6
    <3> QED
      BY <2>2, <2>4, <3>1, <3>2
  <2> QED
    BY <2>5, <2>6
<1>8. EndToldOnce'
  <2>1. Times(<<"merged", 0>>) = 0 /\ Times(<<"lost", 0>>) = 0
    BY <1>2 DEF WInv, EndToldOnce
  <2>2. /\ <<"merged", 0>> \in Compare(look) <=> look.ended
        /\ <<"lost", 0>> \notin Compare(look)
    BY <1>2, CompareTells
  <2>3. Times(<<"lost", 0>>)' = 0
    BY <1>4, <2>1, <2>2, ChangesAre
  <2>4. Times(<<"merged", 0>>)' = IF look.ended THEN 1 ELSE 0
    BY <1>4, <2>1, <2>2, ChangesAre
  <2>5. row'.status = IF look.ended THEN "ended" ELSE "watching"
    BY <1>2 DEF Saving
  <2> QED
    BY <2>3, <2>4, <2>5 DEF EndToldOnce
<1>9. ASSUME NEW sha \in Commits, Accounted(sha) PROVE Accounted(sha)'
  <2>1. CASE Times(<<"commit", sha>>) > 0
    <3>1. <<"commit", sha>> \in Changes
      BY ChangesAre
    <3> QED
      BY <1>4, <1>5, <2>1, <3>1 DEF Accounted
  <2>2. CASE sha \in quiet
    BY <2>2 DEF Saving, Accounted
  <2> QED
    BY <1>9, <2>1, <2>2 DEF Accounted
<1>10. ASSUME NEW sha \in Commits, look.before.started, HeadMoved(look), sha \in look.commits,
              sha > look.before.head
       PROVE  Accounted(sha)'
  <2>1. sha \in Past(look)
    BY <1>10 DEF Past
  <2>2. CASE pull.by[look.found.head] = "agent"
    BY <1>10, <2>1, <2>2 DEF Saving, Accounted
  <2>3. CASE pull.by[look.found.head] # "agent"
    <3>1. look.found.head \notin look.own
      BY <2>3 DEF WInv, OwnPushes, Mine
    <3>2. <<"commit", sha>> \in Compare(look) /\ <<"commit", sha>> \in Changes
      BY <1>2, <1>10, <3>1, CompareTells, ChangesAre
    <3> QED
      BY <1>4, <1>5, <3>2 DEF Accounted
  <2> QED
    BY <2>2, <2>3
<1>11. ListedTold'
  <2>1. row'.state.started /\ row'.state.listed = look.found.listed
    BY <1>3 DEF Saving
  <2>2. ASSUME NEW sha \in Commits, baseline'.head < sha, sha <= look.found.listed
        PROVE  Accounted(sha)'
    <3>1. look.found.listed \in Nat /\ look.before.listed \in Nat /\ sha \in Nat /\ sha # 0
      BY <1>2, PullsAssumption DEF Looks, State, Commits
    <3>2. CASE look.before.started
      <4>1. baseline' = baseline /\ baseline.head < sha
        BY <2>2, <3>2 DEF Saving
      <4>2. CASE look.found.listed = look.before.listed
        BY <1>2, <1>9, <2>2, <4>1, <4>2 DEF WInv, ListedTold
      <4>3. CASE HeadMoved(look) /\ look.commits = 1..look.found.listed
        <5>1. CASE sha > look.before.head
          BY <1>10, <2>2, <3>1, <3>2, <4>3, <5>1
        <5>2. CASE sha <= look.before.head
          BY <1>2, <1>9, <4>1, <5>2 DEF WInv, CommitsTold, Accounted
        <5> QED
          BY <1>2, <3>1, <5>1, <5>2
      <4> QED
        BY <1>3, <4>2, <4>3
    <3>3. CASE ~look.before.started
      <4>1. look.before.head = 0 /\ look.before.listed = 0
        BY <1>2, <3>3 DEF WInv, Watched, ListedTold
      <4>2. look.found.listed = 0
        BY <1>3, <4>1 DEF HeadMoved
      <4> QED
        BY <2>2, <3>1, <4>2
    <3> QED
      BY <3>2, <3>3
  <2> QED
    BY <2>1, <2>2 DEF ListedTold
<1>12. CommitsTold'
  <2>1. SUFFICES ASSUME NEW sha \in Commits, row'.status = "watching", baseline'.head < sha,
                        sha <= row'.state.head
                 PROVE  Accounted(sha)'
    BY DEF CommitsTold, Accounted
  <2>2. ~look.ended /\ sha <= look.found.head /\ sha \in Nat
    BY <2>1, PullsAssumption DEF Saving, Commits
  <2>3. CASE HeadMoved(look)
    <3>1. look.found.head <= look.found.listed /\ look.found.listed \in Nat
      BY <1>2, <1>3, <2>2, <2>3 DEF Looks, State
    <3>2. sha <= row'.state.listed
      BY <1>2, <2>2, <3>1 DEF Saving
    <3> QED
      BY <1>11, <2>1, <3>2 DEF ListedTold
  <2>4. CASE ~HeadMoved(look)
    <3>1. look.before.started
      <4>1. baseline'.head # look.found.head
        BY <1>2, <2>1, <2>2
      <4> QED
        BY <4>1 DEF Saving
    <3>2. look.found.head = look.before.head /\ baseline' = baseline
      BY <1>2, <2>4, <3>1 DEF HeadMoved, Saving, WInv, Watched
    <3>3. Accounted(sha)
      BY <1>2, <2>1, <2>2, <3>2 DEF WInv, CommitsTold, Accounted
    <3> QED
      BY <1>9, <3>3
  <2> QED
    BY <2>3, <2>4
<1> QED
  BY <1>1, <1>6, <1>7, <1>8, <1>11, <1>12 DEF WInv

LEMMA KindsKeep == ASSUME WInv, TypeOK', Kinds PROVE WInv'
BY OutsideKeeps, TendingKeeps, ClaimingKeeps, ReadingKeeps, DroppingKeeps, SavingKeeps,
   GivingUpKeeps DEF Kinds

---------------------------------------------------------------------------
(* Each operation keeps the types and is of its kind. *)

LEMMA CountsComments ==
    ASSUME NEW S \in SUBSET Comments, Cardinality(S) < MaxComments
    PROVE  Cardinality(S) + 1 \in Comments
<1>1. MaxComments \in Nat /\ IsFiniteSet(Comments)
  BY PullsAssumption, FS_Interval DEF Comments
<1>2. Cardinality(S) \in Nat
  BY <1>1, FS_Subset, FS_CardinalityType
<1> QED
  BY <1>1, <1>2 DEF Comments

LEMMA ScopeIs ==
    ASSUME scope \in Scopes
    PROVE  /\ scope.comments \in Nat /\ scope.comments <= MaxComments
           /\ scope.commits \in Nat /\ scope.commits <= MaxCommits
           /\ scope.settles \in Nat /\ scope.settles <= MaxSettles
BY PullsAssumption

LEMMA CommentIs == ASSUME WInv, Comment PROVE TypeOK' /\ Kinds
<1> DEFINE more == pull.comments \cup {Cardinality(pull.comments) + 1}
<1>1. /\ scope \in Scopes /\ pull \in PullRequests /\ pull.comments \in SUBSET Comments
      /\ Cardinality(pull.comments) < scope.comments
  BY DEF WInv, TypeOK, PullRequests, Comment
<1>2. Cardinality(pull.comments) < MaxComments
  <2>1. IsFiniteSet(Comments)
    BY PullsAssumption, FS_Interval DEF Comments
  <2>2. Cardinality(pull.comments) \in Nat
    BY <1>1, <2>1, FS_Subset, FS_CardinalityType
  <2> QED
    BY <1>1, <2>2, ScopeIs, PullsAssumption
<1>3. more \in SUBSET Comments
  BY <1>1, <1>2, CountsComments
<1>4. pull' = [pull EXCEPT !.comments = more]
  BY DEF Comment
<1> HIDE DEF more
<1>5. pull' \in PullRequests /\ pull'.by = pull.by
  BY <1>1, <1>3, <1>4 DEF PullRequests
<1>6. TypeOK'
  BY <1>5 DEF WInv, TypeOK, Comment, history
<1>7. Outside
  BY <1>5 DEF Outside, Grows, Comment, history, WInv, Branch
<1> QED
  BY <1>6, <1>7 DEF Kinds

LEMMA PushIs == ASSUME WInv, NEW who \in {"agent", "other"}, Push(who) PROVE TypeOK' /\ Kinds
<1> DEFINE more == Append(pull.by, who)
           n == Len(pull.by) + 1
<1>1. /\ pull \in PullRequests /\ pull.by \in Seq({"agent", "other"}) /\ scope \in Scopes
      /\ Len(pull.by) \in Nat /\ Len(pull.by) < scope.commits
  BY DEF WInv, TypeOK, PullRequests, Push
<1>2. n \in 1..MaxCommits
  BY <1>1, ScopeIs, PullsAssumption
<1>3. /\ more \in Seq({"agent", "other"}) /\ Len(more) = n /\ more[n] = who
      /\ \A i \in 1..Len(pull.by) : more[i] = pull.by[i]
  BY <1>1
<1>4. pull' = [pull EXCEPT !.by = more, !.check = "none"]
  BY DEF Push
<1> HIDE DEF more
<1>5. pull' \in PullRequests /\ pull'.by = more
  BY <1>1, <1>3, <1>4 DEF PullRequests, Outcomes
<1>6. pushing' \subseteq Commits
  BY <1>2 DEF Push, WInv, TypeOK, Commits
<1>7. TypeOK'
  BY <1>5, <1>6 DEF WInv, TypeOK, Push, history
<1>8. pushing' \subseteq pushing \cup Mine'
  <2>1. who = "agent" => n \in Mine'
    BY <1>1, <1>3, <1>5 DEF Mine
  <2> QED
    BY <2>1 DEF Push
<1>9. Grows
  BY <1>1, <1>2, <1>3, <1>5 DEF Grows
<1>10. Outside
  BY <1>8, <1>9 DEF Outside, Push, history
<1> QED
  BY <1>7, <1>10 DEF Kinds

LEMMA GitHubIs ==
    ASSUME WInv,
           \/ \E answer \in Mergeability : Mergeable(answer)
           \/ \E outcome \in Outcomes : Check(outcome)
           \/ Close
    PROVE  TypeOK' /\ Kinds
<1>1. pull \in PullRequests /\ scope \in Scopes /\ settles \in 0..MaxSettles
  BY DEF WInv, TypeOK
<1>2. pull' \in PullRequests /\ pull'.by = pull.by
  BY <1>1 DEF Mergeable, Check, Close, PullRequests
<1>3. settles' \in 0..MaxSettles
  <2>1. settles' = settles \/ (settles < scope.settles /\ settles' = settles + 1)
    BY DEF Mergeable, Check, Close
  <2> QED
    BY <1>1, <2>1, ScopeIs, PullsAssumption
<1>4. UNCHANGED <<scope, row, pushing, looks, history>>
  BY DEF Mergeable, Check, Close, history
<1>5. TypeOK'
  BY <1>2, <1>3, <1>4 DEF WInv, TypeOK, history
<1>6. Outside
  BY <1>2, <1>4 DEF Outside, Grows, history, WInv, Branch
<1> QED
  BY <1>5, <1>6 DEF Kinds

LEMMA PushedIs == ASSUME WInv, NEW sha \in Commits, Pushed(sha) PROVE TypeOK' /\ Kinds
<1> DEFINE own == IF row.status = "watching" THEN row.own \cup {sha} ELSE row.own
<1>1. row \in Rows /\ own \subseteq Commits /\ own \subseteq row.own \cup pushing
  BY DEF WInv, TypeOK, Rows, Pushed
<1>2. row' = [row EXCEPT !.own = own] \/ row' = row
  BY DEF Pushed
<1> HIDE DEF own
<1>3. /\ row' \in Rows /\ row'.state = row.state /\ row'.status = row.status
      /\ row'.own \subseteq row.own \cup pushing
  BY <1>1, <1>2 DEF Rows
<1>4. TypeOK'
  BY <1>3 DEF WInv, TypeOK, Pushed, github, history
<1>5. Tending
  BY <1>3 DEF Tending, Pushed, github, history
<1> QED
  BY <1>4, <1>5 DEF Kinds

LEMMA TendingIs ==
    ASSUME WInv, Created \/ BecomeDue \/ Hasten \/ DayPasses PROVE TypeOK' /\ Kinds
<1>1. UNCHANGED <<github, pushing, looks, history>>
  BY DEF Created, BecomeDue, Hasten, DayPasses
<1>2. /\ row' \in Rows /\ row'.state = row.state /\ row'.own = row.own
      /\ \/ row'.status = row.status
         \/ row.status = "absent" /\ row'.status \in {"watching", "unreachable"}
  <2>1. row \in Rows
    BY DEF WInv, TypeOK
  <2> QED
    BY <2>1 DEF Created, BecomeDue, Hasten, DayPasses, Rows
<1>3. TypeOK'
  BY <1>1, <1>2 DEF WInv, TypeOK, github, history
<1>4. Tending
  BY <1>1, <1>2 DEF Tending, github, history
<1> QED
  BY <1>3, <1>4 DEF Kinds

LEMMA NotStartedType == NotStarted \in State
BY PullsAssumption DEF NotStarted, State, Mergeability, Outcomes

LEMMA NoLookType == NoLook \in Looks
BY NotStartedType DEF NoLook, Looks

LEMMA TakeLookIs ==
    ASSUME row \in Rows, NEW w
    PROVE  /\ TakeLook(w) \in Looks /\ TakeLook(w).pc = "pull" /\ TakeLook(w).before = row.state
           /\ TakeLook(w).own = row.own
<1>1. /\ row.state \in State /\ row.own \subseteq Commits /\ row.failing \in {"no", "since", "day"}
      /\ NoLook \in Looks
  BY NoLookType DEF Rows
<1> DEFINE taken == [NoLook EXCEPT !.pc = "pull", !.current = TRUE]
           seen == [taken EXCEPT !.before = row.state, !.own = row.own]
<1>2. taken \in Looks /\ taken.pc = "pull"
  BY <1>1 DEF Looks
<1> HIDE DEF taken
<1>3. seen \in Looks /\ seen.pc = "pull" /\ seen.before = row.state /\ seen.own = row.own
  BY <1>1, <1>2 DEF Looks
<1>4. TakeLook(w) = [seen EXCEPT !.failing = row.failing]
  BY DEF TakeLook, taken
<1> HIDE DEF seen
<1> QED
  BY <1>1, <1>3, <1>4 DEF Looks

LEMMA ClaimIs == ASSUME WInv, NEW w \in Workers, Claim(w) PROVE TypeOK' /\ Kinds
<1> DEFINE old(v) == [looks[v] EXCEPT !.current = FALSE]
           new == TakeLook(w)
<1>1. row \in Rows /\ row.status = "watching" /\ looks \in [Workers -> Looks]
  BY DEF WInv, TypeOK, Claim, Claimable
<1>2. \A v \in Workers :
        /\ old(v) \in Looks /\ ~old(v).current /\ old(v).pc = looks[v].pc
        /\ old(v).before = looks[v].before /\ old(v).own = looks[v].own
        /\ old(v).found = looks[v].found /\ old(v).ended = looks[v].ended
        /\ old(v).commits = looks[v].commits
  BY <1>1 DEF Looks
<1>3. new \in Looks /\ new.pc = "pull" /\ new.before = row.state /\ new.own = row.own
  BY <1>1, TakeLookIs
<1>4. looks' = [v \in Workers |-> IF v = w THEN new ELSE old(v)]
  BY DEF Claim
<1>5. row' \in Rows /\ SameSight /\ row'.status = row.status
  BY <1>1 DEF Claim, Rows, SameSight
<1> HIDE DEF old, new
<1>6. looks' \in [Workers -> Looks] /\ looks'[w] = new
      /\ \A v \in Workers : v # w => looks'[v] = old(v)
  BY <1>2, <1>3, <1>4
<1>7. TypeOK'
  BY <1>5, <1>6 DEF WInv, TypeOK, Claim, github, history
<1>8. UNCHANGED <<pull, pushing, told, baseline, quiet>> /\ row'.status = "watching"
  BY <1>1, <1>5 DEF Claim, github, history
<1>9. \A v \in Workers : v # w =>
        /\ ~looks'[v].current /\ looks'[v].pc = looks[v].pc
        /\ looks'[v].before = looks[v].before /\ looks'[v].own = looks[v].own
        /\ looks'[v].found = looks[v].found /\ looks'[v].ended = looks[v].ended
        /\ looks'[v].commits = looks[v].commits
  BY <1>2, <1>6
<1>10. Claiming(w)
  BY <1>1, <1>3, <1>5, <1>6, <1>8, <1>9 DEF Claiming
<1> QED
  BY <1>7, <1>10 DEF Kinds

\* A look moves on and nothing else changes.
LEMMA ReadingIs ==
    ASSUME WInv, NEW w \in Workers, NEW new \in Looks, looks' = [looks EXCEPT ![w] = new],
           UNCHANGED <<github, row, pushing, history>>,
           looks[w].pc # "idle", new.pc # "idle", new.current = looks[w].current,
           new.before = looks[w].before, new.own = looks[w].own,
           Ahead(looks[w]) => Ahead(new)
    PROVE  TypeOK' /\ Kinds
<1>1. looks' \in [Workers -> Looks] /\ looks'[w] = new /\ OtherLooks(w)
  BY DEF WInv, TypeOK, OtherLooks
<1>2. TypeOK'
  BY <1>1 DEF WInv, TypeOK, github, history
<1>3. Reading(w)
  BY <1>1 DEF Reading, github, history
<1> QED
  BY <1>2, <1>3 DEF Kinds

LEMMA ReadPullIs == ASSUME WInv, NEW w \in Workers, ReadPull(w) PROVE TypeOK' /\ Kinds
<1> DEFINE look == looks[w]
           pc == IF Open THEN "lists" ELSE "save"
           found == [look.before EXCEPT !.started = TRUE, !.head = Len(pull.by),
                                        !.mergeable = pull.mergeable]
           new == [look EXCEPT !.pc = pc, !.ended = ~Open, !.found = found]
<1>1. look \in Looks /\ look.before \in State /\ pull \in PullRequests /\ look.pc = "pull"
  BY DEF WInv, TypeOK, Looks, ReadPull
<1>2. Len(pull.by) \in 1..MaxCommits /\ Len(pull.by) \in 0..MaxCommits
  BY PullsAssumption DEF WInv, Branch
<1>3. /\ found \in State /\ found.started = TRUE /\ found.head = Len(pull.by)
      /\ found.listed = look.before.listed
  <2>1. pull.mergeable \in Mergeability
    BY <1>1 DEF PullRequests
  <2> QED
    BY <1>1, <1>2, <2>1 DEF State
<1>4. pc \in {"lists", "save"} /\ (~Open) \in BOOLEAN /\ (pc = "save" => ~Open)
  BY DEF Open
<1>5. looks' = [looks EXCEPT ![w] = new]
  BY DEF ReadPull
<1> HIDE DEF found, pc
<1>6. /\ new \in Looks /\ new.pc = pc /\ new.current = look.current /\ new.before = look.before
      /\ new.own = look.own /\ new.found = found /\ new.ended = ~Open
  BY <1>1, <1>3, <1>4 DEF Looks
<1> HIDE DEF new
<1>7. Ahead(look) => Ahead(new)
  <2>1. new.found.started /\ new.found.head = Len(pull.by) /\ (new.pc = "save" => new.ended)
    BY <1>3, <1>4, <1>6
  <2>2. Len(pull.by) \in 1..Len(pull.by)
    BY <1>2
  <2>3. new.pc # "commits" /\ new.found.listed = new.before.listed
    BY <1>3, <1>4, <1>6
  <2> QED
    BY <1>6, <2>1, <2>2, <2>3 DEF Ahead
<1> QED
  BY <1>1, <1>4, <1>5, <1>6, <1>7, ReadingIs DEF ReadPull

LEMMA ReadListsIs == ASSUME WInv, NEW w \in Workers, ReadLists(w) PROVE TypeOK' /\ Kinds
<1> DEFINE look == looks[w]
           pc == IF HeadMoved(look) THEN "commits" ELSE "save"
<1>1. /\ look \in Looks /\ look.found \in State /\ pull \in PullRequests /\ look.pc = "lists"
      /\ pull.check \in Outcomes /\ pull.comments \subseteq Comments
  BY DEF WInv, TypeOK, Looks, PullRequests, ReadLists
<1>2. PICK outcome \in Outcomes :
        looks' = [looks EXCEPT ![w] = [look EXCEPT !.pc = pc,
                    !.found = [look.found EXCEPT !.comments = pull.comments, !.check = outcome]]]
  BY <1>1 DEF ReadLists
<1> DEFINE found == [look.found EXCEPT !.comments = pull.comments, !.check = outcome]
           new == [look EXCEPT !.pc = pc, !.found = found]
<1>3. found \in State /\ found.started = look.found.started /\ found.head = look.found.head
      /\ found.listed = look.found.listed
  BY <1>1 DEF State
<1>4. pc \in {"commits", "save"} /\ (pc = "save" <=> ~HeadMoved(look))
  OBVIOUS
<1>5. looks' = [looks EXCEPT ![w] = new]
  BY <1>2
<1> HIDE DEF found, pc
<1>6. /\ new \in Looks /\ new.pc = pc /\ new.current = look.current /\ new.before = look.before
      /\ new.own = look.own /\ new.found = found
  BY <1>1, <1>3, <1>4 DEF Looks
<1> HIDE DEF new
<1>7. Ahead(look) => Ahead(new)
  BY <1>1, <1>3, <1>4, <1>6 DEF Ahead, HeadMoved
<1> QED
  BY <1>1, <1>4, <1>5, <1>6, <1>7, ReadingIs DEF ReadLists

LEMMA ReadCommitsIs == ASSUME WInv, NEW w \in Workers, ReadCommits(w) PROVE TypeOK' /\ Kinds
<1> DEFINE look == looks[w]
           commits == IF Unchanged(look) THEN {} ELSE 1..Len(pull.by)
           found == [look.found EXCEPT !.listed = Len(pull.by)]
           new == [look EXCEPT !.pc = "save", !.commits = commits, !.found = found]
<1>1. look \in Looks /\ look.pc = "commits" /\ look.found \in State
  BY DEF WInv, TypeOK, Looks, ReadCommits
<1>2. commits \subseteq Commits /\ Len(pull.by) \in 0..MaxCommits
  BY PullsAssumption DEF WInv, Branch, Commits
<1>3. looks' = [looks EXCEPT ![w] = new]
  BY DEF ReadCommits
<1>4. /\ found \in State /\ found.started = look.found.started /\ found.head = look.found.head
      /\ found.listed = Len(pull.by)
  BY <1>1, <1>2 DEF State
<1>5. found.listed = look.before.listed \/ commits = 1..found.listed
  BY <1>4 DEF Unchanged
<1> HIDE DEF found, commits
<1>6. /\ new \in Looks /\ new.pc = "save" /\ new.current = look.current
      /\ new.before = look.before /\ new.own = look.own /\ new.found = found
      /\ new.commits = commits /\ new.ended = look.ended
  BY <1>1, <1>2, <1>4 DEF Looks
<1> HIDE DEF new
<1>7. Ahead(look) => Ahead(new)
  BY <1>1, <1>4, <1>5, <1>6 DEF Ahead, HeadMoved
<1> QED
  BY <1>1, <1>3, <1>6, <1>7, ReadingIs DEF ReadCommits

---------------------------------------------------------------------------
(* How a look ends. *)

LEMMA StopIs ==
    ASSUME WInv, NEW w \in Workers, Stop(w) PROVE looks' \in [Workers -> Looks] /\ Dropped(w)
BY NoLookType DEF WInv, TypeOK, Stop, Dropped, OtherLooks

\* A look that is no longer current, or is lost, leaves nothing.
LEMMA DroppingIs ==
    ASSUME WInv, NEW w \in Workers, Stop(w), UNCHANGED <<github, row, pushing, history>>
    PROVE  TypeOK' /\ Kinds
<1>1. looks' \in [Workers -> Looks] /\ Dropped(w)
  BY StopIs
<1>2. TypeOK'
  BY <1>1 DEF WInv, TypeOK, github, history
<1>3. Dropping(w)
  BY <1>1 DEF Dropping, SameSight, github, history
<1> QED
  BY <1>2, <1>3 DEF Kinds

LEMMA RecordedIs ==
    ASSUME NEW look \in Looks
    PROVE  /\ Recorded(look) \in State /\ Recorded(look).started = look.found.started
           /\ Recorded(look).head = look.found.head /\ Recorded(look).listed = look.found.listed
           /\ Recorded(look).comments = look.before.comments \cup look.found.comments
<1> DEFINE comments == look.before.comments \cup look.found.comments
           check == IF look.ended THEN PriorCheck(look) ELSE look.found.check
<1>1. look.found \in State /\ look.before \in State
  BY DEF Looks
<1>2. comments \subseteq Comments
  BY <1>1 DEF State
<1>3. check \in Outcomes
  BY <1>1 DEF State, PriorCheck, Outcomes
<1>4. Recorded(look) = [look.found EXCEPT !.comments = comments, !.check = check]
  BY DEF Recorded
<1> HIDE DEF comments, check
<1>5. /\ Recorded(look) \in State /\ Recorded(look).started = look.found.started
      /\ Recorded(look).head = look.found.head /\ Recorded(look).listed = look.found.listed
      /\ Recorded(look).comments = comments
  BY <1>1, <1>2, <1>3, <1>4 DEF State
<1> QED
  BY <1>5 DEF comments

LEMMA SaveIs == ASSUME WInv, NEW w \in Workers, Save(w) PROVE TypeOK' /\ Kinds
<1> DEFINE look == looks[w]
<1>1. CASE ~look.current
  BY <1>1, DroppingIs DEF Save
<1>2. CASE look.current
  <2>1. look.pc = "save" /\ Stop(w) /\ UNCHANGED <<github, pushing>>
    BY DEF Save
  <2>2. SaveRow(look) /\ Remember(look) /\ Tell(Compare(look))
    BY <1>2 DEF Save
  <2>3. looks' \in [Workers -> Looks] /\ Dropped(w)
    BY <2>1, StopIs
  <2>4. look \in Looks /\ row \in Rows /\ look.found \in State
    BY DEF WInv, TypeOK, Looks
  <2> DEFINE state == Recorded(look)
             status == IF look.ended THEN "ended" ELSE row.status
  <2>5. /\ state \in State /\ state.started = look.found.started
        /\ state.head = look.found.head /\ state.listed = look.found.listed
        /\ state.comments = look.before.comments \cup look.found.comments
    BY <2>4, RecordedIs
  <2>6. status \in {"absent", "watching", "ended", "unreachable"}
    BY <2>4 DEF Rows
  <2>7. row' = [row EXCEPT !.state = state, !.failing = "no", !.status = status]
    BY <2>2 DEF SaveRow
  <2> HIDE DEF state
  <2>8. row' \in Rows /\ row'.state = state /\ row'.own = row.own /\ row'.status = status
    BY <2>4, <2>5, <2>6, <2>7 DEF Rows
  <2>9. told' \in Seq(SUBSET Changes)
    BY <2>2, <2>4, CompareType, Telling DEF WInv, TypeOK
  <2>10. /\ baseline' \in [head : 0..MaxCommits, comments : SUBSET Comments]
         /\ settled' \in Mergeability /\ quiet' \subseteq Commits
    BY <2>2, <2>4 DEF Remember, State, Looks, WInv, TypeOK
  <2>11. TypeOK'
    BY <2>1, <2>3, <2>8, <2>9, <2>10 DEF WInv, TypeOK, github
  <2>12. Saving(w)
    BY <1>2, <2>1, <2>2, <2>3, <2>5, <2>8 DEF Saving, Remember, Past, github
  <2> QED
    BY <2>11, <2>12 DEF Kinds
<1> QED
  BY <1>1, <1>2

LEMMA FailIs ==
    ASSUME WInv, NEW w \in Workers, NEW kind, Fail(w, kind) PROVE TypeOK' /\ Kinds
<1> DEFINE look == looks[w]
<1>1. Stop(w) /\ UNCHANGED <<github, pushing, baseline, settled, quiet>>
  BY DEF Fail
<1>2. looks' \in [Workers -> Looks] /\ Dropped(w)
  BY <1>1, StopIs
<1>3. look \in Looks /\ row \in Rows
  BY DEF WInv, TypeOK
<1>4. CASE ~look.current
  BY <1>1, <1>4, DroppingIs DEF Fail, history
<1>5. CASE look.current /\ GivesUp(look, kind)
  <2> DEFINE S == IF look.before.started THEN {<<"lost", 0>>} ELSE {}
  <2>1. row' = [row EXCEPT !.status = "unreachable"] /\ Tell(S)
    BY <1>5 DEF Fail
  <2>2. row' \in Rows /\ SameSight /\ row'.status = "unreachable"
    BY <1>3, <2>1 DEF Rows, SameSight
  <2>3. S \in SUBSET Changes
    BY ChangesAre
  <2>4. told' \in Seq(SUBSET Changes)
    BY <2>1, <2>3, Telling DEF WInv, TypeOK
  <2>5. TypeOK'
    BY <1>1, <1>2, <2>2, <2>4 DEF WInv, TypeOK, github
  <2>6. GivingUp(w)
    BY <1>1, <1>2, <1>5, <2>1, <2>2 DEF GivingUp, github
  <2> QED
    BY <2>5, <2>6 DEF Kinds
<1>6. CASE look.current /\ ~GivesUp(look, kind)
  <2> DEFINE failing == IF look.failing = "no" THEN "since" ELSE row.failing
  <2>1. row' = [row EXCEPT !.due = FALSE, !.failing = failing] /\ told' = told
    BY <1>6 DEF Fail
  <2>2. failing \in {"no", "since", "day"}
    BY <1>3 DEF Rows
  <2>3. row' \in Rows /\ SameSight /\ row'.status = row.status
    BY <1>3, <2>1, <2>2 DEF Rows, SameSight
  <2>4. TypeOK'
    BY <1>1, <1>2, <2>1, <2>3 DEF WInv, TypeOK, github
  <2>5. Dropping(w)
    BY <1>1, <1>2, <2>1, <2>3 DEF Dropping, github
  <2> QED
    BY <2>4, <2>5 DEF Kinds
<1> QED
  BY <1>4, <1>5, <1>6

LEMMA NextIs == ASSUME WInv, Next PROVE TypeOK' /\ Kinds
<1>1. ASSUME NEW w \in Workers, Lose(w) PROVE TypeOK' /\ Kinds
  BY <1>1, DroppingIs DEF Lose
<1> QED
  BY <1>1, CommentIs, PushIs, GitHubIs, PushedIs, TendingIs, ClaimIs, ReadPullIs, ReadListsIs,
     ReadCommitsIs, SaveIs, FailIs DEF Next

LEMMA StutterIs == ASSUME WInv, UNCHANGED vars PROVE TypeOK' /\ Kinds
<1>1. TypeOK'
  BY DEF WInv, TypeOK, vars
<1>2. Tending
  BY DEF vars, Tending
<1> QED
  BY <1>1, <1>2 DEF Kinds

---------------------------------------------------------------------------
(* The theorems. *)

LEMMA InitKeeps == ASSUME Init PROVE WInv
<1>1. /\ row.status = "absent" /\ row.state = NotStarted /\ row.own = {} /\ pushing = {}
      /\ told = <<>> /\ baseline.comments = {} /\ baseline.head = 0
      /\ pull.by = <<"agent">> /\ \A w \in Workers : looks[w] = NoLook
  BY DEF Init
<1>2. /\ ~NotStarted.started /\ NotStarted.head = 0 /\ NotStarted.comments = {}
      /\ NotStarted.listed = 0
  BY DEF NotStarted
<1>3. Len(pull.by) = 1
  BY <1>1
<1>4. TypeOK
  <2>1. pull \in PullRequests
    <3>1. <<"agent">> \in Seq({"agent", "other"})
      OBVIOUS
    <3> QED
      BY <3>1 DEF Init, PullRequests, Mergeability, Outcomes
  <2>2. row \in Rows
    BY NotStartedType DEF Init, Rows
  <2>3. looks \in [Workers -> Looks]
    BY NoLookType DEF Init
  <2>4. told \in Seq(SUBSET Changes)
    BY <1>1
  <2> QED
    BY <2>1, <2>2, <2>3, <2>4, PullsAssumption DEF Init, TypeOK, Mergeability
<1>5. Branch /\ Watched
  BY <1>1, <1>2, <1>3, PullsAssumption DEF Branch, Watched
<1>6. OwnPushes /\ LooksAhead /\ Current /\ OneCurrent
  BY <1>1, <1>3, NoLookFacts DEF NoLookIs, OwnPushes, LooksAhead, Ahead, Current, OneCurrent
<1>7. \A c : Times(c) = 0
  <2>1. \A c : {i \in DOMAIN told : c \in told[i]} = {}
    BY <1>1
  <2> QED
    BY <2>1, FS_EmptySet DEF Times
<1>8. CommentsToldOnce /\ EndToldOnce /\ CommitsTold /\ ListedTold
  BY <1>1, <1>2, <1>7, PullsAssumption DEF CommentsToldOnce, EndToldOnce, CommitsTold, ListedTold, Commits
<1> QED
  BY <1>4, <1>5, <1>6, <1>8 DEF WInv

\* The current look goes by the row as it stands, in every reachable state.
THEOREM Invariance == Spec => []WInv
<1>1. Init => WInv
  BY InitKeeps
<1>2. WInv /\ [Next]_vars => WInv'
  BY NextIs, StutterIs, KindsKeep
<1> QED
  BY <1>1, <1>2, PTL DEF Spec

\* However looks overlap, fail and are lost: every recorded comment and the end of the watch are
\* told once, and each commit up to the recorded head was told, or listed by a look whose head was
\* the agent's (lookAt, look, compare, failed).
THEOREM PullsSafe == Spec => []PullsSafety
<1>1. WInv => PullsSafety
  BY DEF WInv, PullsSafety
<1> QED
  BY <1>1, Invariance, PTL

\* Nothing is told of a pull request whose watch ended or was given up, by whatever look was
\* still under way.
THEOREM OverStaysOver == Spec => OverIsOver
<1>1. ASSUME WInv, [Next]_vars, row.status \in {"ended", "unreachable"} PROVE told' = told
  <2>1. Kinds
    BY <1>1, NextIs, StutterIs
  <2>2. \A w \in Workers : ~Saving(w) /\ ~GivingUp(w)
    BY <1>1 DEF WInv, Current, Saving, GivingUp
  <2> QED
    BY <2>1, <2>2 DEF Kinds, Outside, Tending, Claiming, Reading, Dropping
<1>2. WInv /\ [Next]_vars =>
        [row.status \in {"ended", "unreachable"} => told' = told]_vars
  BY <1>1
<1> QED
  BY <1>2, Invariance, PTL DEF Spec, OverIsOver
=============================================================================
