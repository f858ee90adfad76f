------------------------------- MODULE Pulls -------------------------------
(***************************************************************************)
(* The watch over one pull request the agent created (pulls/).  Several     *)
(* processes tick; one claims the watcher's next look by its version, reads *)
(* GitHub in several requests while GitHub moves on, compares what it read  *)
(* with what the last look recorded, and saves that together with the note  *)
(* that tells the conversation, unless another look was claimed since.      *)
(***************************************************************************)
EXTENDS Integers, Sequences, FiniteSets

CONSTANTS
    Workers,      \* processes that run lookDue
    MaxComments,  \* bound: comments on the pull request
    MaxCommits,   \* bound: commits on its branch
    MaxSettles,   \* bound: times GitHub settles, or unsettles, something about the head
    Scopes        \* bound: the sizes one run explores, each within the bounds above

ASSUME PullsAssumption ==
    /\ MaxComments \in Nat /\ MaxCommits \in Nat \ {0} /\ MaxSettles \in Nat
    /\ Scopes \subseteq [workers : SUBSET Workers, comments : 0..MaxComments,
                        commits : 1..MaxCommits, settles : 0..MaxSettles]

VARIABLES
    scope,     \* bound: the member of Scopes this behaviour stays within
    pull,      \* the pull request, as GitHub has it
    settles,   \* bound: see MaxSettles
    row,       \* its row in `pull_watchers`
    pushing,   \* commits of the agent whose push came back but is not remembered yet
    looks,     \* the look of each worker
    told,      \* history: the notes given to the conversation, each a set of changes
    baseline,  \* history: the head and the comments the first look recorded
    settled,   \* history: the last settled mergeability a look recorded
    quiet      \* history: commits a look listed under a head of the agent's own, of which it says nothing

github == <<scope, pull, settles>>
history == <<told, baseline, settled, quiet>>
vars == <<scope, pull, settles, row, pushing, looks, told, baseline, settled, quiet>>

Comments == 1..MaxComments
Commits == 1..MaxCommits
Mergeability == {"clean", "unknown", "conflict"}
Outcomes == {"none", "pending", "failed", "passed"}
Changes == ({"comment"} \X Comments) \cup ({"commit"} \X Commits)
           \cup {<<what, 0>> : what \in {"check-failed", "checks-passed", "conflict", "merged", "lost"}}

\* Of the ETags only that of the list of commits matters, and it stands for how many it held (0:
\* never read): an address that did not change since the look before answers as that look has it.
State == [started : BOOLEAN, head : 0..MaxCommits, mergeable : Mergeability,
          comments : SUBSET Comments, check : Outcomes, listed : 0..MaxCommits]
PullRequests == [state : {"open", "closed"}, by : Seq({"agent", "other"}),
                 mergeable : Mergeability, comments : SUBSET Comments, check : Outcomes]
Rows == [status : {"absent", "watching", "ended", "unreachable"}, state : State,
         own : SUBSET Commits, due : BOOLEAN, failing : {"no", "since", "day"}]
Looks == [pc : {"idle", "pull", "lists", "commits", "save"}, current : BOOLEAN,
          before : State, own : SUBSET Commits, failing : {"no", "since", "day"},
          found : State, ended : BOOLEAN, commits : SUBSET Commits]
NotStarted == [started |-> FALSE, head |-> 0, mergeable |-> "unknown", comments |-> {}, check |-> "none",
               listed |-> 0]
\* A look is current while the row's version is the one it claimed: versions only go up.
NoLook == [pc |-> "idle", current |-> FALSE, before |-> NotStarted, own |-> {}, failing |-> "no",
           found |-> NotStarted, ended |-> FALSE, commits |-> {}]

Init == /\ scope \in Scopes
        /\ pull = [state |-> "open", by |-> <<"agent">>, mergeable |-> "clean",
                   comments |-> {}, check |-> "none"]
        /\ settles = 0
        /\ row = [status |-> "absent", state |-> NotStarted, own |-> {},
                  due |-> FALSE, failing |-> "no"]
        /\ pushing = {}
        /\ looks = [w \in Workers |-> NoLook]
        /\ told = <<>> /\ baseline = [head |-> 0, comments |-> {}] /\ settled = "unknown"
        /\ quiet = {}

TypeOK ==
    /\ scope \in Scopes
    /\ pull \in PullRequests /\ settles \in 0..MaxSettles
    /\ row \in Rows /\ pushing \subseteq Commits
    /\ looks \in [Workers -> Looks]
    /\ told \in Seq(SUBSET Changes)
    /\ baseline \in [head : 0..MaxCommits, comments : SUBSET Comments]
    /\ settled \in Mergeability /\ quiet \subseteq Commits

---------------------------------------------------------------------------
(* GitHub, and who works there. *)

Open == pull.state = "open"

Comment ==
    /\ Open /\ Cardinality(pull.comments) < scope.comments
    /\ pull' = [pull EXCEPT !.comments = @ \cup {Cardinality(@) + 1}]
    /\ UNCHANGED <<scope, settles, row, pushing, looks, history>>

\* A commit restarts the checks of the head; one of the agent's is remembered when its push is back.
Push(who) ==
    /\ Open /\ Len(pull.by) < scope.commits
    /\ pull' = [pull EXCEPT !.by = Append(@, who), !.check = "none"]
    /\ pushing' = IF who = "agent" THEN pushing \cup {Len(pull.by) + 1} ELSE pushing
    /\ UNCHANGED <<scope, settles, row, looks, history>>

\* rememberOwnPush, or the push's process stops before it.
Pushed(sha) ==
    /\ sha \in pushing
    /\ pushing' = pushing \ {sha}
    /\ \/ row' = [row EXCEPT !.own = IF row.status = "watching" THEN @ \cup {sha} ELSE @]
       \/ UNCHANGED row
    /\ UNCHANGED <<github, looks, history>>

\* GitHub works out, again and again, whether it merges; a base that moves makes it unknown first.
Mergeable(answer) ==
    /\ Open /\ settles < scope.settles /\ settles' = settles + 1
    /\ IF pull.mergeable = "unknown" THEN answer # "unknown" ELSE answer = "unknown"
    /\ pull' = [pull EXCEPT !.mergeable = answer]
    /\ UNCHANGED <<scope, row, pushing, looks, history>>

Check(outcome) ==
    /\ Open /\ settles < scope.settles /\ settles' = settles + 1
    /\ pull.check # outcome /\ outcome # "none"
    /\ pull' = [pull EXCEPT !.check = outcome]
    /\ UNCHANGED <<scope, row, pushing, looks, history>>

Close ==
    /\ Open
    /\ pull' = [pull EXCEPT !.state = "closed"]
    /\ UNCHANGED <<scope, settles, row, pushing, looks, history>>

---------------------------------------------------------------------------
(* The watcher's row. *)

\* created: a watcher opens once, or is unreachable from the start.
Created ==
    /\ row.status = "absent"
    /\ \E status \in {"watching", "unreachable"} :
         row' = [row EXCEPT !.status = status, !.due = TRUE]
    /\ UNCHANGED <<github, pushing, looks, history>>

Looking(w) == looks[w].pc # "idle"

\* A plausible bug: a watcher whose looks fail is not due again.
BecomeDueUnlessFailing ==
    /\ row.status = "watching" /\ ~row.due /\ row.failing = "no"
    /\ row' = [row EXCEPT !.due = TRUE]
    /\ UNCHANGED <<github, pushing, looks, history>>

\* The next look's time comes, past the minute or the wait.
BecomeDue ==
    /\ row.status = "watching" /\ ~row.due
    /\ row' = [row EXCEPT !.due = TRUE]
    /\ UNCHANGED <<github, pushing, looks, history>>

\* hastenWatcher, of a pull request merged through the gateway.
Hasten ==
    /\ ~Open /\ row.status = "watching" /\ ~row.due
    /\ row' = [row EXCEPT !.due = TRUE]
    /\ UNCHANGED <<github, pushing, looks, history>>

DayPasses ==
    /\ row.failing = "since"
    /\ row' = [row EXCEPT !.failing = "day"]
    /\ UNCHANGED <<github, pushing, looks, history>>

---------------------------------------------------------------------------
(* lookDue *)

TakeLook(w) ==
    [NoLook EXCEPT !.pc = "pull", !.current = TRUE, !.before = row.state, !.own = row.own,
                   !.failing = row.failing]
Claimable(w) == w \in scope.workers /\ ~Looking(w) /\ row.status = "watching" /\ row.due

\* A plausible bug: taken without moving the version.
ClaimUnversioned(w) ==
    /\ Claimable(w)
    /\ row' = [row EXCEPT !.due = FALSE]
    /\ looks' = [looks EXCEPT ![w] = TakeLook(w)]
    /\ UNCHANGED <<github, pushing, history>>

\* claimWatcher: the version moves, which outdates every other look, and this one goes by the row
\* as it is now.
Claim(w) ==
    /\ Claimable(w)
    /\ row' = [row EXCEPT !.due = FALSE]
    /\ looks' = [v \in Workers |-> IF v = w THEN TakeLook(w) ELSE [looks[v] EXCEPT !.current = FALSE]]
    /\ UNCHANGED <<github, pushing, history>>

\* lookAt: the pull request first; nothing more is read of a closed one.
ReadPull(w) ==
    /\ looks[w].pc = "pull"
    /\ looks' = [looks EXCEPT ![w] = [@ EXCEPT !.pc = IF Open THEN "lists" ELSE "save",
                    !.ended = ~Open,
                    !.found = [looks[w].before EXCEPT !.started = TRUE, !.head = Len(pull.by),
                                                      !.mergeable = pull.mergeable]]]
    /\ UNCHANGED <<github, row, pushing, history>>

HeadMoved(look) == look.before.head # 0 /\ look.found.head # look.before.head

\* Then its comments and the checks of the head it read; an older head keeps its last outcome.
ReadLists(w) ==
    /\ looks[w].pc = "lists"
    /\ \E outcome \in IF looks[w].found.head = Len(pull.by) THEN {pull.check} ELSE Outcomes :
         looks' = [looks EXCEPT ![w] = [@ EXCEPT
             !.pc = IF HeadMoved(looks[w]) THEN "commits" ELSE "save",
             !.found = [looks[w].found EXCEPT !.comments = pull.comments, !.check = outcome]]]
    /\ UNCHANGED <<github, row, pushing, history>>

\* A plausible bug: an address that was ever read counts as unchanged.
UnchangedOnceRead(look) == look.before.listed # 0
\* GitHub answers 304 to the ETag that came with the list as it still is.
Unchanged(look) == look.before.listed = Len(pull.by)

\* And, when its head moved, the commits there are by now, of which an unchanged list tells none.
ReadCommits(w) ==
    /\ looks[w].pc = "commits"
    /\ looks' = [looks EXCEPT ![w] = [@ EXCEPT !.pc = "save",
                    !.commits = IF Unchanged(looks[w]) THEN {} ELSE 1..Len(pull.by),
                    !.found = [looks[w].found EXCEPT !.listed = Len(pull.by)]]]
    /\ UNCHANGED <<github, row, pushing, history>>

---------------------------------------------------------------------------
(* compare *)

NewComments(look) == {<<"comment", c>> : c \in look.found.comments \ look.before.comments}
\* A plausible bug: the head itself is left out of what it moved past.
PastBelowHead(look) == {n \in look.commits : n > look.before.head /\ n < look.found.head}
Past(look) == {n \in look.commits : n > look.before.head}
\* All of a moved head's new commits, unless the agent pushed that head.
NewCommits(look) ==
    IF HeadMoved(look) /\ look.found.head \notin look.own
    THEN {<<"commit", sha>> : sha \in Past(look)} ELSE {}
PriorCheck(look) == IF HeadMoved(look) THEN "none" ELSE look.before.check
CheckChanges(look) ==
    LET said == [failed |-> "check-failed", passed |-> "checks-passed"] IN
    IF look.found.check \in DOMAIN said \ {PriorCheck(look)}
    THEN {<<said[look.found.check], 0>>} ELSE {}
Conflicts(look) ==
    IF look.before.mergeable = "clean" /\ look.found.mergeable = "conflict"
    THEN {<<"conflict", 0>>} ELSE {}
Endings(look) == IF look.ended THEN {<<"merged", 0>>} ELSE {}

\* The changes of a look; the first records where the pull request starts, and tells its end only.
Compare(look) ==
    (IF look.before.started
     THEN NewComments(look) \cup NewCommits(look) \cup Conflicts(look)
          \cup IF look.ended THEN {} ELSE CheckChanges(look)
     ELSE {}) \cup Endings(look)

\* What is recorded of a look.
Recorded(look) ==
    [look.found EXCEPT !.comments = look.before.comments \cup @,
                       !.check = IF look.ended THEN PriorCheck(look) ELSE @]

---------------------------------------------------------------------------
(* look: saved and told in one transaction, if no look was claimed since. *)

Tell(changes) == told' = IF changes = {} THEN told ELSE Append(told, changes)
Stop(w) == looks' = [looks EXCEPT ![w] = NoLook]

SaveRow(look) ==
    row' = [row EXCEPT !.state = Recorded(look), !.failing = "no",
                       !.status = IF look.ended THEN "ended" ELSE @]
Remember(look) ==
    /\ baseline' = IF look.before.started THEN baseline
                   ELSE [head |-> look.found.head, comments |-> look.found.comments]
    /\ settled' = IF look.found.mergeable = "unknown" THEN settled ELSE look.found.mergeable
    /\ quiet' = IF HeadMoved(look) /\ pull.by[look.found.head] = "agent"
                THEN quiet \cup {n \in look.commits : n > look.before.head} ELSE quiet

\* A plausible bug: the state is saved, and the conversation told by whoever looked.
SaveAnyTell(w) ==
    LET look == looks[w] IN
    /\ look.pc = "save" /\ Stop(w)
    /\ IF look.current THEN SaveRow(look) /\ Remember(look) ELSE UNCHANGED <<row, baseline, settled, quiet>>
    /\ Tell(Compare(look))
    /\ UNCHANGED <<github, pushing>>

Save(w) ==
    LET look == looks[w] IN
    /\ look.pc = "save" /\ Stop(w)
    /\ IF look.current THEN SaveRow(look) /\ Remember(look) /\ Tell(Compare(look))
                   ELSE UNCHANGED <<row, history>>
    /\ UNCHANGED <<github, pushing>>

GivesUp(look, kind) ==
    \/ kind = "unreachable" /\ (~look.before.started \/ look.failing = "day")
    \/ kind = "failed" /\ look.failing = "day"

\* failed: it waits, or gives up and says so once if it had been watching.
Fail(w, kind) ==
    LET look == looks[w] IN
    /\ look.pc \in {"pull", "lists", "commits"} /\ Stop(w)
    /\ IF look.current THEN
         IF GivesUp(look, kind)
         THEN /\ row' = [row EXCEPT !.status = "unreachable"]
              /\ Tell(IF look.before.started THEN {<<"lost", 0>>} ELSE {})
         ELSE /\ row' = [row EXCEPT !.due = FALSE,
                                    !.failing = IF look.failing = "no" THEN "since" ELSE @]
              /\ UNCHANGED told
       ELSE UNCHANGED <<row, told>>
    /\ UNCHANGED <<github, pushing, baseline, settled, quiet>>

\* The process stops in a look, or the conversation refuses the note and nothing is saved.
Lose(w) ==
    /\ Looking(w) /\ Stop(w)
    /\ UNCHANGED <<github, row, pushing, history>>

Next ==
    \/ Comment \/ Close \/ \E who \in {"agent", "other"} : Push(who)
    \/ \E sha \in Commits : Pushed(sha)
    \/ \E answer \in Mergeability : Mergeable(answer)
    \/ \E outcome \in Outcomes : Check(outcome)
    \/ Created \/ BecomeDue \/ Hasten \/ DayPasses
    \/ \E w \in Workers :
         \/ Claim(w) \/ ReadPull(w) \/ ReadLists(w) \/ ReadCommits(w) \/ Save(w) \/ Lose(w)
         \/ \E kind \in {"unreachable", "limited", "failed"} : Fail(w, kind)

Spec == Init /\ [][Next]_vars

\* A step of a look, by any worker.
LookStep == \E w \in Workers : Claim(w) \/ ReadPull(w) \/ ReadLists(w) \/ ReadCommits(w) \/ Save(w)

\* What stands in a look's way: GitHub fails, the look is lost, or it outlasts the minute its claim holds.
Trouble ==
    \/ BecomeDue /\ \E w \in Workers : Looking(w)
    \/ \E w \in Workers : Lose(w) \/ \E kind \in {"unreachable", "limited", "failed"} : Fail(w, kind)

\* Looks come due and go on, and trouble does not last for ever.
LiveSpec == Spec /\ WF_vars(BecomeDue) /\ WF_vars(LookStep) /\ <>[][~Trouble]_vars

---------------------------------------------------------------------------
Times(change) == Cardinality({i \in DOMAIN told : change \in told[i]})

\* A comment that a look recorded, past those the first look found, was told exactly once, by
\* whichever worker; one that no look recorded was not told.
CommentsToldOnce == \A c \in Comments :
    Times(<<"comment", c>>) = IF c \in row.state.comments \ baseline.comments THEN 1 ELSE 0

\* The conversation hears once how the watch over its pull request ended.
EndToldOnce ==
    /\ Times(<<"merged", 0>>) = IF row.status = "ended" THEN 1 ELSE 0
    /\ Times(<<"lost", 0>>) = IF row.status = "unreachable" /\ row.state.started THEN 1 ELSE 0

\* Once the watch is over nothing is told of the pull request, whatever look was still under way.
OverIsOver == [][row.status \in {"ended", "unreachable"} => told' = told]_vars

\* A comment on a watched pull request is told, or the watch ends.
CommentsArrive == \A c \in Comments :
    (c \in pull.comments /\ row.status = "watching")
        ~> (c \in row.state.comments \/ row.status # "watching")

\* Each commit past the first recorded head, up to the one recorded last, was told, although the
\* agent pushes too, commits arrive between the requests of a look and an unchanged list says
\* nothing: all but those that a look listed when its head was one the agent had pushed.
CommitsTold == row.status = "watching" =>
    \A sha \in Commits : baseline.head < sha /\ sha <= row.state.head
        => Times(<<"commit", sha>>) > 0 \/ sha \in quiet

\* Comments and the end are told once, and the commits under a head that others pushed are told.
PullsSafety == TypeOK /\ CommentsToldOnce /\ EndToldOnce /\ CommitsTold

\* "GitHub says null while it works it out; only a settled answer counts": a look that finds a
\* conflict where the last settled answer was clean tells it.
ConflictTold == [][settled = "clean" /\ settled' = "conflict" /\ row'.status = "watching"
                     => told' # told /\ <<"conflict", 0>> \in told'[Len(told')]]_vars
============================================================================
