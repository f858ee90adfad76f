# Jian: a TLA+ model of the gateway

Jian is a gateway that runs agents for one owner. People write to an agent in the panel or
through chat channels; every message becomes, joins, answers or decides a *run*; worker processes
execute runs under leases, ask a person before acting, and may die at any await. Around runs the
gateway keeps subagents, schedules, calls between agents, watches over pull requests and a
durable feed of events that every client follows. These modules model that machinery, check it on
small instances with TLC and prove part of it for every instance with TLAPS.

Paths below are relative to `apps/gateway/src/` unless they start with `packages/` or `apps/`.
`PROJECT.json` maps every definition to the lines it translates.

## 1. Inventory

One installation has one database and any number of gateway processes. A process serves HTTP and
event streams, ticks (runs every 2 s, schedules and pull requests every 15 s) and executes up to
four runs at once. Everything that touches a profile is meant to happen in
`store.transaction(profileId, ...)`, which holds that profile's advisory lock
(`storage/postgres.ts`), so a transaction is an atomic step in every module. What makes the system
hard is what happens *between* transactions: between two awaits of a turn, of a tick, of a look
at GitHub or of a stream, any other actor may move, a lease may run out or the process may die.

| Component | State | Operations | Hard behaviour | What makes it correct |
|---|---|---|---|---|
| Run requests (`runs/service.ts`) | `runs`, keyed `messages` | submit, continue, answer, decide, cancel | the same request by two routes, retried, against a turn in flight | a key takes effect once; a parked run is carried on once; limits hold |
| Lease and turn (`runs/lifecycle.ts`, `agent/runtime.ts`) | lease columns, `steer`, `action`; turns in memory | claim, renew, pulse, take steer, ask, pause, finish, fail, recover | leases lapse, workers stall or die, a cancel lands anywhere | one turn per run; no outcome without the lease; an approved action at most once |
| Run queue and executors (`runs/queue.ts`, `runs/executors.ts`) | ticks, slots, pg-boss jobs | tick, send, stop | slots held by turns that wait for other runs; stopping | every run starts, none is sent twice |
| Subagents (`tasks/service.ts`) | `awaitedUntil`, `subagentReportedAt` | spawn, await, report, cancel | a waiting call and several ticks want the same report; the waiter dies | a report is handed on once, and is handed on |
| Schedules (`schedules/`) | `schedules`, `schedule_runs` | create, update, remove, fire, prune | three transactions per firing, several processes, edits in between | a time runs once and is recorded; none is skipped |
| Calls between agents (`peers/service.ts`) | chain, `relayTo` | ask, wait, give up, deliver late | slots, deadlines, joined runs, late answers | answers reach who was promised one; chains end |
| Pull request watchers (`pulls/`) | `pull_watchers` | create, claim, look, compare, save, give up | GitHub moves between the requests of a look; looks overlap | every change is told, once, and own pushes are not |
| Event feed (`core/events.ts`, `http/events.ts`, `storage/`, `packages/ui/src/lib`) | `events`, listener, cursor, socket | record, notify, stream, resume | ids against commits, lost notifications and connections, full sockets | a client hears everything since it came in, once, in order |
| Objectives (`sessions/continuation.ts`, `sessions/objective.ts`) | a session's objective and its count of follow-ups | set, block, close, by command, panel or tool; continue after a turn | messages, reports and edits between a turn's answer and its follow-up; refused follow-ups | a completed turn leaves no open objective idle; follow-ups end |
| Errands (`errands/service.ts`) | `errands` | ask a contact, answer, expire | an answer racing the expiry; one open question per contact; a message that is taken again | the reply reaches the conversation that asked, and is no turn as well |
| Coordination (`coordination/`) | `leases`, `mail` | acquire, release, send | each worker's own clock; stale fences | one holder; fences only grow; mail once |
| Channel intake (`channels/service.ts`, `channels/contacts.ts`, `channels/whatsapp-business-inbox.ts`) | the inbox and its lease, contacts and the text they hold, outbox rows | receive, drain, accept, approve, block, pause, submit, attach | one message is several transactions; it is taken again after a crash or a slow process; pauses and approvals between them | a message reaches the agent once, in order, never across a pause, and is not lost |
| Channel deliveries (`channels/service.ts`, `channels/outbound.ts`) | `deliveries`: status, lines said, next part | attach, say so far, claim, send a part, settle, recover | a send whose outcome is unknown, partial sends, two processes on one row, pauses | each message at most once, an answer in order and whole, every row settles |
| WhatsApp linked devices (`channels/whatsapp/`) | the connection's lease, fence and generation; its saved keys; its inbox; devices in memory | connect, tick, claim, open, save, receive, send, release, disconnect | callbacks of a device that is no longer owned; a process that stalls past its lease | one sender at a time; keys never go back; one phone per generation; messages in order |
| Remote machines (`remote/`, `apps/remote-control`) | `remote_tasks`, the vault's entries for them | queue, look, poll, claim, complete, time out, cancel, sweep, remove | no transaction anywhere; a deadline racing the result; lost polls; dead callers | handed over once, final once settled; no file text or credential stays |
| Devices (`devices/`) | tokens | pair, authenticate, revoke | streams that outlive a request | a revoked device hears no more |
| Storage (`storage/`) | one lock per profile; one connection in the desktop app | transaction, listen, migrate | lock order, the single connection | transactions of a profile take turns |
| Providers, media, memories, skills, MCP, integrations, decisions, web tools, worktrees, settings, releases, telemetry, statistics, desktop, web and UI, contracts | rows or external services | edits and external calls | little of their own | see section 6 |

How they interact: requests write run rows; the queue's tick claims them; a turn's tools spawn
subagents, ask colleagues, write to contacts and drive machines; what those produce comes back as
another request (`submit`) to the conversation, keyed by what produced it; every change records an
event; channels read the outcome of a run and deliver it. `submit` is therefore the one meeting
point, and run rows the one shared state, which is why `Runs` comes first.

## 2. Modules

| Module | Models | State in the code |
|---|---|---|
| `RunRecords` | rows and finders of runs | `runs` and `messages` tables, `AgentRuntime.controllers` |
| `RunRequests` | `Runs` service | one operator per branch of `submit` and per route |
| `RunTurns` | `AgentRuntime.execute` over the lease operations | where a turn stands between two awaits (`pc`), its abort signal and the steer it read |
| `Runs` | the two interleaved: specification, properties, refinement | |
| `ApprovedAction` | abstract: decided once, performed only on a yes, at most once | |
| `RunsProofs` | theorems about `Runs` | |
| `Reports` | what wakes a conversation by itself: subagents, the waiting `spawn_subagent` call and the handoff of the tick; the objective and its follow-up after each turn | `awaitedUntil` against the clock, slots of a process, the batch of a tick; `sessions.objective`, what a tool read of it |
| `ReportsProofs` | theorems about `Reports` | |
| `Handoff` | abstract: handed on in one way, once, when over; reports, messages to a chat and tasks for a machine are all such things | |
| `Schedules` | schedules and `fireDue` | `schedules`, `schedule_runs`, the loop of each process |
| `SchedulesProofs` | theorems about `Schedules` | |
| `Peers` | calls between agents | chain and `relayTo` of runs, the open call, late deliveries |
| `Pulls` | the watch over one pull request | the row, the looks in flight, and GitHub (external) |
| `PullsProofs` | theorems about `Pulls` | |
| `Deliveries` | the outbox: a turn's lines and its answer on their way to a chat | `deliveries` rows, `run_progress`, where each process's `dispatchOutbound` stands |
| `Intake` | what a person writes on WhatsApp Business on its way to a turn, a request or the answer of a question | inbox rows and leases, the contact, its held text, the errand, where each process's `drain` and the owner's `approveContact` stand |
| `IntakeProofs` | theorems about `Intake` | |
| `LinkedDevices` | a WhatsApp device shared by processes | the connection row, its saved keys and inbox, every device opened, each process's tick |
| `LinkedDevicesProofs` | theorems about `LinkedDevices` | |
| `RemoteTasks` | tasks for a machine | `remote_tasks`, the vault, the call, the polls, what the machine works on |
| `RemoteTasksProofs` | theorems about `RemoteTasks` | |
| `EventFeed` | transactions, notifications, one stream and its client | `events`, the listener, the pump, the socket, the client's cursor |
| `ArrivalProofs` | theorems about `Peers`, `EventFeed` and `Deliveries` | |
| `Feed` | abstract: everything since the client came in, once, in order | |
| `MC*` | constants, bounds and symmetry for TLC | |

`Runs` composes `RunRequests` and `RunTurns` over `RunRecords`; `Runs` instantiates
`ApprovedAction`, `Reports`, `Deliveries` and `RemoteTasks` instantiate `Handoff` and `EventFeed`
instantiates `Feed`, each under a refinement mapping. `Reports`, `Schedules`, `Peers`, `Pulls`,
`Intake` and `LinkedDevices` meet `Runs` only through `submit`, and `Deliveries` only through the
status and the words of a run; they keep the part they depend on (joins or starts a run, or
refuses) and not the rest. `Reports` composes two components that share the runs of a conversation,
their slots and what a turn's end means: the subagents and the objective.
Operators whose comment says "A plausible bug" are not part of any specification: each is a
mutation a property must catch.

### How code becomes actions

* A profile transaction is one step. Two store calls without one are two steps, with everything
  else free to happen between them: `takeSteer` reads and then clears (`ReadSteer`,
  `ClearSteer`), `fireDue` starts, records and moves on (`Start`, `Record`, `Advance`), a look reads
  the pull request, then its lists, then its commits (`ReadPull`, `ReadLists`, `ReadCommits`).
* Time is what comparisons with the clock can tell: a lease is live or lapsed, a subagent's hold
  early, late or lapsed, a claim of a look current or overtaken. Only `Schedules` has a clock, since
  its times are compared with one another and with the age of its history.
* A row's text, settings and tokens are abstracted away. A request key is a value of a small set
  that stands for one message; keys the service derives (`ask-answer:<run>`) are tuples.
* Where the code uses no transaction at all (`remote/service.ts`), each statement is a step.
* A component with many independent hazards has a constant `Scopes`: the initial state picks one of
  them, a record that says how many processes and rows there are and what may go wrong, and no
  step leaves it. One run explores every scope, each small enough to be explored to its end, and
  every property is checked in all of them. A bound in a guard is marked `bound:`.
* History variables (`ran`, `heard`, `given`, `lost`, `passed`, `retimed`, `told`, `baseline`,
  `arrived`, `taken`, `late`, `handed`, `nudged`, `stalled`, `excused`, `quiet`, `unanswered`, ...)
  record what happened, for properties; no guard reads them.
* A crash drops what a process holds in memory and keeps every row; a process may continue at
  once as a new one.

Details worth knowing when reading `RunRequests`: a sender is the owner in the panel, an
"approver" (a chat the owner lets decide), or any other source (a contact, a schedule, a report, a
nudge); a message may answer a question, join a waiting turn, decide an approval, steer a turn in
flight or start a run, in that order, and a refused or repeated request changes nothing and
therefore is no action. In `Pulls`, the row's version number is abstracted: a look is *current*
while nothing claimed or changed the row after it.

## 3. Runs of the model checker

Passing runs, each one component, or one composition, with its safety, its refinement and its
liveness together:

| Run | Shows | Bounds |
|---|---|---|
| `runs_requests` | `TypeOK`; `RunsSafety`: `KeyOnce`, `OneContinuation`, `DecidableApproval`, `ExtraTurnsAreDecisions`; `TerminalStays`, `SteerKept` | 1 worker, 1 chat session, 3 client keys and 1 panel key, 3 runs (a run, its continuation and a competing one), a limit of 2 |
| `runs_workers` | `IInv`, `OneTurnPerRun`, `ActiveCap`, `LapsedIsSilent`, `OrphansEnd` (liveness), and that `Runs` implements `ApprovedAction` | 2 workers, so a lease can lapse under one while the other recovers; a panel and a chat session of one profile with a limit of 1; 3 runs |
| `reports_once` | the handoff implements `Handoff` (`OnceOver`); `ReportsArrive`, `ChildrenStart` (liveness); `ReportsSafety`: of the objective, `GoesOn` and `NudgesEnd` | scopes: 2 processes that tick, one with a slot, around 1 child and 3 turns; 1 process, 2 children, 3 turns; an objective with 1 child and 2 turns; an objective alone with 3 turns. Batches of 2, a conversation that may be deleted, 1 follow-up, 2 goals |
| `schedules_once` | `SchedulesSafety`: `OncePerDue`, `PassedIsRecorded`; `DueIsTried`, `DueMovesOn` (liveness) | 2 processes, 1 schedule, 3 instants, a repetition due at each; history kept for the instant it was made in (`HistoryFor` 0: the first tick after that forgets it) |
| `peers_once` | `PeersSafety`: `LateOnlyWhenTold`, `ChainsEnd`; `AsksEnd` (liveness) | 3 agents, a person writing to two of them, 3 runs, 2 slots |
| `pulls_once` | `PullsSafety`: `CommentsToldOnce`, `EndToldOnce`, `CommitsTold`; `OverIsOver`, `CommentsArrive` (liveness) | scopes: 2 workers whose looks may be overtaken, 1 comment, 1 commit, 1 change of the checks or the mergeability; 1 worker, 3 commits by the agent and by others |
| `deliveries_once` | `DeliveriesSafety`: `AnswerInOrder`, `KeptIsTold`, `PauseHolds`; that the messages implement `Handoff` (`ToldOnce`), `Settles` (liveness) | scopes: 2 processes on one turn of 2 lines and an answer in 2 parts, the channel paused and resumed; 1 process and 2 turns of which a tick reads the first |
| `remote_tasks` | `RemoteTasksSafety`: `EndedIsUnclaimed`, `NoTextLeft`, `SecretGone`; that tasks implement `Handoff` (`HandedOnce`), `SettledStays`, `CallsEnd` and `DeadAreSwept` (liveness) | scopes: a task of each of the 5 kinds under 2 polls; each under 1 poll on a machine that may be removed; a command behind another |
| `devices_once` | `LinkedDevicesSafety`: `SessionIsCurrent`, `OneAccount`, `SendsAlone`, `TurnsInOrder`, `NoneLost`; `NeverGoBack`, `Settles` and `HeldAgain` (liveness) | a lease of 2 ticks of the clock, a send that takes at most 1; scopes: 2 processes that stall over a message whose channel the owner pauses and resumes; 2 processes that stall over 2 messages when there may be no model; 1 process, 2 messages, no model, and an owner who pauses and resumes; an inbox left behind by a new generation, with a message nobody can take; a full one; a phone replaced by another; one disconnected; keys that move on; processes that send, drop, stop and die |
| `intake_once` | `IntakeSafety`: `ReachesOnce`, `PauseHolds`, `NoneLost`, `TurnsHaveRows`; `TurnsInOrder`, `Settles` (liveness) | scopes of 1 or 2 processes and 2 or 3 messages: a stranger approved, ignored or blocked while the channel or the contact is switched; a request that is full; someone let in whom the agent asks once or twice; failing submissions and 1 crash; submissions that find no model, with 2 processes, with a question of the agent's and with a pause |
| `feed_once` | `EventFeedSafety`: `NothingWaits`; that `EventFeed` implements `Feed` (`KeepsPromise`), `EventsArrive` (liveness) | 2 transactions, 4 ids, pages of 3, a socket that is full with 2, so that it may be full before the end of a page that is itself not full |

What holds in every state of a module is one conjunction, `<Module>Safety`, of its `TypeOK` and the
parts the table names after it; each part has a mutation of the code in `PROJECT.json` that breaks
it. `Runs` is the exception: its `TypeOK`, and the invariants that are proved, are checked by
themselves. The bounds are small because the hazards are: they need two actors and one or two rows,
and a third row for what comes after. What a bound hides is named here: `reports_once` never has
more hopeless reports than its batch, no objective meets two processes (each turn's end is a step of
one), a run of `intake_once` has one crash, and the resumed turns of `runs_workers` come from
decisions and answers only, since each session has one client key there (steering is in
`runs_requests`). Symmetry is used for workers and keys in `runs_requests` alone, which has no
liveness property. Deadlock is not checked: in every module the bounded supply of rows, ids or
instants runs out, and every one of these systems may really be at rest.

One run ends in a violation: it checks a sentence of the repository that the code does not keep,
which `PROJECT.json` quotes with its line.

| Run | What TLC finds |
|---|---|
| `deliveries_window` | a turn that says more lines than it keeps: the later ones never go out, and an answer that repeats the last of them is taken for said, so the chat never gets it (`SentIsTold`). `KeptIsTold`, which `deliveries_once` checks, is the same promise for the turns that keep all they say; with the lines that run explores, the two say the same |

### Where the code and its comments part

Met while modelling; the models behave like the code, and these are the statements they do not
satisfy. Where a property is named, it is defined in its module and adding it to the run's
configuration makes TLC show a behaviour; the others were read in the code, and some of them lie
in what the models leave out.

Runs:

* "A session admits one run at a time" (`runs/repository.ts:302`): a message starts a run while an
  approval waits, and the decision queues another without looking. `ExtraTurnsAreDecisions` says
  exactly how far the sentence holds.
* "a stale owner must never write" (`runs/lifecycle.ts:30`): `say` guards only the commentary
  column and inserts the conversation message whoever holds the run, also after a cancel
  (`runs/lifecycle.ts:149`). `LapsedIsSilent` covers outcomes only.
* "is read between its steps" (`runs/service.ts:369`): a message that joins a run after its last
  step is never read. `SteerKept` says only that it is not wiped before a step took it.
* "Only a lease lost to another owner stops the turn" (`agent/runtime.ts:630`): a beat that finds
  its own lease lapsed aborts the turn (`Pulse`).
* Stopping the gateway (`runs/queue.ts:77`): while a dispatch is pending, `LocalExecutor` may start a
  waiting run after the runtime aborted its turns and before the executor is told to stop.

Subagents and objectives:

* "a crash cannot lose ... the principal's wake-up" (`tasks/service.ts:213`): a report that joins a
  turn whose process is dead is lost with it (`WakeUpKept`, `reports_once`).
* "Its report will arrive" (`agent/tools.ts:427`): reports whose conversation was deleted fail for
  ever, and a batch of them, the oldest, keeps the later ones from being looked at
  (`runs/repository.ts:44`).
* "Open objectives must not wait for the owner to say continue" (`agent/runtime.ts:2500`): a
  failed, interrupted or cancelled turn, a refused follow-up (a full profile), a crash or a stop
  between the answer and the follow-up leave an open objective idle. These are exactly the cases
  `GoesOn` excuses (`stalled`).
* The tools that block or close an objective read it and write it back apart
  (`agent/tools.ts:297`): a goal the owner gave meanwhile is lost (`GoalsKept`, `reports_once`).
* "Replying while it's `blocked` resumes the earlier goal" (`CHANGELOG.md:1029`): a reply taken while
  an approval waits goes through `resumeApproval` (`runs/service.ts:329`), which never looks at the
  objective, and neither does a command written then.
* "since the last human or explicit tool status change"
  (`packages/contracts/src/profile.ts:427`): a status set from the panel keeps the count.

Schedules, calls and watchers:

* "Each one runs once for the time it was due, however late the gateway is to it"
  (`schedules/service.ts:241`): an edit between the due time and the tick, a new name even, drops
  that time. `DueIsTried` excuses it (`retimed`).
* "Past it the call is not lost" (`peers/service.ts:57`): a colleague's late answer is lost when its run
  joins another, dies, or is refused between the cleared address and the submit (`LateAnswerKept`,
  `peers_once`).
* "no circle can form" (`peers/service.ts:173`): a late answer opens a turn without a chain, a new
  question joins the colleague's run, and two agents wait in a circle, until the deadlines end it
  (`AsksEnd` holds).
* "only a settled answer counts" (`pulls/changes.ts:199`): "unknown" recorded over "clean" hides the
  conflict that follows (`ConflictTold`, `pulls_once`).
* "exactly what changed", "never of the agent's own push" (`pulls/service.ts:55`,
  `tests/pull-watchers.test.ts:267`): the list of commits is read after the head. A commit pushed in
  between is told by that look and, if the list has grown again by then, by the next one too, since
  it is past the head recorded (`pulls/look.ts:133`); the agent's commits under someone else's head
  are told. Someone else's commits listed under a head the agent pushed are not told, and if such a
  commit is the next head, GitHub answers the list with 304, nothing is compared
  (`pulls/changes.ts:203`), and it is never told at all. `CommitsTold` is what remains, with exactly
  these excused (`quiet`).

Channels:

* Lines taken while the adapter fails are lost, as is an answer that repeats the last of them,
  though "Offline deliveries stay pending" (`channels/service.ts:1911`); with two processes a line
  may land after the answer. `SentIsTold` and `KeptIsTold` excuse only lines lost on the way.
* "the chat is told why nothing answers" (`channels/service.ts:1310`): a message kept in the
  conversation because one process found no model may still be submitted by another that took the
  same message and stalled before it looked for one. It is then in the conversation twice and gets a
  turn after all, later than its place in the order, and on WhatsApp Business, where the event is
  settled by then, perhaps without its row in the outbox. `TurnsInOrder`, `NoneLost` and
  `TurnsHaveRows` excuse the messages so kept (`unanswered`), and without the excuse TLC finds each
  of them violated.
* A question only the panel should get is sent to the chat when it is answered before the tick
  (`channels/service.ts:1876`).
* Twenty pending rows that cannot be sent are read first at every tick and keep all others waiting
  (`channels/service.ts:1814`). `Settles` holds because what keeps them back ends.
* "A pause acknowledges old inbound work rather than replaying it on resume"
  (`channels/service.ts:545`): approving a contact while the channel is paused and resumed submits the
  text held before. `PauseHolds` excuses it.
* A relay that fails after its submission tells the answer twice; a channel paused between an
  answer and its relay closes the question with nobody told; an event whose first attempt made a
  turn and which is taken again once a question was asked is taken as its answer too; a failed
  attempt holds the whole channel back for the ten minutes of its lease; a request whose held
  text is full drops the next messages silently.
* A question nobody answered in time still refuses the next one until the contact writes
  (`errands/service.ts:184`).
* A device that drops gives its row up, for it to be opened again five seconds later
  (`channels/whatsapp/connections.ts:390`), but a process that read the row before its device dropped,
  and claims it after, renews its hold on a dead device for ever (`NeverStuck`, `devices_once`;
  `HeldAgain` excuses it).
* "A dropped last write unpairs the device on the next start; never leave one pending"
  (`channels/whatsapp/driver.ts:275`): a device that is given up because it failed has its row marked
  unwanted first, and the write is refused.

Remote machines:

* A caller may be told "offline" while the machine has just claimed the task and runs it
  (`remote/service.ts:688`); the caller of a removed machine waits its whole limit.
* "each fails and gives up the file text it holds" (`remote/service.ts:447`): a process that dies
  between the two statements leaves the text (`DeadLeaveNoText`, `remote_tasks`); a credential of a
  caller that died stays in the vault, and a command queued by it runs.

Event feed:

* "Subscribe before reading" (`http/events.ts:154`): when the socket is full in the middle of a page
  shorter than `EVENTS_PAGE`, its rest waits for the next notification or heartbeat.

## 4. Fairness

Safety properties need none. The liveness properties assume:

* `Runs!LiveSpec`: an abandoned lease lapses (time passes; 60 s) and some worker's recovery of a
  run happens if it stays due, as the tick of `runs/queue.ts` calls `recover` every 2 s. Nothing is
  assumed of turns: `OrphansEnd` is about runs nobody works on.
* `Reports!LiveSpec`: weak fairness of the steps that carry runs forward (`Progress`: a slot that is
  free is given to a queued run, turns and children end by their budgets or the stall watchdog, a
  finished turn's process goes on to `continueAfter`, a waiting call polls, time passes, the dead
  are recovered) and of the ticks and what they look at (`Dispatch`); refusals of a handoff, by a
  profile at its limit or a failing database, do not go on for ever. One condition for each group is
  enough: a behaviour has finitely many `Progress` steps, and a tick reads all it has.
* `Schedules!LiveSpec`: strong fairness of the steps of `fireDue`: the tick comes every 15 s, a
  process that died is started again, and does not die at the same point for ever.
* `Peers!PeersLiveSpec`: a call looks again (250 ms) and its deadline (45 s) comes.
* `Pulls!LiveSpec`: a watcher becomes due each minute, looks go on, and what stands in their way
  (GitHub failing, a look that is lost, a look that outlasts the minute its claim holds) stops at last:
  a watch that only ever fails tells nothing, and gives up after a day.
* `Deliveries!DeliveriesLiveSpec`: turns end and get their row; each process dispatches on (a tick every
  2 s, a send ends by its time limit); a row left "sending" is recovered once the minutes it is given
  are over; and the trouble ends (`<>[][~Trouble]_deliveriesVars`): processes stop dying, channels and devices
  come back, the network stops refusing.
* `RemoteTasks!LiveSpec`: a call takes its steps (`waitForTask` looks on until its limit), time passes
  and some process sweeps. Nothing is assumed of the machine.
* `LinkedDevices!LiveSpec`: each process that is up ticks on (every 2 s), a process that leaves
  releases what it holds, a send ends by `DEVICE_SEND_TIMEOUT_MS`, time passes, a device
  that was stopped ends; submissions do not fail for ever.
* `Intake!LiveSpec`: processes drain on, leases lapse (10 minutes), submissions do not fail for ever.
* `EventFeed!LiveSpec`: a client comes back; its connections hold long enough, again and again,
  for the stream to take each step and the client to receive; the heartbeat comes.

## 5. Proofs

Eight modules hold theorems, about ten components. Each component is proved for every value of the
constants, from the one named assumption of its module, which TLC evaluates in its runs. Each proof
names an inductive invariant, shows that it holds at first and is kept by every step (`Invariance`),
and draws the safety, the action properties and the refinement from it. `ArrivalProofs` extends
three components that share no state; that is why the specification of `Peers` has the names
`PeersInit`, `PeersNext`, `PeersSpec` and so on, and that of `Deliveries` likewise. TLC checked
every one of these invariants on the instances of section 3 before it was proved.

| Module | Proved | Invariant |
|---|---|---|
| `RunsProofs` | `TypeCorrect`, `SingleTurn`, `RunsSafe`, `CapKept`; `EndedStays`, `LapsedStaysSilent`, `SteeredIsKept`; `ApprovalKept`: `Runs` implements `ApprovedAction` | `IInv`, `JInv` |
| `ReportsProofs` | `ReportsSafe`; `HandedOnce`: `Reports` implements `Handoff` | `RInv` |
| `SchedulesProofs` | `SchedulesSafe`; `NoneIsSkipped` | `SInv` |
| `RemoteTasksProofs` | `RemoteTasksSafe`; `SettledForGood`; `HandedOverOnce`: `RemoteTasks` implements `Handoff` | `TInv` |
| `PullsProofs` | `PullsSafe`; `OverStaysOver` | `WInv` |
| `IntakeProofs` | `IntakeSafe`; `OrderKept` | `CInv` |
| `LinkedDevicesProofs` | `LinkedDevicesSafe`; `KeysNeverGoBack` | `LInv` |
| `ArrivalProofs` | `PeersSafe` | `PInv` |
| `ArrivalProofs` | `EventFeedSafe`; `PromiseKept`: `EventFeed` implements `Feed` | `FInv` |
| `ArrivalProofs` | `DeliveriesSafe`; `EachToldOnce`: `Deliveries` implements `Handoff` | `DInv` |

The proofs are laid out alike. Operations are sorted by what they do (`Calm`, `Closing`, `Parking`; a
process that moves and changes nothing else; a step after which nothing is held): one lemma per
operation shows that it is of its kind and keeps the types, and one lemma per kind, or per part of
the invariant, shows that the invariant stays.

**Runs.** `RunAssumption`: the no-owner value is neither a worker nor a session, chat sessions are
sessions, the keys of messages are not those the panel draws for its own requests
(`crypto.randomUUID`), the bounds are numbers. One turn per run rests on `Claim` taking only queued
runs and on a queued run having no turn in it (`Unclaimed`). At most one execution of an approved
action needs more: the action sits on one row (`OnlyChild`: a decided run is carried on by one run),
that row's turn has not run it before it passes the point where it does (`NotYetRun`), only one turn
is in that row, and the action is spent before it starts, so a crash loses rather than repeats it.
That it never runs without a yes is `Allowed`, which needs that asking and deciding stay with the
parked row (`AskedWhenParked`, `DecidedIsCompleted`) and that a run is carried on only once ended
(`ParentEnded`). `JInv` adds what the requests rely on. That a second run beside a busy one of its
session comes from a decision (`ExtraTurnsAreDecisions`) compares two rows; it follows from counting:
a run has no more older busy runs beside it than its session has decisions (`Orderly`), since a
message starts a run only beside none, and a decision adds one. A parked run asks for something and
has no turn left in it (`ParkedAlone`), and rows are created in order (`Dense`). That a terminal row
stays, that a lapsed owner writes no outcome and that a steered message is not wiped unread are
facts about single steps, taken from the kinds.

**Reports.** A report is handed on by the call that waits for it or by the tick, and both lock the
row: what the call is about to claim is still there (`Claimable`), and nothing was given that is not
marked as reported (`Marked`). Of the objective, `GoesOn` is inductive once every turn that exists is
known to have a conversation (`Placed`), and nudges end because the count of a goal is at least the
nudges since anybody spoke of it (`Counted`).

**Schedules.** `OncePerDue` follows from the key of a run being the time it was due (`KeyIsDue`) and
`submit` returning the run a key already has. `PassedIsRecorded` needs to know what a process that
read its schedules outside any lock still holds: schedules that were there and due, each once
(`InHand`), and, before it moves one on, an entry for that time in the history, unless the owner
removed the schedule meanwhile (`HandRecorded`). That this stays true under the other processes and
the owner is `Ages`: no step brings a schedule back, and none drops a history entry of one that is
kept, but for its age (`Aged`). `NoneIsSkipped` (`DueIsTried`) goes over the steps that could let a
time go by: the owner's say so in `retimed`, pruning takes only schedules that are switched off, and
`Advance` touches the row only if its time is still the one that is in the history (`HandRecorded`,
`Unmoved`). "In the history" means `Recorded`: the entry is there, or was made longer ago than
history is kept (`HISTORY_DAYS`, the constant `HistoryFor`), for `fireDue` forgets such entries.

**Remote machines.** Every statement of the code stands alone, so the invariant says what holds
between them. A task a poll claimed is that poll's alone, was handed to nobody, and is running, given
up or gone with its machine (`HeldByOne`): that is why the unguarded write of `failClaimed` never
overwrites an answer. What is handed over has left its text and its credential behind (`Opening`),
and only what was handed over is worked on or answered (`Answered`). How far each kind of call has
cleaned up is `Cleaned`. `StatusesGoOn`, that a status only goes one way, gives both
`SettledForGood` and the refinement.

**Calls between agents.** An address on a run, or in the hands of a delivery between two of its
transactions, was promised (`Promised`), so a late answer goes only where one was promised. That no
chain asks an agent twice or grows past `AGENT_CALL_DEPTH_LIMIT` is `Short`, which holds of the chain
every run carries, not only of those that ask.

**Pull requests.** The argument is about the one look that is current (`OneCurrent`): it still goes by
the row as it stands (`Current`), so what it tells is exactly what it adds to the row, and a look that
was overtaken writes nothing. A head is never older than the row's (`LooksAhead`), what is taken for
the agent's own push is one (`OwnPushes`). That a commit is told although GitHub may answer the list
with 304 needs to know what the ETag stands for: everything on the list as it was read then was told,
or listed under a head of the agent's own (`ListedTold`), so an unchanged list holds nothing to tell.
`CommitsTold` follows, since what is recorded as the head was on a list read after it.

**Channel intake.** A message may be taken by several processes, held for the owner, released and
submitted, each in transactions of their own. Two facts carry the proof. All that is held, is being
released, or ever was released of the person's request is one and the same request (`OneRequest`);
and a process past the transaction that let a message in carries a message that, if the request has
it at all, is the whole request (`Alone`), because messages are taken in order and a later one is
only added once the earlier is crossed off (`InTurn`). So a message cannot be in a turn of its own
and in an approval's (`ReachesOnce`). A message that is not crossed off was written since the last
pause (`Fresh`), which is why a process that finds it uncrossed is on its side of every pause.
Whatever is crossed off is in the request, in a turn with its outbox row, in an answer, was kept in
the conversation for want of a model, or was put aside (`Done`). Proving it showed two things the
bounded runs did not: a request must have room for its first message whatever its length, which
`Limits` now says as the code does, and `TurnsHaveRows` holds without excusing a process that is
about to add the row.

**Linked devices.** The first half of `LInv` is about the row, the second about the inbox. A
generation and a fence belong to one device, or to one tick that has yet to open it (`Fenced`), so of
all devices at most one is still at the row's. That one may save, and what is saved of its pairing is
never newer than what it has (`Kept`): this gives `SessionIsCurrent` and `KeysNeverGoBack`, since a
save compares the generation and the fence in its own statement. Whoever sends has the row for longer
than the part takes, or its generation is over (`Alone`), and then nobody opened the device later. The
row remembers the phone that spoke in its generation (`Spoken`). Of the inbox, everything that
became a turn has nothing open before it (`InTurn`), and an item is crossed off for a reason: a turn, no
model, a refusal, a pause or resume, a later generation (`CrossedOff`). A process in the middle of its tick
goes by a list it read (`ListedAt`) and an item it is at (`InHandAt`), and either lost the row or still
has every older open item to do. That the last two speak of a pause since the list was read is where the
code's second look, in the transaction that submits, is needed.

**Event feed.** Ids are committed in the order they are drawn because only the holder of the lock has
drawn any that are not committed (`Committed`). From the client's cursor through the socket and the
page to the stream's cursor, each event is the next after the one before it (`Linked`), so what a
client heard is the log from where it came in (`Heard`), across lost connections. `NothingWaits` needs
that while no notification is on its way, the page a stream read, if it was not full, reaches the end of
the log (`Fresh`).

**Channel deliveries.** Any number of processes read the same rows outside any lock, and a process
that was taken for dead may come back with a message in its hand. The lines and the answer are kept
to one process each by different means. The count of lines said goes up in a transaction before any
of them leaves, and what a turn still keeps comes after all that was taken before (`TakenIs`), so no
line is in two hands, and none that is in a hand is in the chat (`SayingIs`, `Apart`). An answer
leaves only from the process that claimed the row, and the row of a process that sends stays
"sending" or becomes "unknown" until that process settles it (`SendingIs`): recovery never puts a
row back, and a refusal does only while no part is in the chat (`RowIs`), so there is never a second
sender (`Apart`) and nothing of an answer is there before it starts. The parts in the chat are then
exactly those before the sender's next one: `AnswerInOrder`, however the row fares meanwhile. That a
row which reads "sent" has its answer there (`KeptIsTold`) is this for an answer in words of its own; for
one that repeats the last line it needs that a row is claimed only once its still turn has no line
left to take, from the row's count or from what the process read of the turn (`ReadIs`).
A switch of the channel stops every turn begun before it, so a process that has landed one message
past the switch finds the next one denied (`Held`): `PauseHolds`. The refinement takes for handed on
what is in the chat, as often as it is (`TimesTold`), and for there to be handed on what a turn has
said or has as its answer (`Produced`): a landing message was produced, is not there yet, and is
handed on by that step; no other step touches the chat. The proof needed no sequence to be
sorted: the row a tick goes on to is the oldest of the set it read, which is all the order there is.

Every safety and action property of the passing runs is thereby a theorem, and so is every
refinement. What stays with TLC is every liveness property, since fairness and `ENABLED` are out of the
prover's reach, and the counterexample of `deliveries_window`. `Settles` of `Deliveries`, for one,
is checked for two processes and two turns and not proved.

## 6. What is not modelled

* Inside a turn: the prompt, the choice of tools, compaction, budgets and the provider. A model
  call answers, asks, pauses or fails. Tools have one effect that is modelled, the approved action.
* In `Reports`: parked conversations (so also the reply that resumes a blocked objective through an
  approval), paused channels, spawn keys and stored artifacts. A turn blocks or closes an objective
  at most once; a turn that fails is told apart from one that answers only where there is an objective.
* In `Deliveries`: notices, reactions, media, edits of messages and what other agents are shown.
* In `Intake`: rooms, reactions, quotes, media, the notice to a stranger and the one that there is
  no model (at most every ten minutes, which each process remembers in memory), the revocation of a
  channel, which stops its automation for good as a pause does for a time, and the channels whose
  messages do not come through the inbox of WhatsApp Business.
* In `LinkedDevices`: QR codes, pictures, typing, media, the revocation of a channel and the notice that
  there is no model. The clock does not move past the limit of a part that is being sent: `SendsAlone`
  assumes that a process which stalls does so before a part or after it, since the time limit of a part
  is the process's own timer.
* In `RemoteTasks`: registering a machine, rotating its token, and the worker itself, which is the
  environment: it may answer late, never, or have died.
* In `Schedules`: running one now, history pages, daylight-saving times.
* In `Peers`: a run has one open call, while a model may open several at once; retried request keys;
  records of the transcript.
* In `Pulls`: reviews and line comments are comments, one check stands for all, no force pushes and no
  pages. Of the ETags only that of the list of commits is kept: for the other lists an answer of 304
  is the list as it was, and the model reads them again.
* In `EventFeed`: live progress without ids, the limit of streams and of bytes (a stream may close
  at any time instead), the check of a device's token at a heartbeat, and the deletion of a
  profile's events when the owner resets it (`profiles/reset.ts:32`), after which a stream goes on
  with what comes next.
* Coordination (`coordination/`): a lease of a resource is one statement on one row, a release
  compares the fence in its transaction, and a message between sessions is one insert by a unique
  key. No operation spans two transactions; what is left is which clock a process reads, and the
  fence answers that. Its theorem (fences only grow) is in the plan.
* The order of stopping, pg-boss and its jobs: only that a queued run is claimed by somebody is kept.
* Components that are rows edited by one person in single transactions, calls of external services
  or pure text processing (providers, media, memories, skills, MCP, integrations, decisions, web
  tools, settings, releases, telemetry, statistics, SSH keys) and the desktop, web and mobile
  clients have little a model checker would find.

## 7. Plan

Done: `Runs`, `Reports` with the objective, `Schedules`, `RemoteTasks`, `Peers`, `Pulls`, `Intake`,
`LinkedDevices`, `EventFeed` and `Deliveries` with their proofs.

Next, of the code: leases and mail of Coordination, the order of stopping, parked conversations in
`Reports`, rooms in `Intake`, notices in `Deliveries`.
