# A TLA+ model of modeloff

modeloff is a terminal program that runs an IRC-like server for one human and any number of LLM
"model" clients. This directory models its concurrent core: what TLC checks on small instances, what
TLAPS proves for all of them, and what is left out.

* `tlc -config <run>.cfg MC<Module>` runs a check; `tlapm <Module>Proofs.tla` checks the proofs.
* `PROJECT.json` lists the components, the runs, the source lines each definition translates, the
  hazards the properties are for, the mutants that show each property can fail, and the findings.

## The system

One process. `main.go` opens the store, builds the model manager and the session, attaches the
user-client, starts the manager (which attaches the stored models), then runs the UI; the UI calls
`Session.Connect`. On exit it drains the handlers, detaches the models, shuts the session down and
drains the user-client under one deadline.

| Component | State | Operations | Talks to |
|---|---|---|---|
| Command loop (`session/writer.go`, `handler.go`, `actions.go`) | an unbuffered job channel | JOIN, PART, KICK, INVITE, MODE, TOPIC, NICK, PRIVMSG, QUIT, KILL, ADDMODEL, WHOIS, LIST ... | every handler hands the loop a job and waits for it |
| Channel records (`channel_state.go`, `channel_window.go`) | live map, generations per name, invitation generations | load on demand, install, destroy, reload | store, under one mutex |
| Client handles (`session.go`, `client.go`) | handles, subscribers, connection and turn generations, window epochs | attach, subscribe, activate, reap | pump, reaper, model manager |
| Send queue (`client.go`) | backlog, flags, `events` channel, wake token | queue, peek/send/advance, seal, drain, close | producers, reader, teardowns |
| Fan-out (`fanout.go`) | none of its own | plan recipients, lock subscriptions, commit scrollback, queue | store, send queues |
| Store (`store/`) | SQLite tables, registry of canonical instances | one transaction per command | - |
| Model client (`modelclient/`) | per-window history, running batch, retry timer, journal queue | dispatch, turn, tools, retry, compaction | session (as a protocol client), API |
| Model manager (`modelmanager/`) | attached, draining and forgotten clients, catalogue, reflections | attach, detach, forget, drain all, reflect | session, store, memory |
| Poke loop, flood control (`poke.go`, `flood.go`) | penalties, back-off | charge, wait, poke | handlers |
| User client (`userclient/`) | autojoin list, event relay | attach, join, relay | session, UI |
| UI (`ui/`), configuration, API client, memory index, observability | view state, files, HTTP | - | user client |

What is hard here:

* **Concurrency.** Commands are serial, but subscriptions are filled by many goroutines, emptied by a
  pump that holds no lock while it blocks, and torn down by several paths at once. Readers of channel
  records fill the live map at any time. ADDMODEL, KILL and Connect are several jobs of the loop.
* **Two copies of everything.** A membership is in the live window, the stored row, the client's
  channel set and the stored instance; nicks are copied into every member list.
* **Failure.** A refused departure must leave things as they were; a forced one must go on without
  the store. The process can stop between any two transactions.
* **Identity over time.** Names come back: a channel after it was destroyed, a client under the same
  id, a nick. Generations and epochs tell the incarnations apart.

## Modules

| Module | Models | Runs |
|---|---|---|
| `DeliveryStream` | abstract: the one ordered stream a subscription promises | (refined by `SendQueue`) |
| `SendQueue` | the outbound half of a subscription and its teardowns | `SendQueue`, `Live` |
| `SendQueueProofs` | theorems about `SendQueue` | TLAPS |
| `Channels` | channel and client records, their stored copies, start and restart | `Records`, `ChannelsEmptied`, `ChannelsNick` |
| `MCRecords` | `Channels` or `Replay`, one at a time | `Records` |
| `ChannelsProofs` | theorems about `Channels` | TLAPS |
| `WindowGuard` | guards of a model's turn, the jobs that end their authority, the journal's rows | `Turns`, `WindowGuardGone` |
| `WindowGuardProofs` | theorems about `WindowGuard` | TLAPS |
| `Dispatch` | a model client's loop: bursts, batches, turns, retries, interrupts | `Turns`, `Live` |
| `DispatchProofs` | theorems about `Dispatch` | TLAPS |
| `Persona` | one instance's stored persona: inbox, lineage, revisions, experiences, amendments, retention | (extended by `Reflection`) |
| `Reflection` | schedulers, workers, the mode, operator commands, deletion and clean-up around it | `Reflection`, `ReflectionForgotten`, `Live` |
| `ReflectionProofs` | theorems about `Reflection` and `Persona` | TLAPS |
| `Lifecycle` | attachments, handlers, reapers, drains and deferred clean-ups of the model clients, around start and shutdown | `Parts`, `Live` |
| `LifecycleProofs` | theorems about `Lifecycle` | TLAPS |
| `Replay` | attach snapshot, live fan-outs and dispatch indicators against one client's subscription | `Records` |
| `ReplayProofs` | theorems about `Replay` | TLAPS |
| `Migrations` | opening a store of any age: the first schema, the steps to the present one, what they do to the rows | `Parts` |
| `Summary`, `JournalQueue` | the transcript and its summaries; the queue of the turn journal | `Parts` |
| `Retention` | the growing tables of the store, the transactions that write and clear them, and the pass that bounds them at start | `Parts` |
| `MemoryIndex` | the memories of an instance and the vector index over them and its experiences | `Parts` |
| `Flood`, `Poke` | the command penalty, the +f count of a channel; the poke cycle and its back-off | (in `Pace`) |
| `Pace` | either of the two, and what they promise together | `Parts` |
| `PaceProofs` | theorem about `Flood` and `Poke` | TLAPS |
| `CommandLine`, `ToolSchema` | typed commands and their completion; the schemas of tools and the reading of calls | `Parts` |
| `ModeText` | the modes of a channel as lines and calls | `Parts` |
| `WindowFocus`, `WindowLines`, `UserClient` | which window the chat screen shows, what its windows hold, and the list of channels the next start joins | `Parts` |
| `MemberView` | what the server tells the user of a channel's members, and the screen's list of them | `Parts` |
| `RichText`, `Composer` | the styled text of the input line and its encoding; the line itself, its history, completion and suggestions | `Parts` |
| `MessagePane`, `Sidebar`, `Layout` | the pane of a window's lines, its caches and divider; the lists of windows and nicks; where they are | `Parts` |
| `Settings` | the /config settings: the file, the commands that change it, what runs by them and what the screen keeps | `Parts` |

### SendQueue

The state is the fields of `serverClient` and `subscription` under `outMu`, one program counter for
the pump and one for each teardown. Everything done under `outMu` is a step; the pump's peek, send and
advance are three, since it blocks on the channel with no lock held. A delivery is its position in the
order of offers plus whether it is terminal. `Thinned` stands for whatever `Activate` removes. A forced
departure (KILL, overflow, dead consumer) whose deletion and every append of the QUIT fail sends no QUIT, to the client
that leaves either (`CommitSilently`, after `emitQuit`'s `closingDeliveryAllowed`): that client reads the
ConnectionError alone, although `actions.go:831` says a client is told what happened to its own connection.

| Property | Says |
|---|---|
| `InOrder` | the client reads in the order of the offers: the direct path never overtakes the pump |
| `NoHoles` | once an ordinary delivery was turned away no later one is accepted |
| `Bounded` | live ordinary traffic waits within the allowance |
| `ClosingClientTold` | the teardown that drains the connection queued every closing event it sent first, the QUIT among them unless nothing could record it |
| `DrainLosesNothing` | a graceful close discards nothing it accepted |
| `UserMissesNothing` | the user's queue refuses nothing while the session runs (proved, not run) |
| `ImplementsStream` | queue, channel and pump together are a `DeliveryStream` |
| `QueueMoves`, `OverflowCloses`, `TeardownEnds` (run `Live`) | no wake-up is lost; an overflow ends the connection; a teardown completes |

Bounds: a channel of 1, an allowance of 1 and 2-3 offers fill each buffer, overflow once and leave one
delivery behind; one teardown of each kind next to the overflow's makes every pair race. Fairness: the Go
scheduler runs a runnable goroutine, so the pump, a begun teardown and a claimed overflow go on; the
client reading is the consumer loop of `modelclient` and `userclient`; the attach that activates is
bounded. Nothing is assumed of producers.

**Proved** (`SendQueueProofs`, from `SendQueueAssumption` alone): every property of the run and
`UserNeverRefused`, for every buffer, allowance and set of teardowns. `Bounded` is
inductive beside `TypeOK`. `InOrder` is not: the pump copies the head of the queue and sends it
later, so the proof needs `PumpCoherent`, that what the pump holds is still the head while nobody closed
the queue and that a blocked replay has sent nothing; and `Fresh`, that every number in the pipeline was
offered already. `UserNeverRefused` is `UserMissesNothing` for every
instance of the user's subscription. Each step is reduced by `StepKinds` to one of six effects on the pipeline. The
refinement proof reuses these: a step extends the pipeline by one, moves the read mark, thins it before
anything was read, or cuts it short at a close, and each of those is a step or a stutter of `DeliveryStream`.
`CloserHeard` rests on `TellsAll`: while the handle is registered and the session runs the queue takes
terminal deliveries, so a teardown's count of accepted events follows its program counter.

### Channels

`live` and `gen` are `channelState`; `rows` and `insts` the two tables; `handle` the canonical
`*domain.Instance`; `conn` the connection of each handle. A command with one store transaction is one
step that succeeds or fails as a whole. A forced departure (KILL, overflow, a discarded ADDMODEL) and the
reconciliation of Connect make several transactions, so they are a `job` that holds the loop; the process
may stop between its steps, and readers go on. ADDMODEL is `Register`, `Attach`, `Admit` or `Discard`,
`DiscardOnLoop`: commands run in between, as they do in the code.

| Property | Says |
|---|---|
| `MembershipAgrees` | member lists and channel sets agree about connected clients, also after a restart, and no departed client stays on a live list |
| `ChannelEnds` | a destroyed channel is not read back; a name without a record has no members |
| `NickUnique`, `SnapshotsCurrent` | one client per nick, and every member list shows the current one |
| `GatedEntry` | nobody appears on a list except through the gates, and the invitation is used up |
| `DivergenceReported` | a live record the store does not hold has a recorded failure |

Bounds: one model and the user on two channels, so that NICK, QUIT and KILL span both; with a restart or a
failing write, one channel (`OneChannelOfFailures`), and enough failing writes (`MaxFails` 3) for one forced departure
to fail at each of them. A second model, on one channel with one failing write, gave the same results before and
is left out for its size. Two nicks force collisions. `MaxGen` stops after the first ending of a channel. `MaxRestarts` is 1: a
second stop meets only states the first can leave. Symmetry is over models, channels and nicks, which nothing orders.
Deadlock is not checked: a session whose ids are used up and whose user has left may stop.

Left out of a window: topic, key, limit and the other modes (their text is in `ModeText`); voice. A per-window clean-up that fails after
the member was removed is the failing case of `Leave`.

**Proved** (`ChannelsProofs`, from `ChannelsAssumption`: any finite sets of models and channels, any number of
failing writes, endings and restarts): `TypeCorrect` and `NicksApart` as the run checks them; the other five
while the store answers its reads, as it does in the run (`MaxReadFails` is 0), which the theorems state as
`Unfailed`. Without that they are false: see the first of the points below `Findings`. `ChannelsEnd` and
`DivergencesReported` suppose besides that no departure was refused together with its mark (`unmarked = {}`), which
the run does not need within its bounds; with more failures it does (the second point).

Every step is first reduced to one of 24 moves (`NextMoves`): a JOIN that goes through is one move whether it
creates the channel or not, and all commands that fail are one (`Fills`). The invariants, each inductive with those before:
`Base` (what a client can be at each stage of the start, whose departure holds the loop, a connected client
has its row); `FirstInv`, for the nicks, that the rows of two clients with a claim have two nicks; `AgreeInv`, for memberships
and snapshots: `Right(i)` relates, for one client, the row of the channel, its live record, the instances row
and the channel set, also in the middle of a departure, where the channels whose turn is still to come are the
ones still named, and `UserInv` says where the user can still be named after a crash; `BornInv` and `CopyInv`, that a
live record is of the ending its name has had and says what the row says except of members that no longer
resolve.

### WindowGuard

`members`, `invitations`, `chanGen`, `inviteGen` are the channel's part of `channelState`; `inChan`, `epoch`,
`turnGen`, `connGen`, `phase` belong to each `serverClient` and its instance; `rows` is the table
`model_turns`; `job` is the command loop, with the clients whose `replayMu` the running job holds. `turns` holds each
model's turn: `GuardWindow` reads the connection, the record, the epoch, the turn generation (under
`replayMu`), the record and the epoch again, each a step. `journal` is the queue that begins the turn's
record later, and may outlive the turn. A command is accepted when its guard is valid and runs in a later
step; JOIN, PART, KICK, QUIT and the discard change store, window, channel set and epoch in the code's order,
one step each, since captures read between them.

| Property | Says |
|---|---|
| `ValidMeansCurrent` | a guard that still checks out belongs to this membership, or to this invitation or the membership it began |
| `CleanEntry` | after an uninvited JOIN no turn of an earlier membership is left, and none is added late |
| `ValidTurnKept` | as long as its guard is valid, a begun turn is in the store |
| `DirectRowsOfThisSession` | a direct conversation's turns end with the connection of the peer |

`stints`, `calls` and `entered` are history: the program has only epochs and generations, and the properties
say that these are enough to tell memberships and invitations apart.

**Proved** (`WindowGuardProofs`): `GuardsCurrent`, `DirectRowsEnd`, `EntersClean` and `ValidTurnsKept`, the four
properties for any number of models and any number of entries, invitations and connections. The properties speak
of valid guards, so an invariant must say what is true of every guard, also of one still being captured: in
`GuardsInv` each counter a guard has read is at most the one that stands, a counter that still stands means the
membership, invitation or connection is still that one, and a membership ends only with its epoch behind it.
`JobInv` is where a job of the loop can be between its steps, and whose `replayMu` it holds: the rows of a direct
conversation are safe because who ends a connection deletes first and keeps the peer locked until the
generation has moved (`DirectInv`), and a valid turn keeps its row because nothing deletes rows and leaves the
guard valid for a command (`KeptInv`). TLC checked each of these on the run's bounds first.

Bounds: two memberships (or one and a QUIT) for each of the user and one model, two invitations, one journal
record waiting. An authority can so be lost and regained once in every way, with a guard and a record from
before. A behaviour takes either channel and invitation turns or direct ones (`TurnKinds`): their guards
share no state but the connection. Store writes succeed here. A KICK is the server operator's.
Guards the user's client captures, to read a window, are the same steps and left out. Retention of turns and a DM
with oneself are left out.

### Dispatch

`read`, `hist`, `pending`, `todo`, `turn` are locals and fields of the loop of one `ModelClient`: its place in
the subscription, `history.buf`, the `redispatchSet`, the batches of `runDispatchLoop`'s inner loop, and the
running `activeTurn`. `timers` are the goroutines of `scheduleRedispatch`, which wait and then offer their batch.
`log` is the subscription (`SendQueue!InOrder` lets it be a sequence); `member`, `invited` and `stint` are what
the guards of `WindowGuard` come to: a guard holds for the membership it was captured in, or for its invitation
and the membership that begins with it. The passes of `fileBatch` over a burst are one step, `ReadBurst`, since
nothing but the loop reaches the history between them; a turn is `StartTurn`, `Capture`, `Send`, tools and an end,
with commands of others and interrupts in between. The turn's own tools change `member` and queue deliveries its
own loop reads later.

| Property | Says |
|---|---|
| `PromptWhole` | a prompt is one membership's lines, in order, each once, without a gap between the first and the last |
| `TwoAttempts` | while its membership or invitation lasts, at most two turns send an unsettled delivery, also when batches replace one another |
| `ActsOnce` | no trigger is acted on by the tools of two turns |
| `WaitsOnItsOwnTimer`, `OwnDelay` | a waiting window has a scheduler, and only that one ends its wait |
| `TriggersSettle` (run `Live`) | a trigger is answered or reported unless its authority ended, if turns end |
| `DrainsAfterQuit`, `TeardownEnds` (`Live`: `TeardownsEnd`) | a closed connection's deliveries are read; after Release loop and schedulers end; neither waits for the provider |

`settled`, `sends` and `acted` are history. Bounds: two channels, four deliveries and bursts of three:
enough for a message, a PART, a JOIN and another message in one burst or spread over four, and for two waits of one
window to overlap. Liveness takes two deliveries, on two channels, without symmetry. Fairness: the loop and the
schedulers are goroutines that run when they can; strong fairness of `Claim` is Go's random choice among the
ready cases of a `select`. Nothing is assumed of the provider (`Answer`, failures) or of other clients.

**Proved** (`DispatchProofs`): the five safety properties, for any number of windows and deliveries and any burst.
`WaitsCorrect` needs that a wait is a record whose token is of its own window: without it, a claim or a failure in one
window could take the scheduler of another (`OwnDelays` uses the same). `PromptsWhole` goes from the subscription to the prompt: `LogInv`, the
deliveries of one stay of a window stand together in the log; `HistInv`, the history is such a piece; `WellFiled`
and `PromptInv`, so is what a batch and a prompt copied from it. `ActionsOnce` and `AttemptsBounded` rest on
`OneEach`, that at most one live batch of a window has a given trigger: `ActInv`, no live batch has a trigger that
was acted on, and `AttemptInv` with `CarryInv` and `TurnInv`, that what was sent is counted by the batch that still has it.

`TwoAttempts` has to speak of the membership: a turn that is cancelled by a KICK sent a line once, a turn of
another window may JOIN again by its tools, a burst read only then still has the line from before the PART and
sends it a second time, and its retry a third; but the line belongs to a membership that is over.

Left out: direct conversations (their guards are in `WindowGuard`), replies, POKEs and the triggers of other
clients' JOINs and PARTs (they trigger as a message does), the model's own lines (filed when it says them), the 500-line trimming of a history, replayed
(`HistoryOnly`) deliveries, context summaries, and the loop's panic.

### Persona and Reflection

`Persona` has the tables of one instance; each of its actions is one transaction. `Reflection` adds the manager: a
worker slot is a goroutine of `reflectionScheduler.work` together with its `finished` channel, `tracked` and
`forgotten` are the scheduler's maps, `told` is the gap between the transaction of `AppendReflectionEvents` and its
notify. A run is `Ready` (snapshot), `Explore` (index), `Answer` (provider and validation), `Decide` (the second look
at the mode), `Accept` or `Stale` (the compare-and-swap), `Index`; everything else may happen between two of them.
`Disable` and `Enable` are the commands that set the mode, each a goroutine of its own (`setReflectionModeCmd`): between the
mode that `Disable` sets and its `StopReflections` another command may set the mode again.

| Property | Says |
|---|---|
| `PointerPath` | pointer moves form a path, however commits, resets, rollbacks and written descriptions race |
| `ReflectedOnce` | committed runs adjoin: no event is reflected on twice or skipped |
| `EvidenceKept` | retention and reused ids never touch what an amendment or a description cites |
| `ValidCommits` | the store takes what the manager validated, unless the world moved |
| `CleanUpIsFinal` | nothing writes the index of a deleted instance once clean-up has waited for its workers |
| `BacklogAttempted` (run `Live`) | unread events are reflected on while the manager has a scheduler, across mode switches and retired ones |

Bounds: pages of two events and three events in all, the third of an episode of its own, so that a snapshot spans episodes and a
description is rewritten, amendments are consolidated and global ones made; an inbox headroom of two, so that the third
event trims one that a worker's snapshot holds (no more than a page is then ever unread: `Live` has a page that leaves an event
for the next, and the proofs hold for any page); headrooms of 0 and 1 for experiences and transitions; one active amendment
at most, three revisions, two experiences; two schedulers and two worker slots, so that a retired worker overlaps a new one.
A proposal drafts at most one experience. A behaviour is disturbed by mode switches, by an operator's command or by a
deletion, not by two of them; with commands or the deletion it has two events and with switches one (`OneDisturbance`).
`Live` has pages of one and two events, or two switches and one event, and no operator and no deletion, after which nothing
is promised; a run there commits nothing but its checkpoint. Fairness: goroutines run; a failing provider (`Fail`) may fail for ever, which is an attempt.

**Proved** (`ReflectionProofs`, from `PersonaAssumption` and `ReflectionAssumption`: pages and headrooms are numbers,
schedulers and slots are not `None`), without `OneDisturbance`, so with all disturbances at once, for any number of
schedulers, workers, events and revisions: `PointerPath`, `ReflectedOnce`, `EvidenceKept`, `ValidCommits` and
`CleanUpIsFinal`. One inductive invariant, `Inv`, carries them. Its `StoreInv` adds to the three properties of the store
that the inbox is numbered without a gap (`InboxWhole`), that trimming spares what any experience cites, not only an
amendment's (`SourcesKept`), and that the checkpoint is the end of the last committed run. `HeldAllRight` says what a
snapshot or a plan in a worker's hands still promises after everything that may have happened since: the events of its
range were read or are gone, its removals are amendments of its base. `Grows` is what every step leaves to such a holder.
`CleanUpRight` follows a worker past its snapshot through the deletion: first tracked, then its finish signal held, then
waited for; a deleted instance has no new ones, because a snapshot needs the lineage. That a finite set of numbers has a
largest element, on which new ids and pages rest, is proved from the well-foundedness of the numbers. The invariant
was checked by TLC on the run's instance first. `BacklogAttempted` is a liveness property and stays with TLC.
It supposes a scheduler: `disabled` and `active` given one after the other may leave the mode active and no scheduler, since
the first command's `stopReflections` takes the scheduler the second one kept. `modelmanager/reflection.go:39` says that the mode
"changes whether reflection work is scheduled"; there it does not (`ActiveIsScheduled` of
`MCReflection` fails; it has no run of its own).

Left out: participants, aliases and texts of a proposal, the recorded run rows, shadow mode's report, the cooldown's
length.

### Lifecycle

`token`, `handle`, `sub`, `active` are the session's attachments, handles, subscriptions and connections; `mc`, `loop`
the ModelClient and its goroutines; `clients`, `pending`, `drain`, `joining` the manager's maps; `main` is `main.go`.
`add` is the goroutine that attaches an instance (the manager's start, or ADDMODEL with its discard), `ender` a handler
that ends a client (KILL, QUIT, a server disconnect), `reaper` the session's. Each step is what its code does between
two locks. A stop may come anywhere; the deadline of the way out may expire at any wait.

| Property | Says |
|---|---|
| `QuietAtClose` | a way out whose waits all ended leaves nothing that could use the closed store |
| `CleanUpKept` | memories of a deleted instance are cleaned up now, or the row that makes the next start do it is there |
| `ClosesInTime` (`Live`: `TeardownsEnd`) | the way out ends, whatever providers do |

Bounds: two instances, one stored and one added, one ender, one restart; liveness with one instance. Fairness: main's
goroutine and the deadline only. Joined (concurrent) attachments of one id are left out. When a discard deletes its row
a second time while a drain's clean-up has just ended, the marker stays until the next start, which does the clean-up
again: harmless.

**Proved** (`LifecycleProofs`, for any instances, stored or not, any number of ends and restarts): `NothingLeftAtClose`
(`QuietAtClose`) and `CleanUpNotLost` (`CleanUpKept`). The invariant has five parts for each instance beside the types:
`Ahead`, how far a handler or the start has got says what of the records is there; `Owned`, a goroutine runs only while
the manager has its client or drains it, and a drain under way has a goroutine that will finish it; `WayOutRight`,
what each wait of the way out has left behind, unless its deadline came; `Cleaned`, memories are removed after the
client's goroutine has ended; `Accounted`, a deleted instance has its marker or its clean-up was tried, and as long as
the manager serves the drain, the handler or the discard that owes it is on its way. Each instance's steps are proved
on its own and every other's by `Apart`: they disturb nothing of it. `ClosesInTime` is liveness and stays with TLC.

### Replay

One observed model m, the command loop's fan-outs (plan routes, lock the subscriptions' `replayMu` in identity order,
commit rows, append scrollback, queue), the dispatch indicator of another model's turn, which takes the same locks from
another goroutine, and m's attachment: subscribe, list channels, read each window's rows and its cutoff, activate. `scrollback`
is the stored scrollback of each channel, `dms` the log of the direct conversation, `hist` what m has filed.

| Property | Says |
|---|---|
| `HistoryExact` | snapshot and live deliveries together are the rows of m's membership: each once, in order |
| `DirectExact` | the same for a direct conversation, seeded late and perhaps in vain |
| `StartInItsStay` | a turn's start is delivered in the membership it was planned for |
| `NoLockCycle` | loop and dispatch do not wait for each other's replay locks |

Bounds: two channels (normal or anonymous), three others in all relations m can have to them, five steps of traffic with
up to two failing writes (`Few` trades them), symmetry over channels. A fan-out planned before m's subscription took
effect and committed after it does not reach m: a message is then as if said before, a KICK of m leaves m a stale history
until its next own JOIN, which is why `HistoryExact` speaks of the channels m is in.

**Proved** (`ReplayProofs`, from `ReplayAssumption`: any finite set of channels, stored memberships and masks, any number
of events and failures, without `Few`): all four properties of the run.

* `LocksInOrder` (`NoLockCycle`). What the loop and a dispatch have yet to lock is a subsequence of one order, and each
  locks its first; `Inv` says of both that what is left comes after everything they hold. Which subscriptions they
  need does not matter, so nothing else of the state does.
* `HistoryIsExact`, `DirectIsExact`, `StartsStayed`. The invariant is `Inv /\ (link = "gone" \/ Core)`: a client that is
  gone stays gone, and the properties ask nothing of it. `Core` is about `Coming`, the queue and what was committed and is
  not yet queued:
  * `Types`, `PlanRight` (the routes of one fan-out have windows apart, so an event files each window once) and `Held`
    (whoever planned for m has its replay lock or waits for it: a commit and its queueing are never parted by a read);
  * `Numbering`: what is to come is in order of number within every window, its rows come after the range the snapshot
    took, and a fan-out that is planned late (`Spared`) finds its windows still without its number;
  * `ChannelRight`: of a channel that is loaded, what is left of its buffer and what the queue files after the last
    move are the rows (`Matches`); of one that is not, the rows in the queue are the last of the store's (`Ahead`),
    and a read in hand ends where they begin (`ReadsUpTo`);
  * `DirectRight`: `Conversed` says of the direct window, opened or not, which messages of the log are filed, kept
    unseeded, queued, or yet to be read below `liveFrom`;
  * `Dispatching`: an announced start is followed by exactly the moves that part its membership from the present.

  `HistoryExact` alone is not inductive: nothing in it keeps an event that is committed and not yet queued from being read
  by the snapshot and filed again, nor two windows of one plan apart. Because `Numbering` puts every queued row after the
  range that was read, `ActivateClient` drops nothing (`AllKept`). The filing of sequences is a selection of places in this module (`At`, `Those`),
  not a recursion, so its lemmas (`Selected`, `FiledInIs`, `RisingEqual`: two rising sequences of the same
  numbers are one) need no induction over data. Before the proof TLC checked `link = "gone" \/ Core` as an invariant of
  the run's instance, with its unbounded sets cut at the run's bounds (1,032,124 states).

### Migrations

A file as each version of the program left it, none at all, or a later one's; opening it, with the process ending anywhere, any
number of times. The first schema is committed statement by statement and its version last; the steps are one
transaction with the record of the version, so an end inside it leaves nothing. Each step is its statements (what they need,
make and remove) and what it does to the rows. For the scrollback of version 10 an earlier build first writes the log
of a channel, with joins, departures, kicks and nick changes of two models, with and without the ids an old build did not
keep. `OpensWhole`: every such file opens to the same schema, and only a later one is refused. `BackfillsTheStay`: each member
gets the lines of its present stay and no name but its own. `RowsBroughtForward`: no row is left in a form the
current build does not read as its own.

Left out: indexes, the contents of rows a step only renames, unreadable instants (version 18 leaves one as it is, version 19 would fail
on it; the store writes none), two processes opening one file. The comment at version 7 says that version 9 fills the
scrollback in; version 10 does.

Bounds: four lines, two models, two nicks; every version.

### Summary and JournalQueue

`Summary` is one window of one model: the two rings of its history, the bursts, a turn with its plan, its rounds and its
commits, and the stored summary with its sources. The text of a summary is the set of lines it recounts: a provider tells
what it was given, the previous summary included. `Leave` and `Enter` may fall between any two steps of a turn. The run's
`ContextKept` says: what a request does not show of its transcript is recounted by the summary it shows or was dropped for
want of one; while no compaction failed and the model has not replied,
no line is summarised and committed twice (`NothingTwice`); a stored summary belongs to the membership that is; the round trips
of one turn stay within their bound. Bounds: rings of two lines with sources of four (500 and 1000 in the code), five
points of time, a line that needs two round trips, two rounds, one departure.

"Not twice" without those two conditions (`NeverTwice`) is what the code means and does not do; run `SummaryTwice` records it.
`summarizedPrefix` compares the tail of the sources with the beginning of the transcript, and the two differ for good once
a line between them is gone or out of place: a batch dropped unsummarised before a later one is committed, a reply filed
with a time among lines the turn read after it, or a line trimmed from its ring while an older reply stays in the other.
The overlap is then zero and all lines still in the rings are sent again beside the summary that recounts them, and
summarised and committed again, which the comment of `summarizedPrefix` means to rule out. Each of the three is ordinary, so
`NothingTwice` is a promise about the retry of one turn and the turns of a silent model, and no more.

`JournalQueue` is the producer, the bounded queue, the consumer with its writes that fail, and the stop after the join. The
rows are in the order the entries were made and begin with the request, an entry is missing only if the queue's count or the
log says so, and retention never closes a turn that is being written. Bounds: two turns of three entries, room for two,
one turn retained. Two comments are out of date
(they have no run of their own: the first is contradicted by a guard, the second by one return): that of `journalQueueDepth` ("before a producer waits for the consumer":
the producer never waits, it drops) and that of `Wait` ("every journal entry that goroutine produced has been written").

### Retention

The rows of eight tables with their ids, and every transaction that adds or removes some: a line said in a channel
(`Say`: event and one scrollback row for each model there), a direct message, a reply, a join that clears the actor's
context in that channel, a departure, the deletion of a window or an instance, and the two statements of MarkRead.
`Open` is the pass of retention.go when the store is opened: fourteen statements in their order, each deleting what its
predicate names a batch at a time, and stopped by a failure after any number of batches (the error is only logged).
The databases it starts from are those earlier versions left: two spellings of one channel, rows of instances that are
gone, more rows than are kept. `ReferencesHold`: no cursor loses its event and no summary its sources. `ReadsKept`: nothing
a reader within the headroom sees changes. `NothingLeft`: after a whole pass nothing of what is gone remains but what a cursor
holds. `FreshContext`: a model that joins has nothing in its context from an earlier stay.

Bounds: a headroom of 2 in place of 1000 rows, turns of 3 bytes, batches of one row, two acts before or between two passes.
The comment in retention.go says that counting is unaffected by a trim; the code counts the rows behind the cursor, so
a count above the headroom is lowered to it: `ReadsKept` compares counts up to the headroom. Two calls of MarkRead that interleave can
move a cursor back (each writes the id it read); the channel that is created anew under an old name counts the rows
of the old one as unread until the next start. Neither breaks a property here. The user's own scrollback is not kept
in the table, and the rows of other instances are made from the subscriptions; here they are made from the membership.

### MemoryIndex

The rows of one instance and the index beside them. A turn's write is three steps, the vector, the row under the turn's authority, the
document, and each may be the last; its delete is two. A search reconciles before it asks: it reads the rows, embeds what
is missing or differs, removes what has no row, and queries; a reflection's search runs beside the turn. A change of the
configuration sends calls to the new model, wipes the index of the old one, records the new, and probes. `Open` is the next
start, from any point of these. Every run begins with rows and documents that differ in any way two keys and two contents allow,
as earlier runs may have left them. `SearchesHeal`: a search nothing disturbs answers with the rows, all and only. `OneModel`: no vector of another
model stays. `RecallsTheKept`: experiences are recalled as the store holds them. `OpenedClean`: opening drops the
documents of instances that are gone and no experience.

One exception is in the code: a vector made before the model changed and added after the index was wiped is of the old
model and is not embedded again, since its text matches (such a document is marked `late`). A search beside a write
can miss the entry that is being replaced; the next one finds it. Left out: the ranking and the limit of a query,
a record of the model that could not be written or read, two configuration changes that overlap (see `Settings`), a
collection that is deleted while a search holds it.

Bounds: two keys, two contents, two models, two experiences, two operations, each in steps that interleave.

### Flood and Poke

`Flood` counts ticks of the monotonic clock. `Send` is `throttleCommand` up to its wait, `Run` the end of that wait and
the `+f` gate, which counts as it decides; the history says when commands ran and what the gate let through. `Poke` is
the scheduler with its sleep, its listing of the channels and its drain of the activity set as separate steps, and the
loop beside it. The run's `KeepsPace` says: commands reach the loop in the order of their sending, at one per penalty
beyond the burst, with one warning until the timer has drained; a `+f` channel relays at most twice its limit within a
window's length, and refuses only when it relayed its limit; a quiet channel is poked in every eight cycles, ever less
often while it stays quiet, and at once when it falls quiet after talk. Bounds: one connection with four commands, six
ticks, windows of three and limits 0 to 2; one channel (channels share nothing) with the real cap of eight, every
history of talk, endings and skipped cycles.

A message whose commit fails has spent the budget of its window. A channel that ends and is created again between two
poke cycles keeps its back-off: `prunePokeBackoff` sees names only.

**Proved** (`PaceProofs`, from `PaceAssumption`: the parameters are numbers, the window and the cap positive): `PaceKept`,
the whole of `KeepsPace` for every value of them, any clients and channels, without bounds on time and commands. For the
timer, each known command has been charged for together with all sent after it (`Timed`); two of them are therefore
as far apart as the penalties between them, but for the lead (`Spaced`). Commands of one tick may run in any order, so
the rate of what ran needs a pigeonhole: as many different numbers spread over as many penalties (`Spread`). For the +f
count, every message let through has the start of its window and of the window before it, each within the limit it met,
and what is older lies a window's length back (`CountRight`); changes of the limit disturb neither. For the pokes, the cycles
a channel was passed over are those its back-off has counted (`Counted`), also for a name that ended and began between
the scheduler's listing and its drain.

### CommandLine and ToolSchema

`CommandLine` reads every line of up to four tokens of four commands that between them have a flag of each kind, both
passthrough modes and a group with a flag of its own. `Route` is the first pass (`consumeInvocationToken`), `Consume` the
second (`argumentClassification.consume`), `CompleteWord` the walk of completion. No token is lost; the passes take each
argument for the same thing, except in the two lines of `Misread`, of which only is claimed that they are refused; and
completion stands where the parser does, except behind an argument the parser leaves unread and behind the first value of a
flag that takes many. So the property does not say that passes and completion always agree: they do not, in three corners the tests
leave out:

- `/persona botty - friendly` is refused with "unknown flag - friendly": the first pass takes the lone dash for the first
  word of the description, the second sees an argument that begins with "-" and is longer than one.
- `/persona --reset botty -- text` and any other line with a recognised flag before the "--" of a partial passthrough: the
  second pass starts with its options ended and reads the flags as text. In the program's grammar such a line has an
  argument too many, so it is refused, where `PassthroughModePartial`'s comment has the flags
  validated "until the passthrough positional receives its first value" (run `LinePassthrough`).
- After `/add-model --persona word ` completion offers models, while the parser adds what follows to the persona; and after
  "--" it still takes the words for what they would be without it.

Left out: white space other than between tokens, the scanning by runes, aliases and case folding of names, the values'
decoders, and the suggestions themselves.

`ToolSchema` builds the runtime and the provider's schema of every two-field command over four field types, each
optional or not, alone or in one xor group, and takes every call that both admit. The provider's schema is weaker, an
admitted call is complete and consistent, every choice of fields a typed command could make can be made by a call, and
strictness only replaces a missing member by null. `Nullable` presumes that no schema has a type beside its
alternatives, or both anyOf and oneOf: for such a one makeNullable would not admit null. Left out: numbers and their
canonical form, lengths of lists, descriptions.

### ModeText

Every line of up to four signs and two arguments, every object a tool could be sent, and the modes of a channel, read
and written. What is read passes the server's second check, every list of changes has a line that means it, a call its
schema admits is read, and the line `IRCString` writes gives another channel the same modes. "o", "m", "l" and "k"
stand for their kinds; a removal that names an empty key is read though the schema does not admit it.

### WindowFocus, WindowLines and UserClient

The screen is one goroutine, but its commands run concurrently and their messages come back in any order, beside the
protocol events, which keep theirs. `WindowFocus` is the choice of the window in view under all of that: `Handled` and
`Applied` are the handlers, on the state they get. A pick in the sidebar and a /close take their time in the command's
goroutine (`Stamp`), a /join and a /query when they are typed, as the code does. The user ends in the window chosen last,
with the exceptions below; an undisturbed start lands
where the last session ended, what the store keeps is what was left, and only open windows are shown. `WindowLines` is
what the windows hold: every line is in its window once and in order or waits there for a lookup, paced counting never
stalls, a badge is not set by a count older than the last visit, and replies go to the window of their command. `UserClient`
is the autojoin list: between commands it is the channels the user is in, while it is replayed it is not cut short, unless a command came before it was read, and
QUIT leaves it alone.

Each property is as strong as the code lets it be; what had to be excluded is worth a reviewer's time:

- The landing by join times (`Newest`) can take the focus from a later choice, because a JOIN of the autojoin list is
  newer than the choice; `focusAt`'s comment (chat.go) has the startup restoration avoid "overriding later navigation".
  So `LastChoiceShown` forgets the choice when the autojoin enters a channel. A /part that overtakes a /join consumes
  its waiting focus.
- A pick or a /close made before a newer choice may take its time after it: the older act then wins, in the arbiter's
  own terms, where `focusWins`' comment (`chat_focus.go:285`) has what came before the user's last navigation
  lose. `LastChoiceShown` forgets the choice when a command of an earlier act takes its time after it.
- Visits start at 0 again in a window that is reopened, so a count asked for in the window of that name before can set
  its badge (`life` is history). Closing and reopening leaves two chains of paced ticks, which only counts faster.
- A KICK that the screen sees after the user has rejoined takes the channel off the list (`late`). A QUIT while a JOIN's
  bookkeeping or the replay's deferred write is under way rewrites the list from memberships QUIT has emptied (`busy`),
  where `saveAutojoinList`'s comment has QUIT leave it as it is.

Left out: MARKREAD's cursors, sidebar selection of a window that has been closed, a connection that fails, the second of
two peers, and everything drawn. The list of channels is read by a command of its own and nothing makes the chat screen
wait for it where no key is configured: a command kept before (`early`) rewrites the list, and what the last session left is lost.
`TailKept` says so.

### MemberView

The member lists at the server and on the screen. Each event is projected for the user (`MaskedEvent`, `NamedTo`), QUIT
and NICK are split over the channels they touch, and the screen follows with `MemberList`'s operations, by identity or by
nick as its handlers do. A list agrees when the channel named its members for the whole of the user's stay; nobody is named
by one that was anonymous throughout; every arrival and departure has its line. A channel that becomes anonymous, or
stops to be, during the stay leaves the screen with a list nobody corrects (`stay` "mixed"): the names from before, without
those who came and with those who went unnamed since. MODE applies its changes one by one, so one that cannot be stored, or
names an unknown nick, leaves those before it applied and announced although the command fails; and a nick outside the channel is
announced like a member's. Two models on one channel, and three commands, gave the same results.

### RichText and Composer

`RichText` edits documents of up to two styled lines, with the per-line caches of grapheme clusters the document keeps:
every selection, insertion and restyling leaves the text a plain character sequence would have, whatever was cached before;
word movement lands on word boundaries; and a document that is encoded to IRC codes and parsed again is the same one.
The last excludes a span that begins with "," and a digit behind a colour with no background, which the parser takes for
the background: the tests' edge texts have a leading comma, and digits, and not the two together. Left out: combining
characters (a cell is one character), reverse and the other styles (bold stands for them), and the limit on lines.

`Composer` gives the line every sequence of three keys out of twenty-one, pastes, clicks, resizes, locks and new nick lists, from
eighteen starts. A key goes to the suggestions, the bar and the editor in that order (`Listed`, `Barred`, `Edited`), and
the suggestions follow the line and the cursor (`Took`). The history is the last lines sent; going through it and back
leaves the draft; Tab after Tab replaces the same word; what is killed can be yanked; the chosen suggestion is in view.
Some keys leave a nick completion active with the range it had (paste, mouse, Enter, Up, Down, ctrl+u, ctrl+d), so
a Tab afterwards replaces whatever is there now (`other` excludes it); an accepted suggestion arrives as a later message
with the range it was offered for (`TakeAccepted`), so two quick Tabs spoil the line; and a line sent while browsing the
history loses the draft. Left out: vertical and word-right movement, delete-word, the palette's colours and mouse, drawing.

### MessagePane, Sidebar and Layout

`MessagePane` has the ring of each window's events with its numbering, the lines and the block that are kept between draws, the viewport
that was given a block, and the marks from which the divider is placed. Events arrive, older ones are put in front, windows
are cleared, closed and opened anew under the same name, and the messages that tell the pane come later and in any order,
with draws between. `DrawnAfresh`: the block that is drawn, and the one the viewport holds under the same key, are what drawing everything anew
gives. `KeepsTheLast`: the window has its last lines. `NothingFolded`: no line counts as read that was not in view at the bottom, and
the divider stands before the first that was not. Bounds: a ring that grows from 1 to 3 (64 and 4000), windows of both kinds, an event
direct windows leave out, a day that changes, three acts. A viewport is its lines and its offset (external: bubbles).

`Sidebar` is the sorted set with its cursor and active item, as keys and as positions, and the marks of the windows, told by the chat screen
in batches whose messages come in any order (`SetActiveKey` explains why). `PositionsTrue`: a key and its position are the same item.
`ListFollows`: when everything has come, the list has the windows there are, the one in view is marked and carries no mark of something unseen.
Assumed: two batches do not overtake each other. A window that is chosen in the list when it is already closed leaves the list marking another item than
the one in view, or none, when it is not shown again (`refused`); a channel is joined again by it. Two things differ from what one would expect: `Draw` scrolls a copy of the viewport, so a click in a list
longer than its panel is resolved as if the list were not scrolled (`Click`); and `ChannelActiveMsg` clears the mentions and the lifecycle mark,
where the type's comment (channel_list.go:36) says it clears all three (the count goes by a `ChannelUnreadMsg` of 0, see WindowLines).
Left out: SetChannelsMsg, which only tests send, ActivateNextActivityMsg, which the list of windows ignores, and drawing.

`Layout` gives the terminal sizes above and below its thresholds, panels that want little and much, and the drawer and the nick list open and
closed in every order. `DrawnWhereTold`: what is drawn is drawn in the rectangle it was told last, which the mouse and the
cached lines go by. `Tiled`: the parts do not overlap and the text keeps its 40 columns. Fractions of the width are rounded down as integers.

### Settings

The settings of /config, each with the steps of its command in the order the code takes them: the key and the URL are
given to the manager before the file is written, the small model is looked up in the catalogue and then given to it, the mode
of reflection is written first. Commands run on goroutines of their own and meet in any order, a save may fail, the
program may end between two steps, and the file may be edited, or damaged, by hand. The catalogue is modelled with its
single fetch, its waiters and the back-off after a failure. `NoUpdateLost`: the read, change and write of the file are one step, so no setting is
lost to another. `RunsAsStored`: when all is quiet what runs is what is stored and what the screen knows. `CheckedOrTold`: a small
model that was not checked stands only where the user was told. `OneFetch`: one fetch at a time, and a catalogue of another provider
only when its fetch was under way at the change. `Usable`: what is written by hand never makes the program run by a
mode, a drain or an interval it cannot use.

The exceptions the properties name are what the code does: two commands on one setting that overlap can leave the manager
with one value and the file with the other; a save that fails leaves the manager ahead of the file until the next start;
a listener runs after the lock is let go, so two updates may reach it in the other order; a fetch of the catalogue that was
under way when the provider changed fills the cache with the old one's models, although SetBaseURL says "the next
add-model lazy-loads a fresh catalogue for the new one" (`manager.go:456`; `OneFetch` claims nothing after such a fetch, and this
divergence is recorded here, without a run);
a key that is cleared while a small model is being checked lets that model through. A file
that was damaged by hand while the program ran counts as empty at the next /config: the other settings are gone, where a
start would have moved it aside. `/config drain-timeout` takes effect at the next start. The factory of main.go never
refuses a client, so that error path is left out; the wake-up of the poke scheduler is in `Poke`, the embedder in `MemoryIndex`.

Bounds: two values for most settings, three where one cannot be parsed, four durations; two commands or edits, which may overlap, and
any number of restarts.


### Findings

Each is a run that ends in a violation; PROJECT.json quotes the text they disagree with.

| Run | What happens |
|---|---|
| `ChannelsEmptied` | ADDMODEL is being discarded (the model is marked pending) while the only other member quits: the row survives because it names the model, the reload drops the model, and a live channel has no members and no operator |
| `ChannelsNick` | `/nick` saves a nick the server refuses; after a restart the user takes it unchecked |
| `WindowGuardGone` | the last member PARTs while an invited model's journal is behind: the journal inserts a turn after the channel's turns were deleted and before its generation moved |
| `ReflectionForgotten` | two workers of a deleted instance are forgotten one after the other; clean-up waits for the second only, and the first writes the index it removed |
| `SummaryTwice` | a line is dropped because its summary failed, the next is summarised and committed; the sources no longer match the transcript, and the same line is summarised and committed again |
| `LinePassthrough` | `/persona - --reset --`: the "--" that ends the options ends them for the flag before it too, which the second pass reads as text |

Also read in `Channels`, beyond the bounds of its run (TLC finds each with more failures or endings):

* A read that fails inside `deleteQuitInstance` (`session/actions.go:735`) leaves a channel without its live record.
  If the name had ended before, its generation is already positive, `channel_state.go:101` takes that for the
  tombstone of this ending, and the channel, with a member on it, cannot be reached for the rest of the session.
* A departure that the store refused both to delete and to mark (a model's, or the user's, which is never marked)
  leaves the client in the row: the next QUIT of another member reads it back, a restart brings the model back on a
  channel that does not list it, and if that model then QUITs, its reload installs a row without the tombstone's
  check and brings a channel back that had ended. The properties except such clients (`unmarked`).
* After five refused writes (a deletion, its mark, a channel's save, the deletion and the mark again) the store
  names a client that left, and a later QUIT of another member reads it back onto the live list.
* A clean-up in Connect that fails after it destroyed a channel leaves the row it could not delete; the tombstone
  then stops the record from loading, and every later Connect of that process fails (`session.go:1068`).

Also read in `WindowGuard`, without a run: KICK, INVITE, JOIN keep the turns of the earlier membership. `CommitChannelDeparture` leaves
the departing client's turns to the next JOIN's reset (`store/sqlite.go:1392`), and a JOIN that consumes an invitation
skips that reset, although `store/sqlite.go:632` says "ResetContext removes data from an earlier membership interval".
 `protocol/client.go:183` says a guard of GuardInvitation "becomes invalid
if ... the invitation is consumed"; `invitationGuardStateLocked` keeps it valid for the membership that its own
JOIN began (`EnteredBy`). `writer.go:110` says nothing runs between the guard's check and the handler; a
discarded ADDMODEL ends its model's authority off the loop, so that can (`Discard` between `Accept` and
`JoinAs`); the discard's own job then removes what the handler did.

`RetryOfItsInterval` of `Dispatch` fails too (as an invariant under the constants of `Turns.cfg`; it has no run of
its own): a turn in channel A PARTs and re-JOINs channel B, whose failed batch waits; when it ends, the loop's `select`
finds both the PART and the scheduler's offer ready, may take the offer, and sends the old membership's prompt under
the new one. `modelclient/dispatch.go:203` says the loop "also cancels a pending batch when PART or KICK closes the
window"; it does once it has read the delivery.

One was met in `Reflection` with `MaxFaults` 1, `MaxEvents` 3 and no switches or commands: `IndexAgrees`. The id of a
pruned last experience is given again (`INTEGER PRIMARY KEY` without `AUTOINCREMENT`); when indexing the new one fails,
the pruned one's document stays under its id, `holdsAll` finds an id for every experience, and the collection is taken
for healthy. `memory/experience_index.go:105` says "Reconcile makes the instance's collection hold exactly `retained`".

## What stays with TLC

* Liveness: `QueueMoves`, `TriggersSettle`, `TeardownsEnd` and `BacklogAttempted` (all of run `Live`). Each rests on
  fairness and, for it, on ENABLED, which the installed provers do not handle.
* `ContextKept`, `CommandsRead` and `ScreenFollows` (`Parts`). They join the properties of eighteen small modules, five of
  which (`CommandLine`, `ToolSchema`, `Composer`, `RichText`, `Retention`) use RECURSIVE operators, and several compare two
  computations over data: the prover does no induction over data. Of that run, `QuietAtClose`, `CleanUpKept` and `KeepsPace` are proved.
  Each of the three joins what is shown of one kind of thing, told, typed or shown; a behaviour takes one part, so a failing
  conjunct is named by `part` in the counterexample, and PROJECT.json lists mutants of each part that break it. Their comments
  say what they except; two of the exceptions are findings.
* The findings: a counterexample is what a run shows, and proves itself.

Every other property of a passing run is a theorem.

## Not modelled

Rendering of text, colours and help, and the review screen of personas (view state only); the HTTP client and the provider's
JSON, whose answers are choices of the models that meet them; struct reflection, descriptions and the wording of errors
in the command language; tracing and metrics; embeddings and the ranking of a memory search; indexes and reading
queries of the store; the name grammar and the casemapping; test helpers.

## Plan

Done: the send queue; the records of channels and clients; window authority; turns; reflection and personas; replay; the
life of clients and their manager; flood and pokes; the proofs about all of these; and, each on its own, what is kept of
a conversation, what a line or a call means, and what the screen shows.

Left, in order of importance:

1. Proofs. `Summary` and `JournalQueue` need their sequences selected without recursion first.
2. Composition. `Replay` with `SendQueue`'s `Activate`, `Dispatch` with the guards of `WindowGuard`: today each
   takes the other's promise as its environment.
3. The paths of one component that another module abstracts: direct conversations and POKEs in `Dispatch`, joined
   attachments of one identity in `Lifecycle`, the topic in `Channels`.
4. The provider's client and its retry schedule; the exploration tools and the recorded runs of a reflection.
