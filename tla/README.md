# PushOS, specified

TLA+ specifications of [PushOS](../src/README.md), the control surface that drives agents,
terminals and workflows from an Ableton Push 2. Every definition is read off the Rust sources
under `src/crates`; comments and documents are quoted only where a property restates them.

Contents: [the system](#the-system), [the modules and the plan](#the-modules-and-the-plan),
[how to read a model](#how-to-read-a-model), [the workflow engine](#the-workflow-engine),
[the working trees](#the-working-trees), [terminals](#terminals),
[an agent session](#an-agent-session), [storage](#storage), [gestures](#gestures),
[configuration](#configuration), [the surface](#the-surface),
[what is proved](#what-is-proved),
[where the code does something else](#where-the-code-does-something-else),
[what is not modelled](#what-is-not-modelled).

## The system

PushOS is one tokio process. Each component owns its state and everything else talks to it by
calls, by an unbounded channel of events, or by a snapshot it publishes. What is awaited, and
what lies between two awaits, is where the components can go wrong; most of their tests drive one
task at a time.

| component | state it keeps | operations | talks to | what makes it hard | what must hold |
|---|---|---|---|---|---|
| workflow engine (`pushos-workflows`) | a map of runs behind a mutex held for one read or write; rows and transitions on disk | start, resume, cancel, answer, agent and terminal news, the driver's loop | agents, terminals, dispatcher, storage | many tasks on one run; copies written back after an await; restarts; dropped calls | a running run has one task on it; what is acted on is on disk; what has ended stays ended |
| workflow catalogue (`pushos-workflows`, `pushos-config`) | the configured graphs, read once | look up, validate | engine | graph reachability, loops without a way out | every accepted workflow can reach an end, and no step leads nowhere |
| agent supervisor (`pushos-agents`) | sessions by id, the one selected, a lock for each role being started | resolve, recruit, prompt, cancel, answer, stop, record, step | backends, workspaces, the engine | decide and start are two turns with minutes in between; marks and events race; a copy of the session is acted on | a role asked for twice is started once; a question is answered once; finished is finished |
| agent backends (`pushos-acp`, `pushos-codex`) | one process a session, or one for a fleet; the parked questions; places for turns | start, prompt, cancel, answer, stop | the agent's process | cancel during a turn, one held command, fifteen minutes' patience, death at any point | every turn ends in one report; an answer goes to the question that was asked; no place is lost |
| workspaces (`pushos-workspaces`) | the project in effect; who holds which working tree, which trees are being removed | select, claim, release, tidy | git, storage | git runs outside the lock, seconds at a time | two agents are never handed one tree; a tree in use is never removed |
| terminals (`pushos-terminal`) | the terminals by id, the selected one, the ones asked to stop; the host's open ptys | open, write, run, select, close, resize, apply, shutdown | the pty host, the engine | one thread a terminal reports exits before, while and after an open is recorded | a pad pressed twice starts one; a stop is not shown as a failure; no more than 64 |
| storage (`pushos-storage`) | SQLite behind one thread; a bounded queue of writes | record, save, load, trim, flush, shut down | everything that persists | the queue at its limit, trimming, shutdown with writes queued | writes are in order; what was acknowledged is on disk |
| actions (`pushos-actions`) | the providers; what each permission allows | dispatch, run a sequence | every provider | a thirty second budget that drops futures at any await; sequences that fail half-way | nothing not permitted runs; a sequence stops where it says it stops |
| bindings and gestures (`pushos-bindings`) | a small machine for each control: pressed, held, tapped | press, release, tick, resolve | runtime | timing boundaries, chords, releases that never come | one gesture for one press; hold and tap exclude each other |
| runtime (`pushos-runtime`) | actors, the bus, the shutdown token | start, supervise, restart, stop | all of the above | restart budgets, the order of shutdown, lagging subscribers | nothing is left running; no event is handled twice |
| configuration (`pushos-config`) | the running configuration and its files | load, reload, edit, watch | runtime, Studio | a reload racing an edit | an invalid file never replaces what runs; no edit is lost |
| packs, memory | files under a directory; an index | install, remove, capture, find | configuration, agents | partial failure of a copy | removal deletes what was installed and nothing else |
| voice (`pushos-voice`) | whether it listens, the recording | press, release, transcribe | runtime, actions | release before the microphone is open, a second press during a transcription | it listens only while the control is down |
| Push 2, macOS, UI | device handles, the latest frame | draw, light, read | the device, macOS | USB coming and going | the newest frame wins |
| API, CLI, Studio | a socket, a client | request, reply | all | none of their own | — |
| domain, test kit | value types; fakes | — | — | — | — |

The hazards this leads to are listed, at the lines where they bite, in `PROJECT.json`.

## The modules and the plan

| module | models | instance | runs | proofs |
|---|---|---|---|---|
| `WorkflowEngine` | the engine, with what it can see of agents, terminals, dispatcher and storage | `MCWorkflowEngine` | `EngineAlone`, `EngineNightly`, `EngineRestart` | `WorkflowInvariants`, `WorkflowEngineProofs` |
| `WorkingTrees` | the workspace manager, its leases and git, with the agent sessions that claim a tree | `MCWorkingTrees` | `TreesKept`, `TreesAnyUse` | `WorkingTreesProofs` |
| `Terminals` | the terminal supervisor, registry and host, with the thread that reads each terminal | `MCTerminals` | `TerminalsPressed` | `TerminalsProofs` |
| `AgentSession` | one agent session from the pad to the process, over ACP; implements `AgentPromise` | `MCAgentSession` | `AgentCalls` | `AgentSessionProofs` |
| `AgentPromise` | what a session promises its callers, with nothing of how | | | |
| `StorageWriter` | the storage thread, its queue, trimming, stopping, the loss of the process | `MCStorageWriter` | `StorageKept` | `StorageWriterProofs` |
| `Gestures` | the recogniser and the rest clock in the input loop | `MCGestures` | `GesturesHeard` | `GesturesProofs` |
| `Bindings` | precedence, resolution and refusal of bindings, as operators | | | |
| `Configuration` | the files, their editors, the watcher and the store; uses `Bindings` | `MCConfiguration` | `ConfigEdited` | `ConfigurationProofs` |
| `SurfaceLink` | the render task, the MIDI and display threads, taking and letting go of a Push 2 | `MCSurfaceLink` | `SurfaceShown`, `SurfaceUnplugged` | `SurfaceLinkProofs` |

`WorkflowEngine` sees its neighbours through what they promise: that a row that was acknowledged is
on disk is `StorageWriter`'s to keep, that a terminal's end is reported is `Terminals`', that a turn
ends in one report is `AgentSession`'s.

What is left to do, in this order:

1. `RunLifecycle`: the abstract run (running, waiting, finished) of `pushos-domain/src/run.rs`, and
   `WorkflowEngine` without cancellation shown to implement it.
2. `WorkflowGraph`: the validation of workflows against reachability over all paths.
3. `Dispatcher` with sequences, `Supervision` with the order of shutdown, `Listener` for voice.
4. In the modules there are: Codex's turns beside ACP's, the announcement of the project in effect,
   the seats and attached sessions of the runtime.

## How to read a model

An action is the code between two points where another task, thread or process may run: an await,
a lock let go, a message sent. Every other task may run there. Two devices are the same in all
modules:

* **`Allowed`** names the rarer things an instance admits, its weather. A run that passes says what
  holds under the weather its configuration names, and the text below says which property each
  kind that is not named breaks. That is how the hazards that the code *is* exposed to are kept in
  the model rather than left out of it: add the word to `Allowed` in the configuration and TLC shows
  the trace.
* **Mutants**: beside many definitions stands a second one that is wrong in a way the code might have
  been (a dropped guard, a swapped order). `PROJECT.json` pairs each with the property that TLC finds
  violated when it takes the other's place.

Bounds are constants named `Most...` or `Backlog`; limits the code has itself (queue capacities,
windows, counts kept) are constants with the source's name and made small enough to be reached.
`TypeOK` of every module is in no run because it says the least. It is proved for `WorkflowEngine`,
`WorkingTrees`, `Terminals`, `AgentSession`, `StorageWriter` and `Gestures`, and was checked on the
same instances for `Configuration` and `SurfaceLink`.

Deadlock is checked only where the system never stops by itself (`GesturesHeard`). Elsewhere the
instance comes to rest: runs end, sessions go, PushOS is stopped. That nobody waits on anybody for
ever is then a property of its own (`WaitsEnd`, `StopEnds`, `KeepsPromise`, `EveryRunSettles`).

## The workflow engine

### State and actions

`WorkflowEngine` models `crates/pushos-workflows/src/engine.rs` with the parts of its neighbours a
workflow can see. The engine's rule, stated at the top of its file, is that nothing is awaited while
its map is locked; so an action of the model is the code between two points where another task may
run, and the model allows every other task to run there.

| model | code |
|---|---|
| `runs` | `WorkflowEngine::state.runs`; a run that is not in the map is `Absent` |
| `task` | what each tokio task is in the middle of: `loop` and `execute` are the two halves of `advance`, `open` lies between `close` and `open` of a terminal step, `step`, `park` and `finish` are `step_to`, `park` and `finish`, `insert` and `record` the two halves of `remember`, `begin` the first transition of `start`, `sleep` a `sleep_until` |
| `disk`, `written` | the tables `workflow_runs` and `workflow_transitions` |
| `recovery` | what `resume` has read and not yet picked up |
| `known` | the steps configured in this process; a restart may find fewer, or none |
| `late` | the runs whose `limits.timeout` has passed; the clock itself is not modelled |
| `turns`, `agentNews` | prompts an agent has accepted and not ended; the agents' event channel |
| `proc`, `termNews` | the process behind a terminal name, and the terminals' event channel |

`Carry(t)` is a task going on; `Operator` a pad or Studio calling `start`, `cancel` or `answer`, or
the dispatcher dropping such a call; `Resume` is recovery; `AgentFinished` and `TerminalFinished`
are the two readers of events; `Environment` is agents, processes, the clock and the death of
PushOS. `Allowed` names which of the rarer events an instance admits, so that a property and the
hazard that breaks it can be told apart:

* `cancel`, `timeout`: the operator cancels; the run's time runs out;
* `store failure`: a write fails, which the engine logs and ignores;
* `early start`: a pad is pressed before `resume` is done (the surface starts first, but recovery
  takes milliseconds);
* `zero delay`: a pause may be over before its run is parked on it;
* `quick worker`: a turn or a process may be over before its run is parked on it;
* `late write`: a thread is held up between letting go of the map's lock and queueing the row;
* `agent asks`: an agent stops in the middle of a turn to ask for permission;
* `slow call`: a call is dropped by the dispatcher after thirty seconds.

### Runs

Every configuration is small in the same way: the graph is one real workflow shape, one or two runs
of it exist, and tasks and calls are two or three, which is what two contenders and one bystander
need. `KeptFinished` is 1 instead of 20 so that pruning happens with two runs. `MaxSteps` is
as large as the walks that matter: one round of the loop and a second that the limit cuts.
`MaxCalls` bounds operator calls under way at once, `MaxTurns` the prompts a session holds,
`MaxCrashes` how often the process dies: a second crash matters because it may hit a recovery.

| run | what it checks | what it shows |
|---|---|---|
| `EngineAlone` | `OneDriver`, `HistoryFollowsGraph`, `EveryWaitHasAnEnd`, `EndedStaysEnded`, `EveryRunSettles` | plan, test, retry, ask, ship: every waiting step, two restarts that may find the workflow edited or gone, a time limit, an agent that asks. With nobody cancelling and every write succeeding, the engine does what it says |
| `EngineNightly` | `StepsWithinLimit`, `StepWrittenFirst`, `RowSaysWhatMemorySays`, `FinishedAreFew`, `RowsMoveForward` | say, wait, act, go round: the other kinds of step, in a loop only the limits stop, in two runs, over a restart that may find the action gone, with calls that are dropped and time that runs out |
| `EngineRestart` | `NoRunIsAbandoned` | cancellation, a restart, failing and late writes and an early start never leave a running run with no task |

`StepWrittenFirst` is the promise at the top of the engine's file, that a crash loses at most the
step in flight; `EveryWaitHasAnEnd` says that a parked run's worker has still something to say;
`EveryRunSettles` that a loop is stopped by its limits and a restart does not strand a run.

What the weather breaks: `cancel` breaks `OneDriver` and `EndedStaysEnded` (a copy written back
over a cancellation, and then two tasks on a run that is begun again); `quick worker` and, in the
nightly workflow, `zero delay` break `EveryWaitHasAnEnd`; `slow call` breaks `NoRunIsAbandoned`
and `EveryRunSettles`.

### Fairness

`EveryRunSettles` needs `FairSpec`: weak fairness of each task (tokio polls a woken task), of
`Resume` (spawned once at start), of the two readers of events, of a turn ending and of a process
ending. Nothing is assumed of the operator: a run may wait for an answer for ever, which is why the
property is about *running* runs. A crash is never fair, and there are at most `MaxCrashes`.

## The working trees

### State and actions

`WorkingTrees` models `crates/pushos-workspaces` (`manager.rs`, `leases.rs`, `git.rs`) with the
parts of `crates/pushos-agents` that decide when a tree is claimed and released. The manager's
rule is that git never runs while its lock is held, because git takes seconds; so a claim works
from a list that may be old, and a removal goes on while others claim. An action is again the code
between two awaits.

| model | code |
|---|---|
| `current` | `State::current`, the project in effect |
| `held`, `retired` | `WorktreeLeases::held`, by role and project, and `WorktreeLeases::retired` |
| `trees` | what git and the disk say of each tree: `absent`, `clean`, or `dirty` with uncommitted work; committed work is on a branch and survives |
| `pc`, `job`, `list`, `path`, `tree` | where each session or the tidying at start has got to: the role it fills, the trees git listed for it, the one it works in, the one it is removing |
| `untidied` | the projects `tidy` has still to come to |

A session goes `find` (which project), `list`, `book` (`reuse`), `add`, `take`, `start`, `working`,
`ended` (`record` has applied the end and not yet released), `relist`, `retire`, `remove`,
`restore`, `over`. A role's own tree is named for the role, which is why a path that was removed
may be made anew while its first removal is still going on. `reuse` takes any free tree of the list
where the code takes the first.

`Allowed` names what an instance's callers and world may do:

* `git fails`, `disk full`, `start fails`: git or the backend refuses;
* `listed while adding`: git lists a tree before the claim that made it has booked it. Git does so
  as soon as it starts checking the tree out, and in any case before the manager takes its lock
  again;
* `fleet`: sessions are recruited, which asks for no existing session of the role;
* `asked again`: a role is asked for while its last session is finished but has not yet released;
* `prompted again`, `released again`: a finished session takes a prompt, or releases once more;
* `unqualified`: sessions are asked for without a project, so claim and release each look up the
  project in effect.

### Runs

Two sessions of two roles, and the tidying task as a third contender, in one project that isolates
its agents: two to quarrel over a tree, and one that removes trees without having asked for them.
The trees at the start are whatever a last process may have left. Three sessions were tried with
`TreesKept` and show nothing new.

| run | what it checks | what it shows |
|---|---|---|
| `TreesKept` | `NoTreeShared`, `TreeInUseStays`, `LeasesBelongToSomebody`, `NoTreeLeftBehind` | with one session for a role, which stays finished once it is, the whole promise holds: nobody shares, nothing is removed under anybody, nothing leaks and nothing is left on the disk |
| `TreesAnyUse` | `OneHolderPerTree`, `HeldTreesExist`, `SetAsideComesBack` | fleets, prompts to finished sessions, late releases and a git that fails do not make the *book* wrong. What a session does with a tree that is no longer its own is another matter |

What the weather breaks, one word at a time on `TreesKept`: `fleet` breaks `NoTreeShared`;
`prompted again`, `released again` and `asked again` break `TreeInUseStays` (and the first
`NoTreeShared` too); `start fails` and `unqualified` break `LeasesBelongToSomebody`;
`listed while adding` breaks that and `NoTreeShared`; `git fails` breaks `NoTreeLeftBehind`.

No liveness is claimed here: git may hang for ever, and the manager gives it no time limit of its
own.

## Terminals

`Terminals` models `crates/pushos-terminal` (`supervisor.rs`, `registry.rs`, `pty.rs`) and the task of
`crates/pushos-runtime` that applies what terminals report. A press runs in a task of its own; the
registry and the host have a lock each, held for one step.

| model | code |
|---|---|
| `reg` | `TerminalRegistry`: the status and name of each terminal, the order they were started and last active in, the selection, which were asked to stop |
| `program` | the program in each pty and how far its reader thread has come: `runs`, `ended`, `reaped` (out of the host's table), `reported` |
| `killed`, `doomed` | whose killer has been taken; whom shutdown has still to end |
| `reports` | the unbounded channel to the runtime, with at most `Backlog` on their way |
| `pc`, `wants`, `id` | where each call is: `open` is `Reuse` or `Open`, `Ask` (the limit), `Start` (the pty, in `spawn_blocking`), `Record`; `close` is `Close`, `Mark`, `Kill` |

`Apply` is `TerminalRegistry::apply` whole, with the pruning of finished terminals and the move of the
selection. Instants are kept by their order alone. `TerminalsPressed` has two calls, two identifiers
and one name, a limit of one and one finished terminal kept, so that reuse, refusal and pruning are
all reached: a third identifier adds only terminals nobody quarrels over.

`OneOfAName`: what two presses start runs once. `ListedIsRunning`: the registry and the host, which
share neither a lock nor an order, agree up to what is in the channel. `NoneLeftRunning`: shutdown
leaves nothing it started. `ClosedTerminalEnds` (liveness): what was ended is listed as ended in the
end; fair are the reader threads (blocking reads that return), the task that applies, and the end of
a program whose killer was used. That last is an assumption on programs: `pty.rs` sends the signal
and does not look again.

Broken by: `pressed twice` (`OneOfAName`); `dropped late`, a call dropped between starting and
recording, and `quick exit`, an exit applied before the record (`ListedIsRunning`); `opened late`
(`NoneLeftRunning`).

## An agent session

`AgentSession` follows a call from the supervisor of `crates/pushos-agents` through `AcpBackend`
to the task that drives the agent (`crates/pushos-acp/src/session.rs`), and what the session reports
back to the registry.

| model | code |
|---|---|
| `known`, `state`, `question` | the session as `SessionRegistry` has it |
| `reports` | `AgentEvent`s on their way to the runtime |
| `reachable` | whether `AcpBackend::sessions` still has it |
| `task`, `inbox`, `held`, `stopping` | `serve`: idle or in a turn, its channel of `COMMAND_CAPACITY`, `waiting`, `stopping` |
| `parked` | `PendingAnswers` |
| `pc`, `kind`, `about` | where each call is: `reach`, `send`, `sent`, `mark`, `forget`, `refused`, `deliver` |

`TakeNext` and `TakeInTurn` are the two places `serve` takes a command; `EndTurn`, `InboxCloses`, `Ends`
and `Dies` the ways it goes on or stops. `Dropped` is the dispatcher's budget, where a call waits for
room or for its answer.

`KeepsPromise` is the refinement: `AgentSession` implements `AgentPromise`, with a call `asked` while
it reaches, sends or waits, `taken` once it is answered, and the session `open` while it is reachable
and listens. So every call is answered or given up, one prompt is worked on at a time, and a call is
refused only by a session that is closed. `RecordSettles` relates what the registry says to what is
so, once every report and mark has been applied: the same state is written by the call (`mark`) and
again through the queue of reports, in either order.

`AgentCalls` has two calls, one question, and queues of one: two contenders, and every queue full.
Fair are the task that applies reports, `serve` taking what waits (strongly: turns interrupt it),
calls making their next step when there is room again (strongly: a bounded channel serves its
senders in turn), and a turn ending, which is an assumption on the agent. A call is also dropped by
the dispatcher's thirty seconds, but the promise is kept without that.

Broken by: `held twice`, a second prompt during a turn, whose first caller is never answered
(`KeepsPromise`); `late mark`, `abandons` (the agent gives up a turn with a question open) and
`quick end` (`RecordSettles`). Not stated: what is shown of two questions at once, or of one that
was refused after fifteen minutes; an answer to it fails, as the code says.

## Storage

`StorageWriter` models `crates/pushos-storage` (`writer.rs`, `retention.rs`, and the statements of
`store.rs` it runs): the bounded queue, the one thread, a statement at a time, each committed by
itself. The askers are the drivers of `WorkflowEngine`'s runs, each of which waits for its row before
the next; events are recorded by nobody in particular and waited for by nobody.

`Take`, `Execute`, `Fails`, `Answer` are the thread; `left` the statements it has still to run for the
request at hand, with the four of a trim behind an event when `TRIM_EVERY` have been counted;
`Drop` and `SendShutdown` are `Drop for StorageWriter`; `Lost` and `Start` the process.
`StorageKept`: two runs, a queue of one, a trim at every other event, one event and one finished run
kept, two starts, and writes that may fail.

`AcknowledgedIsOnDisk` is what callers of `save` rely on; `StepsHaveTheirRun` holds because a trim
deletes steps before runs, so a process lost between the two leaves no orphans; `WindowHolds` that the
record stays in its window though the counter between trims starts again at zero;
`AcceptedIsCommitted` and `WaitsEnd` that a stop, which is a message behind what is queued, commits
it and leaves nobody waiting. Fair are the thread and the sending of the stop.

Broken by: `late handle`, a handle used after the stop was sent (`WaitsEnd`: what is queued behind the
stop is dropped); `unwritten run`, a run whose first row found no room and whose steps did
(`StepsHaveTheirRun`); `failed trim` (`WindowHolds`); `failed event` (`AcceptedIsCommitted`).

## Gestures

`Gestures` models `crates/pushos-bindings/src/gesture` (the recogniser) and the arms of
`crates/pushos-runtime/src/actors/input.rs` that feed it, with the rest clock of `actors/rest.rs`.
The loop is biased: a reload first, then what waits, then a deadline, then word of the computer
sleeping; and it may be late, so that a release and a deadline both wait when it comes round. Time is
ticks: a deadline is the ticks left to it, and an event that waits has an age.

`OnDown`, `OnUp`, `Poll` and `Reconfigure` of the recogniser are operators; `OnInput`, `OnDeadline`,
`FollowPower` the arms; `Press`, `LetGo`, `Turn`, `MachineTurns`, `Unplugged`, `Tick` the world. `said` counts what was reported,
by kind; `lost` and `displaced` count the presses the loop was never told of or forgot.
`GesturesHeard`: two controls, one of which the configurations use for holding, double taps or both;
two touches, because a double tap and a press that wakes the surface take two; a queue of two and a
loop late by a tick; thresholds of two and one ticks, so that a hold, a tap and a second tap meet at
every boundary.

`OneMeaning`: a press is a tap, a hold, or half a double tap, never two of them. `HalvesAreExplained`:
a release without its press has a cause the model can name. `SleepingIsDark`.
`NothingWaitsForEver` (liveness): what a control waits for ends, a reload under the finger included;
fair are the arms of the loop and time.

Broken by: `touched while off` (`SleepingIsDark`: a touch lights a surface whose computer sleeps, and
it stays lit). A second press in the dark displaces the one that woke the surface, and its release is
then heard as half of nothing: that is what `displaced` counts. A hold is reported as a tap when the
loop is so late that the release has arrived, although `timing.rs` puts the threshold at the finger:
the event's own time decides, not the loop's, in all but this one case. Not modelled, and met here: a
press and its hold may be resolved on different pages; the results of actions may arrive in another
order than the presses.

## Configuration

`Bindings` has what a binding applies to, which of several wins and which sets are refused, as
operators on sets (`pushos-domain/src/binding.rs`, `resolver.rs`, `table.rs`, `validation.rs`).
`Configuration` has the files (`loader.rs`, `editor.rs`), who writes them and what is in force
(`store.rs`, `watcher.rs`, `runtime/control.rs`, `build.rs`).

| model | code |
|---|---|
| `disk`, `draft` | each file, and the one the operator's editor is in the middle of writing |
| `current`, `told`, `held` | `ConfigStore`, its generation, what the input loop took from it |
| `changed` | the watcher's channel of one |
| `reader` | what a client's request or the watcher is doing: reading a file at a time, saving a file at a time |
| `process` | not running, loaded before the files are watched, running, or refused at start |

`Ask`, `Read`, `Change`, `Save`, `Reread`, `Put` are `commit` of a request; `Notice`, `Settle`, `Read`,
`Put` the watcher; `Adopt` the input loop; `Begin` and `Finish` the operator's editor, with a file that
cannot be parsed in between. `Usable` is `RuntimeConfig::build` for pages and bindings.
`ConfigEdited`: two files; five edits, of every kind there is; two drafts, one of them refused; eight
bindings that agree in everything, in their address, or in nothing; one crash and start.

`EveryStrikeIsDecided`: at most one binding answers any touch. The order of precedence and the test for
conflicts are in two crates, and this is what relates them; it is also [proved](#what-is-proved).
`DiskStaysUsable`: after what clients write PushOS would start again. `EndsAsWritten` (liveness): what
is on disk in the end is in force in the end; fair are the tasks of the process, nothing of the
operator.

Broken by: `edits at once` with two clients (`Clients <- TwoClients`), each of whose edits is valid
and whose files together are not, and `save fails` and `crash while saving`, which leave one file new
and another old (`DiskStaysUsable`); `slow reload`, two reads put in force in the wrong order, and
`edit before watch` (`EndsAsWritten`).

## The surface

`SurfaceLink` models the render task (`actors/render.rs`), the MIDI writer (`midi/transport.rs`), the
display thread and its slot (`display/usb.rs`, `slot.rs`), connecting and letting go
(`pushos-push2/src/device.rs`, `pushos-cli/src/commands/run.rs`).

| model | code |
|---|---|
| `view`, `changed` | the watch channel of `SurfaceView` |
| `render` | what the task has drawn and believes to be lit |
| `queue`, `writer` | the channel of `OUTPUT_CAPACITY` and the thread behind it |
| `slot`, `sent`, `healthy` | the picture on its way, the last one, and whether transfers succeed |
| `hw`, `plugged`, `alive` | what the Push 2 shows; whether one is there, and whether it is the one that is linked |
| `session`, `script` | `serve_hardware`: looking, greeting, serving, leaving, closing; what it has yet to say |

`SurfaceShown`: three views that differ in picture, lights and rest, a queue of two, one unplugging.
`AtRestItIsRight` and `ShownInTheEnd` say that what is published gets to the surface, whole, although
the task marks it seen before it sends any of it; `HandedBack` that a surface let go of is dark and
Live's again; `StopEnds` that letting go never waits for a surface that is gone. Fair are the task and
the two threads.

Broken by: `writer behind`, lights dropped when the queue is full and taken as lit, `write fails` and
`transfer fails` (`AtRestItIsRight`, `ShownInTheEnd`); `display taken`, a display that cannot be opened
after MIDI was (`HandedBack`).

`SurfaceUnplugged` is violated: see [below](#where-the-code-does-something-else).

## What is proved

The TLA+ proof system checks every proof, for all values of the constants that satisfy the
assumptions of the module: any number of runs, tasks, sessions, controls, any graph, any limit. A
theorem names in its statement the weather it needs (`"word" \notin Allowed`); everything else in
`Allowed` may happen. For each hypothesis the section of the module says what breaks without it.

Hardly any of the properties is inductive. What each needs besides is below; the modules state it as
named invariants in the order in which they rest on one another.

### `WorkflowEngineProofs`

| theorem | under | states |
|---|---|---|
| `TypedInvariant`, `TypeInvariant` | nothing | `Typed`, `TypeOK` |
| `RunsAreNeverAbandoned` | no `slow call` | `NoRunIsAbandoned` |
| `FinishedRunsAreFew` | nothing | `FinishedAreFew` |
| `OneDriverARun` | no `cancel`, no `early start`, one call at a time, no terminal shared | `OneDriver` |
| `StepsAreLimited`, `HistoriesFollowTheGraph`, `OutcomesStand` | the same | `StepsWithinLimit`, `HistoryFollowsGraph`, `EndedStaysEnded` |
| `RowsSayWhatMemorySays` | no `store failure`, `late write`, `early start` | `RowSaysWhatMemorySays` |
| `EveryWaitEnds` | no `cancel`, no `early start`, one call at a time, no `quick worker`, no `zero delay`, edits that keep the delays; one run, or no step that opens a terminal | `EveryWaitHasAnEnd` |
| `StepsFollowTheirRows`, `RestartsReadForward` | the four of `OneDriverARun`, no `store failure`, no `late write` | `StepWrittenFirst`, `RowsMoveForward` |

`WorkflowInvariants` defines the invariants and `WorkflowEngineProofs` proves that they are inductive.
The argument goes from who may be on a run to what is written of it, and to what it waits for.

* Types alone are not inductive: a task about to step must have a step to go to, and one about to open
  a terminal must be on a step that opens one. `Typed` is `TypeOK` with that.
* `Solo` is `OneDriver` with what it rests on: nobody is on a run that waits, but a task that has let
  it go, or that is about to find that the wait is over. A wait is ended once because whoever
  ends it takes the run out of waiting in the same hold of the lock. For a terminal this is not enough,
  since an exit names a terminal and no run: `Entries` and `TerminalFree` follow a run from taking up
  a terminal step until its exit is heard, and say that no other exit of that name is on its way
  meanwhile.
* `Tracked` carries over an await what a task decided before it: what it holds is what the map says.
  `HistoryFollowsGraph` and `StepsWithinLimit` follow, for nobody else has moved the run.
* `Few` counts: pruning looks only when a run finishes, and between two prunings at most one does.
* `Kept` orders the rows of a run behind the map's lock; `Behind` and `Led` say of every point of a
  task which of row and transition is already on disk; `OutcomesTold` and `Onward` that no row goes
  back behind one that told an outcome.
* `Expected` is about what a run waits for, and has to be said before it waits. A worker is there before
  its run is parked on it; so a run *expects* a worker from the step that starts it until what the
  worker reports is taken to the run, whatever the map says in between (`Expecting`). A session serves
  many prompts and its news name no run, so what is owed is counted: no more runs expect a session
  than there are turns it has not ended and news of it that nobody has heard (`Owed`). Of those that
  are still to be parked there are no more than open turns (`Parkers`), since news that came before
  the parking would find nobody. A piece of news releases one run at most, the
  end of a turn adds one piece of news, and a prompt adds one turn and one run: each keeps the count. A delay has
  a sleeper, which finds its step when it wakes (`Asleep`, `DelaySteps`, `DelaysConfigured`). Terminals
  cannot be counted, because a name has one process at a time and its second opening ends the first;
  `InHand` says that with one run the process runs, or its exit is on its way, exactly while the
  run expects it. `NextExpected` has a lemma for each way a step may change what is expected:
  not at all (`Quietly`), by one run more (`Joins`), by the one that the news release, by a run entered
  again, or by everything at once when the process dies.

Each hypothesis has a trace behind it. With `cancel`, a step that is deciding writes back the copy it
read before. With `early start`, a run begun by hand is begun again by recovery. Two answers at once
both find the question open. Two runs that share a terminal across a restart are described
[below](#where-the-code-does-something-else); the hypothesis is that no step opens a terminal, or that
PushOS does not die, or that there is one run and no worker is done before its run is parked.
`EveryWaitEnds` needs workers that take longer than the parking, since one that is done at once finds
nobody waiting; and edits that keep the delays of a workflow, since a sleeper that does not find its step
gives up ([below](#where-the-code-does-something-else)). Each hypothesis is met
by `EngineAlone` (one run, terminals) or `EngineNightly` (two runs, none), and TLC finds the
invariants true on them (`TerminalFree` on the second, `Entries` and `InHand` on the first) when they are
named as `INVARIANTS` and the module of the run extends `WorkflowInvariants` too.

### `WorkingTreesProofs`

* `TypeCorrect`: `Spec => []TypeOK`.
* `OneHolder`, `HeldExist`, `ComesBack`: the three properties `TreesAnyUse`
  checks, for everything in `Allowed` but
  `listed while adding`. The invariant is `BookOK`. Its heart is `GoneIsSetAside`: a tree that is on
  somebody's old list and has gone is in `retired`, so `is_free` refuses it. That is why a removed
  tree stays in `retired` although nothing is there any more, and why `take` may clear it: whoever
  makes the tree anew is alone with it (`TakerIsAlone`), which is what `listed while adding`
  destroys. Each kind of step (handing out, making, booking, setting aside, removing, keeping,
  putting back, and the quiet rest) has a lemma, and `NextBook` reduces every action to one.
* `TreesAreNotShared`, `TreesInUseStay`, `LeasesAreReturned` (without `start fails` too) and
  `NoTreeIsLeft` (without `git fails` too): the promises of `TreesKept`, when a role of a project has
  one session (`OneSessionARole`: everything in `Allowed` but `fleet`, `asked again`, `prompted
  again`, `released again`, `unqualified` and `listed while adding`). `Callers` says so step by step:
  from being asked for to having given back its tree, a session is alone with its role and project
  (`OnePerRole`); it works in the tree the book has under that role (`InItsTree`), and a tree is made
  only for a role that holds none (`HoldsNothing`), so the book never loses one. What is put back
  after a refusal is still dirty (`KeptIsDirty`), because nobody works in it meanwhile. The traces
  that break each promise without its hypothesis are those of [Runs](#runs-1).

### `TerminalsProofs`

* `TerminalTypes`: `Spec => []TypeOK`.
* `OneRunsOfAName`, without `pressed twice`: a call that is opening has its identifier, and the name
  it opens, to itself (`Openings`, `Sole`).
* `RegistryAndHostAgree`, without `quick exit` and `dropped late`: a program is listed from the end of
  its call to the report of its exit (`Listed`), and an exit that waits is of a program that has gone
  (`Running`).
* `NoneIsLeftRunning`, without `dropped late` and `opened late`: from the moment shutdown begins, what
  runs is doomed or was killed (`Leaving`).

### `AgentSessionProofs`

* `SessionTypesHold`: `Spec => []TypeOK`. A command in the inbox, or held, belongs to one call which
  waits for it, and no two of them to one call (`Commands`, `Apart`).
* `SessionKeepsItsWord`, without `held twice`: the initial state and every step of `AgentSession` are
  those of `AgentPromise` or change nothing of what it sees. The refinement rests on `OnePrompt`: of
  the prompts at most one is in its turn and one is held. The fairness of `AgentPromise` is left to
  TLC (`KeepsPromise`).
* `RegistrySettles`, without `late mark`, `abandons` and `quick end`: the last report on its way tells
  what the task does (`Beginnings`, `Settling`), and a mark not yet made holds back what would make it
  wrong.

### `StorageWriterProofs`

* `StorageTypes`: `Spec => []TypeOK`.
* `AcknowledgedStays`, for all weather: of the rows and steps of one asker each is written before the
  next is asked for (`Recorded`, `Written`), and a trim only takes what is behind the window.
* `NoStepIsOrphaned`, without `unwritten run`: `Traced` follows a trim statement by statement; a
  run that is about to be deleted has lost its steps, because they were taken by the same window
  one statement before and nothing is saved in between.
* `WindowNeverOverruns`, without `failed trim`: the counter and the record are tied by the number of
  events since the last trim (`Windowed`), a restart included, because a store is trimmed as it opens.
  The lemma `YoungestAreFew` is what makes a trim worth its name: of any finite set the elements
  with fewer than `n` younger ones are at most `n`.
* `NothingAcceptedIsLost`, without `late handle` and `failed event`: everything this process accepted
  is in the queue, in hand, committed, or older than all that is kept (`Accounted`), and the stop
  comes behind all of it.

### `GesturesProofs`

* `GestureTypes`: `Spec => []TypeOK`.
* `PressMeansOneThing`, for all weather: what a control has been told and what its state may still be
  taken to mean (`Owed`) never add up to more than its presses (`Meant`).
* `HalvesAreAlwaysExplained`, for all weather: a release in the channel with no press of its own
  before it is a stray. `Explained` counts strays by their place in the channel: those on the way and
  the releases reported are never more than the presses reported, lost or displaced.
* `SleepingStaysDark`, without `touched while off`: `Dark`.

### `ConfigurationProofs`

`StrikesAreDecided`: for any controls, pages and bindings, any number of clients
and everything in `Allowed`, at most one binding answers a touch. `OrderParts` is the heart: of two
bindings of one key that apply where the operator is and accept how hard it was struck, the order
puts one first unless they agree in scope, force and priority, which is what `find_conflicts`
refuses. Scopes that are equally specific and both apply are the same scope; this is where the
weights of a project and a page, two and one, matter. `OnlyDecidableInForce` is the invariant that
carries it to the input loop: only what `Usable` let through is ever put in force.

`FilesStayUsable`: `DiskStaysUsable`, for any number of files and clients and any edits, when the first
files are usable and neither `edits at once`, `save fails` nor `crash while saving` is allowed. The
invariant, `Untouched`, holds for as long as the operator has written nothing: one client is at
anything; what it has read of the files is what they still say (`ReadsTrue`), so what it validated
differs from the disk by what is left to write (`WritesUsable`). `EditedFiles` shows that an edit makes
files of files, wherever the entry it names is. Each hypothesis is a way to write half of what was
validated, or to validate what is no longer there; the tail of [Configuration](#configuration) has them.

### `SurfaceLinkProofs`

What a surface shows depends on messages that are still in the queue, so the invariants speak of what
it comes to. `Comes(q, h, a, v)`: when the messages of `q` have been written to a surface that shows
`h`, its aspect `a` (one light, a brightness, the palette, the mode) is `v`, because the last message
to speak of `a` says so, or none does and it is so now. Saying one more (`ComesBeside`, `ComesSaid`)
and writing one (`ComesWritten`) are lemmas, and no recursion over the queue is needed.

* `SurfaceTypes`: `Spec => []TypeOK`.
* `WhatIsShownIsRight`, without `writer behind`, `write fails` and `transfer fails`: what the render
  task believes is lit, and the brightness it remembers, is what the surface comes to (`Known`), and
  how much of it belongs to the view depends on how far the task is (`Reached`). A surface that was
  pulled out and plugged in again is greeted first, which makes it what a new task takes it for
  (`Greeted`).
* `SurfaceIsHandedBack`, without `write fails` and `display taken`: what has been said of a farewell
  is on its way (`Parting`), and one that nobody writes to is as it was plugged in (`Untaken`). That
  the queue may be full does not matter here, for letting go waits for room.

### Only model-checked

Liveness (`EveryRunSettles`, `ClosedTerminalEnds`, `WaitsEnd`, `NothingWaitsForEver`, `EndsAsWritten`,
`ShownInTheEnd`, `StopEnds`, and the fairness of `KeepsPromise`), which the prover does not do. Every
other property of a passing run has a theorem.

## Where the code does something else

`SurfaceUnplugged` is a run that TLC must find violated, against sentences of the repository's own,
which `PROJECT.json` quotes: `serve` is said to return when the Push 2 is unplugged, but only a
picture that cannot be presented says so, and a picture that has not changed is not presented,
although the renderer asks its caller to. A surface that shows a still picture when the cable goes,
or is dark, is served until something else is drawn.

The following were met in the same way and are kept in the models as weather; each is one word in a
configuration away, as the sections above say.

* A cancellation is put back to running by a step that was deciding at the time, because each writes
  back a whole copy it read before an await (`engine.rs:562`; `cancel`).
* The worker of a step is started before the run is parked on it, so one that is done at once finds
  nobody waiting, and the run waits for ever (`engine.rs:376`; `quick worker`).
* An agent that asks for permission is not busy, so its run goes on with the turn still open
  (`engine.rs:273`; `agent asks`).
* A call dropped after thirty seconds between putting the run in the map and spawning its driver
  leaves a run that says it is running for ever (`dispatcher.rs:105`; `slow call`).
* Leases are kept by role and a fleet's sessions are of one role, so a fleet in a project that isolates
  its agents works in one tree (`leases.rs:3` says two agents must never be handed the same; `fleet`).
* A claim that lists the trees while another role's is being made takes the new tree for a free one
  (`manager.rs:271`; `listed while adding`).
* Two runs that name one terminal share it, and a restart puts a run that was taking a step back as
  it was written, waiting for the terminal of the step before, while a task goes on with it. The exit
  of the terminal the other run has opened since then releases that run a second time, and two tasks
  drive it (`engine.rs:343`; two runs of one workflow that has a terminal step, with `MaxCrashes` 1).
* A restart may find a workflow without the delay that one of its runs is sleeping out. Recovery ends a
  run only if the whole workflow is gone ("Ending it is honest; leaving it is a run nothing can ever
  advance", `engine.rs:187`); this one sleeps on, and its sleeper, which finds no such step, returns
  and leaves it waiting until somebody
  cancels it (`engine.rs:548`; an edition without `"wait"` among `NightlyEditions`).
* Last words of a terminal between the kill and its exit clear the mark that it was asked to stop, so
  a stop is shown as a failure (`registry.rs:74`).
* Several opens at once pass the limit on terminals together (`pty.rs:128`).
* `spec.rs:37` calls a binding's address exactly what precedence considers, but priority parts bindings
  of one address too: an edit then replaces the first it finds.

Not in a model, and read on the way: the limit of a retry counts every step of the run, where the
domain's comment speaks of rounds (`engine.rs:409`); an edit whose reload fails after the save answers
that it was rejected, although it is written; the death of the MIDI writer is noticed by nobody; a
prompt held in mid-turn is answered only after the turn, so that the thirty seconds report a failure
for what is then done.

## What is not modelled

`PROJECT.json` lists every component with what is left out of it and why.

* Planned above: the validation of workflows, the dispatcher's permissions and sequences, supervision
  and the order of shutdown, voice, Codex's turns, the runtime's seats and attached sessions.
* Not worth modelling: layout, text and widgets, which are pure functions from state to pixels; the
  calls into macOS and AppleScript; the wire formats of MIDI, ACP, Codex and the local socket; the
  files and index of packs and memory; the command line and Studio, which forward to the components
  here; the test kit. They are most of the repository's lines, and keep no protocol of their own.

Abstracted in what is modelled: the text of prompts, notes, answers and output; the workspace of a
run, several workflows at once; which of several free trees is taken, and branches (`branch -d` may
fail without effect on the book); the selection and slots of sessions and the providers of a role;
writing to and resizing a terminal; settings and the memory index among the requests to storage;
shift variants, aftertouch and touch among gestures; dials, packs, agents and workflows among what a
configuration holds; the palette's colours and pixels.
