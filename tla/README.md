# Harniverse: a verification of the agent core

TLA+ models of the parts of Harniverse that decide whether an agent's work and its log can
be trusted: the driver that turns queued messages into turns, the scheduler of tool calls,
the controller that writes the session's log behind the work, the repair that makes a log
whole after a crash, the registries and the factory that bring agents to life and tear them
down, and the coordinator through which all access to a stored log goes. TLC checks every model on small instances; TLAPS proves the
central invariants for every value of the constants. `PROJECT.json` lists, for the same
material in machine-readable form, components, runs, mutants (a plausible bug for every
checked property that TLC finds), the source lines of every definition, hazards, findings
and theorems.

Paths below are relative to the repository (`src/` in `PROJECT.json`).

## 1. The system

Harniverse is an agent harness: everything is a plugin of a Cordis context, and one Node.js
process runs many agents. JavaScript runs to completion, so concurrency comes from `await`
(anything may run before the continuation) and from listeners (an emitted event calls them
synchronously in the middle of the operation that emits, and they may call back into it).

### 1.1 Inventory of the core

| Part | State | Operations | Interacts with |
|---|---|---|---|
| **Agent driver** `packages/core/agent-loop/src/agent.ts` | phase (`idle`, `maintenance`, `running`) with its abort controller and wake latch, turn and step numbers, `accepting`, `activityDone` | `send` (`followup`, `steer`, `inject`), `cancel`, `runMaintenance`, `whenIdle`, `beginDispose`; inside: `wakeDriver`, `kick`, `turn`, `preStep`, `step` | inbox, session log, prompt assembly, model, tool scheduler, listeners of `agent/*` |
| **Inbox** `packages/core/agent/src/inbox.ts` | the next-turn and next-step lists, made durable as splice events | `splice`, `append`, `prepend`, `replace`, `remove`, `clear`, `claim`, replay at construction | driver, session log, listeners of `agent/inbox/*` |
| **Tool-call scheduler** `packages/core/agent-loop/src/tool-calls.ts` | position in the message's calls, pool of running bodies, settled outcomes, the positions of recorded calls, abort and failure flags | classify, start, prepare, dispatch, race, finalize and commit, skip, drain | tool registry, session log, inbox (a result's context) |
| **Session log contract** `packages/core/session/src/invariant.ts` | open turn and step, next numbers, pending calls | one rule for each event type | everything that appends |
| **Tail repair** `packages/core/session/src/repair.ts` | pending requests of a scan | `observe`, `results`, `interruptedTurnClosers` | driver (failed step), persistence (load) |
| **Write-behind controller** `packages/session/session-persistence/src/write-behind.ts` | pending events, window timer, active write, barrier, two flags | `enqueue`, `flush`, `cancelAutomaticWait`, deadline, settlement of a write | coordinator |
| **Persistence coordinator** `.../coordinator.ts` | a cursor per session, per-session serialization, live controllers, prepared sources | create, append, prepare, load, resume, adopt, retire, delete, flush | backend, session store, controller |
| **JSONL backend** `packages/session/session-persistence-jsonl/src/index.ts` | a file per session, write leases | materialize, append with rollback, read a prefix, truncate, repair | operating system |
| **Preparations** `.../preparations.ts` | per identity one shared prepared session: loading, ready, committing, reserved | load, join, commit, reserve, release, evict | coordinator |
| **Session store** `packages/core/session/src/index.ts` | live sessions, the append being observed, deferred detaches | append, prepare, enter, announce, detach, fork | all of the above |
| **Agent registry** `packages/core/agent/src/index.ts` | live entries, deferred detaches, initiator boundaries | enter, announce, detach, close, run in a boundary, drain | factory, plugins |
| **Agent factory** `packages/core/agent-loop/src/index.ts` | agents being prepared, published and torn down, creations in flight | create, resume, restore, dispose, unload | registry, session store, coordinator, driver |
| **Tool registry** `packages/core/tools/src/index.ts` | scoped registrations, guards | register, classify, prepare, dispatch, finalize | scheduler |

Around the core, each with a component entry: jobs, approvals and questions, goals, the
timer scheduler, durable queue, subagents, compaction, model adapters with retry, settings,
storage, authentication, chat bridge, the wire protocols, the web client.

### 1.2 How a message becomes a durable turn

`send` classifies the message, splices it into the inbox and, when it is a wake, starts the
driver or latches the wake. The driver opens a turn in the log, claims all next-step input
and one prompt, lets `agent/pre-step` decide, opens a step, asks the model, and hands the
requested tool calls to the scheduler, which appends calls and results. A step is followed
by another while its tools owe the model a request or input waits; otherwise the turn ends.
Each event appended to the log is observed synchronously by the persistence plugin, which
queues it in the session's write-behind controller; the controller hands batches to the
coordinator, which appends them to the backend behind its cursor. After a crash the log's
complete prefix is read, its open tail is closed by synthetic results, `step/end` and
`turn/end`, that repair is made durable, and the log is read again until it needs none.

### 1.3 What is hard about it

* **Reentrancy.** Every splice, status change and `turn/*` or `step/*` event runs listeners
  in the middle of an operation; they send, cancel, remove or dispose.
* **Aborts.** A signal fires between any two steps, and wakes that arrive behind it must
  neither join the aborted turn nor be lost, while work that was parked stays parked.
* **Concurrent bodies.** Tools settle in any order, are reclassified while they wait, fail at
  every stage, and are cut off by an abort; the log has one order.
* **Retries and crashes.** A failed append must leave no trace, since the same sequence
  numbers are appended again; a repair is up to three durable writes, each interruptible.
* **Teardown from everywhere.** An agent is disposed by its handle, its owner's fiber, the
  registry, the factory or a failed creation, from inside its own notifications, while it is
  being created, and from inside the boundary the teardown must drain.
* **One log, many callers.** A resume reserves a log that others read, delete, append to or
  still write behind from a session that has just left the store.
* **Promise jobs.** The write controller's settlement of one write is three jobs, between
  which appends and flushes arrive.

### 1.4 What makes each part correct

* Driver: the log it writes is well formed on every path; a turn always ends, with a reason;
  nothing begins under a fired signal; no message is lost, duplicated or merged into a turn
  that is not its own; a wake is delivered in the end; a disposal reaches a quiescence that
  lasts.
* Tool scheduler: every call has exactly one result, in model order, citing its own call;
  the pool is bounded and exclusive calls run alone; nothing starts once the step stopped,
  and nothing runs on after it closed; it always closes.
* Recovery: what was acknowledged stays; what is resumed is whole, and is the repair of one
  prefix of what the lost process had written.
* Write-behind: nothing is lost or reordered; one write at a time; a resolved flush stored
  everything; queued events always have a writer; every flush settles.
* Registries and factory: creation precedes disposal for every listener, one live agent per
  identity; an agent leaves at rest, unwound and flushed; a rejected creation leaves nothing;
  whoever is handed an agent is handed a live one; teardown waits for what it drains and
  never for itself.
* Coordinator: the cursor names the stored log; a reservation is exclusive and current; a
  session that retired is stored; every reader, drain and deletion is answered.

## 2. Modules

| Module | What it is | Lines of the code |
|---|---|---|
| `SessionTrace` | Abstract specification: which turn, step and tool-call events a log accepts, as the session's invariant companion folds them | `invariant.ts` |
| `AgentDriver` | Driver, inbox and the driver's callers and listeners | `agent.ts`, `inbox.ts` |
| `AgentDriverProofs` | Theorems about its types and its log | |
| `AgentDriverMessageProofs` | Theorems about messages, wakes and disposal | |
| `ToolScheduler` | The calls of one assistant message | `tool-calls.ts`, `repair.ts` |
| `ToolSchedulerProofs` | Theorems about it | |
| `SessionRecovery` | A log between process and file, with crashes | `repair.ts`, `coordinator.ts`, JSONL `index.ts` |
| `SessionRecoveryProofs` | Theorem about it | |
| `WriteBehind` | The write controller of one live session | `write-behind.ts`, `coordinator.ts` `flush` |
| `WriteBehindProofs` | Theorems about it | |
| `LifecycleDirectory` | Abstract specification: what a registry of live objects promises its listeners | |
| `AgentLifecycle` | Agent registry, session store, factory, and the teardown they share | `agent/src/index.ts`, `agent-loop/src/index.ts`, `session/src/index.ts` |
| `AgentLifecycleProofs` | Theorems about it, with the refinement of `LifecycleDirectory` | |
| `PersistenceCoordinator` | Everything that touches one identity's stored log | `coordinator.ts`, `preparations.ts` |
| `PersistenceCoordinatorProofs` | Theorems about it | |
| `MC...` | Instances for TLC | |

Operators marked "Fault:" stand just before the definition they would replace. They belong
to no specification; each is a bug one could make there, and `PROJECT.json` says which
property finds it.

### 2.1 AgentDriver

`phase`, `turn`, `step`, `abort`, `wakeRequested` are the fields of the driver's phase
(`abort` is the cause its controller was aborted with); `nextStep` and `nextTurn` are the
inbox; `pc` is the place where `kick`, `turn`, `preStep` or `step` waits, either for a
promise (`AwaitPoints`) or for the listeners of a notification (`SyncPoints`). `stack` holds
the operations suspended inside notifications, innermost first: an API call runs as a task of
its own, on an empty stack, or as a listener, on top of a suspended operation. A continuation
runs on an empty stack only. `settled` and `waiter` are the promise in `activityDone` and the
`whenIdle()` of a disposal. `trace` is the durable log, folded as `SessionTrace` folds it.
The remaining variables are history that only properties read.

Every method is cut at its notifications and awaits: `Send` and `SendReturns` are `send`
before and after the splice's listeners, `CancelFrom`, `CancelCleared`, `CancelAborts` the
three parts of `cancel`, `TurnStarts` to `TurnReturns` the parts of `turn`. A claim is two
splices, each with an append whose observers run before the list changes: `Claim` begins the
first that is not empty, `ClaimsSteps` and `ClaimsPrompt` are what happens once its observers
have returned, so an abort can fall into a claim and between its halves. The request a step
makes is one await which may end the step, call tools, fail, or be retried; assembly and the
waterfalls are awaits that settle or reject. Message content is left out. Session observers
cannot append while an append is being observed (the store rejects it), so at those points
(`AppendPoints`, the two of a claim among them) only an abort, or a cancel of an empty inbox,
gets through.

Two of the history variables carry a property: `owed` holds the waking messages that arrived
behind an abort or a maintenance task and still wait for their turn, and `dropped` those of
them whose latch a clearing cancel has reset while they waited.

`LogIsWellFormed` is refinement: `SessionTrace` with the driver's `trace` substituted.

### 2.2 ToolScheduler

`pc` is where `executeToolCalls` and `runGroup` wait; at the points in `Synchronous` the code
does not yield. `flight` is the pool: a body is running, or has settled and has not been
raced out yet. `slots` are outcomes that wait for their turn, `callSeqs` the remembered
positions of calls, `log` the events appended. A stage or a body may reject, the signal may
fire and a class may change whenever the scheduler is suspended. A failed step goes to
`recover`, where the driver's catch answers what the log shows unanswered. Every event the
scheduler appends is checked against `SessionTrace`.

### 2.3 SessionRecovery

`live`, `cursor` and `batch` are the running process; `committed`, `frame` and `torn` the
file: complete records (or frames), complete records inside a torn final frame, and whether a
fragment ends it. With plain lines any prefix of a batch, and a fragment, may survive a crash;
with frames the batch is there or torn, and its complete records can be decoded. A failed
append restores the file's size. The first batch is published with its file, whole or not at
all, by a link; the sync of the directory behind the link may be what fails, and then the
append rejects with the cursor at 0 and the batch in the file (`RolledBack`). A retry is
refused, since a log exists (`WriteIsRefused`), until the log is loaded; a crash before that
may take the link back (`LosesLink`). Loading is `Prepare` (scan and closers; publish if
nothing is to be repaired), then `Truncate`, `Restore`, `Close`, each a synced write that a
crash or a failure may cut off (a truncation whose sync fails has truncated the file), then
`Prepare` again. The live session generates the logs that turns can produce, the driver's own
recovery of a failed step included. `history` and `acked` are the lost process's log and how
much of it had been acknowledged.

### 2.4 WriteBehind

The fields have their names. The three jobs that settle a write are `WriteSucceeds` or
`WriteFails`, `Cleared`, and `ContinueAutomatic` or one of the barrier's continuations, in
this order; `Enqueue` and `Flush` may come between any two, timers and I/O only when no job
is queued (`JobsQueued`). `arriving` counts flushes that have cancelled the window and still
wait for the session's initialization, which succeeds here.

### 2.5 AgentLifecycle

A holder is one agent with its session: an *attempt* asked of the factory (`kind` says how:
`agents.create`, a configured agent, `agents.resume`, a configured restore), or a *guest* that
another plugin enters in one registry by itself. `stage[s][h]` follows an entry through
registry `s`: entered, announcing, announced, and then disposed (its disposal was told) or
dropped (nobody had been told of it). `deferred` are detaches that wait for the notification
of their entry to unwind. `stack` holds the notifications being delivered; calls happen on top
of it, continuations of an await on an empty stack only.

`pc` follows a creation: load, setup, then the windows in which listeners of the session's,
the agent's and the start's announcement run, each of which may throw, dispose or unload.
`load` is the reservation of the stored log, `abort` the fused signal of caller, owner and
factory. `teardown` is the memoized teardown, one `await` per stage: cancel and wait for the
driver, unwind the scope, flush the session, release agent and session; `RollBack` is the same
teardown started by a failed publication. `factory` and `initiators` are the teardowns of the
factory's fiber and of the registry's initiator boundaries; `boundary`, `parent` and
`unloader` record which driver runs inside whose boundary, since the chain that began an
unload must not be waited for. The driver itself is `idle`, `busy`, or `stranded`: marked
running without a driver, after the registry refused its boundary.

`Directories` is refinement, twice: the registry of agents and the store of sessions each
implement `LifecycleDirectory`.

### 2.6 PersistenceCoordinator

One identity. `stored` and `unclean` are the artifact: a log is the sequence of the authors of
its events, so that two logs agree at a place exactly if they hold the same event there.
`known`, `cursor` and `owner` are the entry in `states`; `chain` is the promise chain that
serializes operations, with the head running, `batch` what it is appending and `deletes` that
it is deleting. `prepared` and `phase` are the entry in the preparations; `result`, `base` and
`repair` what the preparation read. `live`, `written` and `writing` are the live record of a
session and its write-behind controller, reduced to what it owes; `current`, `retiring` and
`retirement` follow a session out of the store. Readers are calls of prepare, load and inspect,
each a small program over `pc`: look for a live session, a retirement or a shared entry, wait,
take turns, commit on the chain, hold, publish or release. `overtaken` marks live sessions
whose log a public append or a deletion changed under them (section 6).

The two halves of the system meet here: `AgentLifecycle` loads, reserves and flushes through
this protocol and abstracts it to `load` and `flushed`; `WriteBehind` details the controller,
`SessionRecovery` the torn tails that are here one repair event.

## 3. Runs

| Run | Instance | Distinct states | Shows |
|---|---|---|---|
| `driver_safety` | 3 messages, one restored at turn 4; 1 cancel; 1 maintenance task; 1 step that owes a request; listeners 2 deep | 424 thousand | ten safety, action and refinement properties of the driver |
| `driver_liveness` | 2 messages, 2 cancels, listeners 1 deep, fair | 279 thousand | wakes are delivered; disposal quiesces |
| `tools` | 4 calls, pool of 2, 2 changes of class, fair | 378 thousand | seven safety, action and refinement properties, and that the step closes |
| `recovery` | 10 events, 2 calls a message, 2 crashes, 1 failure, both encodings | 2.5 million | what is acknowledged and what is resumed |
| `recovery_liveness` | 6 events, otherwise the same, fair | 102 thousand | repeated loads converge |
| `writes` | 6 events, 3 flushes, 3 failed writes, fair | 24 thousand | four properties of the controller, and that flushes settle |
| `lifecycle` | 11 plans of one or two attempts and a guest, 1 to 3 interfering calls, listeners 2 deep, fair | 165 thousand | both directories, quiescent departures, clean rejections, live handovers, teardowns that end |
| `coordinator` | 9 starts, 2 readers, at most 4 session objects, fair | 139 thousand | cursor, reservation, retirement, and that every call settles |
| `driver_replay`, `driver_stopping`, `driver_lost_wake`, `driver_parking` | small | | four statements of the documentation that the code does not keep (section 6) |

Deadlock is not checked where the system may rest: an idle or disposed agent, a closed step,
a log whose bounds are used up, a controller with nothing to do, agents that are all gone,
callers with nothing more to ask. What would be a deadlock in
the middle of work is a violation of the liveness properties of the same modules.

### 3.1 What the properties say

The comment above each property in its module states it. The ones that need an explanation:

* `WakeAfterAbortStartsAnotherTurn` and `OwedWakeIsDelivered` are the two halves of the
  redirection of wakes that arrive behind an abort or a maintenance task: never into the
  aborted turn, and into a turn in the end. The second has three exemptions. A message that is
  removed or cleared is owed nothing. A `keepInbox` cancel that aborts the driver the wake has
  started parks the message, as the option says. And a clearing cancel resets the latch after
  its discards were notified, so a wake sent by one of their listeners can lose its latch and
  keep its place in the queue (`dropped`); that the code loses this wake is what the run
  `driver_lost_wake` shows (section 6.1). `LatchOnlyBehindAbort` is the third: no other wake
  leaves a latch, so work that a `keepInbox` cancel parked is not restarted by it.
* `NothingBeginsAborted`: under a fired signal the driver opens no turn, enters no step and
  begins no claim. A claim that has begun is finished, since the signal is not read between its
  two splices, and takes exactly what it would have taken (`BeingClaimed`); the step it was
  made for is not entered.
* `DrainedForGood` is what callers of `dispose` rely on: after `whenIdle()` returned, no
  suspended operation can start a driver any more.
* `EveryExitHasItsEnding`: every way out of a turn assigns its ending before `turn/end` is
  written, and a turn that hit the token limit never ends `completed`.
* `EveryCallAnsweredInOrder`: at any time the results in the log are those of a prefix of the
  calls, in model order, and all of them when the step has closed.
* `GroupsCommitWhatTheyStart` is the comment "unreachable" in `runGroup`.
* `AckedIsKept`: while a process runs the file is exactly what the cursor says, with one
  exception, a first publication that was rejected behind its link: then the cursor is 0 and
  the file a beginning of the log. While none runs, the file begins with what was acknowledged.
* `LoadedRepairsAPrefix` is the strongest statement about crashes: however many repairs were
  interrupted, and wherever, the resumed log is the closed form of a single prefix of the log
  the lost process had, and that prefix contains all it was told is durable. A repair that
  wrote closers and is then taken up again must therefore not close twice, and restored
  records must keep their numbers.
* `LeavesQuiescent` is what a reader of the registry may conclude from an agent's absence: its
  driver is at rest, its scope unwound, its session flushed. `refused` teardowns are apart
  (section 6).
* `HandedOutAlive` is checked at the instant a creation resolves: every listener that ran
  before it may have disposed the agent, unloaded its owner or the factory.
* `LifecyclesSettle` and `InitiatorsDrain` would be violated by a teardown that waits for
  itself: `Waits` makes a driver's convergence depend on what the driver waits for, and only
  the exemption of the chain that began the unload breaks the cycle. Agents that are
  `stranded` are apart (section 6).
* `ReservedIsCurrent` is what makes a resume safe: whoever holds a prepared session holds it
  alone, and its events are the stored log as it is at that moment.
* `CursorNamesTheLog` and `RetiredIsStored` set apart sessions that were overtaken.
* `NeverStranded` allows events to wait without a writer in one situation, behind a failed
  write (`automaticPaused`), as the package's README says.

### 3.2 Why these bounds

Two messages are enough for a wake to meet a parked prompt; the third lets both lists be
non-empty while another message arrives. One cancel can meet any point of the driver, and the
disposal, which the bound does not count, can come before or behind it; the liveness run has a
second cancel that meets the consequences of the first. Depth 2 is a listener of an operation,
depth 3 a listener inside a listener. A step that owes a request is followed by one that does
not, and the counter of steps is not otherwise read. Four calls give two groups of two around
a change of class, a pool that is full while a third call waits, and a call behind the last
group. In ten events fits a turn with two calls, in any state of completion, and the beginning
of a second turn; two crashes are one in the live process and one in its repair. Three flushes
are one that owns a barrier, one that joins and one that arrives too late to; three failures
can hit a background write, the barrier's retry and the write after it.

`MCPlans` lists who asks for what: each of the four ways to create an agent, under three
interfering calls (a dispose, an unload, an abort, a wake, an append); two attempts for one
identity under one or two; an attempt and a guest of either registry for one identity under
two; two configured agents under three, so that one may be woken inside the boundary of the
other, and the registry unloaded inside that. `MCStarts` lists what is stored and live at the
start with the calls still to come: nothing, a closed log, a log cut inside a turn, a live
session ahead of its log when the plugin is reloaded; with up to two readers, two sessions
published, one append that fails, and up to three deletions, public creates or appends,
evictions and aborts. What each plan and start still allows is what keeps the run within
minutes; every action fires in them, and every property has a fault that they find.

### 3.3 Fairness

Nothing is asked of callers, of the abort, of crashes or of failures. `AgentDriver` assumes
weak fairness of continuations (the engine runs queued jobs, and each awaited listener, tool,
model call or maintenance job settles), and strong fairness of a model's final answer, since
otherwise a request can be retried for ever. `ToolScheduler` assumes that stages and bodies
settle, each body by itself. `SessionRecovery` assumes that a load is requested again;
failures are bounded. `WriteBehind` assumes that jobs run, armed timers fire and writes
settle. `AgentLifecycle` assumes that listeners return, settled awaits resume, a cancelled
driver converges unless it is itself waiting (`Waits`), an aborted load or setup is given up,
and a fiber whose service is unloaded is unloaded too; a load, a setup or a driver that nobody
aborted may last forever. `PersistenceCoordinator` assumes that the backend answers, settled
awaits resume, a final drain writes, and that whoever holds a preparation publishes it or
gives it back.

## 4. Proofs

`tlapm` proves, for every value of the constants:

* **`AgentDriverProofs`** `TypeCorrect`, `IdleLogClosed`, `EveryExitEnds` and `LogWellFormed`,
  the refinement of `SessionTrace`. Assumed of the constants is only `DriverAssumption`: the
  bounds are naturals, causes exclude the two reserved words, and the restored prompts are
  distinct.
* **`AgentDriverMessageProofs`** `OnePlace`, `NothingLost`, `SolePrompt`,
  `WakeStartsAnotherTurn`, `LatchBehindAbort`, `DisposalDrains` and `AbortedBeginsNothing`,
  from the same assumption: with the four above, every safety property of the driver that
  the passing runs check.
* **`WriteBehindProofs`** `WellTyped`, `NothingLost`, `SomeoneWrites`, `SingleWriter` and
  `FlushIsABarrier`, assuming that the bounds are naturals.
* **`ToolSchedulerProofs`** `SchedulerTypes`, `ResultsInOrder`, `ResultsCiteTheirCalls`,
  `PoolBound`, `NothingRunsBehindTheStep`, `GroupsAreCommitted`, `NothingStarts` and
  `ToolLogIsWellFormed`: every safety property of the scheduler, for any number of calls and
  any pool of at least one.
* **`SessionRecoveryProofs`** `AcknowledgedIsKept`: durability through failed appends, crashes
  and interrupted repairs, in either encoding and for any number of calls, events, crashes and
  failures. Assumed is that these are naturals.
* **`AgentLifecycleProofs`** `LifecycleInvariant`, `TypesHold`, `AgentsLeaveQuiescent`,
  `NothingLeftOfRejected`, `FactoryLeavesNothing`, `HandedOutIsAlive` and
  `RegistriesAreDirectories`: every safety property of registries, factory and teardown that the
  runs check, and both refinements of `LifecycleDirectory`, for any number of agents, other
  plugins, identities, plans and nested notifications. Assumed is `LifecycleAssumption`.
* **`PersistenceCoordinatorProofs`** `CoordinatorTypes`, `CursorIsTheLog`,
  `ReservationIsCurrent` and `DrainedIsStored`: every safety property of the coordinator that
  the runs check, for any number of sessions and readers, any stored and live logs at the start
  and any number of calls and failures. Assumed is `CoordinatorAssumption`: there is a session
  object, and the starts are records of the types named there.

*The driver's invariant* is `LogInv == TypeOK /\ DriverInLog /\ EndingInLog`. None of the
properties is inductive: that an idle agent's log is closed says nothing of the state from
which the driver goes idle. `DriverInLog` says for each place `pc` can be what is open in the
log: nothing before the turn's start and after its end, a turn without a step between steps, a
step while the model or tools are awaited, always with the driver's own numbers. The step
number is 0 until the turn's first step and positive behind one, which decides whether a claim
takes a prompt. It also says that a driver exists exactly while the phase is `running`.
`EndingInLog` says at which places the turn's ending is assigned and how it relates to the
token limit. Steps of callers leave `pc` and `trace` alone, apart from a wake that starts a
driver, so the proof has one lemma for the frame conditions of callers and one step for each
action of the driver.

*What is suspended and what is latched* is `WakeInv`. A waking send that finds the activity
aborted sits in its notification before it may latch, and the latch is only sound if the
activity is still the aborted one when it does. `WakeInv` therefore speaks of the stack: while
the agent is idle or its signal has not fired, no such send is suspended, and none is ever
suspended below a driver's frame. The driver goes on only from an empty stack or from its own
frame on top, so whatever gives the agent a live activity finds none of them.
`DisposalInv` is of the same kind: once the wait has returned, only operations that
wake nothing are suspended, and admission, closed before any operation that carries the cause
`disposed`, keeps others from being pushed.

*Where messages are* is `PlaceInv`, which is inductive over the four things any step does to
the inbox (`InboxStep`): nothing, an arrival, a withdrawal, a claim. *Which turn takes them* is
`TurnInv`: a prompt's turn and the turn a wake landed in are at most the current one, and
smaller while `turn/start` is being appended; a message that landed is never in the next-step
list. It needs `PointInv`, that the frame of an append's notification is on top of the stack
while it runs: observers of an append can only abort, so no wake lands in a turn between its
opening and the end of its first claim (`AwaitsPrompt`), and both halves of a claim find the
lists as the claim began with them. That nothing begins under a fired signal
(`AbortedBeginsNothing`) rests on `LogInv` as well: an aborted driver closes what it has open.

*The controller's invariant* is `WriteInv == ControlInv /\ Conservation`. `ControlInv` adds to
the types how barrier, write and window exclude each other (`BarrierInv`): the write is the
barrier's exactly while the barrier awaits a write of its own, a barrier that is about to
continue finds no active write, and while a barrier exists no window is armed. `NeverStranded`
needs this, since the only thing that excuses pending events without a window is a barrier or
a write that looks again; `OneWriteAtATime` needs it where a barrier continues in the same
round as a background write's continuation.

*The scheduler's invariant* is `SchedulerInv == TypeOK /\ ProgressInv /\ ExclusiveInv /\
RoomInv /\ LogParts`. `ProgressInv` accounts for every call between `committed` and `started`:
it is being prepared, runs, or waits in a slot, and when the pool is awaited the next result
in model order is not one that waits already. From it follow that a group ends committed, that
the drain leaves nothing running, and that commits keep model order. `ExclusiveInv` relates
the class a call had when it started, which may since have changed, to the group's last call:
an exclusive call in flight is the last its group may start. `RoomInv` needs the finiteness of
the pool for its cardinality. `LogParts` ties the log to the counters: until a failure the
answered calls are `1 .. committed`, and every call that still waits has its position
remembered; it is what makes the recovery of a failed step, which reads only the log, answer
the right calls in the right order.

*The recovery's invariant* is `RecoveryInv`. While a process runs (`UpInv`), the file is the
first `cursor` events of its log, or what a first publication left that was rejected behind its
link (`StoredInv`), and the batch in flight is what follows the cursor. So an append that
returns leaves the file a longer prefix; one that fails leaves it as it was, or, the first one,
as the batch, a beginning of the log; and one that would return over such a file is refused.
Otherwise
(`DownInv`) nothing is in flight and the file begins with what was acknowledged, which every
crash and every step of a repair keeps, since they only add to the complete records. `FrameInv`
says that only a torn file holds an unfinished frame: a log that is published without a repair
is therefore exactly its complete records. The closers matter only as a sequence of events.

*The invariant of lifecycles* is `LifecycleInv`. Its parts speak of one holder at a time, so
that a step is proved for the holder it moves and the others are framed. For an attempt they
say what its notifications on the stack mean (`DeliveryInv`), what exists at each place of its
creation (`CreationInv`), and in which order its teardown took things apart (`OrderlyInv`): the
driver is idle once the scope unwinds, the session is flushed before the agent leaves, and
leaves after it. Detaches that wait for a notification occur only in guests and in teardowns
that were refused, which have an invariant of their own (`RefusedInv`, section 6.2). `StackInv`
says that a notification is delivered once at a time, and that the disposal's is the oldest on
the stack, since a teardown continues from an await only. `FactoryInv` says that the teardown of
the factory reaches every attempt that exists or is in flight: an attempt is aborted or in
teardown from the moment the factory begins, so what it awaited last is the last there is. The
refinement maps a directory's notifications to the holders that are `announcing`; a step of the
lifecycle is one step of the directory or a stutter, and which one follows from the parts above.

*The coordinator's invariant* is `CoordinatorInv == Types /\ SessionPart /\ EntryPart`. What a
step of the chain may assume was checked when its operation was queued, by code that ran long
before, so the invariant is mostly about the queue: what each queued operation still finds
(`QueueInv`), that a session waits for one operation at a time (`Untwinned`), and which of two
operations runs first (`Before`). The order matters twice. A session created while the disposed
one still waits for its initialization is initialized after it, so an older session never claims
the identity from a newer one (`ClaimInv`). And an entry is loaded behind every
initialization and every commit that was queued before it (`OrderInv`, `CommitInv`), so no
claim and no late commit comes between the load and the reservation.
`TurnInv` says whose turn it is at an entry, `HeldInv` that from its commit on what a reader
holds is the stored log and nobody's: the turn keeps every append from the log while it
lasts. `LogInv`, claimed as long as nothing overtook a live session, ties the logs together:
the stored log is the beginning of its owner's, the batch at the backend continues it, and what
a controller is done with is stored, unless its session left without an event. With the queue's
promise that a retiring session owes nothing, that is `RetiredIsStored`. The entry and the
sessions meet only in the chain and in `current`, so most steps have one frame lemma for each
(`SessionsStay`, `EntryStays`) and are proved for the part they move. What the proofs know of
logs are six lemmas on `Covers`.

*What stays with TLC.* Liveness (`ENABLED` and fairness are outside the prover), and
`LoadedLogIsWhole` and `LoadedRepairsAPrefix`, which depend on what the scan of a log computes,
an induction over data that the installed provers cannot do. Every other property that a
passing run checks is a theorem.

## 5. Not modelled, and why

* Of the modelled parts: the request a step builds and the chunks it logs; `Inbox.replace` and
  the rebuilding of the lists from a log; sequence numbers and seeds in the log contract; an
  append to the in-memory log that throws, except where a disposal runs into it; a rollback of
  a failed append, or a close of its handle, that itself fails; the loss of a directory entry
  whose sync failed once a log was loaded from it; checkpoint windows; write leases; forks and
  surfaces of the session store beyond the seed of a created session; a rejected first
  publication that left its file, outside `SessionRecovery` (`PersistenceCoordinator` takes a
  rejected append to have stored nothing); `load()` of a session that is live; the listing
  behind a configured restore beyond whether the log exists.
* The remaining parts of the repository have an entry of their own in `PROJECT.json` with the
  reason. They are of three kinds: I/O and rendering, where what matters happens outside the
  process (model adapters, processes and terminals, sandboxes, web and file tools, user
  interface); generated code, catalogues and applications; and parts with a protocol of their
  own that this project does not reach yet (section 7).

The map covers a small part of the repository by lines. The modules stand for the agent core,
on which everything else is a plugin; most of the rest is breadth rather than protocol.

## 6. Findings

### 6.1 Statements the code does not keep

Each is a run whose only property states what a document or comment of the repository says.

* `driver_replay`: a comment says that a latched replay is suppressed when the queue no longer
  holds the wake. The code asks whether anything is pending, so a prompt parked by a
  `keepInbox` cancel is started although the wake was removed.
* `driver_stopping`: `agent/turn-stopping` is documented to run when no tool continuation is
  left. After a token-limited step, a steered step that calls tools reaches it with results
  that the model has not seen.
* `driver_lost_wake`: a waking message sent behind a cancel is documented to run when the
  aborted activity converges, and a clearing cancel to clear the latch together with the inbox.
  The latch is reset after the listeners of the discards have run (`agent.ts:175-181`): a wake
  that one of them sends behind an abort is latched and then forgotten, while its message stays
  queued beside an idle agent until another wake.
* `driver_parking`: work queued before a `keepInbox` abort is documented to wait for a later
  wake. An abort after the turn's last check of its signal is forgotten with its controller,
  and the driver claims the prompt.

One more needs no run: `agent/request-error` is documented to run after the failed step closes
(`docs/subsystems/core.md:231`); the code runs it inside the open step (`agent.ts:436`), and a
retry continues in it.

### 6.2 What the models set apart

These are behaviours of the code that the models contain and that the properties exempt by
name, so that everything else about them is still checked.

* `dropped` (`agent-loop/src/agent.ts:178`). Wakes whose latch a clearing cancel reset behind
  the listeners of its own discards (section 6.1).
* A claim whose first append fires the signal (`agent/src/inbox.ts:71-78`). The message that its
  second splice takes belongs to a turn that ends aborted, and no step shows it to the model.
* `Refused` (JSONL `index.ts:870-886`, `:916-925`). A first publication that is rejected behind
  its link leaves the log on disk; each retry of the running process is refused, by a check
  whose comment calls it unreachable in practice, until the log is loaded again.
* `refused` (`agent-loop/src/index.ts:514`). A disposal called by an observer of an append,
  with input pending, throws when it clears the inbox; the `finally` releases session and
  agent, while the driver is not cancelled, the scope not unwound and nothing flushed.
* `stranded` (`agent-loop/src/agent.ts:234`). A wake while the registry refuses initiator
  boundaries throws after the agent was marked running; nothing runs that could make it idle,
  and its `whenIdle()`, its disposal and the factory's teardown wait for it.
* An owner's unload that finds a teardown in flight returns at once (`index.ts:567`), so it does
  not outlast the agent; no property says that it does.
* `overtaken` (`coordinator.ts:1671`). A batch of a live session is appended to whatever state
  the identity has: when the log is deleted while a retirement still drains, and recreated,
  the old tail goes to the new log; a public append to a live session's log makes its next
  write fail.
* `NoOne` in `overtaken` (`coordinator.ts:1252-1256`). The repair that a resume commits leaves
  the cursor of a state nobody owns behind the log until the next commit; an append in that
  window passes the cursor's check, and the JSONL backend, unlike SQLite's, does not check
  again.

## 7. Plan

Done: the modules of section 2 and the proofs of section 4. What a continuation would take up,
in this order:

1. `UserApproval`, `Jobs`, `GoalRounds`, `Subagents`: requests settled by an answer, a
   cancellation or a disposal, whichever is first; every waiter is answered once.
2. `Compaction` and the session's surface, with forks.
3. The timer scheduler and the durable queue across restarts.

Proofs: with each of these, its safety properties; of what exists, none is left that the prover
reaches.
