# ReadinessOS in TLA+

ReadinessOS rehearses business incidents. A *run* executes a scenario: people
and AI advisors submit actions, a virtual clock ticks, injects fire, approvals
gate the risky actions, and everything that happens is an event of the run's
stream. This directory models the parts of the program where order, failure and
concurrency decide whether a run is right, checks them with TLC on small
instances, and proves the central facts with TLAPS for every value of the
constants. Paths below are relative to the repository root; `runtime.ts` is
`src/packages/application/src/runtime.ts`, the kernel is
`src/packages/simulation-kernel/src/index.ts`.

Contents: [the system](#the-system) · [the modules](#the-modules) ·
[runs](#what-the-runs-check) · [bounds](#bounds) · [fairness](#fairness) ·
[proofs](#what-is-proved) · [findings](#findings) · [limits](#what-is-not-modelled) ·
[plan](#plan) · [how to run](#how-to-run)

## The system

| Component | State it keeps | Operations |
|---|---|---|
| **Simulation kernel** | a run's aggregate: status, version, virtual time, world, participants, schedules, open approvals, applied command ids and keys | `execute` of eleven commands, the cascade of effects and injects, `replay`, `createBranch` |
| **Run repository** (`PrismaRunRepository`) | the rows `SimulationRun`, `RunEvent`, `StateSnapshot`, `Approval`, `Decision`, `OutboxMessage`, `RunScheduleLease` | `createRun`, `createBranchRun`, `execute`, `loadState`, claims and releases |
| **Run services** (`RunApplicationService`) | none | `resolveApproval`, `executeScheduledTick`, `reconcileRunningRuns`, `streamEvents` |
| **Run creation and branching** (`createRun`, `createBranchRun`, `StudioRunService`) | versions of a scenario, a run's key, a child's inherited state and snapshot | derive a version, create, start, branch |
| **Tick scheduling** | scheduler generation and next tick index of the run, its lease, the durable workflows | start and cancel handlers, `runTickWorkflow`, the reconcile cron |
| **Outbox** | unpublished messages with attempts, lock and next attempt | `claimPendingOutbox`, the publisher, the shared drain |
| **Agent dispatch** | `AgentDispatch`, `AgentQuestion`, `AgentActivity` | enqueue, claim, recover, complete, retry, answer |
| **Agent recommendations** | `AgentRecommendation`, `Decision` | recommend, decide, supersede, defer, expire |
| **Agent turns and sessions** | `AgentSessionLink`, `AgentTrace`, `UsageLedger` | a turn of the external agent runtime and its recording |
| **Event streaming** | the hub's subscribers, a stream's cursor, the page's event store, its sources and its recovery | backfill, wake-up, reconnect, recover |
| **Scenario definitions** | none: two packs, and the drafts of versions | `specializeScenarioPack`, validation, what the kernel makes of a pack |
| **Guest demo and release policy** | rate-limit counters, expiry of a run | creation limit, retention, agent budget |
| HTTP routes, authorization, web interface | none of their own | parse, check permission, call a service, render |

How they interact. A route builds a command envelope (command id, idempotency
key, expected version) and calls the repository's `execute`. That loads the
state (latest snapshot, then the events behind it), gives state and command to
the kernel, which is synchronous and pure, and writes events, projections and
outbox messages in the same transaction, provided the run row still has the
version the command expects. After the response the outbox is drained: run
events go to the hub (streams) and to the agent handlers, scheduler messages
claim or release the run's lease and start a workflow. The workflow sleeps,
renews its lease and sends `advance-clock` commands through the same `execute`.
Agents read observations and write recommendations; a human decision turns one
into a command.

Which behaviours are hard, and what makes each part correct:

* **Kernel** - long sequences of legal commands; a cascade in which one inject
  makes another one due; a command that throws half-way. Correct: the stream has
  no gap and no repeated key and restores the state; an inject fires once in a
  run and its branches; an approved action was asked for, approved once and
  executed by somebody who may; nothing follows completion; the clock moves
  only while the run is running; nothing due is left behind.
* **Tick scheduling** - messages at least once and in any order, workflows that
  are started twice, die, stall beyond their lease or lose an answer; a version
  read before the transaction that uses it. Correct: every minute is made by
  exactly one tick; the clock moves only while the run is running and not
  expired; a running run ticks on; a completed one comes to rest.
* **Repository transactions** - reads without locks, several of them, then one
  update under a version check; repeated and lost requests; two people on one
  approval; snapshots that are written only now and then. Correct: the stream is
  the work of commands one at a time, each on the state of the whole stream;
  what is stored beside it follows from it; answers are true.
* **Outbox** - a lock of 60 s and handlers that may take longer; drains that die;
  a failure noted after somebody else's success. Correct: every row is published
  in the end, and handlers bear the repetition.
* **Run creation** - requests that repeat each other, run side by side and stop
  half-way; a start that others overtake; branches of branches. Correct: one run
  and one scenario version per key, one start, and a child is loaded as the
  history it shares with its parent.
* **Agent dispatch** - a worker that is taken for dead and is not, messages twice,
  a free advisor looked for by one statement and taken by another. Correct: one
  active dispatch per advisor, one workflow per dispatch, every analysis ends.
* **Agent recommendations** - supersede, defer, expire and decide race with each
  other and with commands, by updates that name a row only by its id. Correct:
  one decision at most reaches the kernel, on the facts the recommendation rests
  on, and a recommendation stays adopted only if its action was executed.
* **Agent turns** - the charge of a turn hangs on a trace that must be new for a
  new turn and old for a replay. Correct: every turn is charged, once.
* **Streaming** - a page of events read, sent and then a wait for the hub, which
  may tell in between; recoveries, reconnects and more than one source that feed
  one store. Correct: a timeline without a gap, no lost wakeup, a recovery that
  leaves nothing behind.
* **Scenario packs** - effects that name paths, one-shot injects, approvals, a
  draft that leaves out any role. Correct: every draft gives a pack the kernel
  accepts, no command of a rehearsal throws, and every rehearsal can be closed,
  with full marks for what closing asks for.

`PROJECT.json` lists the components with their status, the map from every
definition to its lines, and the hazards, each at its line with the properties
that catch it or the reason why none does.

## The modules

### SimulationKernel, KernelReplay

One run aggregate. `execute` is synchronous and applies each event to a
`workingState` as it appends it; the module follows that: a command opens a
*call* (`Begin`), every `append` is a step, and `Return`, `ThrowIterations` or
`ThrowInvalidState` closes the call. While a call is open only its own steps are
enabled, so they are the statements of one synchronous run; between calls any
command can come, with any id and key.

| Model | Code |
|---|---|
| `state`, `base` | `workingState`, the state `execute` was given |
| `log` | the persisted stream followed by the open call's `events` |
| `todo` | the effects not yet applied (`applyEffects`) |
| `fired` | the iteration counter of `runDueInjects` |
| `outcome` | status and rejection code of the last `execute` |
| `StartRun` ... `CreateBranch` | the cases of the command switch |
| `ApplyEffect`, `DropEffects` | one effect; the terminal check in front of it |
| `FireScheduled`, `FireConditional` | the two halves of the loop of `runDueInjects` |
| `Throw...` | the iteration error and the state schema's refusal: nothing is kept |
| `ApplyEvent`, `Inherit` | `applyEvent`, the state of a branch child |

A trigger is its syntax tree in post-order (a sequence of nodes, the children
named by their places), so that its value is a recursive *function* and the
module stays within reach of the provers. World state is a number per path with
a range the schema accepts. `KernelReplay` adds `replay`, which is a recursive
function too: the state after an event from the state before it.

### RunScheduler and TickClock

One run's tick scheduling. Every transaction that takes the row lock, or commits
under its version check, is one step; whatever lies between two transactions
interleaves. A member of `Flows` is a *slot*: a holder id with the workflow
started for it, used again when neither a workflow nor the lease refers to it.

| Model | Code |
|---|---|
| `run`, `lease`, `outbox`, `ticks` | run row, lease row, unpublished scheduler messages, the ticks' idempotency keys |
| `StartRun` ... `OtherCommand` | committed user commands with `deriveSchedulerInstruction` |
| `DeliverStart`, `DropStart`, `Launch`, `LaunchFails`, `LauncherDies` | `startHandler` and its failures |
| `DeliverCancel`, `Reconcile` | `cancelHandler`, `reconcileRunningRuns` |
| `FirstRenewal`, `Wake`, `TickRenewal`, `CheckBlocker`, `ReadRun`, `Tick...`, `Release` | `runTickWorkflow` and `executeRunTickStep`, in their order |
| `CommitAnswerLost`, `StepFails`, `WorkflowDies`, `StalledLeaseExpires` | retries of durable steps, lost answers, a holder stalled beyond its lease |

`opened` is a history variable: the minute at which the open decision window was
opened. No action looks at it; `OneTickPastTheWindow` compares it with the clock,
which the window stops except for the tick that has passed its check already.

`TickClock` is what the rest of the system is promised: time moves one minute at
a time, only while the run is running and not expired, and stops for good at
completion. `RunScheduler` implements it (`ImplementsTickClock`); the run row is
the mapping, everything else of the scheduling stutters.

### RunStore, RunCommands and CommandLog

The transaction of `execute`, with `resolveApproval` and `executeScheduledTick`
around it. The transactions run at the database's default isolation (read
committed) without an explicit lock for user commands, so each query sees what
is committed at that moment: `ReadRow` (the run row), then `Decide` (duplicate
key, snapshot, events, and the kernel), then `Commit` or `Conflict` (the update
under the version check, which holds the row lock to the end, and all the writes
behind it). The two queries of `Decide` are one step because events are only
added and the load is cut at the sequence number the row was read with: another
order of the two gives a result that a slower or faster `ReadRow` gives too. A
tick locks first and is one step (`LockedTick`). `GetApproval`, `GetRun`,
`MarkStale` are the statements `resolveApproval` makes outside the transaction.

`RunCommands` is the kernel as far as two requests can get in each other's way:
one participant who may or may not act, one action that needs an approval, and
the command's events. `CommandLog` is the promise: each command that was asked
for takes effect at most once, in a single step, on the state of the whole
stream at that moment. `RunStore` implements it (`ImplementsCommandLog`) with
the requests' commands as `asked`.

The unique indexes of `RunEvent` are left out of `RunStore` on purpose: that
sequence numbers never collide (in `StoreInv`) must follow from the
version check alone.

### AgentDispatch

The analyses of one advisor of a run. A *slot* is a process: an outbox handler
or a request that enqueues, or a workflow that analyses. A transaction is one
step unless it reads what somebody else may change before it writes: `Lookup`
and `Create` (or `Merge`) are the two ends of `enqueueDispatch`, `CheckVersion`
and `Recommend` (or `Supersede`) those of `createRecommendation`. What is a
statement of its own in the code, such as the outbox message behind a dispatch
row, is a step of its own here, or a step that may stop half-way.

| Model | Code |
|---|---|
| `dispatches`, `session`, `advice` | the rows of `AgentDispatch`, the advisor's `AgentSessionLink`, the pending and deferred `AgentRecommendation`s |
| `events`, `schedules`, `messages` | unpublished `run.event`, `agent.schedule` and `agent.dispatch` messages |
| `HandleEvent`, `Expire`, `Schedule` | the `run.event` handler: supersede, expire and enqueue anew, schedule |
| `HandleSchedule`, `RequestAnalysis`, `Lookup` ... `Queue` | the two ways to ask for an analysis, and `enqueueDispatch` |
| `HandleDispatch`, `Claim` ... `QueueRetry` | `executeAgentDispatch`, its outcomes in their order |
| `AnswerQuestion`, `Recover` | the answer route, the cron's recovery of stale locks |
| `StatementFails`, `ProcessDies`, `LockOutlived` | a failed statement, a lost process, a workflow slower than its lock |

`due` stands for a `nextAttemptAt` that has come, `stale` for a lock older than
its five minutes, `seen` for the version of the facts the model was shown, `of`
for the dispatch that observed them. The session link is the advisor's, not the
dispatch's: an answer continues the session that is there, whoever opened it
(`borrowed`). The
model runtime answers as it likes: a proposal, nothing, a question or a failure.
What an incident commander does with a recommendation is one action here
(`CloseAdvice`), and a module of its own next.

### Recommendations

The life of the recommendations of a run. The transactions run at read committed
and take no lock in advance, so each is a step that reads and a step that
writes, and a write that names its row by the id alone overwrites whatever the
row has become. The queries of one transaction are one step: what they read is
written by different handlers, and each of the writes that follow is a step of
its own. "adopt" stands for "modify" too, which sends another action the same
way.

| Model | Code |
|---|---|
| `recs`, `decisions`, `events` | rows of `AgentRecommendation` and `Decision`, unpublished `run.event` messages |
| `StartOffer`, `Offer` | `createRecommendation` |
| `ReadStale`, `Supersede` | `supersedeStaleRecommendations` |
| `ReadDue`, `Expire` | `expireDueRecommendations`, after an event that moved the clock |
| `StartEnqueue`, `Enqueue` | what `enqueueDispatch` closes: what is due, and the advisor's last one if the analysis is forced |
| `Check`, `Decide` | `requirePendingRecommendationTx`, `decideWithoutKernel` |
| `Reserve`, `Accept`, `Refuse`, `Throw`, `Record`, `Undo` | `decideWithKernel`: the reserving transaction, the command, the recording one, the catch clause |
| `WorkerFails`, `RecordFails`, `DeciderDies` | a statement that fails, a process that ends |

### RunCreation and RunTree

Several runs of one scenario: the version the Studio derives for a key, the run,
its start and its branches. A request may stop at any point, and a later one may
come with its key; nothing but the key connects them. The Studio's keys and the
header's do not meet (`KeyOf`), because the Studio puts the scenario in front of
its own. A command is one event here.

| Model | Code |
|---|---|
| `scenario`, `runs` | versions and the key each was made for; run rows with events and snapshots |
| `Ask`, `Command` | a request of one of the routes; any other command on a run |
| `Derive` | `createScenarioVersion`, one transaction under the scenario's lock |
| `Find`, `Create` | `createRun`: the early look for the key, the insert that the unique index decides |
| `ReadRow`, `Lookup`, `Commit`, `ReadAgain`, `Answer` | `startRun` with its two attempts through `execute` |
| `Branch` | `createBranchRun`: one step, as it holds the parent's row lock |
| `Load`, `Appended` | `loadStateAtSequence`; an append with its snapshot, which a branch forces |

The field `origin` is a history variable: the events that a child shares with its
ancestors. `LoadsItsHistory` compares it with what snapshots and events give.
The version is compared before the key is looked for, so that a repeated branch
request with its old version gets a conflict; it never makes a second branch.

`RunTree` is what whoever reads a run is promised: a tree of histories that only
grow, each by the next fact of the run itself; a run that was started stays
started; a branch begins with a part of its parent's history, as that was, and
with the parent's scenario version; and a key makes one run. It knows no requests,
snapshots or replays. `RunCreation` implements it (`ImplementsRunTree`): the
mapping is what `Load` gives for each run at its last event, so that a snapshot
that does not agree with the events behind it, or a branch that loads more or less
than it branched from, is a step that `RunTree` does not have.

### Outbox and EventDelivery

`Outbox` has the rows of a run's events and the drains that deliver them, one per
process. `EventDelivery` extends it by the way of an event from the hub to the
timeline of a page: the two share the step in which a drain hands a row to the
hub of its process. A stream lives in one process and hears only that hub.

| Model | Code |
|---|---|
| `rows`, `drains` | `OutboxMessage` rows of the topic `run.event`; `activeOutboxDrain` of each process with the batch it claimed |
| `Claim`, `Publish`, `PublishFails`, `MarkPublished`, `MarkFailed` | `claimPendingOutbox`, `publishPending`, `markOutboxPublished`, `markOutboxFailed` |
| `AbandonedLockAges`, `HeldLockAges`, `BackoffEnds` | the 60 s of a lock, whose holder is dead or only slow; the delay of a failed row |
| `sources` | an `EventSource` with the run of `streamEvents` that serves it and what is on the wire |
| `List`, `Send`, `Heard` | the loop of `streamEvents` and the listener it gives the hub |
| `store`, `With`, `Ingest`, `IngestMany` | `RunEventStore`; `With` is what it does with events that arrive |
| `recovery`, `RecoveryRead`, `RecoveryReply`, `RecoveryFails`, `RefreshFails` | `recoverEvents`, which does nothing while it is at work |
| `Arrive`, `Break`, `GoOffline`, `GoOnline`, `Open` | connect and reconnect; the source that the page remembers, and one it may have lost sight of |

A reconnecting `EventSource` sends its last event id, but the route prefers the
cursor in the URL, so that a stream starts again where it started first; the
page's store drops what it has. The attempts counter of a failed row only sets
its delay and is left out. `told` is a history variable.

### AgentSession

The turns of one advisor, one after the other: the handle that was read from the
link, the session Eve was given, the traces and the charge that `persist` writes,
and the link it leaves. Eve is external: it numbers the events of a session from
0 (`agent-traces/route.ts` calls the index session-local) and answers with a
proposal, a question or a failure and any number of events.

### ScenarioPack, SaasIncidentPack, CustomerEscalationPack, ScenarioRun

`ScenarioPack` has the vocabulary of a pack, its validation and contract, and
`Specialize`, the restriction of a pack to the participants of a version
(`specializeScenarioPack`). The two packs are translated in full: participants,
actions with policy, precondition and approval, injects, effects, evaluators.
`ScenarioRun` rehearses a specialised pack: a command is one step with the
injects that follow from it (`Settle`), and `DropUndefined` and `Reloaded` are
what storing the state as JSON and loading it make of the world. A run ends by its
pack's own closing action; the director's `finish-run`, which ends any run at any
time, is in `SimulationKernel` and left out here, so that `ClosesWithItsCast` and
`ClosingEarnsFullMarks` speak of rehearsals that nobody cuts short. Where
`SimulationKernel` asks what any pack may do, this asks whether these two work.

### MC and proof modules

`MCSimulationKernel`, `MCRunScheduler`, `MCRunStore`, `MCAgentDispatch`,
`MCRecommendations`, `MCRunCreation`, `MCScenarioRun`, `MCEventDelivery` and
`MCAgentSession` give the constants values; the modules whose name ends in
`Proofs` hold the theorems, and `DataInduction` lemmas that three of them need.
Operators whose comment begins with "Mutant:" are plausible bugs; no
specification uses them. Each stands in front of the definition it changes, and
substituted for it makes the property it is listed with in `PROJECT.json` fail.

## What the runs check

| Run (cfg) | Question | Result |
|---|---|---|
| `kernel` (MCSimulationKernel) | any four commands on a new run and on a branch child, with cascades up to the bound and beyond: is the stream well formed, does it restore the state, do injects fire once and approvals gate, is nothing left due, is completion silent, does time move only while running | holds, about 39,000 states |
| `scheduler` (MCRunScheduler) | two workflows, three commands, a fault, every order: exactly one tick a minute, one tick at most past an open decision window, harmless cancels, implements `TickClock`; a running run ticks on, a completed one comes to rest | holds, about 218,000 states |
| `store` (MCRunStore) | three requests around an approval, one lost or repeated: serial effect, stored state, true answers, resolved once, rows that follow the stream, a decision that fails only after two foreign commits | holds, about 697,000 states |
| `dispatch` (MCAgentDispatch) | two processes, one command, two questions, two faults: is the active key with one dispatch that is not over, is there one workflow per dispatch, do recommendations rest on no facts but those they are offered for, unless a session was borrowed, and then on no later ones | holds, about 850,000 states |
| `dispatch_live` (MCDispatchLive) | failed turns, repeated messages, outlived locks: does every analysis end, and has a pending one always a message or a process that brings it to its claim | holds, about 27,000 states |
| `dispatch_restart` (MCDispatchRestart) | does a restart lose no request for an analysis, as a comment says | violated, see findings |
| `recommendations` (MCRecommendations) | two decisions among events, expiry, a forced analysis and two faults: one submission, on its facts, adopted means executed, and what the run has overtaken is closed for good, save for a late deferral | holds, about 397,000 states |
| `run_creation` (MCRunCreation) | three requests of any kind with two keys, stopped anywhere, and one other command: one run and version per key, one start, the right history, implements `RunTree` | holds, about 94,000 states |
| `scenario` (MCScenarioRun) | all 4153 drafts of the two packs, six of them rehearsed to the end in every order, with ticks, approvals and one inject of a director: does every draft run, does no command throw, can every rehearsal be closed, with full marks | holds, about 163,000 states |
| `scenario_stored` (MCScenarioStored) | does a stored rehearsal of the customer escalation apply its actions, as its README says | violated, see findings |
| `event_delivery` (MCEventDelivery) | two processes, two events: is every row published, is the timeline a prefix of the stream, is no wakeup lost, does a recovery leave nothing behind | holds, about 234,000 states |
| `agent_session` (MCAgentSession) | is every turn charged, as comments say | violated, see findings |

Deadlock checking is off everywhere because the systems do stop: a run's
commands are bounded, a completed run comes to rest, and requests run out. That
nothing stops too *early* is what `ClockAdvances` (scheduling), `CascadesEnd`
(kernel), `AnalysisEnds` (dispatches), `StaleIsClosed` (recommendations),
`EveryRowIsPublished` (outbox) and `ClosesWithItsCast` (packs) say.

## Bounds

* `CommandIds`, `Keys` (kernel): four commands. A scenario needs start, an action
  or approval, a clock step, and one more for the repetition, the second
  decision or the late command. Fresh ids and keys are interchangeable, so only
  the first unused one is tried. The scenario has a condition that schedules an
  inject, one that disables a participant, one that completes the run with an
  effect behind it, an approval, and a state the schema refuses.
* `MaxTriggerIterations` is 2 with three injects: cascades end before the bound,
  at it, where the code throws although nothing is left, and beyond it.
* `Flows` (scheduling): two slots, the lease's holder and one left over, of an
  older generation or the same; slots are reused, so there may be any number of
  workflows one after the other. `Horizon` 2: a tick and the completing tick.
  `MaxCommands` 3: start, and pause with resume or another. `MaxFaults` 1.
* `Requests` (store): three beside the approval that waits from the start, which
  are two decisions and one command to come between, or a request, its repetition
  and another. `SnapshotInterval` 3 puts snapshots between, on and behind
  commands. `Kinds` leaves out checkpoints, which commit like any other command.
  `MaxFaults` 1 counts lost and repeated requests.
* `Slots` (dispatches): two, the analysis and what gets in its way: a request, a
  second analysis, or the workflow that was taken for dead. `MaxVersion` 1: facts
  before and after the analysis. `MaxDispatches` 3; in `dispatch_live` 4, which is
  enough for every enqueue of that run (a request, an event twice, a requeue).
  `Faults` names the kinds of fault that occur in a run.
* `Deciders`, `Workers` (recommendations): two decisions that race and another
  process among them, which handles events, expires and offers. `MaxRecs` 1: no transaction relates two recommendations.
  `MaxVersion` 2: the decision's own commit and one that overtakes it. `Window`
  and `Deferral` 1, so that one tick expires.
* `Requests`, `Keys` (creation): three requests with two keys, so that two share
  one and a third comes between. `MaxRuns` 3: a child and a grandchild.
  `SnapshotInterval` 2 puts snapshots of the interval beside those that branches
  force. Requests and keys are interchangeable and only compared, which is what
  the symmetry of that run uses. Its one temporal property is a refinement, which is a
  safety property, and whose mapping names no request and treats all keys alike.
  `MaxCommands` 1: the mapping loads every run again in each step, and one foreign
  command is enough for a start that is overtaken and a version that has moved on
  (a start that fails twice is overtaken by a branch, too).
* `Drafts` (scenario): every choice of participants and controllers of both packs.
  `Rehearsed`: each pack complete, the SaaS incident stored and the escalation in
  memory (stored it ends at once, see findings), and the escalation without each of
  the participants that may be missing. `MaxDirected` 1, of the injects in
  `Directable`, which are those that change what can be done; `MaxPending` 1,
  since no action looks at what is pending.
* `MaxEvents` 2, `BatchSize` 2 (outbox): one row behind the other, in one batch or
  in two. `StreamPage` and `RecoveryPage` 1: pages that are full, not full and
  empty. `Sources` 2: the remembered source and a lost one. `MaxFaults` 3 in a run
  without a page: a slow drain, a failing one and one that dies; `MaxPageFaults` 1
  in a run with a page, where each kind of fault, or an own command's answer,
  meets everything else. (The two together are out of reach, and need not meet:
  what a page sees of the outbox is that the hub tells it of an event, at any
  time, twice or not at all, which one fault gives.)
* `Started`, `MaxEvents` (sessions): four turns of up to two events.

No state constraint is used; counters are bounded in the guards and named above.
The theorems hold without these bounds.

## Fairness

`RunScheduler` states fairness, weak and per obligation of the platform: each workflow takes its steps (durable workflows are resumed), some deliverable
outbox message is delivered (requests and the cron drain it again and again),
the cron reconciles, and a lease nobody renews expires (time passes). Nothing is
assumed of the users, of the decision window or of faults, which are finitely
many by `MaxFaults`. Under it `ClockAdvances` and `CompletionQuiesces` hold;
`ClockAdvances` asks that the decision window is eventually closed for good in
the minute at hand, for the code lets it stop the clock.

In `AgentDispatch` processes go on, backoffs end, locks grow old and are
recovered (weak fairness), and each `agent.dispatch` message is delivered if it
can be again and again: strong fairness, since the one free process may be taken
by another message, and the outbox hands out messages by age. Nobody has to
answer, decide or command: `AnalysisEnds` is therefore checked without questions,
and without crashes and failed statements, after which a pending dispatch may
lack its message (`dispatch_restart`).

In `EventDelivery` locks grow old and delays end, some process starts a drain as
long as one can (the cron drains the outbox every minute, requests do when they
come), and a drain that has started goes on until it ends or its process does
(weak fairness of each). No process in particular has to drain. Nothing is
assumed of the page, for `EveryRowIsPublished` does not need it.

In `Recommendations` some process goes on as long as one can, and an undelivered
event is taken up as long as there is one (the outbox is drained again and
again): weak fairness of both. Nobody has to decide. `RunStore`, `RunCreation`
and the kernel promise safety only: every request ends by itself or is dropped.

## What is proved

`SimulationKernelProofs`, from `KernelAssumption` (the scenario's effects and the
inherited states are well typed, the effects are of the kinds a scenario can
define, the injects are finitely many, ids and keys are distinct from the reserved
ones), for any scenario and any number of commands:

* `TypeCorrect`, `StreamIsWellFormed` (types and a stream without gaps or repeated
  keys, `TypedStream`), `InjectsFireAtMostOnce`, `CompletionIsFinal`:
  `Spec => []P` for the properties that `kernel` checks, all from one inductive
  invariant, `KernelInv`.

The properties are not inductive. A throw cuts the stream back to where the call
began, so that `KernelInv` says of *two* states, the working one and the base,
that each belongs to a prefix of the stream (`Consistent`): same length, applied
keys and command ids, fired injects and completion. Uniqueness of keys needs to
know where the keys of the open command begin and that none of them was there
before the call; that completion is final needs the terminal checks in front of
every effect. The proof has one lemma per way the stream changes (it is
extended, cut back, left alone), one per operation, and composes them.

`RunSchedulerProofs`, from `SchedulerAssumption` alone, for any number of
workflows, commands and faults:

* `TypeCorrect`; `MinutesAreTicks` (`TickInv`), that every minute was made by one
  tick and ticks are numbered without a gap over all generations;
* `WindowHoldsTheClock`, that an open decision window lets one more tick through at
  most, however many workflows there are and whatever fails;
* `SchedulingImplementsClock`, the refinement of `TickClock`: initial states map
  to initial states, and each action to a step of the clock or a stutter.

`MinutesAreTicks` is inductive with the types: only a committed tick touches the
three variables, and it checks its index against the row. The lease is *not*
needed for it, which is worth knowing: the lease saves work, the row lock and
the index make the clock right.

`OneTickPastTheWindow` is not inductive: the window is looked for by a query of its
own, and a workflow that has found none may tick after one has opened. `WindowInv`
adds that once the clock has moved under an open window nobody who holds the lease
is past the check (`PastTheCheck`): there is one holder, its tick has been made, and
the next workflow to tick has to look for the window first. Here the lease *is*
needed, together with the fact that who has lost it does not get it back
(`HoldersStay`).

`CancelsAreHarmless` of the same module is about the lease: a late cancel never
deletes the lease of the generation that is running. It rests on one more
invariant, that no instruction in the outbox is of a generation still to come.

The same module goes on, from the same assumption, with

* `ApprovalsAreGates`: whatever an approved action does was asked for and then
  approved, each approval once;
* `ClockStopsWithTheRun`: the clock moves only between a start or resume and the
  next pause or completion.

Both speak of the stream alone, while the guards of the code look at the state.
`SafetyInv` therefore says that the status, the participants and the open
approvals follow from the stream (`Follows`), of the base as well as of the
working state, since a throw goes back to it; and that the first effect of an
open call is warranted by what stands before it.

Then `CascadesEndOrEarnTheBound`: a command leaves nothing due behind it, and
throws the iteration error only with as many injects fired as the bound names.
`CascadeInv` follows one call: what is due when the loop of `runDueInjects` ends, and that the counter is the number of
distinct injects the call has fired (which needs the set of injects to be finite).

Last, `StreamRestoresState`: the stored events replayed from nothing give the
state. `RestoresInv` says that there are states the replay goes through, from the
empty one on, the last of which is `state` and the one at the base's number
`base`; so that a throw cuts the states as it cuts the stream, and an append
adds the state that `ApplyEvent` gives.

`AgentDispatchProofs`, from `DispatchAssumption` alone, for any number of
processes, dispatches, versions, questions and faults:

* `KeyHasOneActiveHolder`: types, and the active key is with one dispatch, which
  is not over;
* `ADispatchHasOneWorkflow`, for `Faults` without "stall": from the claim to the
  last word about the dispatch nobody else works for it. The invariant needs the
  time behind a superseded recommendation, when the workflow no longer holds the
  dispatch but may still fail and revive it;
* `RecommendationsRestOnTheirFacts`, with every kind of fault;
* `NoAnalysisIsEverForgotten`, for `Faults` without "error" and "crash": a pending
  dispatch always has its message, or a process that holds it or is about to write
  the message, and while its backoff lasts the delayed message. With a failed
  statement or a lost process it is false, which is what `dispatch_restart` shows; turns
  that fail, repeated messages and outlived locks do it no harm.

For the last of them, the facts at hand are no older than the dispatch that
observed them (`Founded`), said of processes and of the session; the version is
compared behind the last observation. For `NoAnalysisIsEverForgotten` what
has to be shown is that whoever takes the message away takes its place: the
handler of a message works for its dispatch from that step on, and
gives it back, by a claim or by a message with a delay. It is proved as one
lemma per way the carriers of a dispatch can change (`CarriersStay`, `OneMoves`,
`OneGoes`, `NoneMoves`), which the lemmas of the actions cite.

`RecommendationsProofs`, from `RecommendationAssumption`:
`RecommendationIsSubmittedOnce`, `ExecutionsRestOnTheirFacts` and
`AdoptedRecommendationsWereExecuted`. The updates name a row by its id alone, so
that a process cannot rely on the status it has read; the proof rests on what no
update does: none brings a row back to "pending", only a reservation makes it
"adopted", and its base version stays. A row past the reservation is past it for
good, and whoever brought it there is the only one to go to the kernel.

`EventDeliveryProofs`, from `OutboxAssumption` and `DeliveryAssumption`, for pages
of any size: the types and the gapless timeline of `DeliveryInv`, that no wakeup
is lost and that a recovery catches up. What is on the wire is consecutive and
begins no later than right behind the page's cursor, a recovery asks at a cursor
the page has had, and an event that was told of is within the page that was read
or queued.

`RunStoreProofs`, from `StoreAssumption`, for any number of requests and
approvals, any snapshot interval and any faults:

* `StoredStateFollowsStream`, `AnswersHold`, `ApprovalsHold`, `PatienceHolds`: the
  four safety properties of the run `store`;
* `StoreImplementsCommandLog`, the refinement: the commit of a request is the step
  of its command in `CommandLog`, everything else stutters.

`StoreIInv` says that the run row, every snapshot and what every half-done
request has read are each the state of some prefix of the stream (`LogInv`,
`SnapshotInv`, `SeenInv`), and of a request that is about to commit that its
events are what the kernel made of the prefix it has seen (`DecidedInv`). The
version tells which prefix that is, because it only grows; if it is still the
row's, the prefix is the whole stream, and the commit is a serial step. That is
all the code has: no lock is needed before the update, and no unique index on the
events. `AnswerInv` and `RetryInv` are about one request; `ApprovalIInv` about
the approvals, where an approval that has been resolved is not open in the state,
so that nobody who has seen the resolution resolves it again, and whoever has not
seen it loses the version check.

`RunCreationProofs`, from `CreationAssumption`, for any number of requests, keys,
runs and commands, and any depth of branching: `RequestsAgree`,
`HistoryIsLoaded`, `RunsStartOnce` and `AnsweredRunsGoOn`, the properties of the
run `run_creation`. `CreationIInv` says of every run (`RunOk`) that its log begins
with its creation and has no other, that it has one start at most, that what it
inherited is what it branched from, and that each of its snapshots is the state
at its number; of every request (`RequestOk`) what it has found out, in terms
that can only become true: versions and runs are never taken back, logs only get
longer. The start is unique for the version check again: a start commits only
if its key, looked for in all the events there are, is not among them, and
nothing but the creation is.

* `CreationImplementsRunTree`, the refinement, from the same invariant: a run's
  state as `Load` gives it is read from its events alone (`ReadIs`), whichever
  snapshot `Load` starts from. An event of a run is then one fact more of that
  run and of no other (`OneEventMore`), a created run is born with nothing behind
  it, and the child of a branch with what its parent's state was at the event it
  branches from (`Older`, `PastIs`). A derived version, a created run, a committed
  start or command and a branch are the steps of `RunTree`; everything else of a
  request stutters.

`DataInduction` is what these proofs stand on where they speak of a replay.
The library's induction theorems take a predicate as a parameter, which none of
the provers used here can instantiate; here the predicate is a *set* of numbers, and
induction (`Induction`, `BoundedInduction`, `Greatest`) follows from the
well-foundedness of the naturals. `RunExists` and `SameRun` say that a state that
is computed from event to event exists and is unique: the first unfolds a
recursive function whose body reads the value before, the second compares two.

The inductive invariants were checked by TLC, on the bounds of the runs, before they
were proved.

Every invariant and every step property of the passing runs is a theorem, except
those of `ScenarioRun`. Only model-checked: liveness (`ClockAdvances`, `CompletionQuiesces`, `AnalysisEnds`,
`StaleIsClosed`, `EveryRowIsPublished`) and anything with ENABLED; and the four
properties of `ScenarioRun`. Those are about two fixed packs, whose drafts and
rehearsals TLC goes through completely: there is no constant to generalise over,
and their effects and evaluators are folds.

## Findings

Three runs show that the code does not do what a text of the repository says.

*A dispatch without a message* (run `dispatch_restart`): a request for an analysis
writes the dispatch row and its outbox message by two statements. If the process
ends between them, nothing delivers the dispatch, and the cron recovers running
dispatches only; the comment in the route says that no restart loses the request.

*A stored escalation cannot begin* (run `scenario_stored`): the initial state of the
customer escalation gives `response.ownerParticipantId` the value `undefined`. The
state is stored as JSON, which drops the path, and the first action of the pack's
loop sets that path: after a load the effect throws. The SaaS pack starts with
`null`, and says that it does so for this reason.

*A turn without a charge* (run `agent_session`): a turn in a new session of the
agent runtime is traced from the index that the session before left in the link,
and the link then keeps the new session's own index. If the turn ended with a
question, the turn of the answer writes trace identities that are there already;
they are skipped, and what is skipped is taken for a replay and not charged.

Other places where the code does not do what one of its comments or messages
says, noticed while modelling. The modules follow the code, and none of these is
in conflict with a property that is checked:

* A cascade of exactly `maxTriggerIterations` injects throws the iteration error
  although nothing is left due (`ThrowIterations`).
* A tick that loses the version race is reported as advanced, the next index does
  not fit the row, and the workflow stops; the cron starts another
  (`ClockAdvances` holds with it).
* The decision window is looked for before, not in, the tick's transaction, so that
  one tick may follow its opening (one at most: `OneTickPastTheWindow`), and
  renewing a lease does not look at a guest run's expiry.
* An approval decision that the kernel refuses marks the row stale while the
  approval stays open in the kernel, and a repeated request whose first answer, a
  refused action, was lost is answered as an accepted duplicate.
* A workflow that outlived its lock and fails revives a dispatch that another one
  has completed; and once the turn of an answer has failed, every retry sends the
  answer to a session that no longer waits for it.
* When a member's command overtakes the Studio's start twice, or the run is no
  longer new, the Studio's request answers with a run it has not started
  (`StartsUnlessOvertaken` says exactly when).
* A command of the page that is accepted, but whose recovery of events fails, is
  shown as not submitted (`live-workspace-client.tsx:414`).
* A page that comes back online while a connect waits for its recovery opens a
  second `EventSource` and forgets the first, which stays open (`GoOnline`,
  `RecoveryReply`); a connect whose first recovery fails leaves a page without a
  stream until the browser reports that it is online again.
* The hub is a process's own and a stream waits on it without a timeout. An event
  published by another process, or a stream more than a page behind, waits for
  the next event that its process publishes. (Recoveries make up for it, so that
  the page is late and never wrong.)
* The Studio accepts drafts of a pack that leave out a participant without whom the
  run cannot be closed; the rehearsal says so only by its evaluation
  (`ClosesWithItsCast` is about the casts that can).

*A stale recommendation that opens again.* The comment above
`supersedeStaleRecommendations` (`agent-recommendation-service.ts:146`) says that
pending and deferred recommendations on old facts must leave the decision centre at
once when new facts are committed. A deferral compares the versions
(`requirePendingRecommendationTx`) and then updates the row by its id alone
(line 940). If a command commits in between, and its event is handled,
which supersedes the row, the update makes it "deferred" again, and no event is left
to close it: it is listed until the next event or its time. `StaleIsClosed` has
this as its one exception (`ReopensLate`): with the exception taken out of the
formula, TLC finds the steps `Offer`, `Check` (a deferral), `Command`, `ReadStale`,
`Supersede`, `Decide` and then nothing. In the same way a recommendation that is
written late (`StartOffer`, a command whose event is handled, `Offer`) is old when it
appears, and waits for the next event. Neither can be adopted: `Check` and the
kernel compare the version again (`ExecutedOnItsFacts`).

An advisor has one session link, which a workflow that lost its dispatch may still
write: one that outlived its lock, or one whose requeue failed behind a superseded
recommendation, and which `markDispatchRetry` revives. The answer to the newer
dispatch's question is then sent to the session of the older one, whose model has
seen older facts. `AdviceRestsOnItsFacts` says what is left: a recommendation of a
session of its own rests on exactly its facts, one of a borrowed session on none
that came later. Whether the model runtime refuses the answer is decided outside
this repository.

## What is not modelled

* In the kernel: payload validation by schema (commands are well formed),
  evaluators and side-effect intents (they read the state and change none of it),
  the seeded random values (they only reach side effects), timestamps and event
  ids.
* In the repository: reviews, checkpoints as rows, evaluations and remediation
  items; see the plan. The snapshot's schema check
  (`parsePersistedSimulationState`) is passed by every state the kernel leaves.
* Database isolation beyond what is said above, clock skew between servers, and
  the internals of the workflow platform: its durable steps are modelled by what
  `run-tick.ts` relies on, retries after lost answers included.
* In the dispatches: several questions of one turn, the merged trigger lists and
  request kinds, the recorded activities, and a message whose handler is still at
  work when its outbox lock ends. (`Outbox` has that for run events; for dispatches
  it is a message delivered twice, which `dispatch` has.)
* In the recommendations: who may recommend and decide what, and what a modified
  action contains. In the creation of runs: what a derived version contains, and
  the kernel's other events.
* In the page: the list of pending commands, the agents' activity stream, what the
  refreshed run looks like when two refreshes overtake each other, and leaving the
  page. In the sessions: two turns of one advisor at once, tokens and costs.
* Retention and rate limits of guests: each is one conditional statement or delete.
* HTTP parsing, authorization tables and rendering: no state of their own, or none
  that can go wrong by order or failure.

## Plan

The modules were written in this order; all of them are done.

1. `SimulationKernel`, `KernelReplay`, `DataInduction`, `SimulationKernelProofs`.
2. `RunScheduler`, `TickClock`, `RunSchedulerProofs`.
3. `RunStore`, `RunCommands`, `CommandLog`, `RunStoreProofs`.
4. `AgentDispatch`, `AgentDispatchProofs`.
5. `Recommendations`, `RecommendationsProofs`.
6. `RunCreation`, `RunTree`, `RunCreationProofs`.
7. `Outbox` and `EventDelivery`, `EventDeliveryProofs`.
8. `ScenarioPack`, the two packs, `ScenarioRun`.
9. `AgentSession`.

Left to do: the tables of reviews and evaluations, and the list of pending commands
in the page, are not modelled. Worth proving next: that the outbox hands every row to some hub before it is marked
published, as an invariant of its own, and that the turns of `AgentSession` are
charged as long as no session follows another (both to be checked by TLC first).

## How to run

```
tlc -workers 2 -config MCRunStore.cfg MCRunStore
tlapm RunSchedulerProofs.tla          # about half a minute
tlapm SimulationKernelProofs.tla      # this, AgentDispatchProofs and
                                      # RunStoreProofs: about five minutes each
```
