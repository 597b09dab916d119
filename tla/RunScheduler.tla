---------------------------- MODULE RunScheduler ----------------------------
(***************************************************************************)
(* The tick scheduling of one Run.  A committed command that starts or     *)
(* stops the run raises the scheduler generation and leaves an outbox      *)
(* message.  Delivery claims the run's single schedule lease and starts a  *)
(* durable workflow, which renews the lease, sleeps and commits one tick   *)
(* after the other.  A cron reconciles running runs without a live lease.  *)
(*   src/packages/application/src/runtime.ts  (transactions, outbox)       *)
(*   src/apps/web/workflows/run-tick.ts       (the workflow)               *)
(*   src/apps/web/lib/workflow-run-scheduler.ts (the outbox handlers)      *)
(*                                                                         *)
(* Every database transaction that takes the run's row lock, or commits    *)
(* under its version check, is one step; everything the code does between  *)
(* two transactions can be interleaved.  A slot of Flows is a holder id    *)
(* with the workflow started for it; a slot is used again, as a new holder *)
(* id, once neither a workflow nor the lease refers to it.                 *)
(***************************************************************************)
EXTENDS Naturals, FiniteSets

CONSTANTS
  Flows,        \* slots for workflows
  Horizon,      \* the minute at which a tick completes the run
  MaxCommands,  \* bound: commands and decision windows of the users
  MaxFaults     \* bound: crashes, lost results, redeliveries, stalls

ASSUME SchedulerAssumption ==
  /\ Horizon \in Nat \ {0}
  /\ MaxCommands \in Nat
  /\ MaxFaults \in Nat

VARIABLES
  run,          \* the simulation_runs row
  expired,      \* run.expiresAt has passed
  blocked,      \* an agent decision window is open
  lease,        \* the run_schedule_leases row
  outbox,       \* unpublished scheduler messages
  ticks,        \* the (generation, index) of the committed tick commands
  flows,        \* the workflows
  commands,     \* user commands so far
  faults        \* faults so far

\* Auxiliary: what a property has to remember, which no action reads.
VARIABLE
  opened        \* the minute in which the open decision window was opened

vars == <<run, expired, blocked, opened, lease, outbox, ticks, flows, commands, faults>>

NoLease == [generation |-> 0, holder |-> "none", live |-> FALSE]
Free == [pc |-> "free", generation |-> 0, tick |-> 0, seen |-> 0, from |-> "none"]

Init ==
  /\ run = [status |-> "created", version |-> 0, generation |-> 0,
            nextTick |-> 0, minute |-> 0]
  /\ expired = FALSE
  /\ blocked = FALSE
  /\ opened = 0
  /\ lease = NoLease
  /\ outbox = {}
  /\ ticks = {}
  /\ flows = [f \in Flows |-> Free]
  /\ commands = 0
  /\ faults = 0

Fault == faults < MaxFaults /\ faults' = faults + 1
Goto(f, pc) == flows' = [flows EXCEPT ![f].pc = pc]
End(f) == flows' = [flows EXCEPT ![f] = Free]

-----------------------------------------------------------------------------
(* Committed user commands: status, version, generation and outbox message  *)

Start == "run.scheduler.start"
Cancel == "run.scheduler.cancel"
StartMessage(g) == [type |-> Start, generation |-> g]
CancelMessage(g) == [type |-> Cancel, generation |-> g]

\* execute does not look at the retention for them: a guest's request is turned
\* away before it, which a command already under way overtakes.
UserCommand ==
  /\ commands < MaxCommands /\ commands' = commands + 1
  /\ UNCHANGED <<expired, blocked, opened, lease, ticks, flows, faults>>

\* Mutant: every generation counts its ticks from one.
CommitRestartsTicks(status, message) ==
  /\ run' = [run EXCEPT !.status = status, !.version = @ + 1, !.generation = @ + 1,
                        !.nextTick = 0]
  /\ outbox' = outbox \cup {[type |-> message, generation |-> run.generation + 1]}

\* deriveSchedulerInstruction: a start wins over a stop of the same command.
Commit(status, message) ==
  /\ run' = [run EXCEPT !.status = status, !.version = @ + 1, !.generation = @ + 1]
  /\ outbox' = outbox \cup {[type |-> message, generation |-> run.generation + 1]}

\* An inject that is due at once may complete the run in its first command.
StartRun ==
  /\ UserCommand /\ run.status = "created"
  /\ \E status \in {"running", "completed"} : Commit(status, Start)

PauseRun == UserCommand /\ run.status = "running" /\ Commit("paused", Cancel)
ResumeRun == UserCommand /\ run.status = "paused" /\ Commit("running", Start)
FinishRun == UserCommand /\ run.status # "completed" /\ Commit("completed", Cancel)

\* Any other command with events: only the version moves.
OtherCommand ==
  /\ UserCommand /\ run.status # "completed"
  /\ run' = [run EXCEPT !.version = @ + 1]
  /\ UNCHANGED outbox

\* A recommendation, a question or a first analysis opens the decision window.
OpenWindow ==
  /\ commands < MaxCommands /\ commands' = commands + 1
  /\ ~ blocked /\ blocked' = TRUE
  /\ opened' = run.minute
  /\ UNCHANGED <<run, expired, lease, outbox, ticks, flows, faults>>

CloseWindow ==
  /\ blocked /\ blocked' = FALSE
  /\ opened' = 0
  /\ UNCHANGED <<run, expired, lease, outbox, ticks, flows, commands, faults>>

\* The retention of a guest run ends.
Expire ==
  /\ ~ expired /\ expired' = TRUE
  /\ UNCHANGED <<run, blocked, opened, lease, outbox, ticks, flows, commands, faults>>

-----------------------------------------------------------------------------
(* The lease                                                                *)

HoldsLease(f) ==
  lease.live /\ lease.holder = f /\ lease.generation = flows[f].generation

\* renewRunSchedule
Renews(f) ==
  run.status = "running" /\ run.generation = flows[f].generation /\ HoldsLease(f)

\* releaseRunSchedule
AfterRelease(f) == IF HoldsLease(f) THEN NoLease ELSE lease

\* Mutant: a lease row of the generation counts although it ran out.
ClaimableOnce(g) ==
  /\ run.status = "running" /\ ~ expired /\ run.generation = g
  /\ lease.generation # g

\* claimRunSchedule gives generation g a lease.
Claimable(g) ==
  /\ run.status = "running" /\ ~ expired /\ run.generation = g
  /\ ~ (lease.generation = g /\ lease.live)

\* A new holder id; the unused slots are interchangeable, so that one will do.
Unused == {f \in Flows : flows[f].pc = "free" /\ lease.holder # f}

Claim(g, source) ==
  /\ Unused # {}
  /\ LET f == CHOOSE f \in Unused : TRUE
     IN  /\ lease' = [generation |-> g, holder |-> f, live |-> TRUE]
         /\ flows' = [flows EXCEPT ![f] = [pc |-> "starting", generation |-> g,
                        tick |-> run.nextTick + 1, seen |-> 0, from |-> source]]

\* The lease of a holder that no longer renews it runs out; that of a working
\* holder does when its workflow is stalled for longer than the lease's time.
LeaseRunsOut ==
  /\ lease.live /\ lease' = [lease EXCEPT !.live = FALSE]
  /\ UNCHANGED <<run, expired, blocked, opened, outbox, ticks, flows, commands>>

AbandonedLeaseExpires ==
  /\ \A f \in Flows : HoldsLease(f) => flows[f].pc = "free"
  /\ LeaseRunsOut /\ UNCHANGED faults

StalledLeaseExpires == Fault /\ LeaseRunsOut

-----------------------------------------------------------------------------
(* Outbox delivery: at least once, in any order                             *)

\* startHandler, when the claim succeeds; the message is still unpublished.
DeliverStart(m) ==
  /\ m \in outbox /\ m = StartMessage(m.generation)
  /\ Claimable(m.generation)
  /\ Claim(m.generation, "outbox")
  /\ UNCHANGED <<run, expired, blocked, opened, outbox, ticks, commands, faults>>

\* Mutant: a claim that is not eligible is an error and the message is retried.
DropStartActive(m) ==
  /\ m \in outbox /\ m = StartMessage(m.generation)
  /\ lease.generation = m.generation /\ lease.live
  /\ outbox' = outbox \ {m}
  /\ UNCHANGED <<run, expired, blocked, opened, lease, ticks, flows, commands, faults>>

\* startHandler, when there is nothing to claim: the message is published.
DropStart(m) ==
  /\ m \in outbox /\ m = StartMessage(m.generation)
  /\ ~ Claimable(m.generation)
  /\ outbox' = outbox \ {m}
  /\ UNCHANGED <<run, expired, blocked, opened, lease, ticks, flows, commands, faults>>

\* Mutant: the lease goes whatever its generation is.
CancelledAny(g) == NoLease

\* cancelHandler: releaseObsoleteRunSchedule.
Cancelled(g) == IF lease.generation < g THEN NoLease ELSE lease

DeliverCancel(m) ==
  /\ m \in outbox /\ m = CancelMessage(m.generation)
  /\ lease' = Cancelled(m.generation)
  /\ \/ outbox' = outbox \ {m} /\ UNCHANGED faults
     \/ UNCHANGED outbox /\ Fault
  /\ UNCHANGED <<run, expired, blocked, opened, ticks, flows, commands>>

\* reconcileRunningRuns claims what no live lease covers.
Reconcile ==
  /\ Claimable(run.generation)
  /\ Claim(run.generation, "cron")
  /\ UNCHANGED <<run, expired, blocked, opened, outbox, ticks, commands, faults>>

\* scheduler.start returned; the message is published, or redelivered later.
Launch(f) ==
  /\ flows[f].pc = "starting"
  /\ Goto(f, "begin")
  /\ \/ /\ outbox' = IF flows[f].from = "cron" THEN outbox
                     ELSE outbox \ {StartMessage(flows[f].generation)}
        /\ UNCHANGED faults
     \/ flows[f].from = "outbox" /\ UNCHANGED outbox /\ Fault
  /\ UNCHANGED <<run, expired, blocked, opened, lease, ticks, commands>>

\* scheduler.start failed: the lease is released and the error kept for a
\* retry.  The workflow may have been started all the same.
LaunchFails(f) ==
  /\ flows[f].pc = "starting" /\ Fault
  /\ lease' = AfterRelease(f)
  /\ End(f) \/ Goto(f, "begin")
  /\ UNCHANGED <<run, expired, blocked, opened, outbox, ticks, commands>>

\* The process dies between the claim and the start.
LauncherDies(f) ==
  /\ flows[f].pc = "starting" /\ Fault
  /\ End(f)
  /\ UNCHANGED <<run, expired, blocked, opened, lease, outbox, ticks, commands>>

-----------------------------------------------------------------------------
(* The workflow: renew, sleep, renew, tick.  A tick renews once more, looks *)
(* for an open decision window, reads the run and commits the command.      *)

\* The first renewal is outside of the try block: no release if it fails.
FirstRenewal(f) ==
  /\ flows[f].pc = "begin"
  /\ IF Renews(f) THEN Goto(f, "sleep") ELSE End(f)
  /\ UNCHANGED <<run, expired, blocked, opened, lease, outbox, ticks, commands, faults>>

\* Heartbeats in the course of the sleep are further renewals of a held lease.
Wake(f) ==
  /\ flows[f].pc = "sleep"
  /\ Goto(f, IF Renews(f) THEN "tick" ELSE "release")
  /\ UNCHANGED <<run, expired, blocked, opened, lease, outbox, ticks, commands, faults>>

TickRenewal(f) ==
  /\ flows[f].pc = "tick"
  /\ Goto(f, IF Renews(f) THEN "check" ELSE "release")
  /\ UNCHANGED <<run, expired, blocked, opened, lease, outbox, ticks, commands, faults>>

\* Mutant: the step does not ask for a decision window.
CheckBlockerNever(f) ==
  /\ flows[f].pc = "check"
  /\ Goto(f, "read")
  /\ UNCHANGED <<run, expired, blocked, opened, lease, outbox, ticks, commands, faults>>

\* hasAgentDecisionBlocker: the same tick is tried again after a short sleep.
CheckBlocker(f) ==
  /\ flows[f].pc = "check"
  /\ Goto(f, IF blocked THEN "sleep" ELSE "read")
  /\ UNCHANGED <<run, expired, blocked, opened, lease, outbox, ticks, commands, faults>>

\* executeScheduledTick reads the run and its version before the transaction.
ReadRun(f) ==
  /\ flows[f].pc = "read"
  /\ IF /\ run.status = "running" /\ run.generation = flows[f].generation
        /\ run.nextTick + 1 = flows[f].tick
     THEN flows' = [flows EXCEPT ![f].pc = "commit", ![f].seen = run.version]
     ELSE Goto(f, "release")
  /\ UNCHANGED <<run, expired, blocked, opened, lease, outbox, ticks, commands, faults>>

\* Mutant: the transaction does not look at the retention of the run.
TickAllowedExpired(f) ==
  /\ run.status = "running"
  /\ run.generation = flows[f].generation
  /\ run.nextTick + 1 = flows[f].tick
  /\ HoldsLease(f)
  /\ <<flows[f].generation, flows[f].tick>> \notin ticks

\* The checks execute makes under the row lock, before the kernel runs.
TickAllowed(f) ==
  /\ run.status = "running" /\ ~ expired
  /\ run.generation = flows[f].generation
  /\ run.nextTick + 1 = flows[f].tick
  /\ HoldsLease(f)
  /\ <<flows[f].generation, flows[f].tick>> \notin ticks

NextTick(f) ==
  flows' = [flows EXCEPT ![f].pc = "sleep", ![f].tick = @ + 1, ![f].seen = 0]

\* What a committed tick leaves in the database.  The generation moves and a
\* cancel is left only if an inject of the tick completed the run.
Advance(f) ==
  LET last == run.minute + 1 = Horizon
  IN  /\ run' = [run EXCEPT !.status = IF last THEN "completed" ELSE @,
                            !.version = @ + 1,
                            !.generation = IF last THEN @ + 1 ELSE @,
                            !.nextTick = flows[f].tick,
                            !.minute = @ + 1]
      /\ outbox' = IF last THEN outbox \cup {CancelMessage(run.generation + 1)}
                   ELSE outbox
      /\ ticks' = ticks \cup {<<flows[f].generation, flows[f].tick>>}

\* Nothing to do: a duplicate result, which stops the workflow.
TickDuplicate(f) ==
  /\ flows[f].pc = "commit" /\ ~ TickAllowed(f)
  /\ Goto(f, "release")
  /\ UNCHANGED <<run, expired, blocked, opened, lease, outbox, ticks, commands, faults>>

\* The kernel rejects the version; only a duplicate is told from an advance.
TickRejected(f) ==
  /\ flows[f].pc = "commit" /\ TickAllowed(f) /\ flows[f].seen # run.version
  /\ NextTick(f)
  /\ UNCHANGED <<run, expired, blocked, opened, lease, outbox, ticks, commands, faults>>

TickCommits(f) ==
  /\ flows[f].pc = "commit" /\ TickAllowed(f) /\ flows[f].seen = run.version
  /\ Advance(f)
  /\ NextTick(f)
  /\ UNCHANGED <<expired, blocked, opened, lease, commands, faults>>

\* The tick is committed, its step fails all the same: the answer is lost or
\* draining the outbox throws.  The durable step runs again with the same index.
CommitAnswerLost(f) ==
  /\ flows[f].pc = "commit" /\ TickAllowed(f) /\ flows[f].seen = run.version
  /\ Fault
  /\ Advance(f)
  /\ flows' = [flows EXCEPT ![f].pc = "tick", ![f].seen = 0]
  /\ UNCHANGED <<expired, blocked, opened, lease, commands>>

\* A step fails before it did anything: it is retried, until the retries are
\* used up and the workflow leaves by its finally block.
StepFails(f) ==
  /\ flows[f].pc \in {"tick", "check", "read", "commit"} /\ Fault
  /\ \E pc \in {"tick", "release"} :
       flows' = [flows EXCEPT ![f].pc = pc, ![f].seen = 0]
  /\ UNCHANGED <<run, expired, blocked, opened, lease, outbox, ticks, commands>>

\* The first renewal fails for good, or the release in the finally block.
WorkflowDies(f) ==
  /\ flows[f].pc \in {"begin", "release"} /\ Fault
  /\ End(f)
  /\ UNCHANGED <<run, expired, blocked, opened, lease, outbox, ticks, commands>>

Release(f) ==
  /\ flows[f].pc = "release"
  /\ lease' = AfterRelease(f)
  /\ End(f)
  /\ UNCHANGED <<run, expired, blocked, opened, outbox, ticks, commands, faults>>

-----------------------------------------------------------------------------
User ==
  \/ StartRun \/ PauseRun \/ ResumeRun \/ FinishRun \/ OtherCommand
  \/ OpenWindow \/ CloseWindow \/ Expire

Deliver(m) == DeliverStart(m) \/ DropStart(m) \/ DeliverCancel(m)

WorkflowStep(f) ==
  \/ Launch(f) \/ FirstRenewal(f) \/ Wake(f) \/ TickRenewal(f) \/ CheckBlocker(f)
  \/ ReadRun(f) \/ TickDuplicate(f) \/ TickRejected(f) \/ TickCommits(f) \/ Release(f)

WorkflowFault(f) ==
  \/ LaunchFails(f) \/ LauncherDies(f)
  \/ CommitAnswerLost(f) \/ StepFails(f) \/ WorkflowDies(f)

Next ==
  \/ User
  \/ \E m \in outbox : Deliver(m)
  \/ Reconcile
  \/ \E f \in Flows : WorkflowStep(f) \/ WorkflowFault(f)
  \/ AbandonedLeaseExpires
  \/ StalledLeaseExpires

\* Durable workflows resume, the cron and the outbox drain come back again and
\* again, and time passes; users owe nothing.
Fairness ==
  /\ \A f \in Flows : WF_vars(WorkflowStep(f))
  /\ WF_vars(\E m \in outbox : Deliver(m))
  /\ WF_vars(Reconcile)
  /\ WF_vars(AbandonedLeaseExpires)

Spec == Init /\ [][Next]_vars /\ Fairness

-----------------------------------------------------------------------------
(* Properties                                                               *)

Pc ==
  {"free", "starting", "begin", "sleep", "tick", "check", "read", "commit", "release"}

\* Every variable has its type.
TypeOK ==
  /\ run \in [status : {"created", "running", "paused", "completed"},
              version : Nat, generation : Nat, nextTick : Nat, minute : Nat]
  /\ expired \in BOOLEAN
  /\ blocked \in BOOLEAN
  /\ opened \in Nat
  /\ lease \in [generation : Nat, holder : Flows \cup {"none"}, live : BOOLEAN]
  /\ outbox \subseteq [type : {Start, Cancel}, generation : Nat]
  /\ ticks \subseteq Nat \X Nat
  /\ flows \in [Flows -> [pc : Pc, generation : Nat, tick : Nat, seen : Nat,
                         from : {"none", "outbox", "cron"}]]
  /\ commands \in 0 .. MaxCommands
  /\ faults \in 0 .. MaxFaults

\* However often a workflow is started, replayed, retried or superseded, every
\* minute of virtual time was made by exactly one tick, and the ticks are
\* numbered without a gap across all generations.
TicksAreMinutes ==
  /\ run.minute = run.nextTick
  /\ {t[2] : t \in ticks} = 1 .. run.nextTick
  /\ \A s, t \in ticks : s[2] = t[2] => s = t

\* Both together, as a run checks them: the ticks of a well-typed scheduling.
TickInv == TypeOK /\ TicksAreMinutes

\* The decision window holds the clock back although the workflow looks for it
\* in a query of its own: of all the workflows and takeovers there are, one tick
\* at most is already past that query when a window opens, and the window sees
\* none but that one.
OneTickPastTheWindow == blocked => run.minute <= opened + 1

\* A late or repeated cancel message does not take the lease from the workflow
\* of the current generation.
CurrentLeaseSurvivesCancel ==
  [][(\E m \in outbox : DeliverCancel(m)) =>
       (lease.generation = run.generation => lease' = lease)]_vars

\* The scheduling keeps the clock's promise: see TickClock.
Clock == INSTANCE TickClock
           WITH status <- run.status, minute <- run.minute, expired <- expired
ImplementsTickClock == Clock!Spec

\* A running run ticks on: no lost message, dead launcher, failed step,
\* superseded workflow or lost lease stops its clock for good.
ClockAdvances ==
  \A k \in 0 .. Horizon :
    (run.status = "running" /\ ~ expired /\ run.minute = k /\ [](~ blocked))
      ~> (run.minute > k \/ run.status # "running" \/ expired)

\* A run that is completed is left without workflows, messages and lease.
CompletionQuiesces ==
  (run.status = "completed")
    ~> [](outbox = {} /\ ~ lease.live /\ \A f \in Flows : flows[f].pc = "free")
=============================================================================
