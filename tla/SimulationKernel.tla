-------------------------- MODULE SimulationKernel --------------------------
(***************************************************************************)
(* The deterministic simulation kernel: one Run aggregate, the commands    *)
(* that act on it and the domain events that carry every state change      *)
(* (src/packages/simulation-kernel/src/index.ts).                          *)
(*                                                                         *)
(* SimulationKernel.execute is synchronous and keeps a workingState and an *)
(* events array while it appends; the caller persists the events only when *)
(* execute returns.  The module follows that shape.  A command opens a     *)
(* call, every call of append is a step, and Return or Throw closes the    *)
(* call.  No other command can start while a call is open, so the steps of *)
(* a call are the statements of one synchronous execution.                 *)
(*                                                                         *)
(*   state   workingState                                                  *)
(*   log     the event stream: the events persisted so far followed by     *)
(*           those of the open call                                        *)
(*   base    the state the open call started from                          *)
(*   call    the command being executed, or NoCall                         *)
(*   todo    the effects the open call still has to apply, in order        *)
(*   fired   the iteration counter of runDueInjects                        *)
(*   outcome what the last execute returned: status and rejection code     *)
(***************************************************************************)
EXTENDS Integers, Sequences, FiniteSets

CONSTANTS
  Participants,         \* participant ids of the scenario
  Actions,              \* action keys
  Injects,              \* inject keys
  Paths,                \* numeric state paths of the world
  CommandIds,           \* ids a command may carry (bounds the commands)
  Keys,                 \* idempotency keys a command may carry
  Minutes,              \* minutes an advance-clock command may carry
  CanPerform,           \* participant |-> the actions its capabilities,
                        \* permissions and knowledge scopes allow
  ActionDef,            \* action |-> [approval, precondition, effects]
  InjectDef,            \* inject |-> [trigger, effects]
  InjectOrder,          \* the injects in definition order
  InitialStatus,        \* participant |-> its initial status
  InitialWorld,         \* path |-> its initial value
  PathRange,            \* path |-> the values the state schema accepts
  ElapsedPath,          \* the path bound to the virtual time, or "none"
  MaxTriggerIterations, \* definition.maxTriggerIterations
  Inherited             \* parent states a branch may be created from

VARIABLES state, log, base, call, todo, fired, outcome

vars == <<state, log, base, call, todo, fired, outcome>>

-----------------------------------------------------------------------------
(* Types *)

RunStatus == {"created", "running", "paused", "completed", "failed"}
ParticipantStatus == {"active", "inactive", "blocked"}
None == "none"

Approval == [approvalId : CommandIds, action : Actions, participant : Participants]

\* A schedule id is `${injectKey}:${sequence}`.
ScheduleId == Injects \X Nat
Schedule == [id : ScheduleId, inject : Injects, due : Nat]

\* The first event of a command carries the command's key, the n-th later one
\* `${key}:${n}:...`; run.created carries `create:${runId}`.
CreateKey == <<"create", 0>>
EventKey == (Keys \X Nat) \cup {CreateKey}

\* The events without a payload the model tells apart, and all of them.
PlainType ==
  {"run.started", "run.resumed", "run.paused", "run.completed", "action.proposed",
   "action.rejected", "signal.emitted", "metric.recorded", "checkpoint.created",
   "branch.created"}
Resolutions == {"action.approved", "action.denied", "action.approval_expired"}
EventType ==
  PlainType \cup Resolutions
    \cup {"run.created", "clock.advanced", "state.changed", "inject.scheduled",
          "inject.triggered", "participant.status_changed",
          "action.approval_requested", "action.executed"}

State ==
  [status : RunStatus, version : Nat, latestSequence : Nat, time : Nat,
   appliedCommandIds : SUBSET CommandIds, appliedKeys : SUBSET EventKey,
   world : [Paths -> Int], worldStatus : RunStatus \cup {"idle"},
   participants : [Participants -> ParticipantStatus],
   scheduled : SUBSET Schedule, triggered : SUBSET Injects,
   pending : SUBSET Approval,
   actionCounts : [Participants \X Actions -> Nat],
   occurred : SUBSET EventType]

Effect ==
  [kind : {"set-state"}, path : Paths, value : Int]
    \cup [kind : {"increment-state"}, path : Paths, amount : Int]
    \cup [kind : {"schedule-inject"}, inject : Injects, delay : Nat \ {0}]
    \cup [kind : {"change-participant-status"}, participant : Participants,
          status : ParticipantStatus]
    \cup [kind : {"emit-signal", "record-metric", "complete-run"}]
    \cup [kind : {"execute-action"}, participant : Participants, action : Actions]
    \cup [kind : {"request-approval"}, approval : Approval]

\* What the payload of an event holds, by its type.
NoData == [none |-> TRUE]

EventOf(types, data) ==
  [sequence : Nat, type : types, cause : CommandIds \cup {None}, key : EventKey,
   data : data]

Event ==
  EventOf({"run.created"}, {NoData} \cup [inherited : State])
    \cup EventOf(PlainType, {NoData})
    \cup EventOf({"clock.advanced"}, [minutes : Nat])
    \cup EventOf({"state.changed"}, [path : Paths, value : Int])
    \cup EventOf({"inject.scheduled"}, Schedule)
    \cup EventOf({"inject.triggered"},
                 [inject : Injects, schedule : ScheduleId \cup {None}])
    \cup EventOf({"participant.status_changed"},
                 [participant : Participants, status : ParticipantStatus])
    \cup EventOf({"action.approval_requested"}, Approval)
    \cup EventOf(Resolutions, [approvalId : CommandIds])
    \cup EventOf({"action.executed"}, [participant : Participants, action : Actions])

\* What the schemas of the scenario and of the commands make sure of.  The last
\* two kinds of effect are the kernel's own: no definition holds them.
ASSUME KernelAssumption ==
  /\ None \notin CommandIds /\ CreateKey \notin Keys \X Nat
  /\ Minutes \subseteq Int
  /\ InitialStatus \in [Participants -> ParticipantStatus]
  /\ InitialWorld \in [Paths -> Int]
  /\ \A a \in Actions : ActionDef[a].effects \in Seq(Effect)
  /\ \A i \in Injects : InjectDef[i].effects \in Seq(Effect)
  /\ \A a \in Actions : \A n \in 1 .. Len(ActionDef[a].effects) :
       ActionDef[a].effects[n].kind \notin {"execute-action", "request-approval"}
  /\ \A i \in Injects : \A n \in 1 .. Len(InjectDef[i].effects) :
       InjectDef[i].effects[n].kind \notin {"execute-action", "request-approval"}
  /\ IsFiniteSet(Injects)
  /\ \A n \in 1 .. Len(InjectOrder) : InjectOrder[n] \in Injects
  /\ MaxTriggerIterations \in Nat
  /\ Inherited \subseteq State

Terminal(s) == s.status \in {"completed", "failed"}

-----------------------------------------------------------------------------
(* Triggers.  A trigger is its syntax tree in post-order: the children of a *)
(* node are earlier nodes and the root is the last one; <<>> is "no         *)
(* trigger".                                                                *)

ConditionHolds(n, s) ==
  CASE n.kind = "elapsed-minutes-gte" -> s.time >= n.minutes
    [] n.kind = "state-equals" -> s.world[n.path] = n.value
    [] n.kind = "state-number-gte" -> s.world[n.path] >= n.value
    [] n.kind = "event-occurred" -> n.type \in s.occurred
    [] n.kind = "participant-action-count-gte" ->
         s.actionCounts[<<n.participant, n.action>>] >= n.count

EvaluateTrigger(t, s) ==
  LET holds[i \in 1 .. Len(t)] ==
        CASE t[i].kind = "all" -> \A j \in t[i].of : holds[j]
          [] t[i].kind = "any" -> \E j \in t[i].of : holds[j]
          [] t[i].kind = "not" -> ~ holds[t[i].of]
          [] OTHER -> ConditionHolds(t[i], s)
  IN  holds[Len(t)]

\* getActionPolicyFailure: no failure.
PolicyAllows(s, p, a) ==
  /\ s.participants[p] = "active"
  /\ a \in CanPerform[p]
  /\ ActionDef[a].precondition # <<>> => EvaluateTrigger(ActionDef[a].precondition, s)

-----------------------------------------------------------------------------
(* Events *)

\* createEvent: the sequence comes from the state the event is applied to.
CreateEvent(s, type, cause, key, data) ==
  [sequence |-> s.latestSequence + 1, type |-> type, cause |-> cause,
   key |-> key, data |-> data]

\* The bookkeeping every event does before its own case.
Stamped(s, e) ==
  LET ids == IF e.cause = None THEN s.appliedCommandIds
             ELSE s.appliedCommandIds \cup {e.cause}
  IN  [s EXCEPT !.latestSequence = e.sequence,
                !.appliedCommandIds = ids,
                !.appliedKeys = @ \cup {e.key},
                !.version = IF e.cause = None THEN @ ELSE Cardinality(ids),
                !.occurred = @ \cup {e.type}]

UpdateRunStatus(s, status) ==
  [s EXCEPT !.status = status, !.worldStatus = status]

\* A branch child takes everything from the inherited state but the run record.
Inherit(s, e) ==
  LET from == e.data.inherited
  IN  [s EXCEPT !.time = from.time, !.world = from.world,
                !.worldStatus = from.worldStatus,
                !.participants = from.participants,
                !.scheduled = from.scheduled, !.triggered = from.triggered,
                !.pending = from.pending, !.actionCounts = from.actionCounts,
                !.occurred = from.occurred \cup {e.type}]

\* Mutant: the open approval survives its resolution.
ResolveKeeps(s, approvalId) == s
ResolveOpen(s, approvalId) ==
  [s EXCEPT !.pending = {a \in @ : a.approvalId # approvalId}]

ApplyEvent(state0, e) ==
  LET s == Stamped(state0, e)
      d == e.data
  IN  CASE e.type = "run.created" -> IF d = NoData THEN s ELSE Inherit(s, e)
        [] e.type \in {"run.started", "run.resumed"} -> UpdateRunStatus(s, "running")
        [] e.type = "run.paused" -> UpdateRunStatus(s, "paused")
        [] e.type = "run.completed" -> UpdateRunStatus(s, "completed")
        [] e.type = "clock.advanced" ->
             [s EXCEPT !.time = @ + d.minutes,
                       !.world = [p \in Paths |->
                         IF p = ElapsedPath THEN s.time + d.minutes ELSE @[p]]]
        [] e.type = "state.changed" -> [s EXCEPT !.world[d.path] = d.value]
        [] e.type = "inject.scheduled" -> [s EXCEPT !.scheduled = @ \cup {d}]
        [] e.type = "inject.triggered" ->
             [s EXCEPT !.triggered = @ \cup {d.inject},
                       !.scheduled = {x \in @ : x.id # d.schedule}]
        [] e.type = "participant.status_changed" ->
             [s EXCEPT !.participants[d.participant] = d.status]
        [] e.type = "action.approval_requested" -> [s EXCEPT !.pending = @ \cup {d}]
        [] e.type \in {"action.approved", "action.denied", "action.approval_expired"} ->
             ResolveOpen(s, d.approvalId)
        [] e.type = "action.executed" ->
             [s EXCEPT !.actionCounts[<<d.participant, d.action>>] = @ + 1]
        [] OTHER -> s

-----------------------------------------------------------------------------
(* Creation: createRun, or createBranchRun from a parent's state            *)

EmptyState ==
  [status |-> "created", version |-> 0, latestSequence |-> 0, time |-> 0,
   appliedCommandIds |-> {}, appliedKeys |-> {},
   world |-> InitialWorld, worldStatus |-> "idle",
   participants |-> InitialStatus,
   scheduled |-> {}, triggered |-> {}, pending |-> {},
   actionCounts |-> [x \in Participants \X Actions |-> 0], occurred |-> {}]

\* createBranchRun drops the parent's open approvals from the baseline.
BranchState(parent) == [parent EXCEPT !.pending = {}]

Creations ==
  {NoData} \cup {[inherited |-> BranchState(p)] : p \in Inherited}

NoCall == [id |-> None, key |-> None, settles |-> FALSE]
NoOutcome == [status |-> None, code |-> None]

Init ==
  \E data \in Creations :
    LET e == CreateEvent(EmptyState, "run.created", None, CreateKey, data)
    IN  /\ state = ApplyEvent(EmptyState, e)
        /\ log = <<e>>
        /\ base = state
        /\ call = NoCall
        /\ todo = <<>>
        /\ fired = 0
        /\ outcome = NoOutcome

-----------------------------------------------------------------------------
(* The opening of execute: duplicate, version and terminal checks, in order *)

Idle == call = NoCall

\* Mutant: only the command id is looked up.
SeenById(c) == c.id \in state.appliedCommandIds
Seen(c) == c.id \in state.appliedCommandIds \/ <<c.key, 0>> \in state.appliedKeys

\* The command reaches the switch over its payload.
Admitted(c) ==
  /\ Idle
  /\ c.addressed
  /\ ~ Seen(c)
  /\ c.expected = state.version

\* reject: the state is returned as it came in and no event is appended.
Reject(code) ==
  /\ outcome' = [status |-> "rejected", code |-> code]
  /\ UNCHANGED <<state, log, base, call, todo, fired>>

RejectMisaddressed(c) ==
  Idle /\ ~ c.addressed /\ Reject("VALIDATION_ERROR")

ReturnDuplicate(c) ==
  /\ Idle /\ c.addressed /\ Seen(c)
  /\ outcome' = [status |-> "duplicate", code |-> None]
  /\ UNCHANGED <<state, log, base, call, todo, fired>>

RejectVersion(c) ==
  /\ Idle /\ c.addressed /\ ~ Seen(c) /\ c.expected # state.version
  /\ Reject("RUN_VERSION_CONFLICT")

\* Every command but create-checkpoint and create-branch.
RejectTerminal(c) ==
  Admitted(c) /\ Terminal(state) /\ Reject("RUN_TERMINAL")

\* The first append of a command, and what execute still has to do after it:
\* the rest of the appends and effects, then runDueInjects if it settles.
Begin(c, type, data, rest, settles) ==
  LET e == CreateEvent(state, type, c.id, <<c.key, 0>>, data)
  IN  /\ state' = ApplyEvent(state, e)
      /\ log' = Append(log, e)
      /\ call' = [id |-> c.id, key |-> c.key, settles |-> settles]
      /\ todo' = rest
      /\ fired' = 0
      /\ UNCHANGED <<base, outcome>>

-----------------------------------------------------------------------------
(* The commands                                                             *)

StartRun(c) ==
  /\ Admitted(c) /\ ~ Terminal(state)
  /\ \/ /\ state.status # "created"
        /\ Reject("ACTION_NOT_ALLOWED")
     \/ /\ state.status = "created"
        /\ Begin(c, "run.started", NoData, <<>>, TRUE)

PauseRun(c) ==
  /\ Admitted(c) /\ ~ Terminal(state)
  /\ \/ /\ state.status # "running"
        /\ Reject("ACTION_NOT_ALLOWED")
     \/ /\ state.status = "running"
        /\ Begin(c, "run.paused", NoData, <<>>, FALSE)

\* Resuming does not run due injects: that is left to the next tick.
ResumeRun(c) ==
  /\ Admitted(c) /\ ~ Terminal(state)
  /\ \/ /\ state.status # "paused"
        /\ Reject("ACTION_NOT_ALLOWED")
     \/ /\ state.status = "paused"
        /\ Begin(c, "run.resumed", NoData, <<>>, FALSE)

\* Mutant: a paused run may be advanced too.
AdvanceClockPaused(c, minutes) ==
  /\ Admitted(c) /\ state.status \in {"running", "paused"} /\ minutes > 0
  /\ Begin(c, "clock.advanced", [minutes |-> minutes], <<>>, TRUE)

AdvanceClock(c, minutes) ==
  /\ Admitted(c) /\ ~ Terminal(state)
  /\ \/ /\ state.status # "running"
        /\ Reject("ACTION_NOT_ALLOWED")
     \/ /\ state.status = "running" /\ minutes <= 0
        /\ Reject("VALIDATION_ERROR")
     \/ /\ state.status = "running" /\ minutes > 0
        /\ Begin(c, "clock.advanced", [minutes |-> minutes], <<>>, TRUE)

ExecuteAction(p, a) ==
  <<[kind |-> "execute-action", participant |-> p, action |-> a]>> \o ActionDef[a].effects

\* recordActionRejection: the attempt is kept in the log, the command is spent.
RecordActionRejection(c) ==
  LET e == CreateEvent(state, "action.rejected", c.id, <<c.key, 0>>, NoData)
  IN  /\ state' = ApplyEvent(state, e)
      /\ log' = Append(log, e)
      /\ base' = state'
      /\ outcome' = [status |-> "rejected", code |-> "ACTION_NOT_ALLOWED"]
      /\ UNCHANGED <<call, todo, fired>>

SubmitAction(c, p, a) ==
  LET request == [approvalId |-> c.id, action |-> a, participant |-> p]
  IN  /\ Admitted(c) /\ ~ Terminal(state)
      /\ \/ /\ state.status # "running"
            /\ Reject("ACTION_NOT_ALLOWED")
         \/ /\ state.status = "running" /\ ~ PolicyAllows(state, p, a)
            /\ RecordActionRejection(c)
         \/ /\ state.status = "running" /\ PolicyAllows(state, p, a)
            /\ ActionDef[a].approval
            /\ Begin(c, "action.proposed", NoData,
                     <<[kind |-> "request-approval", approval |-> request]>>, FALSE)
         \/ /\ state.status = "running" /\ PolicyAllows(state, p, a)
            /\ ~ ActionDef[a].approval
            /\ Begin(c, "action.proposed", NoData,
                     ExecuteAction(p, a), TRUE)

Decisions == {"approved", "denied", "expired"}

\* Mutant: the policy is not checked again when the approval is granted.
NotRechecked(x) == TRUE
StillAllowed(x) == PolicyAllows(state, x.participant, x.action)

\* No check of the run status: an approval can be resolved while paused.
ResolveApproval(c, approvalId, decision) ==
  LET open == {x \in state.pending : x.approvalId = approvalId}
      data == [approvalId |-> approvalId]
  IN  /\ Admitted(c) /\ ~ Terminal(state)
      /\ \/ /\ open = {}
            /\ Reject("APPROVAL_STALE")
         \/ /\ open # {} /\ decision = "expired"
            /\ Begin(c, "action.approval_expired", data, <<>>, FALSE)
         \/ /\ open # {} /\ decision = "denied"
            /\ Begin(c, "action.denied", data, <<>>, FALSE)
         \/ \E x \in open :
              /\ decision = "approved" /\ ~ StillAllowed(x)
              /\ Reject("APPROVAL_STALE")
         \/ \E x \in open :
              /\ decision = "approved" /\ StillAllowed(x)
              /\ Begin(c, "action.approved", data,
                       ExecuteAction(x.participant, x.action), TRUE)

InjectData(i, schedule) == [inject |-> i, schedule |-> schedule]

TriggerInject(c, i) ==
  /\ Admitted(c) /\ ~ Terminal(state)
  /\ \/ /\ i \in state.triggered
        /\ Reject("ACTION_NOT_ALLOWED")
     \/ /\ i \notin state.triggered
        /\ Begin(c, "inject.triggered", InjectData(i, None),
                 InjectDef[i].effects, FALSE)

FinishRun(c) ==
  /\ Admitted(c) /\ ~ Terminal(state)
  /\ Begin(c, "run.completed", NoData, <<>>, FALSE)

\* Checkpoints and branches are allowed on a terminal run.
CreateCheckpoint(c) ==
  /\ Admitted(c)
  /\ Begin(c, "checkpoint.created", NoData, <<>>, FALSE)

CreateBranch(c) ==
  /\ Admitted(c)
  /\ Begin(c, "branch.created", NoData, <<>>, FALSE)

-----------------------------------------------------------------------------
(* The rest of an open call: applyEffects, runDueInjects, return or throw   *)

\* One later append of the open call.
AppendEvent(type, data) ==
  LET n == state.latestSequence - base.latestSequence
      e == CreateEvent(state, type, call.id, <<call.key, n>>, data)
  IN  /\ state' = ApplyEvent(state, e)
      /\ log' = Append(log, e)

\* The event an effect appends; an increment records the value it arrives at.
EffectEvent(s, x) ==
  CASE x.kind = "set-state" ->
         [type |-> "state.changed", data |-> [path |-> x.path, value |-> x.value]]
    [] x.kind = "increment-state" ->
         [type |-> "state.changed",
          data |-> [path |-> x.path, value |-> s.world[x.path] + x.amount]]
    [] x.kind = "schedule-inject" ->
         [type |-> "inject.scheduled",
          data |-> [id |-> <<x.inject, s.latestSequence + 1>>, inject |-> x.inject,
                    due |-> s.time + x.delay]]
    [] x.kind = "change-participant-status" ->
         [type |-> "participant.status_changed",
          data |-> [participant |-> x.participant, status |-> x.status]]
    [] x.kind = "emit-signal" -> [type |-> "signal.emitted", data |-> NoData]
    [] x.kind = "record-metric" -> [type |-> "metric.recorded", data |-> NoData]
    [] x.kind = "complete-run" -> [type |-> "run.completed", data |-> NoData]
    [] x.kind = "execute-action" ->
         [type |-> "action.executed",
          data |-> [participant |-> x.participant, action |-> x.action]]
    [] x.kind = "request-approval" ->
         [type |-> "action.approval_requested", data |-> x.approval]

\* Mutant: effects are applied to a terminal run.
ApplyEffectAlways ==
  /\ ~ Idle /\ todo # <<>>
  /\ LET x == EffectEvent(state, Head(todo)) IN AppendEvent(x.type, x.data)
  /\ todo' = Tail(todo)
  /\ UNCHANGED <<base, call, fired, outcome>>

ApplyEffect ==
  /\ ~ Idle /\ todo # <<>> /\ ~ Terminal(state)
  /\ LET x == EffectEvent(state, Head(todo)) IN AppendEvent(x.type, x.data)
  /\ todo' = Tail(todo)
  /\ UNCHANGED <<base, call, fired, outcome>>

\* applyEffects returns as soon as the run is terminal.
DropEffects ==
  /\ ~ Idle /\ todo # <<>> /\ Terminal(state)
  /\ todo' = <<>>
  /\ UNCHANGED <<state, log, base, call, fired, outcome>>

\* Mutant: a schedule fires although its inject has fired already.
DueSchedulesAgain(s) == {x \in s.scheduled : x.due <= s.time}
DueSchedules(s) ==
  {x \in s.scheduled : x.due <= s.time /\ x.inject \notin s.triggered}

\* Mutant: a condition fires as long as it holds.
EligibleAgain(s) ==
  {i \in Injects : /\ InjectDef[i].trigger # <<>>
                   /\ EvaluateTrigger(InjectDef[i].trigger, s)}
EligibleInjects(s) ==
  {i \in Injects : /\ i \notin s.triggered
                   /\ InjectDef[i].trigger # <<>>
                   /\ EvaluateTrigger(InjectDef[i].trigger, s)}

\* The loop of runDueInjects is about to test the state again.
Settling == ~ Idle /\ todo = <<>> /\ call.settles

Fire(i, schedule) ==
  /\ AppendEvent("inject.triggered", InjectData(i, schedule))
  /\ todo' = InjectDef[i].effects
  /\ fired' = fired + 1
  /\ UNCHANGED <<base, call, outcome>>

\* The earliest due schedule first.  The code breaks ties by the schedule id
\* as a string; any order of the tied schedules is allowed here.
FireScheduled ==
  /\ Settling /\ ~ Terminal(state) /\ fired < MaxTriggerIterations
  /\ \E x \in DueSchedules(state) :
       /\ \A y \in DueSchedules(state) : x.due <= y.due
       /\ Fire(x.inject, x.id)

\* Then the first inject, in definition order, whose condition holds.
FireConditional ==
  /\ Settling /\ ~ Terminal(state) /\ fired < MaxTriggerIterations
  /\ DueSchedules(state) = {}
  /\ \E n \in 1 .. Len(InjectOrder) :
       /\ InjectOrder[n] \in EligibleInjects(state)
       /\ \A m \in 1 .. n - 1 : InjectOrder[m] \notin EligibleInjects(state)
       /\ Fire(InjectOrder[n], None)

Quiescent(s) == Terminal(s) \/ (DueSchedules(s) = {} /\ EligibleInjects(s) = {})

\* Mutant: the loop is left after its first round.
SettledOnce == fired < MaxTriggerIterations
\* The loop ended by a return statement and not by its bound.
Settled == fired < MaxTriggerIterations /\ Quiescent(state)

\* assertValidState: the state schema accepts the world.
ValidWorld(s) == \A p \in Paths : s.world[p] \in PathRange[p]

Return ==
  /\ ~ Idle /\ todo = <<>>
  /\ call.settles => Settled
  /\ ValidWorld(state)
  /\ base' = state
  /\ outcome' = [status |-> "accepted", code |-> None]
  /\ call' = NoCall
  /\ fired' = 0
  /\ UNCHANGED <<state, log, todo>>

\* Mutant: the caller keeps the working state of a call that threw.
ThrowKeepsState(reason) ==
  /\ log' = SubSeq(log, 1, base.latestSequence)
  /\ outcome' = [status |-> "error", code |-> reason]
  /\ call' = NoCall
  /\ fired' = 0
  /\ UNCHANGED <<state, base, todo>>

\* An exception leaves execute: nothing of the call is persisted.
Throw(reason) ==
  /\ state' = base
  /\ log' = SubSeq(log, 1, base.latestSequence)
  /\ outcome' = [status |-> "error", code |-> reason]
  /\ call' = NoCall
  /\ fired' = 0
  /\ UNCHANGED <<base, todo>>

\* runDueInjects throws whenever its loop ends by the bound.
ThrowIterations == Settling /\ fired = MaxTriggerIterations /\ Throw("iterations")

ThrowInvalidState ==
  /\ ~ Idle /\ todo = <<>>
  /\ call.settles => Settled
  /\ ~ ValidWorld(state)
  /\ Throw("schema")

-----------------------------------------------------------------------------
\* A caller generates a new id or key or repeats one it used before.  The new
\* ones are interchangeable, so that one representative is enough.
Fresh(S, used) == IF S \subseteq used THEN {} ELSE {CHOOSE x \in S \ used : TRUE}

UsedKeys == {k[1] : k \in state.appliedKeys \ {CreateKey}}

Envelopes ==
  [id : state.appliedCommandIds \cup Fresh(CommandIds, state.appliedCommandIds),
   key : UsedKeys \cup Fresh(Keys, UsedKeys),
   addressed : BOOLEAN, expected : 0 .. state.version]

Execute(c) ==
  \/ RejectMisaddressed(c)
  \/ ReturnDuplicate(c)
  \/ RejectVersion(c)
  \/ RejectTerminal(c)
  \/ StartRun(c)
  \/ PauseRun(c)
  \/ ResumeRun(c)
  \/ \E minutes \in Minutes : AdvanceClock(c, minutes)
  \/ \E p \in Participants, a \in Actions : SubmitAction(c, p, a)
  \/ \E approvalId \in CommandIds, decision \in Decisions :
       ResolveApproval(c, approvalId, decision)
  \/ \E i \in Injects : TriggerInject(c, i)
  \/ FinishRun(c)
  \/ CreateCheckpoint(c)
  \/ CreateBranch(c)

Next ==
  \/ \E c \in Envelopes : Execute(c)
  \/ ApplyEffect
  \/ DropEffects
  \/ FireScheduled
  \/ FireConditional
  \/ Return
  \/ ThrowIterations
  \/ ThrowInvalidState

Spec == Init /\ [][Next]_vars

-----------------------------------------------------------------------------
(* Properties                                                               *)

Code ==
  {None, "VALIDATION_ERROR", "RUN_VERSION_CONFLICT", "RUN_TERMINAL",
   "ACTION_NOT_ALLOWED", "APPROVAL_STALE", "iterations", "schema"}

\* Every variable has its type.
TypeOK ==
  /\ state \in State
  /\ base \in State
  /\ log \in Seq(Event)
  /\ call \in [id : CommandIds, key : Keys, settles : BOOLEAN] \cup {NoCall}
  /\ fired \in 0 .. MaxTriggerIterations
  /\ todo \in Seq(Effect)
  /\ outcome \in [status : {None, "accepted", "rejected", "duplicate", "error"}, code : Code]

Events(type) == {i \in 1 .. Len(log) : log[i].type = type}

\* The stream has no gap, no event key occurs twice in it (the two unique
\* indexes of RunEvent), whatever keys the commands carried, and the run
\* version counts the commands that left events in it.
StreamWellFormed ==
  /\ state.latestSequence = Len(log)
  /\ \A i \in 1 .. Len(log) : log[i].sequence = i
  /\ \A i, j \in 1 .. Len(log) : i # j => log[i].key # log[j].key
  /\ state.version = Cardinality({log[i].cause : i \in 1 .. Len(log)} \ {None})

\* Both together, as a run checks them: the stream of a well-typed kernel.
TypedStream == TypeOK /\ StreamWellFormed

\* An inject fires at most once in the life of a run, by whichever of its
\* three ways (its condition, a schedule, a trigger-inject command), and one
\* that fired in the parent before the branch never fires in the child.
InjectsFireOnce ==
  /\ \A i, j \in Events("inject.triggered") :
       i # j => log[i].data.inject # log[j].data.inject
  /\ log[1].data # NoData =>
       \A i \in Events("inject.triggered") :
         log[i].data.inject \notin log[1].data.inherited.triggered

\* After run.completed the stream holds checkpoints and branches only: the
\* effects behind a complete-run effect, due injects and later commands are
\* all cut off.
SilentAfterCompletion ==
  \A i \in Events("run.completed"), j \in 1 .. Len(log) :
    j > i => log[j].type \in {"checkpoint.created", "branch.created"}

\* An action that requires approval is executed only right behind the
\* approval of a request this run made for that participant and action, and
\* no approval is resolved twice.
ApprovedFirst ==
  /\ \A i \in Events("action.executed") :
       ActionDef[log[i].data.action].approval =>
         /\ log[i - 1].type = "action.approved"
         /\ \E j \in Events("action.approval_requested") :
              log[j].data = [approvalId |-> log[i - 1].data.approvalId,
                             action |-> log[i].data.action,
                             participant |-> log[i].data.participant]
  /\ \A i, j \in 1 .. Len(log) :
       /\ i # j /\ log[i].type \in Resolutions /\ log[j].type \in Resolutions
       => log[i].data # log[j].data

\* The status the stream up to position n gives a participant.
StatusAt(p, n) ==
  LET changes == {i \in 1 .. n : /\ log[i].type = "participant.status_changed"
                                /\ log[i].data.participant = p}
      first == IF log[1].data = NoData THEN InitialStatus[p]
               ELSE log[1].data.inherited.participants[p]
  IN  IF changes = {} THEN first
      ELSE log[CHOOSE i \in changes : \A j \in changes : j <= i].data.status

\* Whoever executes an action is active and may perform it at that moment,
\* also when the action waited for an approval in between.
ExecutedByActive ==
  \A i \in Events("action.executed") :
    /\ StatusAt(log[i].data.participant, i) = "active"
    /\ log[i].data.action \in CanPerform[log[i].data.participant]

\* What stands between a proposal and its execution still holds at the moment
\* of the execution: the approval, and the participant's right to act.
ApprovalsGateActions == ApprovedFirst /\ ExecutedByActive

Lifecycle == {"run.created", "run.started", "run.paused", "run.resumed", "run.completed"}

\* Virtual time passes only while the run is running.
ClockRunsOnlyWhileRunning ==
  \A i \in Events("clock.advanced") :
    \E j \in 1 .. i - 1 :
      /\ log[j].type \in {"run.started", "run.resumed"}
      /\ \A k \in j + 1 .. i : log[k].type \notin Lifecycle

\* A command that started the run, moved the clock or executed an action
\* leaves no due schedule and no satisfied condition behind.
SettledAfterCommand ==
  (Idle /\ \E i \in 1 .. Len(log) :
     /\ log[i].cause = log[Len(log)].cause
     /\ log[i].type \in {"run.started", "clock.advanced", "action.executed"})
  => Quiescent(state)

\* Since an inject fires once, runDueInjects runs into its bound only if at
\* least as many injects were left to fire, when the command came, as the bound
\* allows; a definition with fewer injects never does.
BoundIsEarned ==
  Idle /\ outcome.code = "iterations" =>
    Cardinality(Injects \ state.triggered) >= MaxTriggerIterations

\* A cascade of injects ends with nothing left behind, or with an error that
\* only a cascade as long as the bound can cause.
CascadesEnd == SettledAfterCommand /\ BoundIsEarned
=============================================================================
