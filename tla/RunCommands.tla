----------------------------- MODULE RunCommands -----------------------------
(***************************************************************************)
(* The kernel as the command store sees it: what a command appends to the  *)
(* event stream of a started Run, and the state the stream stands for.     *)
(* SimulationKernel has the kernel in full; here one participant and one   *)
(* action that needs an approval are left, which is what two commands can  *)
(* get in each other's way with.                                           *)
(*                                                                         *)
(* A request draws its command id (randomUUID), so the request itself is   *)
(* used as the id, and as the id of the approval it asks for.              *)
(***************************************************************************)
EXTENDS Naturals, Sequences, FiniteSets, SequencesExt

CONSTANT Requests     \* the requests that can be made: a bound on the commands

None == "none"

\* The approvals of the actions that the requests submit, each named after its
\* request, and one that was asked for before.
Approvals == Requests \cup {"earlier"}

Decision == {"approved", "denied", "expired"}

\* The idempotency key of a tick comes from the scheduler, that of a user's
\* request from the browser, which repeats it when it repeats the request.
Op ==
  [kind : {"submit-action", "trigger-inject", "create-checkpoint", "finish-run",
           "advance-clock"},
   approval : {None}, decision : {None}]
    \cup [kind : {"resolve-approval"}, approval : Approvals, decision : Decision]

NoOp == [kind |-> None, approval |-> None, decision |-> None]

Command == [command : Requests, key : Requests, expected : Nat, op : Op]

-----------------------------------------------------------------------------
(* The state a stream stands for                                            *)

\* able: the action's policy lets the participant act.
Created ==
  [sequence |-> 0, status |-> "created", able |-> TRUE, pending |-> {},
   commands |-> {}, keys |-> {}]

Version(s) == Cardinality(s.commands)

Apply(state, e) ==
  LET s == [state EXCEPT !.sequence = e.sequence, !.keys = @ \cup {e.key},
              !.commands = IF e.command = None THEN @ ELSE @ \cup {e.command}]
  IN  CASE e.type = "run.started" -> [s EXCEPT !.status = "running"]
        [] e.type = "run.completed" -> [s EXCEPT !.status = "completed"]
        [] e.type = "participant.status_changed" -> [s EXCEPT !.able = ~ @]
        [] e.type = "action.approval_requested" ->
             [s EXCEPT !.pending = @ \cup {e.approval}]
        [] e.type \in {"action.approved", "action.denied", "action.approval_expired"} ->
             [s EXCEPT !.pending = @ \ {e.approval}]
        [] OTHER -> s

Replay(s, events) ==
  LET after[n \in 0 .. Len(events)] == IF n = 0 THEN s ELSE Apply(after[n - 1], events[n])
  IN  after[Len(events)]

Event(sequence, command, key, type, approval) ==
  [sequence |-> sequence, command |-> command, key |-> key, type |-> type,
   approval |-> approval]

\* The stream of a run that was created and started, and in which an action
\* was submitted that now waits for its approval.
StartedLog ==
  <<Event(1, None, <<"create", 0>>, "run.created", None),
    Event(2, "start", <<"start", 0>>, "run.started", None),
    Event(3, "earlier", <<"earlier", 0>>, "action.proposed", "earlier"),
    Event(4, "earlier", <<"earlier", 1>>, "action.approval_requested", "earlier")>>

-----------------------------------------------------------------------------
(* What the kernel makes of a command                                       *)

Terminal(s) == s.status = "completed"

\* Mutant: an expiry is recorded whether the approval is open or not.
ResolvingLate(s, op) ==
  CASE op.decision = "expired" -> <<"action.approval_expired">>
    [] op.decision = "denied" /\ op.approval \in s.pending -> <<"action.denied">>
    [] op.decision = "approved" /\ op.approval \in s.pending /\ s.able ->
         <<"action.approved", "action.executed">>
    [] OTHER -> <<>>

\* Resolving an approval.
Resolving(s, op) ==
  IF op.approval \notin s.pending THEN <<>>
  ELSE CASE op.decision = "denied" -> <<"action.denied">>
         [] op.decision = "expired" -> <<"action.approval_expired">>
         [] OTHER -> IF s.able THEN <<"action.approved", "action.executed">> ELSE <<>>

\* The types of the events a command appends; <<>> if it is rejected.
Types(s, op) ==
  IF op.kind = "create-checkpoint" THEN <<"checkpoint.created">>
  ELSE IF Terminal(s) THEN <<>>
  ELSE CASE op.kind = "finish-run" -> <<"run.completed">>
         [] op.kind = "advance-clock" -> <<"clock.advanced">>
         [] op.kind = "trigger-inject" ->
              <<"inject.triggered", "participant.status_changed">>
         [] op.kind = "submit-action" /\ s.able ->
              <<"action.proposed", "action.approval_requested">>
         [] op.kind = "submit-action" /\ ~ s.able -> <<"action.rejected">>
         [] OTHER -> Resolving(s, op)

Effects(s, c) ==
  LET types == Types(s, c.op)
      approval == IF c.op.kind = "submit-action" THEN c.command ELSE c.op.approval
  IN  [n \in 1 .. Len(types) |->
         Event(s.sequence + n, c.command, <<c.key, n - 1>>, types[n], approval)]

Duplicate(s, c) == c.command \in s.commands \/ <<c.key, 0>> \in s.keys

Status(s, c) ==
  IF Duplicate(s, c) THEN "duplicate"
  ELSE IF c.expected # Version(s) \/ Types(s, c.op) \in {<<>>, <<"action.rejected">>}
  THEN "rejected" ELSE "accepted"

Code(s, c) ==
  IF Status(s, c) # "rejected" THEN None
  ELSE IF c.expected # Version(s) THEN "RUN_VERSION_CONFLICT"
  ELSE IF Terminal(s) THEN "RUN_TERMINAL"
  ELSE IF c.op.kind = "resolve-approval" THEN "APPROVAL_STALE" ELSE "ACTION_NOT_ALLOWED"

\* SimulationKernel.execute
Execute(s, c) ==
  [status |-> Status(s, c), code |-> Code(s, c),
   events |-> IF Duplicate(s, c) \/ c.expected # Version(s) THEN <<>>
              ELSE Effects(s, c)]
=============================================================================
