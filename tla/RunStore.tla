------------------------------ MODULE RunStore ------------------------------
(***************************************************************************)
(* The command transactions of one started Run                             *)
(* (src/packages/application/src/runtime.ts): PrismaRunRepository.execute  *)
(* and the two services that call it more than once or read before it,     *)
(* resolveApproval and executeScheduledTick.                               *)
(*                                                                         *)
(* The transactions run at PostgreSQL's default isolation: a user command  *)
(* takes no lock, so that every query of it sees what is committed at that *)
(* moment, and other requests commit between two of them.  The update of   *)
(* the run row under its version check takes the row lock until the        *)
(* transaction ends: from there on a command is one step.  A tick takes    *)
(* the lock first and is one step altogether.                              *)
(***************************************************************************)
EXTENDS RunCommands

CONSTANTS
  SnapshotInterval,   \* snapshotInterval of the repository
  Kinds,              \* bound: the kinds of command the requests carry
  MaxFaults           \* bound: lost and repeated requests

ASSUME StoreAssumption ==
  /\ {None, "start", "earlier"} \cap Requests = {}
  /\ SnapshotInterval \in Nat \ {0}
  /\ MaxFaults \in Nat

VARIABLES
  row,          \* the simulation_runs row
  log,          \* the run_events rows, by sequence
  snapshots,    \* the state_snapshots rows
  approvals,    \* the approvals row of a request, or "absent"
  decisions,    \* the decisions row of an approval, or None
  overdue,      \* the approvals whose expiresAt has passed
  requests,     \* the requests
  faults        \* requests lost or repeated so far

vars == <<row, log, snapshots, approvals, decisions, overdue, requests, faults>>

NoRow == [status |-> None, version |-> 0, sequence |-> 0]
RowOf(s) == [status |-> s.status, version |-> Version(s), sequence |-> s.sequence]
NoAnswer == [status |-> None, code |-> None]

Unused ==
  [pc |-> "unused", op |-> NoOp, key |-> None, expected |-> 0, attempt |-> 0,
   late |-> FALSE, since |-> 0, seen |-> NoRow, events |-> <<>>, answer |-> NoAnswer]

\* createRun left a snapshot behind run.created, and so did the start and the
\* submission if their last event was a multiple of the interval.
Init ==
  /\ log = StartedLog
  /\ row = RowOf(Replay(Created, StartedLog))
  /\ snapshots = {[sequence |-> n, state |-> Replay(Created, SubSeq(StartedLog, 1, n))] :
                    n \in {1} \cup {m \in {2, 4} : m % SnapshotInterval = 0}}
  /\ approvals = [a \in Approvals |-> IF a = "earlier" THEN "pending" ELSE "absent"]
  /\ decisions = [a \in Approvals |-> None]
  /\ overdue = {}
  /\ requests = [r \in Requests |-> Unused]
  /\ faults = 0

Fault == faults < MaxFaults /\ faults' = faults + 1
stored == <<row, log, snapshots, approvals, decisions>>
Goto(r, pc) == requests' = [requests EXCEPT ![r].pc = pc]
Answer(r, status, code) ==
  requests' = [requests EXCEPT ![r].pc = "done", ![r].since = 0, ![r].seen = NoRow,
                               ![r].events = <<>>,
                               ![r].answer = [status |-> status, code |-> code]]

-----------------------------------------------------------------------------
(* Requests come in                                                         *)

FirstPc(op) ==
  CASE op.kind = "resolve-approval" -> "approval"
    [] op.kind = "advance-clock" -> "version"
    [] OTHER -> "read"

\* The unused requests are interchangeable, so that one of them will do.
Fresh == {r \in Requests : requests[r].pc = "unused"}

Receive(r, op, key, expected) ==
  /\ Fresh # {} /\ r = CHOOSE x \in Fresh : TRUE
  /\ requests' = [requests EXCEPT ![r] = [Unused EXCEPT !.pc = FirstPc(op), !.op = op,
                                            !.key = key, !.expected = expected]]
  /\ UNCHANGED <<stored, overdue>>

\* A new command, from a page or a workflow that knows the current version; a
\* decision on an approval that has a row.
Issue(r) ==
  \E op \in Op :
    /\ op.kind \in Kinds /\ op.decision # "expired"
    /\ op.kind = "resolve-approval" => approvals[op.approval] # "absent"
    /\ Receive(r, op, r, row.version)
    /\ UNCHANGED faults

\* The same request is sent again, with its key and its version.
Repeat(r) ==
  /\ Fault
  /\ \E q \in Requests \ Fresh :
       Receive(r, requests[q].op, requests[q].key, requests[q].expected)

\* An approval that is waited for gets too old.
TimePasses ==
  /\ \E a \in Approvals \ overdue :
       approvals[a] = "pending" /\ overdue' = overdue \cup {a}
  /\ UNCHANGED <<stored, requests, faults>>

\* The request's process dies.  (An answer that never arrives needs no step:
\* what is answered may be read or not.)
Lose(r) ==
  /\ requests[r].pc \notin {"unused", "done"}
  /\ Fault
  /\ Answer(r, "lost", None)
  /\ UNCHANGED <<stored, overdue>>

-----------------------------------------------------------------------------
(* Reading                                                                  *)

\* Mutant: the snapshot's own event is replayed once more.
LoadOverlaps(n) ==
  LET usable == {x \in snapshots : x.sequence <= n}
      last == CHOOSE x \in usable : \A y \in usable : y.sequence <= x.sequence
  IN  Replay(last.state, SubSeq(log, last.sequence, n))

\* loadState: the latest snapshot and the events behind it, up to sequence n.
Load(n) ==
  LET usable == {x \in snapshots : x.sequence <= n}
      last == CHOOSE x \in usable : \A y \in usable : y.sequence <= x.sequence
  IN  Replay(last.state, SubSeq(log, last.sequence + 1, n))

\* resolveApproval looks at the approvals row and its expiry once, at first.
GetApproval(r) ==
  /\ requests[r].pc = "approval"
  /\ IF approvals[requests[r].op.approval] # "pending"
     THEN Answer(r, "rejected", "APPROVAL_STALE")
     ELSE requests' = [requests EXCEPT ![r].pc = "version",
                                       ![r].late = requests[r].op.approval \in overdue]
  /\ UNCHANGED <<stored, overdue, faults>>

\* The version a tick or an attempt to resolve an approval goes by.  That of
\* the first attempt is kept in since, for a property only.
GetRun(r) ==
  /\ requests[r].pc = "version"
  /\ requests' = [requests EXCEPT
       ![r].expected = row.version,
       ![r].since = IF requests[r].attempt = 0 THEN row.version ELSE @,
       ![r].pc = IF requests[r].op.kind = "advance-clock" THEN "locked" ELSE "read"]
  /\ UNCHANGED <<stored, overdue, faults>>

\* The first query of execute.
ReadRow(r) ==
  /\ requests[r].pc = "read"
  /\ requests' = [requests EXCEPT ![r].pc = "lookup", ![r].seen = row]
  /\ UNCHANGED <<stored, overdue, faults>>

\* The command request r hands to the kernel.
CommandOf(r) ==
  [command |-> r, key |-> requests[r].key, expected |-> requests[r].expected,
   op |-> IF requests[r].late THEN [requests[r].op EXCEPT !.decision = "expired"]
          ELSE requests[r].op]

Applied(key) == \E n \in 1 .. Len(log) : log[n].key = <<key, 0>>

-----------------------------------------------------------------------------
(* The end of execute, and what resolveApproval does with it                *)

\* Mutant: the conflict is reported at once.
TriesOnce(r, code) == FALSE
TriesAgain(r, code) ==
  /\ requests[r].op.kind = "resolve-approval"
  /\ code = "RUN_VERSION_CONFLICT" /\ requests[r].attempt = 0

NextAttempt(r) ==
  requests' = [requests EXCEPT ![r].pc = "version", ![r].attempt = 1,
                               ![r].seen = NoRow, ![r].events = <<>>]

\* execute returned.  Past the expiry it is an error, whatever the kernel said.
Returned(r, status, code) ==
  IF TriesAgain(r, code) THEN NextAttempt(r)
  ELSE IF requests[r].late THEN Answer(r, "rejected", "APPROVAL_STALE")
  ELSE IF code = "APPROVAL_STALE"
  THEN requests' = [requests EXCEPT ![r].pc = "mark", ![r].seen = NoRow]
  ELSE Answer(r, status, code)

\* execute threw: the transaction is rolled back.
Threw(r, code) ==
  IF TriesAgain(r, code) THEN NextAttempt(r) ELSE Answer(r, "rejected", code)

\* markApprovalStale, a statement of its own.
MarkStale(r) ==
  /\ requests[r].pc = "mark"
  /\ LET a == requests[r].op.approval
     IN  approvals' = [approvals EXCEPT ![a] = IF @ = "pending" THEN "stale" ELSE @]
  /\ Answer(r, "rejected", "APPROVAL_STALE")
  /\ UNCHANGED <<row, log, snapshots, decisions, overdue, faults>>

-----------------------------------------------------------------------------
(* Committing                                                               *)

Resolution ==
  [type \in {"action.approved", "action.denied", "action.approval_expired"} |->
     CASE type = "action.approved" -> "approved"
       [] type = "action.denied" -> "denied"
       [] OTHER -> "expired"]

Requested(events) ==
  {e.approval : e \in {x \in ToSet(events) : x.type = "action.approval_requested"}}
Resolved(events) == {x \in ToSet(events) : x.type \in DOMAIN Resolution}
ResolutionOf(events, a) == Resolution[(CHOOSE e \in Resolved(events) : e.approval = a).type]

\* materializeGovernance: a row that is no longer pending is left alone, and
\* so is a decision that was taken.
ApprovalRows(events) ==
  [a \in Approvals |->
     CASE a \in Requested(events) /\ approvals[a] = "absent" -> "pending"
       [] a \in {e.approval : e \in Resolved(events)} /\ approvals[a] = "pending" ->
            ResolutionOf(events, a)
       [] OTHER -> approvals[a]]
DecisionRows(events) ==
  [a \in Approvals |->
     IF a \in {e.approval : e \in Resolved(events)} /\ decisions[a] = None
     THEN ResolutionOf(events, a) ELSE decisions[a]]

\* Mutant: the snapshot gets the number of the command's first event.
SnapshotsEarly(events, s) ==
  LET first == s.sequence - Len(events) + 1
  IN  IF \/ s.sequence % SnapshotInterval = 0
         \/ \E e \in ToSet(events) : e.type \in {"run.completed", "checkpoint.created"}
      THEN {x \in snapshots : x.sequence # first} \cup {[sequence |-> first, state |-> s]}
      ELSE snapshots

\* Every so many events, and behind a completion or a checkpoint.
SnapshotsAfter(events, s) ==
  IF \/ s.sequence % SnapshotInterval = 0
     \/ \E e \in ToSet(events) : e.type \in {"run.completed", "checkpoint.created"}
  THEN {x \in snapshots : x.sequence # s.sequence}
         \cup {[sequence |-> s.sequence, state |-> s]}
  ELSE snapshots

\* writeEventsAndProjections; s0 is the state the kernel was given.
Write(events, s0) ==
  LET s == Replay(s0, events)
  IN  /\ row' = RowOf(s)
      /\ log' = log \o events
      /\ snapshots' = SnapshotsAfter(events, s)
      /\ approvals' = ApprovalRows(events)
      /\ decisions' = DecisionRows(events)

\* The second half of the reading, and the kernel on what was read.
Decide(r) ==
  /\ requests[r].pc = "lookup"
  /\ LET result == Execute(Load(requests[r].seen.sequence), CommandOf(r))
     IN  IF Applied(requests[r].key) THEN Returned(r, "duplicate", None)
         ELSE IF result.events = <<>> THEN Returned(r, result.status, result.code)
         ELSE requests' = [requests EXCEPT ![r].pc = "commit", ![r].events = result.events]
  /\ UNCHANGED <<stored, overdue, faults>>

\* updateMany finds the version the command expected: everything is written.
Commit(r) ==
  /\ requests[r].pc = "commit" /\ row.version = requests[r].expected
  /\ LET s == Load(requests[r].seen.sequence)
     IN  /\ Write(requests[r].events, s)
         /\ Returned(r, Status(s, CommandOf(r)), Code(s, CommandOf(r)))
  /\ UNCHANGED <<overdue, faults>>

\* Mutant: the number of updated rows is not looked at.
ConflictUnnoticed(r) ==
  /\ requests[r].pc = "commit" /\ row.version # requests[r].expected
  /\ LET s == Load(requests[r].seen.sequence)
     IN  Returned(r, Status(s, CommandOf(r)), Code(s, CommandOf(r)))
  /\ UNCHANGED <<stored, overdue, faults>>

\* It finds no row: the transaction is given up.
Conflict(r) ==
  /\ requests[r].pc = "commit" /\ row.version # requests[r].expected
  /\ Threw(r, "RUN_VERSION_CONFLICT")
  /\ UNCHANGED <<stored, overdue, faults>>

\* A tick, from lockRun to the end of its transaction.
LockedTick(r) ==
  /\ requests[r].pc = "locked"
  /\ LET s == Load(row.sequence)
         result == Execute(s, CommandOf(r))
     IN  IF row.status # "running" \/ Applied(requests[r].key) \/ result.events = <<>>
         THEN /\ Answer(r, IF row.status # "running" \/ Applied(requests[r].key)
                           THEN "duplicate" ELSE result.status, result.code)
              /\ UNCHANGED stored
         ELSE /\ Write(result.events, s)
              /\ Answer(r, result.status, result.code)
  /\ UNCHANGED <<overdue, faults>>

-----------------------------------------------------------------------------
Step(r) ==
  \/ Issue(r) \/ Repeat(r) \/ Lose(r)
  \/ GetApproval(r) \/ GetRun(r) \/ ReadRow(r) \/ Decide(r)
  \/ Commit(r) \/ Conflict(r) \/ LockedTick(r) \/ MarkStale(r)

Next == TimePasses \/ \E r \in Requests : Step(r)

Spec == Init /\ [][Next]_vars

-----------------------------------------------------------------------------
(* Properties                                                               *)

Pc ==
  {"unused", "approval", "version", "read", "lookup", "commit", "locked", "mark", "done"}

\* Every variable has its type.
TypeOK ==
  /\ row \in [status : {"running", "completed"}, version : Nat, sequence : Nat]
  /\ \A x \in snapshots : x.sequence \in Nat /\ x.state.sequence \in Nat
  /\ approvals \in [Approvals -> {"absent", "pending", "approved", "denied", "expired", "stale"}]
  /\ decisions \in [Approvals -> Decision \cup {None}]
  /\ overdue \subseteq Approvals
  /\ \A r \in Requests :
       /\ requests[r].pc \in Pc
       /\ requests[r].op \in Op \cup {NoOp}
       /\ requests[r].key \in Requests \cup {None}
       /\ requests[r].attempt \in 0 .. 1
       /\ requests[r].answer.status \in {None, "accepted", "rejected", "duplicate", "lost"}
  /\ faults \in 0 .. MaxFaults

\* The event stream is the work of commands that took effect one at a time,
\* each on the state of the whole stream before it, whichever requests raced,
\* were repeated or were lost: see CommandLog.
Log == INSTANCE CommandLog
         WITH asked <- [r \in Requests |-> [key |-> requests[r].key, op |-> requests[r].op]]
ImplementsCommandLog == Log!Spec

\* What is stored beside the stream is what the stream says: the numbers of
\* its rows, the run row, and every snapshot, from which alone later commands,
\* branches and replays are computed.
StoredStateIsStream ==
  /\ \A n \in 1 .. Len(log) : log[n].sequence = n
  /\ row = RowOf(Replay(Created, log))
  /\ \A x \in snapshots : x.state = Replay(Created, SubSeq(log, 1, x.sequence))

\* What holds of the tables between any two statements.
StoreInv == TypeOK /\ StoredStateIsStream

Resolutions == {n \in 1 .. Len(log) : log[n].type \in DOMAIN Resolution}

\* An approval is resolved once, however many people decide on it at the same
\* time; its decision row and, unless it was marked stale, its own row name
\* that resolution, and only an open approval is shown as pending.
ApprovalsFollowStream ==
  /\ \A m, n \in Resolutions : log[m].approval = log[n].approval => m = n
  /\ \A a \in Approvals :
       LET resolution == {Resolution[log[n].type] : n \in {m \in Resolutions : log[m].approval = a}}
       IN  /\ decisions[a] \in resolution \cup {None}
           /\ (resolution # {}) => (decisions[a] # None)
           /\ approvals[a] \in Decision => approvals[a] \in resolution
           /\ approvals[a] = "pending" => a \in Replay(Created, log).pending

Own(r) == {log[n].type : n \in {m \in 1 .. Len(log) : log[m].command = r}}

\* Who is told that a command was accepted can rely on its events; who is told
\* that it was refused can rely on its having done nothing, except for the
\* record of a refused action and of an approval that was late.
AnswersAreTrue ==
  \A r \in Requests :
    CASE requests[r].answer.status = "accepted" ->
           Own(r) \notin {{}, {"action.rejected"}}
      [] requests[r].answer.status = "rejected" ->
           Own(r) \in {{}, {"action.rejected"}, {"action.approval_expired"}}
      [] requests[r].answer.status = "duplicate" ->
           \/ Applied(requests[r].key)
           \/ requests[r].op.kind = "advance-clock" /\ row.status = "completed"
      [] OTHER -> TRUE

\* A decision on an approval is turned away for a version conflict only if two
\* other commands were committed while it was under way: the clock alone, or
\* one other person, never makes a valid decision fail.
ConflictTakesTwoCommits ==
  [][\A r \in Requests :
       /\ requests[r].op.kind = "resolve-approval"
       /\ requests'[r].answer.code = "RUN_VERSION_CONFLICT"
       /\ requests[r].answer.code = None
       => row.version >= requests[r].since + 2]_vars
=============================================================================
