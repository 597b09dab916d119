---------------------------- MODULE RunStoreProofs ----------------------------
(***************************************************************************)
(* Theorems about the command store.  The state a stream stands for is a   *)
(* recursion over the stream; the first part says what a replay is, that   *)
(* it exists, and how that of a longer stream follows from a shorter one.  *)
(* The second part is the inductive invariant: every row, snapshot and     *)
(* half-done request refers to the state of some prefix of the stream.     *)
(***************************************************************************)
EXTENDS RunStore, DataInduction, FiniteSetTheorems, SequenceTheorems

-----------------------------------------------------------------------------
(* The state of a stream                                                    *)

Ids == Requests \cup {"start", "earlier"}
EventKey == (Requests \cup {"create", "start", "earlier"}) \X Nat

StreamState ==
  [sequence : Nat, status : {"created", "running", "completed"}, able : BOOLEAN,
   pending : SUBSET (Approvals \cup {None}), commands : SUBSET Ids, keys : SUBSET EventKey]

EventName ==
  {"run.created", "run.started", "run.completed", "checkpoint.created", "clock.advanced",
   "inject.triggered", "participant.status_changed", "action.proposed", "action.rejected",
   "action.approval_requested", "action.approved", "action.denied",
   "action.approval_expired", "action.executed"}

StreamEvent ==
  [sequence : Nat, command : Ids \cup {None}, key : EventKey, type : EventName,
   approval : Approvals \cup {None}]

ResolutionType == {"action.approved", "action.denied", "action.approval_expired"}

\* What one event does to the state of the stream, field by field.
LEMMA ApplyFields ==
  ASSUME NEW s \in StreamState, NEW e \in StreamEvent
  PROVE  /\ Apply(s, e) \in StreamState
         /\ Apply(s, e).sequence = e.sequence
         /\ Apply(s, e).keys = s.keys \cup {e.key}
         /\ Apply(s, e).commands =
              IF e.command = None THEN s.commands ELSE s.commands \cup {e.command}
         /\ Apply(s, e).status =
              IF e.type = "run.started" THEN "running"
              ELSE IF e.type = "run.completed" THEN "completed" ELSE s.status
         /\ Apply(s, e).pending =
              IF e.type = "action.approval_requested" THEN s.pending \cup {e.approval}
              ELSE IF e.type \in ResolutionType THEN s.pending \ {e.approval} ELSE s.pending
  <1> DEFINE ids == IF e.command = None THEN s.commands ELSE s.commands \cup {e.command}
             t == [s EXCEPT !.sequence = e.sequence, !.keys = @ \cup {e.key}, !.commands = ids]
  <1>1. ids \in SUBSET Ids /\ s.keys \cup {e.key} \in SUBSET EventKey /\ e.sequence \in Nat
    BY DEF StreamState, StreamEvent
  <1>2. /\ t \in StreamState /\ t.sequence = e.sequence /\ t.keys = s.keys \cup {e.key}
        /\ t.commands = ids /\ t.status = s.status /\ t.able = s.able /\ t.pending = s.pending
    <2> HIDE DEF ids
    <2> QED
      BY <1>1 DEF StreamState
  <1>3. Apply(s, e) =
          CASE e.type = "run.started" -> [t EXCEPT !.status = "running"]
            [] e.type = "run.completed" -> [t EXCEPT !.status = "completed"]
            [] e.type = "participant.status_changed" -> [t EXCEPT !.able = ~ @]
            [] e.type = "action.approval_requested" ->
                 [t EXCEPT !.pending = @ \cup {e.approval}]
            [] e.type \in ResolutionType -> [t EXCEPT !.pending = @ \ {e.approval}]
            [] OTHER -> t
    BY Zenon DEF Apply, ResolutionType
  <1> HIDE DEF t
  <1>4. e.approval \in Approvals \cup {None}
    BY DEF StreamEvent
  <1>5. CASE e.type = "run.started"
    BY <1>2, <1>3, <1>5 DEF StreamState, ResolutionType
  <1>6. CASE e.type = "run.completed"
    BY <1>2, <1>3, <1>6 DEF StreamState, ResolutionType
  <1>7. CASE e.type = "participant.status_changed"
    BY <1>2, <1>3, <1>7 DEF StreamState, ResolutionType
  <1>8. ASSUME NEW p \in SUBSET (Approvals \cup {None}),
                e.type \notin {"run.started", "run.completed"},
                Apply(s, e) = [t EXCEPT !.pending = p]
         PROVE  /\ Apply(s, e) \in StreamState
                /\ Apply(s, e).sequence = e.sequence /\ Apply(s, e).keys = s.keys \cup {e.key}
                /\ Apply(s, e).commands = ids /\ Apply(s, e).status = s.status
                /\ Apply(s, e).pending = p
    <2> HIDE DEF ids
    <2> QED
      BY <1>2, <1>8 DEF StreamState
  <1>9. s.pending \in SUBSET (Approvals \cup {None})
    BY DEF StreamState
  <1>10. CASE e.type = "action.approval_requested"
    <2> DEFINE p == s.pending \cup {e.approval}
    <2>1. p \in SUBSET (Approvals \cup {None})
      BY <1>4, <1>9
    <2>2. Apply(s, e) = [t EXCEPT !.pending = p]
      BY <1>2, <1>3, <1>10 DEF ResolutionType
    <2> QED
      BY <1>10, <1>8, <2>1, <2>2
  <1>11. CASE e.type \in ResolutionType
    <2> DEFINE p == s.pending \ {e.approval}
    <2>1. p \in SUBSET (Approvals \cup {None})
      BY <1>9
    <2>2. Apply(s, e) = [t EXCEPT !.pending = p]
      BY <1>2, <1>3, <1>11 DEF ResolutionType
    <2>3. e.type \notin {"run.started", "run.completed", "action.approval_requested"}
      BY <1>11 DEF ResolutionType
    <2> QED
      BY <1>11, <1>8, <2>1, <2>2, <2>3
  <1>12. CASE /\ e.type \notin {"run.started", "run.completed", "participant.status_changed"}
              /\ e.type # "action.approval_requested" /\ e.type \notin ResolutionType
    BY <1>2, <1>3, <1>12 DEF ResolutionType
  <1> QED
    BY <1>5, <1>6, <1>7, <1>10, <1>11, <1>12

\* The states that a replay goes through.
RunsThrough(f, s, l) ==
  /\ f \in [0 .. Len(l) -> StreamState]
  /\ f[0] = s
  /\ \A i \in 1 .. Len(l) : f[i] = Apply(f[i - 1], l[i])

LEMMA ReplayExists ==
  ASSUME NEW s \in StreamState, NEW l \in Seq(StreamEvent)
  PROVE  \E f : RunsThrough(f, s, l) /\ Replay(s, l) = f[Len(l)]
  <1> DEFINE n == Len(l)
             Body(g) == [i \in 0 .. n |-> IF i = 0 THEN s ELSE Apply(g[i - 1], l[i])]
             step == [p \in StreamState \X (1 .. n) |-> Apply(p[1], l[p[2]])]
             after == CHOOSE g : g = Body(g)
  <1>1. n \in Nat
    OBVIOUS
  <1>2. \A i \in 1 .. n : l[i] \in StreamEvent
    OBVIOUS
  <1>3. step \in Steps(n, StreamState)
    BY <1>2, ApplyFields DEF Steps
  <1>4. PICK f : IsRun(f, s, step, n, StreamState)
    <2> HIDE DEF step, n, Body, after
    <2> QED
      BY <1>1, <1>3, RunExists
  <1>5. \A i \in 1 .. n : f[i] = Apply(f[i - 1], l[i])
    <2> SUFFICES ASSUME NEW i \in 1 .. n PROVE f[i] = Apply(f[i - 1], l[i])
      OBVIOUS
    <2>1. f[i - 1] \in StreamState /\ <<f[i - 1], i>> \in StreamState \X (1 .. n)
      BY <1>4 DEF IsRun
    <2> QED
      BY <1>4, <2>1 DEF IsRun
  <1>6. f = Body(f)
    BY <1>4, <1>5 DEF IsRun
  <1>7. after = Body(after)
    <2> HIDE DEF Body
    <2> QED
      BY <1>6, Zenon
  <1>8. Replay(s, l) = after[n]
    BY Zenon DEF Replay
  <1> HIDE DEF after, step
  <1>9. after[0] = s /\ \A i \in 1 .. n : after[i] = Apply(after[i - 1], l[i])
    BY <1>1, <1>7
  <1>10. \A i \in 0 .. n : after[i] = f[i]
    <2>1. \A i \in 1 .. n : after[i - 1] = f[i - 1] => after[i] = f[i]
      BY <1>5, <1>9
    <2>2. after[0] = f[0]
      BY <1>4, <1>9 DEF IsRun
    <2> HIDE DEF n, Body, after
    <2> QED
      BY <1>1, <2>1, <2>2, SameRun
  <1>11. Replay(s, l) = f[n]
    BY <1>1, <1>8, <1>10
  <1> QED
    BY <1>4, <1>5, <1>11 DEF RunsThrough, IsRun

\* There is only one way to run through the events.
LEMMA ReplayIs ==
  ASSUME NEW s \in StreamState, NEW l \in Seq(StreamEvent), NEW f, RunsThrough(f, s, l)
  PROVE  Replay(s, l) = f[Len(l)]
  <1>1. PICK g : RunsThrough(g, s, l) /\ Replay(s, l) = g[Len(l)]
    BY ReplayExists
  <1>2. Len(l) \in Nat
    OBVIOUS
  <1>3. f[0] = g[0] /\ \A i \in 1 .. Len(l) : f[i - 1] = g[i - 1] => f[i] = g[i]
    BY <1>1 DEF RunsThrough
  <1>4. \A i \in 0 .. Len(l) : f[i] = g[i]
    BY <1>2, <1>3, SameRun
  <1> QED
    BY <1>1, <1>2, <1>4

LEMMA ReplayType ==
  ASSUME NEW s \in StreamState, NEW l \in Seq(StreamEvent)
  PROVE  Replay(s, l) \in StreamState
  <1>1. PICK f : RunsThrough(f, s, l) /\ Replay(s, l) = f[Len(l)]
    BY ReplayExists
  <1>2. Len(l) \in 0 .. Len(l)
    OBVIOUS
  <1> QED
    BY <1>1, <1>2 DEF RunsThrough

LEMMA ReplayEmpty ==
  ASSUME NEW s \in StreamState
  PROVE  Replay(s, <<>>) = s
  <1>1. <<>> \in Seq(StreamEvent) /\ Len(<<>>) = 0
    OBVIOUS
  <1>2. PICK f : RunsThrough(f, s, <<>>) /\ Replay(s, <<>>) = f[0]
    BY <1>1, ReplayExists
  <1> QED
    BY <1>2 DEF RunsThrough

LEMMA ReplayOne ==
  ASSUME NEW s \in StreamState, NEW e \in StreamEvent
  PROVE  Replay(s, <<e>>) = Apply(s, e)
  <1>1. <<e>> \in Seq(StreamEvent) /\ Len(<<e>>) = 1 /\ <<e>>[1] = e /\ 1 \in 1 .. 1
    OBVIOUS
  <1>2. PICK f : RunsThrough(f, s, <<e>>) /\ Replay(s, <<e>>) = f[1]
    BY <1>1, ReplayExists
  <1>3. f[1] = Apply(f[1 - 1], e) /\ 1 - 1 = 0 /\ f[0] = s
    BY <1>1, <1>2 DEF RunsThrough
  <1> QED
    BY <1>2, <1>3

\* To replay two streams, the second is replayed on the state of the first.
LEMMA ReplayConcat ==
  ASSUME NEW s \in StreamState, NEW l \in Seq(StreamEvent), NEW m \in Seq(StreamEvent)
  PROVE  Replay(s, l \o m) = Replay(Replay(s, l), m)
  <1> DEFINE a == Len(l)
             b == Len(m)
             t == l \o m
  <1>1. a \in Nat /\ b \in Nat /\ t \in Seq(StreamEvent) /\ Len(t) = a + b
    BY ConcatProperties
  <1>2. \A i \in 1 .. a + b : t[i] = IF i <= a THEN l[i] ELSE m[i - a]
    BY ConcatProperties
  <1>3. PICK f : RunsThrough(f, s, l) /\ Replay(s, l) = f[a]
    BY ReplayExists
  <1>4. f[a] \in StreamState
    BY <1>3, ReplayType
  <1>5. PICK g : RunsThrough(g, f[a], m) /\ Replay(f[a], m) = g[b]
    BY <1>4, ReplayExists
  <1> HIDE DEF t, a, b
  <1> DEFINE h == [i \in 0 .. a + b |-> IF i <= a THEN f[i] ELSE g[i - a]]
  <1>6. /\ f \in [0 .. a -> StreamState] /\ f[0] = s
        /\ \A i \in 1 .. a : f[i] = Apply(f[i - 1], l[i])
    BY <1>3 DEF RunsThrough, a
  <1>7. /\ g \in [0 .. b -> StreamState] /\ g[0] = f[a]
        /\ \A i \in 1 .. b : g[i] = Apply(g[i - 1], m[i])
    BY <1>5 DEF RunsThrough, b
  <1>8. h \in [0 .. a + b -> StreamState] /\ h[0] = s
    BY <1>1, <1>6, <1>7
  <1>9. ASSUME NEW i \in 1 .. a + b PROVE h[i] = Apply(h[i - 1], t[i])
    <2>1. CASE i <= a
      <3>1. i \in 1 .. a /\ h[i] = f[i] /\ h[i - 1] = f[i - 1] /\ t[i] = l[i]
        BY <1>1, <1>2, <2>1
      <3> QED
        BY <1>6, <3>1
    <2>2. CASE i = a + 1
      <3>1. i - a = 1 /\ 1 \in 1 .. b /\ i - 1 = a /\ 1 - 1 = 0 /\ ~ (i <= a)
        BY <1>1, <2>2
      <3>2. h[i] = g[1] /\ h[i - 1] = f[a] /\ t[i] = m[1]
        BY <1>1, <1>2, <3>1
      <3>3. g[1] = Apply(g[0], m[1])
        BY <1>7, <3>1
      <3> QED
        BY <1>7, <3>2, <3>3
    <2>3. CASE i > a + 1
      <3>1. /\ i - a \in 1 .. b /\ (i - 1) - a = (i - a) - 1 /\ i - 1 \in 0 .. a + b
            /\ ~ (i <= a) /\ ~ (i - 1 <= a)
        BY <1>1, <2>3
      <3>2. h[i] = g[i - a] /\ h[i - 1] = g[(i - a) - 1] /\ t[i] = m[i - a]
        BY <1>1, <1>2, <3>1
      <3> QED
        BY <1>7, <3>1, <3>2
    <2> QED
      BY <1>1, <2>1, <2>2, <2>3
  <1>10. h[a + b] = g[b]
    <2>1. CASE b = 0
      BY <1>1, <1>7, <2>1
    <2>2. CASE b # 0
      <3>1. a + b \in 0 .. a + b /\ ~ (a + b <= a) /\ (a + b) - a = b
        BY <1>1, <2>2
      <3> QED
        BY <3>1
    <2> QED
      BY <2>1, <2>2
  <1>11. RunsThrough(h, s, t)
    <2> HIDE DEF h
    <2> QED
      BY <1>1, <1>8, <1>9 DEF RunsThrough
  <1>12. Replay(s, t) = h[a + b]
    <2> HIDE DEF h
    <2> QED
      BY <1>1, <1>11, ReplayIs
  <1> QED
    BY <1>3, <1>5, <1>10, <1>12 DEF t

\* The keys and the commands of a state are those of the events behind it.
LEMMA ReplayCollects ==
  ASSUME NEW s \in StreamState, NEW l \in Seq(StreamEvent)
  PROVE  /\ Replay(s, l).keys = s.keys \cup {l[i].key : i \in 1 .. Len(l)}
         /\ Replay(s, l).commands =
              s.commands \cup ({l[i].command : i \in 1 .. Len(l)} \ {None})
         /\ IsFiniteSet(s.commands) => IsFiniteSet(Replay(s, l).commands)
  <1> DEFINE n == Len(l)
             K(i) == s.keys \cup {l[j].key : j \in 1 .. i}
             C(i) == s.commands \cup ({l[j].command : j \in 1 .. i} \ {None})
             F(c) == IsFiniteSet(s.commands) => IsFiniteSet(c)
  <1>1. n \in Nat /\ \A i \in 1 .. n : l[i] \in StreamEvent
    OBVIOUS
  <1>2. PICK f : RunsThrough(f, s, l) /\ Replay(s, l) = f[n]
    BY ReplayExists
  <1> HIDE DEF n
  <1>3. /\ \A i \in 0 .. n : f[i] \in StreamState
        /\ f[0] = s /\ \A i \in 1 .. n : f[i] = Apply(f[i - 1], l[i])
    BY <1>2 DEF RunsThrough, n
  <1> DEFINE S == {i \in 0 .. n : f[i].keys = K(i) /\ f[i].commands = C(i) /\ F(f[i].commands)}
  <1>4. 0 \in S
    BY <1>1, <1>3
  <1>5. ASSUME NEW i \in 1 .. n, i - 1 \in S PROVE i \in S
    <2>1. f[i - 1] \in StreamState /\ l[i] \in StreamEvent /\ f[i] = Apply(f[i - 1], l[i])
      BY <1>1, <1>3
    <2>2. /\ f[i].keys = f[i - 1].keys \cup {l[i].key}
          /\ f[i].commands = IF l[i].command = None THEN f[i - 1].commands
                             ELSE f[i - 1].commands \cup {l[i].command}
      <3>1. ASSUME NEW x \in StreamState, NEW e \in StreamEvent
            PROVE  /\ Apply(x, e).keys = x.keys \cup {e.key}
                   /\ Apply(x, e).commands =
                        IF e.command = None THEN x.commands ELSE x.commands \cup {e.command}
        BY ApplyFields
      <3>2. /\ Apply(f[i - 1], l[i]).keys = f[i - 1].keys \cup {l[i].key}
            /\ Apply(f[i - 1], l[i]).commands =
                 IF l[i].command = None THEN f[i - 1].commands
                 ELSE f[i - 1].commands \cup {l[i].command}
        BY <2>1, <3>1, Zenon
      <3> QED
        BY <2>1, <3>2, Zenon
    <2>3. f[i - 1].keys = K(i - 1) /\ f[i - 1].commands = C(i - 1) /\ F(f[i - 1].commands)
      BY <1>5
    <2>4. 1 .. i = (1 .. i - 1) \cup {i}
      OBVIOUS
    <2>5. K(i) = K(i - 1) \cup {l[i].key}
      BY <2>4
    <2>6. C(i) = IF l[i].command = None THEN C(i - 1) ELSE C(i - 1) \cup {l[i].command}
      <3> DEFINE A == {l[j].command : j \in 1 .. i}
                 B == {l[j].command : j \in 1 .. i - 1}
      <3>1. A = B \cup {l[i].command}
        BY <2>4
      <3>2. C(i) = s.commands \cup (A \ {None}) /\ C(i - 1) = s.commands \cup (B \ {None})
        OBVIOUS
      <3> HIDE DEF A, B, C, S
      <3> QED
        BY <3>1, <3>2
    <2>7. F(f[i].commands)
      <3>1. IsFiniteSet(f[i - 1].commands) => IsFiniteSet(f[i - 1].commands \cup {l[i].command})
        BY FS_AddElement
      <3> QED
        BY <2>2, <2>3, <3>1, Zenon
    <2>8. i \in 0 .. n
      BY <1>1
    <2> HIDE DEF K, C, F
    <2>9. f[i].keys = K(i) /\ f[i].commands = C(i)
      BY <2>2, <2>3, <2>5, <2>6, Zenon
    <2> QED
      BY <2>7, <2>8, <2>9
  <1>6. 0 .. n \subseteq S
    <2> HIDE DEF S
    <2> QED
      BY <1>1, <1>4, <1>5, BoundedInduction
  <1>7. n \in S
    BY <1>1, <1>6
  <1> QED
    BY <1>2, <1>7 DEF n

LEMMA ReplaySequence ==
  ASSUME NEW s \in StreamState, NEW l \in Seq(StreamEvent), l # <<>>
  PROVE  Replay(s, l).sequence = l[Len(l)].sequence
  <1>1. PICK f : RunsThrough(f, s, l) /\ Replay(s, l) = f[Len(l)]
    BY ReplayExists
  <1>2. Len(l) \in 1 .. Len(l) /\ Len(l) - 1 \in 0 .. Len(l) /\ l[Len(l)] \in StreamEvent
    OBVIOUS
  <1>3. f[Len(l) - 1] \in StreamState /\ f[Len(l)] = Apply(f[Len(l) - 1], l[Len(l)])
    BY <1>1, <1>2 DEF RunsThrough
  <1>4. ASSUME NEW x \in StreamState, NEW e \in StreamEvent
        PROVE  Apply(x, e).sequence = e.sequence
    BY ApplyFields
  <1>5. Apply(f[Len(l) - 1], l[Len(l)]).sequence = l[Len(l)].sequence
    BY <1>2, <1>3, <1>4, Zenon
  <1> QED
    BY <1>1, <1>3, <1>5, Zenon

-----------------------------------------------------------------------------
(* The inductive invariant                                                  *)

StateAt(n) == Replay(Created, SubSeq(log, 1, n))
Now == Replay(Created, log)

RowType ==
  [status : {None, "created", "running", "completed"}, version : Nat, sequence : Nat]

AnswerStatus == {None, "accepted", "rejected", "duplicate", "lost"}
AnswerCode ==
  {None, "RUN_VERSION_CONFLICT", "RUN_TERMINAL", "APPROVAL_STALE", "ACTION_NOT_ALLOWED"}
AnswerType == [status : AnswerStatus, code : AnswerCode]
Attempt == 0 .. 1

RequestType ==
  [pc : Pc, op : Op \cup {NoOp}, key : Requests \cup {None}, expected : Nat,
   attempt : Attempt, late : BOOLEAN, since : Nat, seen : RowType,
   events : Seq(StreamEvent), answer : AnswerType]

\* The stream is numbered, and the row is its state.
LogInv ==
  /\ log \in Seq(StreamEvent) /\ Len(log) \in Nat \ {0}
  /\ \A n \in 1 .. Len(log) : log[n].sequence = n
  /\ row = RowOf(Now) /\ row.status \in {"running", "completed"}
  /\ IsFiniteSet(Now.commands)

\* There is always a snapshot to begin with, and each is the state of the
\* stream up to its number.
SnapshotInv ==
  /\ \A x \in snapshots : x.sequence \in 1 .. Len(log) /\ x.state = StateAt(x.sequence)
  /\ \E x \in snapshots : x.sequence = 1

RowsInv ==
  /\ approvals \in
       [Approvals -> {"absent", "pending", "approved", "denied", "expired", "stale"}]
  /\ decisions \in [Approvals -> Decision \cup {None}]
  /\ overdue \subseteq Approvals
  /\ faults \in 0 .. MaxFaults

\* What a request has read is the row of some moment; it is the row of now as
\* long as the version is the same.
SeenInv(r) ==
  LET q == requests[r]
  IN  /\ q.seen.sequence \in 1 .. Len(log)
      /\ q.seen = RowOf(StateAt(q.seen.sequence))
      /\ q.seen.version <= row.version
      /\ (q.seen.version = row.version) => (q.seen.sequence = Len(log))

\* What it is about to append is the effect of its command on what it read.
DecidedInv(r) ==
  LET s == StateAt(requests[r].seen.sequence)
      c == CommandOf(r)
  IN  /\ ~ Duplicate(s, c) /\ c.expected = Version(s) /\ Types(s, c.op) # <<>>
      /\ requests[r].events = Effects(s, c)

RequestInv(r) ==
  LET q == requests[r]
  IN  /\ IF q.pc = "unused" THEN q = Unused ELSE q.op \in Op /\ q.key \in Requests
      /\ q.late \/ q.pc \in {"approval", "mark"} => q.op.kind = "resolve-approval"
      /\ (q.pc = "locked") => (q.op.kind = "advance-clock")
      /\ (q.pc # "done") => (q.answer = NoAnswer /\ Own(r) = {})
      /\ q.pc \in {"lookup", "commit"} => SeenInv(r)
      /\ (q.pc = "commit") => DecidedInv(r)

StoreIInv ==
  /\ LogInv /\ SnapshotInv /\ RowsInv
  /\ requests \in [Requests -> RequestType]
  /\ \A r \in Requests : RequestInv(r)

\* What an attempt to resolve an approval goes by is never newer than what it
\* has read, and its second attempt goes by a version newer than the first's.
RetryInv(r) ==
  LET q == requests[r]
  IN  (q.op.kind = "resolve-approval") =>
        /\ (q.attempt = 0 /\ q.pc \in {"read", "lookup", "commit"}) =>
             (q.expected = q.since /\ q.since <= row.version)
        /\ (q.attempt = 1 /\ q.pc = "version") => (q.since + 1 <= row.version)
        /\ (q.attempt = 1 /\ q.pc \in {"read", "lookup", "commit"}) =>
             (q.since + 1 <= q.expected /\ q.expected <= row.version)
        /\ q.pc \in {"lookup", "commit"} => q.expected <= q.seen.version
        /\ (q.attempt = 1) => (q.pc \notin {"unused", "approval"})

\* The answer to one request.
AnswerInv(r) ==
  LET status == requests[r].answer.status
  IN  /\ (status = "accepted") => Own(r) \notin {{}, {"action.rejected"}}
      /\ (status = "rejected") => Own(r) \in {{}, {"action.rejected"}, {"action.approval_expired"}}
      /\ (status = "duplicate") =>
           \/ Applied(requests[r].key)
           \/ requests[r].op.kind = "advance-clock" /\ row.status = "completed"

Promises == \A r \in Requests : RetryInv(r) /\ AnswerInv(r)

\* An approval that was resolved is not open and was asked for by a command
\* in the stream; its decision row is that resolution.
ApprovalIInv ==
  /\ Now.pending \subseteq Now.commands
  /\ \A n \in Resolutions :
       /\ log[n].approval \in Approvals /\ log[n].approval \in Now.commands
       /\ log[n].approval \notin Now.pending
       /\ decisions[log[n].approval] = Resolution[log[n].type]
       /\ \A m \in Resolutions : (log[m].approval = log[n].approval) => (m = n)
  /\ \A a \in Approvals :
       /\ (decisions[a] # None) => (\E n \in Resolutions : log[n].approval = a)
       /\ approvals[a] \in Decision => approvals[a] = decisions[a]
       /\ (approvals[a] = "pending") => (a \in Now.pending)

-----------------------------------------------------------------------------
(* Reading                                                                  *)

LEMMA CreatedType == Created \in StreamState
  BY DEF Created, StreamState

LEMMA PrefixType ==
  ASSUME NEW l \in Seq(StreamEvent), NEW n \in 0 .. Len(l)
  PROVE  /\ SubSeq(l, 1, n) \in Seq(StreamEvent)
         /\ Replay(Created, SubSeq(l, 1, n)) \in StreamState
  <1>1. SubSeq(l, 1, n) \in Seq(StreamEvent)
    OBVIOUS
  <1> QED
    BY <1>1, CreatedType, ReplayType

\* loadState finds the state of the stream at every position, whichever
\* snapshot it starts from.
LEMMA LoadIsState ==
  ASSUME LogInv, SnapshotInv, NEW n \in 1 .. Len(log)
  PROVE  Load(n) = StateAt(n)
  <1> DEFINE usable == {x \in snapshots : x.sequence <= n}
             last == CHOOSE x \in usable : \A y \in usable : y.sequence <= x.sequence
             T == {x.sequence : x \in usable}
  <1>1. n \in Nat /\ T \subseteq 0 .. n /\ T # {} /\ \A x \in usable : x.sequence \in T
    BY DEF SnapshotInv
  <1>2. PICK k \in T : \A j \in T : j <= k
    <2> HIDE DEF T
    <2> QED
      BY <1>1, Greatest
  <1>3. PICK x \in usable : x.sequence = k
    BY <1>2
  <1>4. \A y \in usable : y.sequence <= x.sequence
    BY <1>1, <1>2, <1>3
  <1>5. last \in usable
    <2> HIDE DEF usable
    <2> QED
      BY <1>4
  <1> DEFINE j == last.sequence
             a == SubSeq(log, 1, j)
             b == SubSeq(log, j + 1, n)
  <1>6. j \in 1 .. n /\ n \in j .. Len(log) /\ last.state = StateAt(j)
    BY <1>5 DEF SnapshotInv
  <1>7. Load(n) = Replay(StateAt(j), b)
    BY <1>6 DEF Load
  <1> HIDE DEF last, usable, T
  <1>8. log \in Seq(StreamEvent) /\ Len(log) \in Nat /\ j \in 0 .. Len(log)
    BY <1>6 DEF LogInv
  <1>9. a \in Seq(StreamEvent) /\ b \in Seq(StreamEvent)
    BY <1>6, <1>8
  <1>10. a \o b = SubSeq(log, 1, n)
    <2>1. 1 \in 1 .. Len(log) + 1 /\ j \in 1 - 1 .. Len(log)
      BY <1>8
    <2> HIDE DEF j
    <2> QED
      BY <1>6, <1>8, <2>1, ConcatAdjacentSubSeq
  <1> HIDE DEF j
  <1>11. Replay(Created, a \o b) = Replay(Replay(Created, a), b)
    <2> HIDE DEF a, b
    <2> QED
      BY <1>9, CreatedType, ReplayConcat
  <1> QED
    BY <1>7, <1>10, <1>11 DEF StateAt

\* The state of the whole stream.
NowInv ==
  /\ Now \in StreamState /\ Now = StateAt(Len(log)) /\ Now.sequence = Len(log)
  /\ row.sequence = Len(log) /\ row.version = Version(Now) /\ row.status = Now.status
  /\ Version(Now) \in Nat

LEMMA NowIsState == LogInv => NowInv
  <1> SUFFICES ASSUME LogInv PROVE NowInv
    OBVIOUS
  <1>1. log \in Seq(StreamEvent) /\ log # <<>> /\ SubSeq(log, 1, Len(log)) = log
    BY SubSeqFull DEF LogInv
  <1>2. Now \in StreamState /\ Now = StateAt(Len(log))
    BY <1>1, CreatedType, ReplayType DEF Now, StateAt
  <1>3. Now.sequence = log[Len(log)].sequence
    BY <1>1, CreatedType, ReplaySequence DEF Now
  <1>4. log[Len(log)].sequence = Len(log) /\ row = RowOf(Now)
    BY DEF LogInv
  <1>5. Version(Now) \in Nat
    BY FS_CardinalityType DEF LogInv, Version
  <1> QED
    BY <1>2, <1>3, <1>4, <1>5 DEF RowOf, NowInv

LEMMA NextNowIsState == LogInv' => NowInv'
  BY NowIsState, PTL

\* The state of a prefix knows no more keys and commands than that of the
\* whole stream, and its version is no higher.
LEMMA PrefixState ==
  ASSUME LogInv, NEW n \in 1 .. Len(log)
  PROVE  /\ StateAt(n) \in StreamState /\ StateAt(n).sequence = n
         /\ StateAt(n).commands \subseteq Now.commands
         /\ StateAt(n).keys \subseteq Now.keys
         /\ Version(StateAt(n)) \in Nat /\ Version(StateAt(n)) <= Version(Now)
  <1> DEFINE l == SubSeq(log, 1, n)
  <1>1. log \in Seq(StreamEvent) /\ n \in 0 .. Len(log) /\ \A i \in 1 .. Len(log) : log[i].sequence = i
    BY DEF LogInv
  <1>2. /\ l \in Seq(StreamEvent) /\ Len(l) = n /\ l # <<>>
        /\ \A i \in 1 .. n : l[i] = log[i] /\ i \in 1 .. Len(log)
    BY <1>1
  <1> HIDE DEF l
  <1>3. StateAt(n) = Replay(Created, l) /\ Replay(Created, l) \in StreamState
    BY <1>2, CreatedType, ReplayType DEF StateAt, l
  <1>4. Replay(Created, l).sequence = l[n].sequence
    BY <1>2, CreatedType, ReplaySequence
  <1>5. l[n].sequence = n
    BY <1>1, <1>2
  <1>6. /\ Replay(Created, l).keys = Created.keys \cup {l[i].key : i \in 1 .. n}
        /\ Replay(Created, l).commands =
             Created.commands \cup ({l[i].command : i \in 1 .. n} \ {None})
    BY <1>2, CreatedType, ReplayCollects
  <1>7. /\ Now.keys = Created.keys \cup {log[i].key : i \in 1 .. Len(log)}
        /\ Now.commands = Created.commands \cup ({log[i].command : i \in 1 .. Len(log)} \ {None})
    BY <1>1, CreatedType, ReplayCollects DEF Now
  <1>8. Replay(Created, l).keys \subseteq Now.keys /\ Replay(Created, l).commands \subseteq Now.commands
    BY <1>2, <1>6, <1>7
  <1>9. IsFiniteSet(Now.commands)
    BY DEF LogInv
  <1>10. /\ Version(Replay(Created, l)) \in Nat
         /\ Version(Replay(Created, l)) <= Version(Now)
    BY <1>8, <1>9, FS_Subset, FS_CardinalityType DEF Version
  <1> QED
    BY <1>3, <1>4, <1>5, <1>8, <1>10

\* A key or a command is in the state if and only if an event has it.
LEMMA StateOfEvents ==
  ASSUME LogInv
  PROVE  /\ \A k : (<<k, 0>> \in Now.keys) => Applied(k)
         /\ \A r \in Requests : (r \in Now.commands) <=> (Own(r) # {})
  <1>1. log \in Seq(StreamEvent)
    BY DEF LogInv
  <1>2. /\ Now.keys = Created.keys \cup {log[i].key : i \in 1 .. Len(log)}
        /\ Now.commands = Created.commands \cup ({log[i].command : i \in 1 .. Len(log)} \ {None})
    BY <1>1, CreatedType, ReplayCollects DEF Now
  <1>3. Created.keys = {} /\ Created.commands = {}
    BY DEF Created
  <1>4. ASSUME NEW k, <<k, 0>> \in Now.keys PROVE Applied(k)
    BY <1>2, <1>3, <1>4 DEF Applied
  <1>5. ASSUME NEW r \in Requests PROVE (r \in Now.commands) <=> (Own(r) # {})
    <2>1. r # None
      BY StoreAssumption
    <2>2. (r \in Now.commands) <=> (\E i \in 1 .. Len(log) : log[i].command = r)
      BY <1>2, <1>3, <2>1
    <2> QED
      BY <2>2 DEF Own
  <1> QED
    BY <1>4, <1>5

-----------------------------------------------------------------------------
(* What a command appends                                                   *)

Kind == {"submit-action", "trigger-inject", "create-checkpoint", "finish-run",
         "advance-clock", "resolve-approval"}

LEMMA OpCases ==
  ASSUME NEW op \in Op
  PROVE  /\ op.kind \in Kind
         /\ (op.kind # "resolve-approval") => (op.approval = None)
         /\ (op.kind = "resolve-approval") => (op.approval \in Approvals /\ op.decision \in Decision)
         /\ op \in [kind : Kind, approval : Approvals \cup {None}, decision : Decision \cup {None}]
  BY DEF Op, Kind

\* The commands that append something, and what.
LEMMA TypesCases ==
  ASSUME NEW s \in StreamState, NEW op \in Op, Types(s, op) # <<>>
  PROVE  \/ op.kind = "create-checkpoint" /\ Types(s, op) = <<"checkpoint.created">>
         \/ op.kind = "finish-run" /\ Types(s, op) = <<"run.completed">>
         \/ op.kind = "advance-clock" /\ Types(s, op) = <<"clock.advanced">>
         \/ /\ op.kind = "trigger-inject"
            /\ Types(s, op) = <<"inject.triggered", "participant.status_changed">>
         \/ /\ op.kind = "submit-action" /\ s.able
            /\ Types(s, op) = <<"action.proposed", "action.approval_requested">>
         \/ op.kind = "submit-action" /\ Types(s, op) = <<"action.rejected">>
         \/ /\ op.kind = "resolve-approval" /\ op.approval \in s.pending
            /\ \/ op.decision = "denied" /\ Types(s, op) = <<"action.denied">>
               \/ op.decision = "expired" /\ Types(s, op) = <<"action.approval_expired">>
               \/ op.decision = "approved" /\ Types(s, op) = <<"action.approved", "action.executed">>
  <1>1. op.kind \in Kind /\ s.able \in BOOLEAN
    BY OpCases DEF StreamState
  <1>2. CASE op.kind = "create-checkpoint"
    BY <1>2, Zenon DEF Types
  <1>3. CASE op.kind # "create-checkpoint"
    <2>1. ~ Terminal(s)
      BY <1>3, Zenon DEF Types
    <2>2. CASE op.kind # "resolve-approval"
      BY <1>1, <1>3, <2>1, <2>2 DEF Types, Kind
    <2>3. CASE op.kind = "resolve-approval"
      <3>1. Types(s, op) = Resolving(s, op)
        BY <2>1, <2>3 DEF Types
      <3>2. op.approval \in s.pending
        BY <3>1, Zenon DEF Resolving
      <3>3. op.decision \in {"approved", "denied", "expired"}
        BY <2>3, OpCases DEF Decision
      <3> QED
        BY <2>3, <3>1, <3>2, <3>3 DEF Resolving
    <2> QED
      BY <2>2, <2>3
  <1> QED
    BY <1>2, <1>3

ApprovalOf(c) == IF c.op.kind = "submit-action" THEN c.command ELSE c.op.approval

\* The events of a command are one or two, numbered from the state's own on.
LEMMA EffectsAre ==
  ASSUME NEW s \in StreamState, NEW c \in Command, Types(s, c.op) # <<>>
  PROVE  /\ Effects(s, c) \in Seq(StreamEvent) /\ Effects(s, c) # <<>>
         /\ Len(Effects(s, c)) = Len(Types(s, c.op)) /\ Len(Effects(s, c)) \in 1 .. 2
         /\ \A i \in 1 .. Len(Effects(s, c)) :
              Effects(s, c)[i] = Event(s.sequence + i, c.command, <<c.key, i - 1>>,
                                       Types(s, c.op)[i], ApprovalOf(c))
  <1> DEFINE t == Types(s, c.op)
             E == Effects(s, c)
             n == Len(t)
             a == ApprovalOf(c)
  <1>1. c.op \in Op /\ c.command \in Requests /\ c.key \in Requests /\ s.sequence \in Nat
    BY DEF Command, StreamState
  <1> DEFINE Typed == n \in 1 .. 2 /\ \A i \in 1 .. n : t[i] \in EventName
  <1>2. Typed
    <2> HIDE DEF t
    <2>1. ASSUME NEW x \in EventName, t = <<x>> PROVE Typed
      BY <2>1
    <2>2. ASSUME NEW x \in EventName, NEW y \in EventName, t = <<x, y>> PROVE Typed
      BY <2>2
    <2> HIDE DEF n, Typed
    <2>3. \/ t = <<"checkpoint.created">>
          \/ t = <<"run.completed">>
          \/ t = <<"clock.advanced">>
          \/ t = <<"action.rejected">>
          \/ t = <<"action.denied">>
          \/ t = <<"action.approval_expired">>
          \/ t = <<"inject.triggered", "participant.status_changed">>
          \/ t = <<"action.proposed", "action.approval_requested">>
          \/ t = <<"action.approved", "action.executed">>
      BY <1>1, TypesCases, Zenon DEF t
    <2> QED
      BY <2>1, <2>2, <2>3, Zenon DEF EventName
  <1>3. a \in Approvals \cup {None}
    BY <1>1, OpCases DEF ApprovalOf, Approvals
  <1>4. E = [i \in 1 .. n |-> Event(s.sequence + i, c.command, <<c.key, i - 1>>, t[i], a)]
    BY Zenon DEF Effects, ApprovalOf
  <1> HIDE DEF t, n, a, E
  <1>5. \A i \in 1 .. n :
          Event(s.sequence + i, c.command, <<c.key, i - 1>>, t[i], a) \in StreamEvent
    BY <1>1, <1>2, <1>3 DEF Event, StreamEvent, EventKey, Ids
  <1>6. n \in Nat
    BY <1>2
  <1>7. E \in Seq(StreamEvent) /\ Len(E) = n
    BY <1>4, <1>5, <1>6
  <1>8. E # <<>> /\ \A i \in 1 .. Len(E) :
           E[i] = Event(s.sequence + i, c.command, <<c.key, i - 1>>, t[i], a)
    BY <1>2, <1>4, <1>7
  <1> QED
    BY <1>2, <1>7, <1>8 DEF t, n, E, a

\* The state behind one event or two, with a name for the one in between.
LEMMA ReplayOneOrTwo ==
  ASSUME NEW s \in StreamState, NEW l \in Seq(StreamEvent), Len(l) \in 1 .. 2
  PROVE  /\ l[1] \in StreamEvent /\ Apply(s, l[1]) \in StreamState
         /\ (Len(l) = 1) => (Replay(s, l) = Apply(s, l[1]))
         /\ (Len(l) = 2) => /\ l[2] \in StreamEvent
                            /\ Replay(s, l) = Apply(Apply(s, l[1]), l[2])
  <1>1. PICK f : RunsThrough(f, s, l) /\ Replay(s, l) = f[Len(l)]
    BY ReplayExists
  <1>2. l[1] \in StreamEvent /\ (Len(l) = 2 => l[2] \in StreamEvent)
    OBVIOUS
  <1>3. Apply(s, l[1]) \in StreamState
    BY <1>2, ApplyFields
  <1>4. f[0] = s /\ \A i \in 1 .. Len(l) : f[i] = Apply(f[i - 1], l[i])
    BY <1>1 DEF RunsThrough
  <1>5. f[1] = Apply(s, l[1])
    <2>1. f[1] = Apply(f[1 - 1], l[1]) /\ 1 - 1 = 0
      BY <1>4
    <2> QED
      BY <1>4, <2>1
  <1>6. CASE Len(l) = 1
    BY <1>1, <1>2, <1>3, <1>5, <1>6
  <1>7. CASE Len(l) = 2
    <2>1. f[2] = Apply(f[2 - 1], l[2]) /\ 2 - 1 = 1
      BY <1>4, <1>7
    <2>2. f[2] = Apply(Apply(s, l[1]), l[2])
      BY <1>5, <2>1
    <2> QED
      BY <1>1, <1>2, <1>3, <1>7, <2>2
  <1> QED
    BY <1>6, <1>7

\* What a command that appends something makes of the state.
LEMMA EffectsState ==
  ASSUME NEW s \in StreamState, NEW c \in Command, Types(s, c.op) # <<>>
  PROVE  LET t == Replay(s, Effects(s, c))
         IN  /\ t \in StreamState
             /\ t.sequence = s.sequence + Len(Effects(s, c))
             /\ t.commands = s.commands \cup {c.command}
             /\ t.status = IF c.op.kind = "finish-run" THEN "completed" ELSE s.status
             /\ t.pending =
                  IF c.op.kind = "submit-action" /\ s.able THEN s.pending \cup {c.command}
                  ELSE IF c.op.kind = "resolve-approval" THEN s.pending \ {c.op.approval}
                  ELSE s.pending
  <1> DEFINE E == Effects(s, c)
             T == Types(s, c.op)
             t == Replay(s, E)
             u == Apply(s, E[1])
             a == ApprovalOf(c)
  <1>1. /\ E \in Seq(StreamEvent) /\ E # <<>> /\ Len(E) = Len(T) /\ Len(E) \in 1 .. 2
        /\ \A i \in 1 .. Len(E) :
             E[i] = Event(s.sequence + i, c.command, <<c.key, i - 1>>, T[i], a)
    BY EffectsAre
  <1>2. /\ E[1] \in StreamEvent /\ u \in StreamState
        /\ (Len(E) = 1) => (t = u)
        /\ (Len(E) = 2) => (E[2] \in StreamEvent /\ t = Apply(u, E[2]))
    <2> HIDE DEF E
    <2> QED
      BY <1>1, ReplayOneOrTwo
  <1>3. /\ c.op \in Op /\ c.command \in Requests /\ c.command # None /\ s.sequence \in Nat
        /\ s.able \in BOOLEAN
    BY StoreAssumption DEF Command, StreamState
  <1>4. \/ c.op.kind = "create-checkpoint" /\ T = <<"checkpoint.created">>
        \/ c.op.kind = "finish-run" /\ T = <<"run.completed">>
        \/ c.op.kind = "advance-clock" /\ T = <<"clock.advanced">>
        \/ /\ c.op.kind = "trigger-inject"
           /\ T = <<"inject.triggered", "participant.status_changed">>
        \/ /\ c.op.kind = "submit-action" /\ s.able
           /\ T = <<"action.proposed", "action.approval_requested">>
        \/ c.op.kind = "submit-action" /\ T = <<"action.rejected">>
        \/ /\ c.op.kind = "resolve-approval"
           /\ T \in {<<"action.denied">>, <<"action.approval_expired">>,
                     <<"action.approved", "action.executed">>}
    BY <1>3, TypesCases, Zenon
  <1>5. (T = <<"action.rejected">>) => ~ (c.op.kind = "submit-action" /\ s.able)
    BY <1>3 DEF Types
  <1>6. a = IF c.op.kind = "submit-action" THEN c.command ELSE c.op.approval
    BY DEF ApprovalOf
  <1>7. t \in StreamState
    <2> HIDE DEF E
    <2> QED
      BY <1>1, ReplayType
  <1> HIDE DEF E, T, t, u, a
  <1>8. /\ E[1].command = c.command /\ E[1].type = T[1] /\ E[1].approval = a
        /\ E[1].sequence = s.sequence + 1
    <2>1. E[1] = Event(s.sequence + 1, c.command, <<c.key, 1 - 1>>, T[1], a)
      BY <1>1
    <2> QED
      BY <2>1 DEF Event
  <1>9. (Len(E) = 2) => /\ E[2].command = c.command /\ E[2].type = T[2] /\ E[2].approval = a
                        /\ E[2].sequence = s.sequence + 2
    <2>1. (Len(E) = 2) => E[2] = Event(s.sequence + 2, c.command, <<c.key, 2 - 1>>, T[2], a)
      BY <1>1
    <2> QED
      BY <2>1 DEF Event
  <1>10. ASSUME NEW x \in StreamState, NEW e \in StreamEvent, e.command = c.command
         PROVE  /\ Apply(x, e).sequence = e.sequence
                /\ Apply(x, e).commands = x.commands \cup {c.command}
                /\ Apply(x, e).status = IF e.type = "run.started" THEN "running"
                                        ELSE IF e.type = "run.completed" THEN "completed"
                                        ELSE x.status
                /\ Apply(x, e).pending = IF e.type = "action.approval_requested"
                                         THEN x.pending \cup {e.approval}
                                         ELSE IF e.type \in ResolutionType
                                         THEN x.pending \ {e.approval} ELSE x.pending
    BY <1>3, <1>10, ApplyFields
  <1>11. /\ u.sequence = s.sequence + 1 /\ u.commands = s.commands \cup {c.command}
         /\ u.status = IF T[1] = "run.started" THEN "running"
                       ELSE IF T[1] = "run.completed" THEN "completed" ELSE s.status
         /\ u.pending = IF T[1] = "action.approval_requested" THEN s.pending \cup {a}
                        ELSE IF T[1] \in ResolutionType THEN s.pending \ {a} ELSE s.pending
    <2>1. u = Apply(s, E[1])
      BY DEF u
    <2> QED
      BY <1>2, <1>8, <1>10, <2>1, Zenon
  <1>12. ASSUME Len(E) = 2
         PROVE  /\ t.sequence = s.sequence + 2 /\ t.commands = s.commands \cup {c.command}
                /\ t.status = IF T[2] = "run.started" THEN "running"
                              ELSE IF T[2] = "run.completed" THEN "completed" ELSE u.status
                /\ t.pending = IF T[2] = "action.approval_requested" THEN u.pending \cup {a}
                               ELSE IF T[2] \in ResolutionType THEN u.pending \ {a}
                               ELSE u.pending
    <2>1. E[2] \in StreamEvent /\ t = Apply(u, E[2])
      BY <1>2, <1>12
    <2>2. /\ E[2].command = c.command /\ E[2].type = T[2] /\ E[2].approval = a
          /\ E[2].sequence = s.sequence + 2
      BY <1>9, <1>12
    <2>3. t.commands = u.commands \cup {c.command}
      BY <1>2, <1>10, <2>1, <2>2, Zenon
    <2>4. t.commands = s.commands \cup {c.command}
      BY <1>11, <2>3
    <2> QED
      BY <1>2, <1>10, <2>1, <2>2, <2>4, Zenon
  <1> DEFINE Goal == /\ t.sequence = s.sequence + Len(E)
                     /\ t.commands = s.commands \cup {c.command}
                     /\ t.status = IF c.op.kind = "finish-run" THEN "completed" ELSE s.status
                     /\ t.pending =
                          IF c.op.kind = "submit-action" /\ s.able THEN s.pending \cup {c.command}
                          ELSE IF c.op.kind = "resolve-approval" THEN s.pending \ {c.op.approval}
                          ELSE s.pending
  <1>13. ASSUME Len(T) = 1, T[1] # "run.started", T[1] # "action.approval_requested",
                (c.op.kind = "submit-action") => ~ s.able,
                (c.op.kind = "finish-run") <=> (T[1] = "run.completed"),
                (c.op.kind = "resolve-approval") <=> (T[1] \in ResolutionType)
         PROVE  Goal
    <2>1. Len(E) = 1 /\ t = u
      BY <1>1, <1>2, <1>13
    <2> QED
      BY <1>6, <1>11, <1>13, <2>1 DEF ResolutionType
  <1>14. ASSUME Len(T) = 2,
                T[1] \notin {"run.started", "run.completed", "action.approval_requested"},
                T[2] \notin {"run.started", "run.completed"} \cup ResolutionType,
                c.op.kind # "finish-run",
                (c.op.kind = "submit-action" /\ s.able) <=> (T[2] = "action.approval_requested"),
                (c.op.kind = "resolve-approval") <=> (T[1] \in ResolutionType)
         PROVE  Goal
    <2>1. Len(E) = 2
      BY <1>1, <1>14
    <2> QED
      BY <1>6, <1>11, <1>14, <1>12, <2>1 DEF ResolutionType
  <1> SUFFICES Goal
    BY <1>7 DEF Goal, t, E
  <1> HIDE DEF Goal
  <1>15. CASE c.op.kind = "create-checkpoint" /\ T = <<"checkpoint.created">>
    BY <1>13, <1>15 DEF ResolutionType
  <1>16. CASE c.op.kind = "finish-run" /\ T = <<"run.completed">>
    BY <1>13, <1>16 DEF ResolutionType
  <1>17. CASE c.op.kind = "advance-clock" /\ T = <<"clock.advanced">>
    BY <1>13, <1>17 DEF ResolutionType
  <1>18. CASE /\ c.op.kind = "trigger-inject"
              /\ T = <<"inject.triggered", "participant.status_changed">>
    BY <1>14, <1>18 DEF ResolutionType
  <1>19. CASE /\ c.op.kind = "submit-action" /\ s.able
              /\ T = <<"action.proposed", "action.approval_requested">>
    BY <1>14, <1>19 DEF ResolutionType
  <1>20. CASE c.op.kind = "submit-action" /\ T = <<"action.rejected">>
    BY <1>5, <1>13, <1>20 DEF ResolutionType
  <1>21. CASE c.op.kind = "resolve-approval" /\ T = <<"action.denied">>
    BY <1>13, <1>21 DEF ResolutionType
  <1>22. CASE c.op.kind = "resolve-approval" /\ T = <<"action.approval_expired">>
    BY <1>13, <1>22 DEF ResolutionType
  <1>23. CASE c.op.kind = "resolve-approval" /\ T = <<"action.approved", "action.executed">>
    BY <1>14, <1>23 DEF ResolutionType
  <1> QED
    BY <1>4, <1>15, <1>16, <1>17, <1>18, <1>19, <1>20, <1>21, <1>22, <1>23

-----------------------------------------------------------------------------
(* A step that writes                                                       *)

\* Request r appends the effects of command c to the stream.
Writes(r, c) ==
  /\ c \in Command /\ c.command = r
  /\ ~ Duplicate(Now, c) /\ Types(Now, c.op) # <<>>
  /\ Write(Effects(Now, c), Now)

\* The stream gets longer, and every state before its end stays what it was.
LEMMA WriteExtends ==
  ASSUME LogInv, NEW r \in Requests, NEW c, Writes(r, c)
  PROVE  LET E == Effects(Now, c)
         IN  /\ log' \in Seq(StreamEvent) /\ Len(log') = Len(log) + Len(E)
             /\ E \in Seq(StreamEvent) /\ Len(E) \in 1 .. 2
             /\ \A i \in 1 .. Len(log) : log'[i] = log[i]
             /\ \A i \in 1 .. Len(E) : log'[Len(log) + i] = E[i]
             /\ \A i \in 1 .. Len(log') \ 1 .. Len(log) :
                  i - Len(log) \in 1 .. Len(E) /\ log'[i] = E[i - Len(log)]
             /\ Now' = Replay(Now, E)
             /\ \A n \in 1 .. Len(log) : StateAt(n)' = StateAt(n)
  <1> DEFINE E == Effects(Now, c)
  <1>1. c \in Command /\ Types(Now, c.op) # <<>> /\ log' = log \o E
    BY DEF Writes, Write
  <1>2. Now \in StreamState /\ log \in Seq(StreamEvent) /\ Len(log) \in Nat
    BY NowIsState DEF NowInv, LogInv
  <1>3. E \in Seq(StreamEvent) /\ Len(E) \in 1 .. 2
    BY <1>1, <1>2, EffectsAre
  <1> HIDE DEF E
  <1>4. /\ log' \in Seq(StreamEvent) /\ Len(log') = Len(log) + Len(E)
        /\ \A i \in 1 .. Len(log) + Len(E) :
             log'[i] = IF i <= Len(log) THEN log[i] ELSE E[i - Len(log)]
    BY <1>1, <1>2, <1>3, ConcatProperties
  <1>5. \A i \in 1 .. Len(log) : log'[i] = log[i]
    BY <1>2, <1>3, <1>4
  <1>6. \A i \in 1 .. Len(log') \ 1 .. Len(log) :
          i - Len(log) \in 1 .. Len(E) /\ log'[i] = E[i - Len(log)]
    BY <1>2, <1>3, <1>4
  <1>7. ASSUME NEW i \in 1 .. Len(E) PROVE log'[Len(log) + i] = E[i]
    <2>1. /\ Len(log) + i \in 1 .. Len(log) + Len(E) /\ ~ (Len(log) + i <= Len(log))
          /\ (Len(log) + i) - Len(log) = i
      BY <1>2, <1>3
    <2> QED
      BY <1>4, <2>1
  <1>8. Now' = Replay(Now, E)
    <2>1. Replay(Created, log \o E) = Replay(Replay(Created, log), E)
      BY <1>2, <1>3, CreatedType, ReplayConcat
    <2> QED
      BY <1>1, <2>1 DEF Now
  <1>9. ASSUME NEW n \in 1 .. Len(log) PROVE StateAt(n)' = StateAt(n)
    <2>1. SubSeq(log \o E, 1, n) = SubSeq(log, 1, n)
      <3>1. 1 \in 1 .. Len(log)
        BY <1>2
      <3> QED
        BY <1>2, <1>3, <3>1, SubSeqOfConcat1
    <2> QED
      BY <1>1, <2>1 DEF StateAt
  <1> QED
    BY <1>3, <1>4, <1>5, <1>6, <1>7, <1>8, <1>9 DEF E

\* The stream stays numbered, the row stays its state, and the version gets
\* one higher.
LEMMA WriteKeepsLog ==
  ASSUME LogInv, NEW r \in Requests, NEW c, Writes(r, c)
  PROVE  /\ LogInv' /\ Len(log') > Len(log)
         /\ row'.version = row.version + 1
         /\ row.status \in {"running", "completed"} /\ row'.status \in {"running", "completed"}
         /\ (row.status = "completed") => (row'.status = "completed")
         /\ Now'.commands = Now.commands \cup {r}
  <1> DEFINE E == Effects(Now, c)
             t == Replay(Now, E)
  <1>1. /\ c \in Command /\ c.command = r /\ Types(Now, c.op) # <<>> /\ row' = RowOf(t)
        /\ ~ Duplicate(Now, c)
    BY DEF Writes, Write
  <1>2. /\ Now \in StreamState /\ Len(log) \in Nat \ {0} /\ Now.sequence = Len(log)
        /\ row.version = Version(Now) /\ Version(Now) \in Nat /\ row.status = Now.status
        /\ row.status \in {"running", "completed"} /\ IsFiniteSet(Now.commands)
    BY NowIsState DEF NowInv, LogInv
  <1>3. /\ log' \in Seq(StreamEvent) /\ Len(log') = Len(log) + Len(E) /\ Len(E) \in 1 .. 2
        /\ \A i \in 1 .. Len(log) : log'[i] = log[i]
        /\ \A i \in 1 .. Len(log') \ 1 .. Len(log) :
             i - Len(log) \in 1 .. Len(E) /\ log'[i] = E[i - Len(log)]
        /\ Now' = t
    BY WriteExtends
  <1>4. \A i \in 1 .. Len(E) : E[i].sequence = Len(log) + i
    <2> SUFFICES ASSUME NEW i \in 1 .. Len(E) PROVE E[i].sequence = Len(log) + i
      OBVIOUS
    <2>1. E[i] = Event(Now.sequence + i, c.command, <<c.key, i - 1>>, Types(Now, c.op)[i],
                       ApprovalOf(c))
      BY <1>1, <1>2, EffectsAre
    <2> QED
      BY <1>2, <2>1 DEF Event
  <1>5. /\ t \in StreamState /\ t.commands = Now.commands \cup {r}
        /\ t.status = IF c.op.kind = "finish-run" THEN "completed" ELSE Now.status
    BY <1>1, <1>2, EffectsState
  <1> HIDE DEF E, t
  <1>6. \A n \in 1 .. Len(log') : log'[n].sequence = n
    <2> SUFFICES ASSUME NEW n \in 1 .. Len(log') PROVE log'[n].sequence = n
      OBVIOUS
    <2>1. CASE n \in 1 .. Len(log)
      BY <1>3, <2>1 DEF LogInv
    <2>2. CASE n \notin 1 .. Len(log)
      <3>1. n - Len(log) \in 1 .. Len(E) /\ log'[n] = E[n - Len(log)]
        BY <1>3, <2>2
      <3>2. E[n - Len(log)].sequence = Len(log) + (n - Len(log))
        BY <1>4, <3>1
      <3> QED
        BY <1>2, <3>1, <3>2
    <2> QED
      BY <2>1, <2>2
  <1>7. r \notin Now.commands
    BY <1>1 DEF Duplicate
  <1>8. IsFiniteSet(t.commands) /\ Version(t) = Version(Now) + 1
    <2> DEFINE S == Now.commands
    <2> HIDE DEF S
    <2>1. IsFiniteSet(S) /\ r \notin S
      BY <1>2, <1>7 DEF S
    <2>2. IsFiniteSet(S \cup {r}) /\ Cardinality(S \cup {r}) = Cardinality(S) + 1
      BY <2>1, FS_AddElement
    <2> QED
      BY <1>5, <2>2, Zenon DEF Version, S
  <1>9. row'.status = t.status /\ row'.version = Version(t)
    BY <1>1 DEF RowOf
  <1>10. t.status \in {"running", "completed"}
    BY <1>2, <1>5
  <1>11. LogInv'
    BY <1>1, <1>2, <1>3, <1>6, <1>8, <1>9, <1>10 DEF LogInv
  <1>12. Len(log') > Len(log)
    <2>1. Len(log') = Len(log) + Len(E) /\ Len(E) \in 1 .. 2
      BY <1>3
    <2>2. Len(log) \in Nat
      BY <1>2
    <2> QED
      BY <2>1, <2>2
  <1>13. row'.version = row.version + 1
    BY <1>2, <1>8, <1>9
  <1>14. (row.status = "completed") => (row'.status = "completed")
    BY <1>2, <1>5, <1>9
  <1>15. Now'.commands = Now.commands \cup {r}
    BY <1>3, <1>5
  <1> QED
    BY <1>2, <1>9, <1>10, <1>11, <1>12, <1>13, <1>14, <1>15

\* A snapshot behind it is a snapshot of the new state.
LEMMA WriteKeepsSnapshots ==
  ASSUME LogInv, SnapshotInv, NEW r \in Requests, NEW c, Writes(r, c)
  PROVE  SnapshotInv'
  <1> DEFINE E == Effects(Now, c)
             t == Replay(Now, E)
  <1>1. snapshots' = SnapshotsAfter(E, t)
    BY DEF Writes, Write
  <1>2. LogInv' /\ Len(log') > Len(log) /\ Now' = t
    BY WriteKeepsLog, WriteExtends
  <1>3. t.sequence = Len(log') /\ t = StateAt(Len(log))'
    BY <1>2, NextNowIsState DEF NowInv
  <1>4. \A n \in 1 .. Len(log) : StateAt(n)' = StateAt(n)
    BY WriteExtends
  <1>5. Len(log) \in Nat \ {0} /\ Len(log') \in Nat
    BY <1>2 DEF LogInv
  <1> HIDE DEF t, E
  <1>6. \A x \in snapshots : x.sequence \in 1 .. Len(log) /\ x.state = StateAt(x.sequence)
    BY DEF SnapshotInv
  <1>7. PICK first \in snapshots : first.sequence = 1
    BY DEF SnapshotInv
  <1> DEFINE new == [sequence |-> t.sequence, state |-> t]
  <1>8. /\ \A x \in snapshots' : x \in snapshots \/ x = new
        /\ \A x \in snapshots : x.sequence # t.sequence => x \in snapshots'
    BY <1>1 DEF SnapshotsAfter
  <1>9. ASSUME NEW x \in snapshots'
        PROVE  x.sequence \in 1 .. Len(log') /\ x.state = StateAt(x.sequence)'
    <2>1. CASE x \in snapshots
      BY <1>2, <1>4, <1>5, <1>6, <2>1
    <2>2. CASE x = new
      <3>1. x.sequence = Len(log') /\ x.state = Replay(Created, SubSeq(log', 1, Len(log')))
        BY <1>3, <2>2 DEF StateAt
      <3>2. x.state = Replay(Created, SubSeq(log', 1, x.sequence))
        BY <3>1, Zenon
      <3> QED
        BY <1>2, <1>5, <3>1, <3>2 DEF StateAt
    <2> QED
      BY <1>8, <2>1, <2>2
  <1>10. first \in snapshots'
    BY <1>2, <1>3, <1>5, <1>7, <1>8
  <1> QED
    BY <1>7, <1>9, <1>10 DEF SnapshotInv

\* What a request has in the stream changes with its own writing only, and a
\* key that is applied stays applied.
LEMMA WriteOwn ==
  ASSUME LogInv, NEW r \in Requests, NEW c, Writes(r, c)
  PROVE  LET T == Types(Now, c.op)
         IN  /\ \A q \in Requests \ {r} : Own(q)' = Own(q)
             /\ Len(T) \in 1 .. 2
             /\ Own(r)' = Own(r) \cup {T[i] : i \in 1 .. Len(T)}
             /\ \A k : Applied(k) => Applied(k)'
  <1> DEFINE E == Effects(Now, c)
             T == Types(Now, c.op)
             a == Len(log)
             b == Len(E)
  <1>1. c \in Command /\ c.command = r /\ T # <<>> /\ Now \in StreamState
    BY NowIsState DEF Writes, NowInv
  <1>2. /\ Len(log') = a + b /\ b \in 1 .. 2 /\ a \in Nat
        /\ \A i \in 1 .. a : log'[i] = log[i]
        /\ \A i \in 1 .. b : log'[a + i] = E[i]
        /\ \A i \in 1 .. a + b \ 1 .. a : i - a \in 1 .. b /\ log'[i] = E[i - a]
    BY WriteExtends DEF LogInv
  <1>3. b = Len(T) /\ \A i \in 1 .. b : E[i].command = r /\ E[i].type = T[i]
    <2>1. b = Len(T) /\ \A i \in 1 .. b :
             E[i] = Event(Now.sequence + i, c.command, <<c.key, i - 1>>, T[i], ApprovalOf(c))
      BY <1>1, EffectsAre
    <2> HIDE DEF E, T, b
    <2>2. ASSUME NEW i \in 1 .. b PROVE E[i].command = r /\ E[i].type = T[i]
      <3>1. E[i] = Event(Now.sequence + i, c.command, <<c.key, i - 1>>, T[i], ApprovalOf(c))
        BY <2>1
      <3> QED
        BY <1>1, <3>1 DEF Event
    <2> QED
      BY <2>1, <2>2
  <1>4. 1 .. a \subseteq 1 .. a + b /\ \A i \in 1 .. b : a + i \in 1 .. a + b
    BY <1>2
  <1> HIDE DEF E, T, a, b
  <1> DEFINE L(q) == {m \in 1 .. a : log[m].command = q}
             N(q) == {m \in 1 .. a + b : log'[m].command = q}
  <1>5. \A q : Own(q) = {log[n].type : n \in L(q)} /\ Own(q)' = {log'[n].type : n \in N(q)}
    BY <1>2 DEF Own, a
  <1>6. ASSUME NEW q \in Requests \ {r} PROVE Own(q)' = Own(q)
    <2>1. N(q) = L(q)
      BY <1>2, <1>3, <1>4
    <2>2. \A n \in L(q) : log'[n].type = log[n].type
      BY <1>2
    <2> HIDE DEF N, L
    <2> QED
      BY <1>5, <2>1, <2>2
  <1>7. Own(r)' = Own(r) \cup {T[i] : i \in 1 .. b}
    <2>1. ASSUME NEW n \in N(r)
          PROVE  log'[n].type \in {log[m].type : m \in L(r)} \cup {T[i] : i \in 1 .. b}
      <3>1. CASE n \in 1 .. a
        BY <1>2, <3>1
      <3>2. CASE n \notin 1 .. a
        BY <1>2, <1>3, <3>2
      <3> QED
        BY <3>1, <3>2
    <2>2. \A m \in L(r) : m \in N(r) /\ log'[m].type = log[m].type
      BY <1>2, <1>4
    <2>3. \A i \in 1 .. b : a + i \in N(r) /\ log'[a + i].type = T[i]
      BY <1>2, <1>3, <1>4
    <2> HIDE DEF N, L
    <2> QED
      BY <1>5, <2>1, <2>2, <2>3
  <1>8. ASSUME NEW k, Applied(k) PROVE Applied(k)'
    <2>1. PICK n \in 1 .. a : log[n].key = <<k, 0>>
      BY <1>8 DEF Applied, a
    <2>2. n \in 1 .. Len(log') /\ log'[n].key = <<k, 0>>
      BY <1>2, <1>4, <2>1
    <2> QED
      BY <2>2 DEF Applied
  <1> QED
    BY <1>2, <1>3, <1>6, <1>7, <1>8 DEF T

-----------------------------------------------------------------------------
(* The step of a request                                                    *)

Stays == UNCHANGED <<row, log, snapshots>>
Others(r) == \A q \in Requests \ {r} : requests'[q] = requests[q]

\* The command is one that the kernel knows, and one that its request asks for.
LEMMA CommandIs ==
  ASSUME requests \in [Requests -> RequestType], NEW r \in Requests, RequestInv(r),
         requests[r].pc # "unused"
  PROVE  /\ CommandOf(r) \in Command /\ CommandOf(r).command = r
         /\ CommandOf(r).key = requests[r].key
         /\ CommandOf(r).expected = requests[r].expected
         /\ CommandOf(r).op.kind = requests[r].op.kind
         /\ CommandOf(r).op \in Log!Decided(requests[r].op)
         /\ requests[r].late => (CommandOf(r).op.decision = "expired")
  <1> DEFINE op == requests[r].op
             late == requests[r].late
  <1>1. /\ op \in Op /\ requests[r].key \in Requests /\ requests[r].expected \in Nat
        /\ late \in BOOLEAN /\ (late => op.kind = "resolve-approval")
    BY DEF RequestInv, RequestType
  <1>2. CommandOf(r) = [command |-> r, key |-> requests[r].key, expected |-> requests[r].expected,
                        op |-> IF late THEN [op EXCEPT !.decision = "expired"] ELSE op]
    BY DEF CommandOf
  <1> HIDE DEF op, late
  <1>3. CASE late
    <2>1. op \in [kind : {"resolve-approval"}, approval : Approvals, decision : Decision]
      BY <1>1, <1>3 DEF Op
    <2> DEFINE expired == [op EXCEPT !.decision = "expired"]
    <2>2. expired \in Op /\ expired.kind = op.kind /\ expired.decision = "expired"
      BY <2>1 DEF Op, Decision
    <2>3. expired \in Log!Decided(op)
      BY <1>1, <1>3 DEF Log!Decided
    <2>4. CommandOf(r) = [command |-> r, key |-> requests[r].key,
                          expected |-> requests[r].expected, op |-> expired]
      BY <1>2, <1>3
    <2> HIDE DEF expired
    <2>5. /\ CommandOf(r) \in Command /\ CommandOf(r).command = r
          /\ CommandOf(r).key = requests[r].key
          /\ CommandOf(r).expected = requests[r].expected
          /\ CommandOf(r).op = expired
      BY <1>1, <2>2, <2>4 DEF Command
    <2> QED
      BY <1>3, <2>2, <2>3, <2>5, Zenon DEF op, late
  <1>4. CASE ~ late
    BY <1>1, <1>2, <1>4 DEF Command, op, late, Log!Decided
  <1> QED
    BY <1>1, <1>3, <1>4

\* A step of one request leaves what the others have read and are told valid.
LEMMA OthersKeep ==
  ASSUME StoreIInv, Promises, NEW r \in Requests, NEW q \in Requests, q # r,
         requests'[q] = requests[q],
         Stays \/ Writes(r, CommandOf(r))
  PROVE  RequestInv(q)' /\ RetryInv(q)' /\ AnswerInv(q)'
  <1>1. /\ LogInv /\ SnapshotInv /\ RequestInv(q) /\ RetryInv(q) /\ AnswerInv(q)
        /\ requests[q] \in RequestType
    BY DEF StoreIInv, Promises
  <1>2. CommandOf(q)' = CommandOf(q)
    BY DEF CommandOf
  <1>3. CASE Stays
    <2>1. /\ \A n : StateAt(n)' = StateAt(n)
          /\ Own(q)' = Own(q) /\ \A k : Applied(k)' = Applied(k)
      BY <1>3 DEF Stays, StateAt, Own, Applied
    <2>2. RequestInv(q)'
      BY <1>1, <1>2, <1>3, <2>1 DEF RequestInv, SeenInv, DecidedInv, Stays
    <2>3. RetryInv(q)' /\ AnswerInv(q)'
      BY <1>1, <1>3, <2>1 DEF RetryInv, AnswerInv, Stays
    <2> QED
      BY <2>2, <2>3
  <1>4. CASE Writes(r, CommandOf(r))
    <2>1. /\ Own(q)' = Own(q) /\ \A k : Applied(k) => Applied(k)'
          /\ \A n \in 1 .. Len(log) : StateAt(n)' = StateAt(n)
      BY <1>1, <1>4, WriteOwn, WriteExtends
    <2>2. /\ Len(log') > Len(log) /\ row'.version = row.version + 1
          /\ (row.status = "completed") => (row'.status = "completed")
      BY <1>1, <1>4, WriteKeepsLog
    <2>3. Len(log) \in Nat /\ Len(log') \in Nat /\ row.version \in Nat
      BY <1>1, <1>4, NowIsState, WriteKeepsLog DEF LogInv, NowInv
    <2>4. requests[q].pc \in {"lookup", "commit"} => SeenInv(q)'
      <3> SUFFICES ASSUME requests[q].pc \in {"lookup", "commit"} PROVE SeenInv(q)'
        OBVIOUS
      <3>1. SeenInv(q)
        BY <1>1 DEF RequestInv
      <3>2. PICK n \in 1 .. Len(log) : n = requests[q].seen.sequence
        BY <3>1 DEF SeenInv
      <3>3. n \in 1 .. Len(log') /\ StateAt(n)' = StateAt(n)
        BY <2>1, <2>2, <2>3
      <3>4. requests[q].seen.version \in Nat /\ requests[q].seen.version < row'.version
        BY <1>1, <2>2, <2>3, <3>1 DEF SeenInv, RequestType, RowType
      <3>5. requests'[q].seen = RowOf(StateAt(n)')
        BY <3>1, <3>3, <3>2 DEF SeenInv
      <3>6. row'.version \in Nat /\ requests[q].seen.version <= row'.version
            /\ requests[q].seen.version # row'.version
        BY <2>2, <2>3, <3>4
      <3> QED
        BY <3>3, <3>2, <3>5, <3>6 DEF SeenInv
    <2>5. (requests[q].pc = "commit") => DecidedInv(q)'
      <3> SUFFICES ASSUME requests[q].pc = "commit" PROVE DecidedInv(q)'
        OBVIOUS
      <3>1. SeenInv(q) /\ DecidedInv(q)
        BY <1>1 DEF RequestInv
      <3>2. PICK n \in 1 .. Len(log) : n = requests[q].seen.sequence
        BY <3>1 DEF SeenInv
      <3>3. StateAt(n)' = StateAt(n)
        BY <2>1
      <3> QED
        BY <1>2, <3>1, <3>2, <3>3 DEF DecidedInv
    <2>6. RequestInv(q)'
      BY <1>1, <2>1, <2>4, <2>5 DEF RequestInv
    <2>7. RetryInv(q)'
      BY <1>1, <2>2, <2>3 DEF RetryInv, RequestType
    <2>8. AnswerInv(q)'
      BY <1>1, <2>1, <2>2 DEF AnswerInv
    <2> QED
      BY <2>6, <2>7, <2>8
  <1> QED
    BY <1>3, <1>4

\* What a step of request r does: its own part of the invariant holds behind
\* it, the others' requests are left alone, and the stream is left alone or
\* gets the effects of its command.
Acts(r) ==
  /\ requests' \in [Requests -> RequestType] /\ Others(r)
  /\ RequestInv(r)' /\ RetryInv(r)' /\ AnswerInv(r)'
  /\ Stays \/ Writes(r, CommandOf(r))
  /\ \/ requests'[r].key = requests[r].key /\ requests'[r].op = requests[r].op
     \/ /\ requests[r] = Unused /\ Stays
        /\ requests'[r].key \in Requests /\ requests'[r].op \in Op

\* A decision is refused for a version conflict with two commands behind it.
PatientWith(r) ==
  /\ requests[r].op.kind = "resolve-approval"
  /\ requests'[r].answer.code = "RUN_VERSION_CONFLICT"
  /\ requests[r].answer.code = None
  => row.version >= requests[r].since + 2

LEMMA AnswerFields ==
  ASSUME requests \in [Requests -> RequestType], NEW r \in Requests,
         NEW status \in AnswerStatus, NEW code \in AnswerCode, Answer(r, status, code)
  PROVE  /\ requests' \in [Requests -> RequestType] /\ Others(r)
         /\ requests'[r].pc = "done" /\ requests'[r].op = requests[r].op
         /\ requests'[r].key = requests[r].key /\ requests'[r].late = requests[r].late
         /\ requests'[r].attempt = requests[r].attempt
         /\ requests'[r].answer.status = status /\ requests'[r].answer.code = code
  <1> DEFINE v == [requests[r] EXCEPT !.pc = "done", !.since = 0, !.seen = NoRow, !.events = <<>>,
                                      !.answer = [status |-> status, code |-> code]]
  <1>1. requests' = [requests EXCEPT ![r] = v]
    BY DEF Answer
  <1>2. requests[r] \in RequestType /\ NoRow \in RowType /\ <<>> \in Seq(StreamEvent)
    BY DEF NoRow, RowType
  <1>3. /\ v \in RequestType /\ v.pc = "done" /\ v.op = requests[r].op /\ v.key = requests[r].key
        /\ v.late = requests[r].late /\ v.attempt = requests[r].attempt
        /\ v.answer = [status |-> status, code |-> code]
    BY <1>2 DEF RequestType, AnswerType, Pc
  <1> HIDE DEF v
  <1>4. requests' \in [Requests -> RequestType] /\ requests'[r] = v
    BY <1>1, <1>3
  <1>5. Others(r)
    BY <1>1 DEF Others
  <1> QED
    BY <1>3, <1>4, <1>5

\* A request that has not been answered has nothing in the stream.
LEMMA OwnNothing ==
  ASSUME StoreIInv, Promises, NEW r \in Requests, requests[r].pc # "done"
  PROVE  Own(r) = {} /\ r \notin Now.commands /\ requests[r].answer = NoAnswer
  BY StateOfEvents DEF StoreIInv, RequestInv

\* It is answered, and has done nothing.
LEMMA AnswersWithout ==
  ASSUME StoreIInv, Promises, NEW r \in Requests, requests[r].pc \notin {"unused", "done"},
         NEW status \in {"rejected", "duplicate", "lost"}, NEW code \in AnswerCode,
         Answer(r, status, code), Stays,
         (status = "duplicate") =>
           \/ Applied(requests[r].key)
           \/ requests[r].op.kind = "advance-clock" /\ row.status = "completed",
         (requests[r].op.kind = "resolve-approval" /\ code = "RUN_VERSION_CONFLICT") =>
           row.version >= requests[r].since + 2
  PROVE  Acts(r) /\ PatientWith(r)
  <1>1. requests \in [Requests -> RequestType] /\ RequestInv(r)
    BY DEF StoreIInv
  <1>2. /\ requests' \in [Requests -> RequestType] /\ Others(r)
        /\ requests'[r].pc = "done" /\ requests'[r].op = requests[r].op
        /\ requests'[r].key = requests[r].key /\ requests'[r].late = requests[r].late
        /\ requests'[r].answer.status = status /\ requests'[r].answer.code = code
    BY <1>1, AnswerFields DEF AnswerStatus
  <1>3. Own(r) = {} /\ Own(r)' = Own(r) /\ \A k : Applied(k)' = Applied(k)
    BY OwnNothing DEF Stays, Own, Applied
  <1>4. RequestInv(r)'
    BY <1>1, <1>2 DEF RequestInv
  <1>5. RetryInv(r)'
    BY <1>2 DEF RetryInv
  <1>6. AnswerInv(r)'
    BY <1>2, <1>3 DEF AnswerInv, Stays
  <1>7. PatientWith(r)
    BY <1>2 DEF PatientWith
  <1> QED
    BY <1>2, <1>4, <1>5, <1>6, <1>7 DEF Acts

\* It is answered, and has written.
LEMMA AnswersWith ==
  ASSUME StoreIInv, Promises, NEW r \in Requests, requests[r].pc \notin {"unused", "done"},
         NEW status \in {"accepted", "rejected"}, NEW code \in AnswerCode,
         code # "RUN_VERSION_CONFLICT",
         Answer(r, status, code), Writes(r, CommandOf(r)),
         (status = "accepted") => Types(Now, CommandOf(r).op) # <<"action.rejected">>,
         (status = "rejected") =>
           Types(Now, CommandOf(r).op) \in {<<"action.rejected">>, <<"action.approval_expired">>}
  PROVE  Acts(r) /\ PatientWith(r)
  <1> DEFINE T == Types(Now, CommandOf(r).op)
             own == {T[i] : i \in 1 .. Len(T)}
  <1>1. requests \in [Requests -> RequestType] /\ RequestInv(r) /\ LogInv
    BY DEF StoreIInv
  <1>2. /\ requests' \in [Requests -> RequestType] /\ Others(r)
        /\ requests'[r].pc = "done" /\ requests'[r].op = requests[r].op
        /\ requests'[r].key = requests[r].key /\ requests'[r].late = requests[r].late
        /\ requests'[r].answer.status = status /\ requests'[r].answer.code = code
    BY <1>1, AnswerFields DEF AnswerStatus
  <1>3. Own(r)' = own /\ Len(T) \in 1 .. 2
    BY <1>1, OwnNothing, WriteOwn
  <1>4. /\ (T # <<"action.rejected">>) => (T[1] # "action.rejected")
        /\ (T = <<"action.rejected">>) => (Len(T) = 1 /\ T[1] = "action.rejected")
        /\ (T = <<"action.approval_expired">>) =>
             (Len(T) = 1 /\ T[1] = "action.approval_expired")
    <2>1. Now \in StreamState /\ CommandOf(r).op \in Op /\ T # <<>>
      BY <1>1, NowIsState DEF Writes, Command, NowInv
    <2>2. (T # <<"action.rejected">>) => (T[1] # "action.rejected")
      <3> SUFFICES ASSUME T # <<"action.rejected">> PROVE T[1] # "action.rejected"
        OBVIOUS
      <3>1. T \in {<<"checkpoint.created">>, <<"run.completed">>, <<"clock.advanced">>,
                   <<"action.denied">>, <<"action.approval_expired">>,
                   <<"inject.triggered", "participant.status_changed">>,
                   <<"action.proposed", "action.approval_requested">>,
                   <<"action.approved", "action.executed">>}
        BY <2>1, TypesCases, Zenon DEF T
      <3> HIDE DEF T
      <3> QED
        BY <3>1
    <2> HIDE DEF T
    <2> QED
      BY <2>2
  <1> HIDE DEF T
  <1>5. /\ own # {}
        /\ (T # <<"action.rejected">>) => (own # {"action.rejected"})
        /\ (T = <<"action.rejected">>) => (own = {"action.rejected"})
        /\ (T = <<"action.approval_expired">>) => (own = {"action.approval_expired"})
    <2>1. T[1] \in own
      BY <1>3
    <2>2. ASSUME Len(T) = 1 PROVE own = {T[1]}
      BY <2>2
    <2> HIDE DEF own
    <2> QED
      BY <1>4, <2>1, <2>2
  <1> HIDE DEF own
  <1>6. AnswerInv(r)'
    <2>1. (status = "accepted") => (own # {} /\ own # {"action.rejected"})
      <3>1. (status = "accepted") => (T # <<"action.rejected">>)
        BY Zenon DEF T
      <3> QED
        BY <1>5, <3>1
    <2>2. (status = "rejected") => own \in {{"action.rejected"}, {"action.approval_expired"}}
      <3>1. (status = "rejected") =>
              \/ T = <<"action.rejected">> \/ T = <<"action.approval_expired">>
        BY Zenon DEF T
      <3> QED
        BY <1>5, <3>1, Zenon
    <2> QED
      BY <1>2, <1>3, <2>1, <2>2 DEF AnswerInv
  <1>7. RequestInv(r)'
    BY <1>1, <1>2 DEF RequestInv
  <1>8. RetryInv(r)'
    BY <1>2 DEF RetryInv
  <1>9. PatientWith(r)
    BY <1>2 DEF PatientWith
  <1> QED
    BY <1>2, <1>6, <1>7, <1>8, <1>9 DEF Acts

LEMMA UpdateFields ==
  ASSUME requests \in [Requests -> RequestType], NEW r \in Requests,
         NEW v \in RequestType, requests' = [requests EXCEPT ![r] = v]
  PROVE  requests' \in [Requests -> RequestType] /\ requests'[r] = v /\ Others(r)
  BY DEF Others

\* It goes by a newer version.
LEMMA TriesAnew ==
  ASSUME StoreIInv, Promises, NEW r \in Requests, requests[r].pc \notin {"unused", "done"},
         requests[r].op.kind = "resolve-approval", NextAttempt(r), Stays,
         requests[r].since + 1 <= row.version
  PROVE  Acts(r) /\ PatientWith(r)
  <1>1. requests \in [Requests -> RequestType] /\ RequestInv(r) /\ requests[r] \in RequestType
    BY DEF StoreIInv
  <1> DEFINE v == [requests[r] EXCEPT !.pc = "version", !.attempt = 1, !.seen = NoRow,
                                      !.events = <<>>]
  <1>2. requests' = [requests EXCEPT ![r] = v]
    BY DEF NextAttempt
  <1>3. NoRow \in RowType /\ <<>> \in Seq(StreamEvent) /\ 1 \in Attempt
    BY DEF NoRow, RowType, Attempt
  <1>4. /\ v \in RequestType /\ v.pc = "version" /\ v.op = requests[r].op
        /\ v.key = requests[r].key /\ v.late = requests[r].late /\ v.attempt = 1
        /\ v.since = requests[r].since /\ v.answer = requests[r].answer
    BY <1>1, <1>3 DEF RequestType, Pc
  <1> HIDE DEF v
  <1>5. requests' \in [Requests -> RequestType] /\ requests'[r] = v /\ Others(r)
    BY <1>1, <1>2, <1>4, UpdateFields
  <1>6. Own(r) = {} /\ Own(r)' = Own(r) /\ requests[r].answer = NoAnswer
    BY OwnNothing DEF Stays, Own
  <1>7. RequestInv(r)'
    BY <1>1, <1>4, <1>5, <1>6 DEF RequestInv
  <1>8. RetryInv(r)'
    BY <1>4, <1>5 DEF RetryInv, Stays
  <1>9. AnswerInv(r)'
    BY <1>4, <1>5, <1>6 DEF AnswerInv, NoAnswer, None
  <1>10. PatientWith(r)
    BY <1>4, <1>5, <1>6 DEF PatientWith, NoAnswer, None
  <1> QED
    BY <1>4, <1>5, <1>7, <1>8, <1>9, <1>10 DEF Acts

\* It goes on without an answer.
LEMMA GoesOn ==
  ASSUME StoreIInv, Promises, NEW r \in Requests, requests[r].pc \notin {"unused", "done"},
         NEW v \in RequestType, requests' = [requests EXCEPT ![r] = v], Stays,
         v.pc \notin {"unused", "done"}, v.op = requests[r].op, v.key = requests[r].key,
         v.answer = requests[r].answer,
         (v.late \/ v.pc \in {"approval", "mark"}) => v.op.kind = "resolve-approval",
         (v.pc = "locked") => (v.op.kind = "advance-clock"),
         (v.pc \in {"lookup", "commit"}) => SeenInv(r)',
         (v.pc = "commit") => DecidedInv(r)',
         RetryInv(r)'
  PROVE  Acts(r) /\ PatientWith(r)
  <1>1. requests \in [Requests -> RequestType] /\ RequestInv(r)
    BY DEF StoreIInv
  <1>2. requests' \in [Requests -> RequestType] /\ requests'[r] = v /\ Others(r)
    BY <1>1, UpdateFields
  <1>3. Own(r) = {} /\ Own(r)' = Own(r) /\ requests[r].answer = NoAnswer
    BY OwnNothing DEF Stays, Own
  <1>4. RequestInv(r)'
    BY <1>1, <1>2, <1>3 DEF RequestInv
  <1>5. AnswerInv(r)'
    BY <1>2, <1>3 DEF AnswerInv, NoAnswer, None
  <1>6. PatientWith(r)
    BY <1>2, <1>3 DEF PatientWith, NoAnswer, None
  <1> QED
    BY <1>2, <1>4, <1>5, <1>6 DEF Acts

LEMMA UnusedType == Unused \in RequestType
  <1>1. NoRow \in RowType /\ <<>> \in Seq(StreamEvent) /\ NoAnswer \in AnswerType /\ 0 \in Attempt
    BY DEF NoRow, RowType, NoAnswer, AnswerType, AnswerStatus, AnswerCode, Attempt
  <1> QED
    BY <1>1 DEF Unused, RequestType, Pc

LEMMA ReceiveActs ==
  ASSUME StoreIInv, Promises, NEW r \in Requests, NEW op \in Op, NEW key \in Requests,
         NEW expected \in Nat, Receive(r, op, key, expected)
  PROVE  Acts(r) /\ PatientWith(r)
  <1> DEFINE v == [Unused EXCEPT !.pc = FirstPc(op), !.op = op, !.key = key, !.expected = expected]
  <1>1. requests \in [Requests -> RequestType] /\ RequestInv(r)
    BY DEF StoreIInv
  <1>2. requests' = [requests EXCEPT ![r] = v] /\ Stays
    BY DEF Receive, Stays, stored
  <1>3. requests[r].pc = "unused"
    <2>1. Fresh # {} /\ r = CHOOSE x \in Fresh : TRUE
      BY DEF Receive
    <2>2. r \in Fresh
      BY <2>1
    <2> QED
      BY <2>2 DEF Fresh
  <1>4. requests[r] = Unused
    BY <1>1, <1>3 DEF RequestInv
  <1>5. FirstPc(op) \in {"approval", "version", "read"}
    BY DEF FirstPc
  <1>6. (op.kind = "resolve-approval") <=> (FirstPc(op) = "approval")
    BY DEF FirstPc
  <1>7. /\ v \in RequestType /\ v.pc = FirstPc(op) /\ v.op = op /\ v.key = key /\ v.attempt = 0
        /\ v.late = FALSE /\ v.answer = NoAnswer
    <2>1. Unused.attempt = 0 /\ Unused.late = FALSE /\ Unused.answer = NoAnswer
      BY DEF Unused
    <2>2. FirstPc(op) \in Pc
      BY <1>5 DEF Pc
    <2> QED
      BY <2>1, <2>2, UnusedType DEF RequestType
  <1> HIDE DEF v
  <1>8. requests' \in [Requests -> RequestType] /\ requests'[r] = v /\ Others(r)
    BY <1>1, <1>2, <1>7, UpdateFields
  <1>9. Own(r) = {} /\ Own(r)' = Own(r)
    BY <1>2, <1>3, OwnNothing DEF Stays, Own
  <1>10. RequestInv(r)'
    BY <1>5, <1>6, <1>7, <1>8, <1>9 DEF RequestInv
  <1>11. RetryInv(r)'
    BY <1>5, <1>6, <1>7, <1>8 DEF RetryInv
  <1>12. AnswerInv(r)'
    BY <1>7, <1>8 DEF AnswerInv, NoAnswer, None
  <1>13. PatientWith(r)
    BY <1>7, <1>8 DEF PatientWith, NoAnswer, None
  <1> QED
    BY <1>2, <1>4, <1>7, <1>8, <1>10, <1>11, <1>12, <1>13 DEF Acts

LEMMA IssueActs ==
  ASSUME StoreIInv, Promises, NEW r \in Requests, Issue(r)
  PROVE  Acts(r) /\ PatientWith(r)
  <1>1. PICK op \in Op : Receive(r, op, r, row.version)
    BY DEF Issue
  <1>2. row.version \in Nat
    BY NowIsState DEF StoreIInv, NowInv
  <1> QED
    BY <1>1, <1>2, ReceiveActs

LEMMA RepeatActs ==
  ASSUME StoreIInv, Promises, NEW r \in Requests, Repeat(r)
  PROVE  Acts(r) /\ PatientWith(r)
  <1>1. PICK q \in Requests \ Fresh :
          Receive(r, requests[q].op, requests[q].key, requests[q].expected)
    BY DEF Repeat
  <1>2. /\ requests[q].op \in Op /\ requests[q].key \in Requests
        /\ requests[q].expected \in Nat
    BY <1>1 DEF StoreIInv, RequestInv, RequestType, Fresh
  <1> QED
    BY <1>1, <1>2, ReceiveActs

LEMMA LoseActs ==
  ASSUME StoreIInv, Promises, NEW r \in Requests, Lose(r)
  PROVE  Acts(r) /\ PatientWith(r)
  <1>1. /\ requests[r].pc \notin {"unused", "done"} /\ Answer(r, "lost", None) /\ Stays
        /\ None # "RUN_VERSION_CONFLICT" /\ None \in AnswerCode
    BY DEF Lose, stored, Stays, None, AnswerCode
  <1> QED
    BY <1>1, AnswersWithout

LEMMA GetApprovalActs ==
  ASSUME StoreIInv, Promises, NEW r \in Requests, GetApproval(r)
  PROVE  Acts(r) /\ PatientWith(r)
  <1>1. requests[r].pc = "approval" /\ Stays
    BY DEF GetApproval, stored, Stays
  <1>2. /\ requests \in [Requests -> RequestType] /\ requests[r] \in RequestType
        /\ RequestInv(r) /\ RetryInv(r)
    BY DEF StoreIInv, Promises
  <1>3. requests[r].op.kind = "resolve-approval" /\ requests[r].attempt = 0
    BY <1>1, <1>2 DEF RequestInv, RetryInv, RequestType, Attempt
  <1>4. CASE approvals[requests[r].op.approval] # "pending"
    <2>1. Answer(r, "rejected", "APPROVAL_STALE") /\ "APPROVAL_STALE" \in AnswerCode
      BY <1>4 DEF GetApproval, AnswerCode
    <2> QED
      BY <1>1, <2>1, AnswersWithout
  <1>5. CASE approvals[requests[r].op.approval] = "pending"
    <2> DEFINE late == requests[r].op.approval \in overdue
               v == [requests[r] EXCEPT !.pc = "version", !.late = late]
    <2>1. requests' = [requests EXCEPT ![r] = v]
      BY <1>5 DEF GetApproval
    <2>2. late \in BOOLEAN
      OBVIOUS
    <2> HIDE DEF late
    <2>3. /\ v \in RequestType /\ v.pc = "version" /\ v.op = requests[r].op
          /\ v.key = requests[r].key /\ v.answer = requests[r].answer
          /\ v.attempt = requests[r].attempt
      BY <1>2, <2>2 DEF RequestType, Pc
    <2> HIDE DEF v
    <2>4. requests'[r] = v
      BY <1>2, <2>1, <2>3, UpdateFields
    <2>5. RetryInv(r)'
      BY <1>3, <2>3, <2>4 DEF RetryInv
    <2> QED
      BY <1>1, <1>3, <2>1, <2>3, <2>5, GoesOn
  <1> QED
    BY <1>4, <1>5

LEMMA GetRunActs ==
  ASSUME StoreIInv, Promises, NEW r \in Requests, GetRun(r)
  PROVE  Acts(r) /\ PatientWith(r)
  <1>1. requests[r].pc = "version" /\ Stays
    BY DEF GetRun, stored, Stays
  <1>2. /\ requests \in [Requests -> RequestType] /\ requests[r] \in RequestType
        /\ RequestInv(r) /\ RetryInv(r)
    BY DEF StoreIInv, Promises
  <1>3. row.version \in Nat
    BY NowIsState DEF StoreIInv, NowInv
  <1> DEFINE since == IF requests[r].attempt = 0 THEN row.version ELSE requests[r].since
             pc == IF requests[r].op.kind = "advance-clock" THEN "locked" ELSE "read"
             v == [requests[r] EXCEPT !.expected = row.version, !.since = since, !.pc = pc]
  <1>4. requests' = [requests EXCEPT ![r] = v]
    BY DEF GetRun
  <1>5. since \in Nat /\ pc \in Pc /\ requests[r].attempt \in 0 .. 1
    BY <1>2, <1>3 DEF RequestType, Pc, Attempt
  <1> HIDE DEF since, pc
  <1>6. /\ v \in RequestType /\ v.pc = pc /\ v.op = requests[r].op
        /\ v.key = requests[r].key /\ v.answer = requests[r].answer /\ v.late = requests[r].late
        /\ v.attempt = requests[r].attempt /\ v.since = since /\ v.expected = row.version
    BY <1>2, <1>3, <1>5 DEF RequestType
  <1> HIDE DEF v
  <1>7. requests'[r] = v
    BY <1>2, <1>4, <1>6, UpdateFields
  <1>8. RetryInv(r)'
    BY <1>1, <1>2, <1>3, <1>5, <1>6, <1>7 DEF RetryInv, Stays, since, pc, RequestType
  <1>9. pc \in {"locked", "read"} /\ (pc = "locked" => requests[r].op.kind = "advance-clock")
    BY DEF pc
  <1>10. requests[r].late => requests[r].op.kind = "resolve-approval"
    BY <1>2 DEF RequestInv
  <1> QED
    BY <1>1, <1>4, <1>6, <1>8, <1>9, <1>10, GoesOn

LEMMA ReadRowActs ==
  ASSUME StoreIInv, Promises, NEW r \in Requests, ReadRow(r)
  PROVE  Acts(r) /\ PatientWith(r)
  <1>1. requests[r].pc = "read" /\ Stays
    BY DEF ReadRow, stored, Stays
  <1>2. /\ requests \in [Requests -> RequestType] /\ requests[r] \in RequestType
        /\ RequestInv(r) /\ RetryInv(r) /\ LogInv
    BY DEF StoreIInv, Promises
  <1>3. /\ row = RowOf(Now) /\ Now = StateAt(Len(log)) /\ row.sequence = Len(log)
        /\ row.version \in Nat /\ Len(log) \in Nat \ {0} /\ row \in RowType
    <2>1. /\ row = RowOf(Now) /\ Now = StateAt(Len(log)) /\ row.sequence = Len(log)
          /\ row.version \in Nat /\ Len(log) \in Nat \ {0} /\ row.status \in {"running", "completed"}
      BY <1>2, NowIsState DEF LogInv, NowInv
    <2> QED
      BY <2>1 DEF RowOf, RowType
  <1> DEFINE v == [requests[r] EXCEPT !.pc = "lookup", !.seen = row]
  <1>4. requests' = [requests EXCEPT ![r] = v]
    BY DEF ReadRow
  <1>5. /\ v \in RequestType /\ v.pc = "lookup" /\ v.op = requests[r].op
        /\ v.key = requests[r].key /\ v.answer = requests[r].answer /\ v.late = requests[r].late
        /\ v.attempt = requests[r].attempt /\ v.since = requests[r].since
        /\ v.expected = requests[r].expected /\ v.seen = row
    BY <1>2, <1>3 DEF RequestType, Pc
  <1> HIDE DEF v
  <1>6. requests'[r] = v
    BY <1>2, <1>4, <1>5, UpdateFields
  <1>7. RetryInv(r)'
    BY <1>1, <1>2, <1>3, <1>5, <1>6 DEF RetryInv, Stays, RequestType, Attempt
  <1>8. requests[r].late => requests[r].op.kind = "resolve-approval"
    BY <1>2 DEF RequestInv
  <1>9. SeenInv(r)'
    <2>1. \A n : StateAt(n)' = StateAt(n)
      BY <1>1 DEF Stays, StateAt
    <2> QED
      BY <1>1, <1>3, <1>5, <1>6, <2>1 DEF SeenInv, Stays
  <1> QED
    BY <1>1, <1>4, <1>5, <1>7, <1>8, <1>9, GoesOn

LEMMA MarkStaleActs ==
  ASSUME StoreIInv, Promises, NEW r \in Requests, MarkStale(r)
  PROVE  Acts(r) /\ PatientWith(r)
  <1>1. /\ requests[r].pc = "mark" /\ Stays /\ Answer(r, "rejected", "APPROVAL_STALE")
        /\ "APPROVAL_STALE" \in AnswerCode
    BY DEF MarkStale, Stays, AnswerCode
  <1> QED
    BY <1>1, AnswersWithout

\* What the kernel answers, with and without events.
LEMMA KernelAnswers ==
  ASSUME NEW s \in StreamState, NEW c \in Command
  PROVE  LET quiet == Duplicate(s, c) \/ c.expected # Version(s) \/ Types(s, c.op) = <<>>
         IN  /\ Execute(s, c).status = Status(s, c) /\ Execute(s, c).code = Code(s, c)
             /\ quiet <=> (Execute(s, c).events = <<>>)
             /\ ~ quiet => (Execute(s, c).events = Effects(s, c))
             /\ Duplicate(s, c) => (Status(s, c) = "duplicate" /\ Code(s, c) = None)
             /\ (~ Duplicate(s, c) /\ c.expected # Version(s)) =>
                  (Status(s, c) = "rejected" /\ Code(s, c) = "RUN_VERSION_CONFLICT")
             /\ (quiet /\ ~ Duplicate(s, c) /\ c.expected = Version(s)) =>
                  /\ Status(s, c) = "rejected"
                  /\ Code(s, c) \in {"RUN_TERMINAL", "APPROVAL_STALE", "ACTION_NOT_ALLOWED"}
                  /\ (Code(s, c) = "APPROVAL_STALE") => (c.op.kind = "resolve-approval")
             /\ ~ quiet =>
                  \/ /\ Status(s, c) = "accepted" /\ Code(s, c) = None
                     /\ Types(s, c.op) # <<"action.rejected">>
                  \/ /\ Status(s, c) = "rejected" /\ Code(s, c) = "ACTION_NOT_ALLOWED"
                     /\ Types(s, c.op) = <<"action.rejected">>
  <1> DEFINE D == Duplicate(s, c)
             N == c.expected # Version(s)
             T == Types(s, c.op)
             quiet == D \/ N \/ T = <<>>
  <1>1. /\ Execute(s, c).status = Status(s, c) /\ Execute(s, c).code = Code(s, c)
        /\ Execute(s, c).events = IF D \/ N THEN <<>> ELSE Effects(s, c)
    BY DEF Execute
  <1>2. c.op \in Op
    BY DEF Command
  <1>3. (T = <<>>) <=> (Effects(s, c) = <<>>)
    <2>1. CASE T = <<>>
      BY <2>1 DEF Effects
    <2>2. CASE T # <<>>
      BY <2>2, EffectsAre
    <2> QED
      BY <2>1, <2>2
  <1>4. (quiet <=> Execute(s, c).events = <<>>) /\ (~ quiet => Execute(s, c).events = Effects(s, c))
    <2> HIDE DEF D, N, T
    <2> QED
      BY <1>1, <1>3
  <1>5. Status(s, c) = IF D THEN "duplicate"
                       ELSE IF N \/ T = <<>> \/ T = <<"action.rejected">> THEN "rejected"
                       ELSE "accepted"
    BY DEF Status
  <1>6. Code(s, c) = IF Status(s, c) # "rejected" THEN None
                     ELSE IF N THEN "RUN_VERSION_CONFLICT"
                     ELSE IF Terminal(s) THEN "RUN_TERMINAL"
                     ELSE IF c.op.kind = "resolve-approval" THEN "APPROVAL_STALE"
                     ELSE "ACTION_NOT_ALLOWED"
    BY DEF Code
  <1>7. (T = <<"action.rejected">>) => (T # <<>> /\ ~ Terminal(s) /\ c.op.kind = "submit-action")
    <2> SUFFICES ASSUME T = <<"action.rejected">>
                 PROVE  T # <<>> /\ ~ Terminal(s) /\ c.op.kind = "submit-action"
      OBVIOUS
    <2>1. T # <<>>
      OBVIOUS
    <2>2. c.op.kind = "submit-action"
      BY <1>2, <2>1, TypesCases
    <2>3. ~ Terminal(s)
      BY <2>1, <2>2 DEF Types
    <2> QED
      BY <2>1, <2>2, <2>3
  <1> HIDE DEF D, N, T
  <1>8. D => (Status(s, c) = "duplicate" /\ Code(s, c) = None)
    BY <1>5, <1>6
  <1>9. (~ D /\ N) => (Status(s, c) = "rejected" /\ Code(s, c) = "RUN_VERSION_CONFLICT")
    BY <1>5, <1>6
  <1>10. (quiet /\ ~ D /\ ~ N) =>
           /\ Status(s, c) = "rejected"
           /\ Code(s, c) \in {"RUN_TERMINAL", "APPROVAL_STALE", "ACTION_NOT_ALLOWED"}
           /\ (Code(s, c) = "APPROVAL_STALE") => (c.op.kind = "resolve-approval")
    BY <1>5, <1>6
  <1>11. ~ quiet =>
           \/ Status(s, c) = "accepted" /\ Code(s, c) = None /\ T # <<"action.rejected">>
           \/ /\ Status(s, c) = "rejected" /\ Code(s, c) = "ACTION_NOT_ALLOWED"
              /\ T = <<"action.rejected">>
    BY <1>5, <1>6, <1>7
  <1> QED
    BY <1>1, <1>4, <1>8, <1>9, <1>10, <1>11 DEF D, N, T

\* What a request that has read the row has read.
LEMMA SeenState ==
  ASSUME StoreIInv, NEW r \in Requests, requests[r].pc \in {"lookup", "commit"}
  PROVE  LET s == StateAt(requests[r].seen.sequence)
         IN  /\ Load(requests[r].seen.sequence) = s /\ s \in StreamState
             /\ s.commands \subseteq Now.commands /\ s.keys \subseteq Now.keys
             /\ Version(s) = requests[r].seen.version /\ Version(s) \in Nat
             /\ row.version \in Nat /\ Version(s) <= row.version
             /\ (Version(s) = row.version) => (s = Now)
  <1>1. LogInv /\ SnapshotInv /\ SeenInv(r)
    BY DEF StoreIInv, RequestInv
  <1>2. PICK n \in 1 .. Len(log) : n = requests[r].seen.sequence
    BY <1>1 DEF SeenInv
  <1>3. Load(n) = StateAt(n)
    BY <1>1, LoadIsState
  <1>4. /\ StateAt(n) \in StreamState /\ StateAt(n).commands \subseteq Now.commands
        /\ StateAt(n).keys \subseteq Now.keys /\ Version(StateAt(n)) \in Nat
    BY <1>1, PrefixState
  <1>5. /\ requests[r].seen.version = Version(StateAt(n))
        /\ requests[r].seen.version <= row.version
        /\ (requests[r].seen.version = row.version) => (n = Len(log))
    BY <1>1, <1>2 DEF SeenInv, RowOf
  <1>6. Now = StateAt(Len(log)) /\ row.version \in Nat
    BY <1>1, NowIsState DEF NowInv
  <1> QED
    BY <1>2, <1>3, <1>4, <1>5, <1>6

\* A command that is a duplicate of what its request has read is one that is
\* in the stream.
LEMMA DuplicateIsApplied ==
  ASSUME StoreIInv, Promises, NEW r \in Requests, requests[r].pc \notin {"unused", "done"},
         NEW s, s.commands \subseteq Now.commands, s.keys \subseteq Now.keys,
         Duplicate(s, CommandOf(r))
  PROVE  Applied(requests[r].key)
  <1>1. /\ CommandOf(r).command = r /\ CommandOf(r).key = requests[r].key
        /\ r \notin Now.commands /\ LogInv
    BY CommandIs, OwnNothing DEF StoreIInv
  <1>2. <<requests[r].key, 0>> \in Now.keys
    BY <1>1 DEF Duplicate
  <1> QED
    BY <1>1, <1>2, StateOfEvents

LEMMA DecideActs ==
  ASSUME StoreIInv, Promises, NEW r \in Requests, Decide(r)
  PROVE  Acts(r) /\ PatientWith(r)
  <1> DEFINE s == StateAt(requests[r].seen.sequence)
             c == CommandOf(r)
             x == Execute(s, c)
  <1>1. requests[r].pc = "lookup" /\ Stays
    BY DEF Decide, stored, Stays
  <1>2. /\ requests \in [Requests -> RequestType] /\ requests[r] \in RequestType
        /\ RequestInv(r) /\ RetryInv(r)
    BY DEF StoreIInv, Promises
  <1>3. /\ Load(requests[r].seen.sequence) = s /\ s \in StreamState
        /\ s.commands \subseteq Now.commands /\ s.keys \subseteq Now.keys
        /\ Version(s) = requests[r].seen.version /\ Version(s) \in Nat
        /\ row.version \in Nat /\ Version(s) <= row.version
    BY <1>1, SeenState
  <1>4. /\ c \in Command /\ c.expected = requests[r].expected
        /\ c.op.kind = requests[r].op.kind
        /\ requests[r].late => (c.op.decision = "expired")
    BY <1>1, <1>2, CommandIs
  <1>5. IF Applied(requests[r].key) THEN Returned(r, "duplicate", None)
        ELSE IF x.events = <<>> THEN Returned(r, x.status, x.code)
        ELSE requests' = [requests EXCEPT ![r].pc = "commit", ![r].events = x.events]
    BY <1>3 DEF Decide
  <1>6. Duplicate(s, c) => Applied(requests[r].key)
    BY <1>1, <1>3, DuplicateIsApplied
  <1> HIDE DEF s, c
  <1>7. None # "RUN_VERSION_CONFLICT" /\ None # "APPROVAL_STALE" /\ None \in AnswerCode
        /\ "APPROVAL_STALE" \in AnswerCode
    BY DEF None, AnswerCode
  <1>8. requests[r].late => (requests[r].op.kind = "resolve-approval")
    BY <1>2 DEF RequestInv
  <1>9. CASE Applied(requests[r].key)
    <2>1. Returned(r, "duplicate", None) /\ ~ TriesAgain(r, None)
      BY <1>5, <1>7, <1>9 DEF TriesAgain
    <2>2. CASE requests[r].late
      <3>1. Answer(r, "rejected", "APPROVAL_STALE")
        BY <2>1, <2>2 DEF Returned
      <3> QED
        BY <1>1, <1>7, <3>1, AnswersWithout
    <2>3. CASE ~ requests[r].late
      <3>1. Answer(r, "duplicate", None)
        BY <1>7, <2>1, <2>3 DEF Returned
      <3> QED
        BY <1>1, <1>7, <1>9, <3>1, AnswersWithout
    <2> QED
      BY <2>2, <2>3
  <1>10. CASE ~ Applied(requests[r].key) /\ x.events = <<>>
    <2>1. Returned(r, x.status, x.code) /\ ~ Duplicate(s, c)
      BY <1>5, <1>6, <1>10
    <2>2. /\ x.status = "rejected" /\ x.code \in AnswerCode
          /\ (x.code = "RUN_VERSION_CONFLICT") <=> (c.expected # Version(s))
          /\ (x.code = "APPROVAL_STALE") => (c.op.kind = "resolve-approval")
      <3>1. x.status = Status(s, c) /\ x.code = Code(s, c)
        BY <1>3, <1>4, KernelAnswers
      <3>2. CASE c.expected # Version(s)
        <4>1. Status(s, c) = "rejected" /\ Code(s, c) = "RUN_VERSION_CONFLICT"
          BY <1>3, <1>4, <2>1, <3>2, KernelAnswers
        <4> QED
          BY <3>1, <3>2, <4>1 DEF AnswerCode
      <3>3. CASE c.expected = Version(s)
        <4>1. /\ Status(s, c) = "rejected"
              /\ Code(s, c) \in {"RUN_TERMINAL", "APPROVAL_STALE", "ACTION_NOT_ALLOWED"}
              /\ (Code(s, c) = "APPROVAL_STALE") => (c.op.kind = "resolve-approval")
          BY <1>3, <1>4, <1>10, <2>1, <3>3, KernelAnswers
        <4> QED
          BY <3>1, <3>3, <4>1 DEF AnswerCode
      <3> QED
        BY <3>2, <3>3
    <2> HIDE DEF x
    <2>3. requests[r].expected \in Nat /\ requests[r].since \in Nat /\ requests[r].attempt \in 0 .. 1
      BY <1>2 DEF RequestType, Attempt
    <2>4. (requests[r].op.kind = "resolve-approval" /\ x.code = "RUN_VERSION_CONFLICT") =>
            /\ requests[r].expected < row.version
            /\ (requests[r].attempt = 0) => (requests[r].expected = requests[r].since)
            /\ (requests[r].attempt # 0) => (requests[r].since + 1 <= requests[r].expected)
      BY <1>1, <1>2, <1>3, <1>4, <2>2, <2>3 DEF RetryInv
    <2>5. CASE TriesAgain(r, x.code)
      <3>1. NextAttempt(r) /\ requests[r].op.kind = "resolve-approval"
            /\ x.code = "RUN_VERSION_CONFLICT" /\ requests[r].attempt = 0
        BY <2>1, <2>5 DEF Returned, TriesAgain
      <3>2. requests[r].since + 1 <= row.version
        BY <1>3, <2>3, <2>4, <3>1
      <3> QED
        BY <1>1, <3>1, <3>2, TriesAnew
    <2>6. CASE ~ TriesAgain(r, x.code) /\ requests[r].late
      <3>1. Answer(r, "rejected", "APPROVAL_STALE")
        BY <2>1, <2>6 DEF Returned
      <3> QED
        BY <1>1, <1>7, <3>1, AnswersWithout
    <2>7. CASE ~ TriesAgain(r, x.code) /\ ~ requests[r].late /\ x.code = "APPROVAL_STALE"
      <3> DEFINE v == [requests[r] EXCEPT !.pc = "mark", !.seen = NoRow]
      <3>1. requests' = [requests EXCEPT ![r] = v] /\ NoRow \in RowType
        BY <2>1, <2>7 DEF Returned, NoRow, RowType
      <3>2. /\ v \in RequestType /\ v.pc = "mark" /\ v.op = requests[r].op
            /\ v.key = requests[r].key /\ v.answer = requests[r].answer
        BY <1>2, <3>1 DEF RequestType, Pc
      <3> HIDE DEF v
      <3>3. requests'[r] = v
        BY <1>2, <3>1, <3>2, UpdateFields
      <3>4. RetryInv(r)'
        BY <3>2, <3>3 DEF RetryInv
      <3>5. v.op.kind = "resolve-approval"
        BY <1>4, <2>2, <2>7, <3>2
      <3> QED
        BY <1>1, <3>1, <3>2, <3>4, <3>5, GoesOn
    <2>8. CASE ~ TriesAgain(r, x.code) /\ ~ requests[r].late /\ x.code # "APPROVAL_STALE"
      <3>1. Answer(r, "rejected", x.code)
        BY <2>1, <2>2, <2>8 DEF Returned
      <3>2. (requests[r].op.kind = "resolve-approval" /\ x.code = "RUN_VERSION_CONFLICT") =>
              row.version >= requests[r].since + 2
        BY <1>3, <2>3, <2>4, <2>8 DEF TriesAgain
      <3> QED
        BY <1>1, <2>2, <3>1, <3>2, AnswersWithout
    <2> QED
      BY <2>5, <2>6, <2>7, <2>8
  <1>11. CASE ~ Applied(requests[r].key) /\ x.events # <<>>
    <2>1. /\ ~ Duplicate(s, c) /\ c.expected = Version(s) /\ Types(s, c.op) # <<>>
          /\ x.events = Effects(s, c)
      BY <1>3, <1>4, <1>11, KernelAnswers
    <2>2. requests' = [requests EXCEPT ![r].pc = "commit", ![r].events = x.events]
      BY <1>5, <1>11
    <2>3. x.events \in Seq(StreamEvent)
      BY <1>3, <1>4, <2>1, EffectsAre
    <2> HIDE DEF x
    <2> DEFINE v == [requests[r] EXCEPT !.pc = "commit", !.events = x.events]
    <2>4. requests' = [requests EXCEPT ![r] = v]
      BY <2>2
    <2>5. /\ v \in RequestType /\ v.pc = "commit" /\ v.op = requests[r].op
          /\ v.key = requests[r].key /\ v.answer = requests[r].answer /\ v.late = requests[r].late
          /\ v.attempt = requests[r].attempt /\ v.since = requests[r].since
          /\ v.expected = requests[r].expected /\ v.seen = requests[r].seen
          /\ v.events = x.events
      BY <1>2, <2>3 DEF RequestType, Pc
    <2> HIDE DEF v
    <2>6. requests'[r] = v
      BY <1>2, <2>4, <2>5, UpdateFields
    <2>7. RetryInv(r)'
      BY <1>1, <1>2, <2>5, <2>6 DEF RetryInv, Stays
    <2>8. SeenInv(r)
      BY <1>1, <1>2 DEF RequestInv
    <2>9. \A n : StateAt(n)' = StateAt(n)
      BY <1>1 DEF Stays, StateAt
    <2>10. SeenInv(r)'
      BY <1>1, <2>5, <2>6, <2>8, <2>9 DEF SeenInv, Stays
    <2>11. CommandOf(r)' = CommandOf(r)
      BY <2>5, <2>6 DEF CommandOf
    <2>12. DecidedInv(r)'
      BY <2>1, <2>5, <2>6, <2>9, <2>11 DEF DecidedInv, s, c
    <2> QED
      BY <1>1, <1>8, <2>4, <2>5, <2>7, <2>10, <2>12, GoesOn
  <1> QED
    BY <1>9, <1>10, <1>11

LEMMA CommitActs ==
  ASSUME StoreIInv, Promises, NEW r \in Requests, Commit(r)
  PROVE  Acts(r) /\ PatientWith(r) /\ Writes(r, CommandOf(r))
  <1> DEFINE c == CommandOf(r)
  <1>1. requests[r].pc = "commit" /\ row.version = requests[r].expected
    BY DEF Commit
  <1>2. /\ requests \in [Requests -> RequestType] /\ RequestInv(r) /\ LogInv
        /\ DecidedInv(r)
    BY <1>1 DEF StoreIInv, RequestInv
  <1>3. /\ c \in Command /\ c.command = r /\ c.expected = requests[r].expected
        /\ c.op.kind = requests[r].op.kind
        /\ requests[r].late => (c.op.decision = "expired")
    BY <1>1, <1>2, CommandIs
  <1>4. /\ Load(requests[r].seen.sequence) = Now /\ Now \in StreamState
        /\ ~ Duplicate(Now, c) /\ c.expected = Version(Now) /\ Types(Now, c.op) # <<>>
        /\ requests[r].events = Effects(Now, c)
    <2> DEFINE s == StateAt(requests[r].seen.sequence)
    <2>1. /\ Load(requests[r].seen.sequence) = s /\ s \in StreamState
          /\ (Version(s) = row.version) => (s = Now)
      BY <1>1, SeenState
    <2>2. /\ ~ Duplicate(s, c) /\ c.expected = Version(s) /\ Types(s, c.op) # <<>>
          /\ requests[r].events = Effects(s, c)
      BY <1>2 DEF DecidedInv
    <2> HIDE DEF s, c
    <2> QED
      BY <1>1, <1>3, <2>1, <2>2
  <1>5. Writes(r, c)
    BY <1>3, <1>4 DEF Writes, Commit
  <1>6. Returned(r, Status(Now, c), Code(Now, c))
    BY <1>4 DEF Commit
  <1>7. \/ /\ Status(Now, c) = "accepted" /\ Code(Now, c) = None
           /\ Types(Now, c.op) # <<"action.rejected">>
        \/ /\ Status(Now, c) = "rejected" /\ Code(Now, c) = "ACTION_NOT_ALLOWED"
           /\ Types(Now, c.op) = <<"action.rejected">>
    BY <1>3, <1>4, KernelAnswers
  <1>8. /\ Code(Now, c) \in AnswerCode /\ "APPROVAL_STALE" \in AnswerCode
        /\ Code(Now, c) # "RUN_VERSION_CONFLICT" /\ Code(Now, c) # "APPROVAL_STALE"
    BY <1>7 DEF AnswerCode, None
  <1>9. ~ TriesAgain(r, Code(Now, c))
    BY <1>8 DEF TriesAgain
  <1>10. CASE requests[r].late
    <2>1. Answer(r, "rejected", "APPROVAL_STALE")
      BY <1>6, <1>9, <1>10 DEF Returned
    <2>2. c.op.kind = "resolve-approval" /\ c.op.decision = "expired" /\ c.op \in Op
      BY <1>2, <1>3, <1>10 DEF RequestInv, Command
    <2>3. Types(Now, c.op) = <<"action.approval_expired">>
      BY <1>4, <2>2, TypesCases
    <2> HIDE DEF c
    <2> QED
      BY <1>1, <1>5, <1>8, <2>1, <2>3, AnswersWith DEF c
  <1>11. CASE ~ requests[r].late
    <2>1. Answer(r, Status(Now, c), Code(Now, c))
      BY <1>6, <1>8, <1>9, <1>11 DEF Returned
    <2> QED
      BY <1>1, <1>5, <1>7, <1>8, <2>1, AnswersWith
  <1> QED
    BY <1>10, <1>11

LEMMA ConflictActs ==
  ASSUME StoreIInv, Promises, NEW r \in Requests, Conflict(r)
  PROVE  Acts(r) /\ PatientWith(r)
  <1>1. /\ requests[r].pc = "commit" /\ row.version # requests[r].expected /\ Stays
        /\ Threw(r, "RUN_VERSION_CONFLICT")
    BY DEF Conflict, stored, Stays
  <1>2. /\ requests[r] \in RequestType /\ RequestInv(r) /\ RetryInv(r)
    BY DEF StoreIInv, Promises
  <1>3. requests[r].expected \in Nat /\ requests[r].since \in Nat /\ requests[r].attempt \in 0 .. 1
    BY <1>2 DEF RequestType, Attempt
  <1>4. row.version \in Nat
    BY <1>1, SeenState
  <1>5. (requests[r].op.kind = "resolve-approval") =>
          /\ requests[r].expected < row.version
          /\ (requests[r].attempt = 0) => (requests[r].expected = requests[r].since)
          /\ (requests[r].attempt # 0) => (requests[r].since + 1 <= requests[r].expected)
    BY <1>1, <1>2, <1>3, <1>4 DEF RetryInv
  <1>6. CASE TriesAgain(r, "RUN_VERSION_CONFLICT")
    <2>1. NextAttempt(r) /\ requests[r].op.kind = "resolve-approval" /\ requests[r].attempt = 0
      BY <1>1, <1>6 DEF Threw, TriesAgain
    <2>2. requests[r].since + 1 <= row.version
      BY <1>3, <1>4, <1>5, <2>1
    <2> QED
      BY <1>1, <2>1, <2>2, TriesAnew
  <1>7. CASE ~ TriesAgain(r, "RUN_VERSION_CONFLICT")
    <2>1. Answer(r, "rejected", "RUN_VERSION_CONFLICT") /\ "RUN_VERSION_CONFLICT" \in AnswerCode
      BY <1>1, <1>7 DEF Threw, AnswerCode
    <2>2. (requests[r].op.kind = "resolve-approval") => (row.version >= requests[r].since + 2)
      BY <1>3, <1>4, <1>5, <1>7 DEF TriesAgain
    <2> QED
      BY <1>1, <2>1, <2>2, AnswersWithout
  <1> QED
    BY <1>6, <1>7

LEMMA LockedTickActs ==
  ASSUME StoreIInv, Promises, NEW r \in Requests, LockedTick(r)
  PROVE  /\ Acts(r) /\ PatientWith(r)
         /\ UNCHANGED stored \/ Writes(r, CommandOf(r))
  <1> DEFINE c == CommandOf(r)
             x == Execute(Now, c)
             told == row.status # "running" \/ Applied(requests[r].key)
  <1>1. requests[r].pc = "locked"
    BY DEF LockedTick
  <1>2. /\ requests \in [Requests -> RequestType] /\ RequestInv(r) /\ LogInv /\ SnapshotInv
        /\ requests[r].op.kind = "advance-clock"
    BY <1>1 DEF StoreIInv, RequestInv
  <1>3. c \in Command /\ c.command = r /\ c.op.kind = "advance-clock"
    BY <1>1, <1>2, CommandIs
  <1>4. /\ Load(row.sequence) = Now /\ Now \in StreamState
        /\ row.status \in {"running", "completed"}
    <2>1. /\ Now \in StreamState /\ Now = StateAt(Len(log)) /\ row.sequence = Len(log)
          /\ Len(log) \in 1 .. Len(log)
      BY <1>2, NowIsState DEF NowInv, LogInv
    <2>2. Load(Len(log)) = StateAt(Len(log))
      BY <1>2, <2>1, LoadIsState
    <2> QED
      BY <1>2, <2>1, <2>2 DEF LogInv
  <1>5. IF told \/ x.events = <<>>
        THEN /\ Answer(r, IF told THEN "duplicate" ELSE x.status, x.code)
             /\ Stays /\ UNCHANGED stored
        ELSE Write(x.events, Now) /\ Answer(r, x.status, x.code)
    BY <1>4 DEF LockedTick, stored, Stays
  <1>6. Duplicate(Now, c) => Applied(requests[r].key)
    BY <1>1, DuplicateIsApplied
  <1>7. x.status = Status(Now, c) /\ x.code = Code(Now, c)
    BY <1>3, <1>4, KernelAnswers
  <1>8. x.code \in AnswerCode
    BY <1>7 DEF Code, AnswerCode
  <1>9. requests[r].op.kind # "resolve-approval"
    BY <1>2
  <1>10. CASE told
    <2>1. Answer(r, "duplicate", x.code) /\ Stays /\ UNCHANGED stored
      BY <1>5, <1>10
    <2>2. Applied(requests[r].key) \/ row.status = "completed"
      BY <1>4, <1>10
    <2> HIDE DEF x
    <2> QED
      BY <1>1, <1>2, <1>8, <1>9, <2>1, <2>2, AnswersWithout
  <1>11. CASE ~ told /\ x.events = <<>>
    <2>1. Answer(r, x.status, x.code) /\ Stays /\ UNCHANGED stored /\ ~ Duplicate(Now, c)
      BY <1>5, <1>6, <1>11
    <2>2. x.status = "rejected"
      <3>1. CASE c.expected # Version(Now)
        BY <1>3, <1>4, <1>7, <2>1, <3>1, KernelAnswers
      <3>2. CASE c.expected = Version(Now)
        BY <1>3, <1>4, <1>7, <1>11, <2>1, <3>2, KernelAnswers
      <3> QED
        BY <3>1, <3>2
    <2> HIDE DEF x
    <2> QED
      BY <1>1, <1>8, <1>9, <2>1, <2>2, AnswersWithout
  <1>12. CASE ~ told /\ x.events # <<>>
    <2>1. /\ ~ Duplicate(Now, c) /\ c.expected = Version(Now) /\ Types(Now, c.op) # <<>>
          /\ x.events = Effects(Now, c)
      BY <1>3, <1>4, <1>12, KernelAnswers
    <2>2. Writes(r, c) /\ Answer(r, x.status, x.code)
      BY <1>3, <1>5, <1>12, <2>1 DEF Writes
    <2>3. \/ /\ x.status = "accepted" /\ x.code = None
             /\ Types(Now, c.op) # <<"action.rejected">>
          \/ /\ x.status = "rejected" /\ x.code = "ACTION_NOT_ALLOWED"
             /\ Types(Now, c.op) = <<"action.rejected">>
      BY <1>3, <1>4, <1>7, <2>1, KernelAnswers
    <2>4. x.code # "RUN_VERSION_CONFLICT"
      BY <2>3 DEF None
    <2> HIDE DEF x
    <2> QED
      BY <1>1, <1>8, <2>2, <2>3, <2>4, AnswersWith
  <1> QED
    BY <1>10, <1>11, <1>12

-----------------------------------------------------------------------------
(* The initial states                                                       *)

\* The events that resolve an approval.
LEMMA ResolutionIs ==
  /\ DOMAIN Resolution = ResolutionType
  /\ \A t \in ResolutionType : Resolution[t] \in Decision
  BY DEF Resolution, ResolutionType, Decision

\* The stream of a started run, and the state it stands for.
LEMMA Started ==
  /\ StartedLog \in Seq(StreamEvent) /\ Len(StartedLog) = 4
  /\ \A n \in 1 .. 4 : StartedLog[n].sequence = n
  /\ \A n \in 1 .. 4 : StartedLog[n].type \notin ResolutionType
  /\ \A n \in 1 .. 4 : StartedLog[n].command \in {None, "start", "earlier"}
  /\ LET s == Replay(Created, StartedLog)
     IN  /\ s.status = "running" /\ s.pending = {"earlier"}
         /\ s.commands = {"start", "earlier"}
  <1> DEFINE e1 == Event(1, None, <<"create", 0>>, "run.created", None)
             e2 == Event(2, "start", <<"start", 0>>, "run.started", None)
             e3 == Event(3, "earlier", <<"earlier", 0>>, "action.proposed", "earlier")
             e4 == Event(4, "earlier", <<"earlier", 1>>, "action.approval_requested", "earlier")
             l == <<e1, e2, e3, e4>>
  <1>1. StartedLog = l
    BY DEF StartedLog
  <1>2. /\ e1.sequence = 1 /\ e1.command = None /\ e1.type = "run.created"
        /\ e2.sequence = 2 /\ e2.command = "start" /\ e2.type = "run.started"
        /\ e3.sequence = 3 /\ e3.command = "earlier" /\ e3.type = "action.proposed"
        /\ e4.sequence = 4 /\ e4.command = "earlier" /\ e4.type = "action.approval_requested"
        /\ e4.approval = "earlier"
    BY DEF Event
  <1>3. e1 \in StreamEvent /\ e2 \in StreamEvent /\ e3 \in StreamEvent /\ e4 \in StreamEvent
    BY DEF Event, StreamEvent, Ids, EventKey, EventName, Approvals
  <1> HIDE DEF e1, e2, e3, e4
  <1>4. /\ l \in Seq(StreamEvent) /\ Len(l) = 4
        /\ l[1] = e1 /\ l[2] = e2 /\ l[3] = e3 /\ l[4] = e4
    BY <1>3
  <1> HIDE DEF l
  <1> DEFINE s1 == Apply(Created, e1)
  <1>5. s1 \in StreamState /\ s1.commands = {} /\ s1.pending = {}
    <2>1. /\ s1 \in StreamState /\ s1.commands = Created.commands
          /\ s1.pending = Created.pending
      BY <1>2, <1>3, CreatedType, ApplyFields DEF ResolutionType
    <2> QED
      BY <2>1 DEF Created
  <1> HIDE DEF s1
  <1> DEFINE s2 == Apply(s1, e2)
  <1>6. s2 \in StreamState /\ s2.commands = {"start"} /\ s2.pending = {} /\ s2.status = "running"
    <2>1. /\ s2 \in StreamState /\ s2.commands = s1.commands \cup {"start"}
          /\ s2.pending = s1.pending /\ s2.status = "running"
      <3>1. /\ e2.command # None /\ e2.command = "start" /\ e2.type = "run.started"
            /\ e2.type # "action.approval_requested" /\ e2.type \notin ResolutionType
        BY <1>2 DEF None, ResolutionType
      <3> QED
        BY <1>3, <1>5, <3>1, ApplyFields
    <2> QED
      BY <1>5, <2>1
  <1> HIDE DEF s2
  <1> DEFINE s3 == Apply(s2, e3)
  <1>7. /\ s3 \in StreamState /\ s3.commands = {"start", "earlier"} /\ s3.pending = {}
        /\ s3.status = "running"
    <2>1. /\ s3 \in StreamState /\ s3.commands = s2.commands \cup {"earlier"}
          /\ s3.pending = s2.pending /\ s3.status = s2.status
      <3>1. /\ e3.command # None /\ e3.command = "earlier"
            /\ e3.type \notin {"run.started", "run.completed", "action.approval_requested"}
            /\ e3.type \notin ResolutionType
        BY <1>2 DEF None, ResolutionType
      <3>2. s2 \in StreamState /\ e3 \in StreamEvent
        BY <1>3, <1>6
      <3>3. /\ s3 \in StreamState
            /\ s3.commands = IF e3.command = None THEN s2.commands ELSE s2.commands \cup {e3.command}
            /\ s3.status = IF e3.type = "run.started" THEN "running"
                           ELSE IF e3.type = "run.completed" THEN "completed" ELSE s2.status
            /\ s3.pending =
                 IF e3.type = "action.approval_requested" THEN s2.pending \cup {e3.approval}
                 ELSE IF e3.type \in ResolutionType THEN s2.pending \ {e3.approval}
                 ELSE s2.pending
        BY <3>2, ApplyFields
      <3> HIDE DEF s3
      <3> QED
        BY <3>1, <3>3
    <2> QED
      BY <1>6, <2>1
  <1> HIDE DEF s3
  <1> DEFINE s4 == Apply(s3, e4)
  <1>8. /\ s4.commands = {"start", "earlier"} /\ s4.pending = {"earlier"}
        /\ s4.status = "running"
    <2>1. /\ s4.commands = s3.commands \cup {"earlier"}
          /\ s4.pending = s3.pending \cup {"earlier"} /\ s4.status = s3.status
      <3>1. /\ e4.command # None /\ e4.command = "earlier" /\ e4.approval = "earlier"
            /\ e4.type = "action.approval_requested"
            /\ e4.type \notin {"run.started", "run.completed"}
        BY <1>2 DEF None
      <3>2. s3 \in StreamState /\ e4 \in StreamEvent
        BY <1>3, <1>7
      <3>3. /\ s4.commands = IF e4.command = None THEN s3.commands ELSE s3.commands \cup {e4.command}
            /\ s4.status = IF e4.type = "run.started" THEN "running"
                           ELSE IF e4.type = "run.completed" THEN "completed" ELSE s3.status
            /\ s4.pending =
                 IF e4.type = "action.approval_requested" THEN s3.pending \cup {e4.approval}
                 ELSE IF e4.type \in ResolutionType THEN s3.pending \ {e4.approval}
                 ELSE s3.pending
        BY <3>2, ApplyFields
      <3> HIDE DEF s4
      <3> QED
        BY <3>1, <3>3
    <2> QED
      BY <1>7, <2>1
  <1>9. Replay(Created, l) = s4
    <2>1. PICK f : RunsThrough(f, Created, l) /\ Replay(Created, l) = f[4]
      BY <1>4, CreatedType, ReplayExists
    <2>2. f[0] = Created /\ \A i \in 1 .. 4 : f[i] = Apply(f[i - 1], l[i])
      BY <1>4, <2>1 DEF RunsThrough
    <2>3. /\ f[1] = Apply(f[1 - 1], l[1]) /\ f[2] = Apply(f[2 - 1], l[2])
          /\ f[3] = Apply(f[3 - 1], l[3]) /\ f[4] = Apply(f[4 - 1], l[4])
      BY <2>2
    <2>4. 1 - 1 = 0 /\ 2 - 1 = 1 /\ 3 - 1 = 2 /\ 4 - 1 = 3
      OBVIOUS
    <2> QED
      BY <1>4, <2>1, <2>2, <2>3, <2>4 DEF s1, s2, s3
  <1> HIDE DEF s4
  <1>10. ASSUME NEW n \in 1 .. 4
         PROVE  /\ l[n].sequence = n /\ l[n].type \notin ResolutionType
                /\ l[n].command \in {None, "start", "earlier"}
    <2>1. n = 1 \/ n = 2 \/ n = 3 \/ n = 4
      OBVIOUS
    <2> QED
      BY <1>2, <1>4, <2>1 DEF ResolutionType
  <1> QED
    BY <1>1, <1>4, <1>8, <1>9, <1>10

LEMMA InitHolds ==
  ASSUME Init
  PROVE  StoreIInv /\ Promises /\ ApprovalIInv
  <1>1. /\ log = StartedLog /\ log \in Seq(StreamEvent) /\ Len(log) = 4
        /\ \A n \in 1 .. 4 : log[n].sequence = n
        /\ \A n \in 1 .. 4 : log[n].type \notin ResolutionType
        /\ \A n \in 1 .. 4 : log[n].command \in {None, "start", "earlier"}
        /\ Now.status = "running" /\ Now.pending = {"earlier"}
        /\ Now.commands = {"start", "earlier"} /\ row = RowOf(Now)
    BY Started DEF Init, Now
  <1>2. LogInv
    <2>1. IsFiniteSet(Now.commands)
      <3>1. IsFiniteSet({"start"}) /\ {"start", "earlier"} = {"start"} \cup {"earlier"}
        BY FS_Singleton
      <3>2. IsFiniteSet({"start"} \cup {"earlier"})
        BY <3>1, FS_AddElement
      <3> QED
        BY <1>1, <3>1, <3>2
    <2>2. row.status = "running"
      BY <1>1 DEF RowOf
    <2> QED
      BY <1>1, <2>1, <2>2 DEF LogInv
  <1>3. SnapshotInv
    <2>1. snapshots = {[sequence |-> n, state |-> StateAt(n)] :
                          n \in {1} \cup {m \in {2, 4} : m % SnapshotInterval = 0}}
      BY DEF Init, StateAt
    <2>2. \A x \in snapshots : x.sequence \in 1 .. 4 /\ x.state = StateAt(x.sequence)
      BY <2>1
    <2>3. [sequence |-> 1, state |-> StateAt(1)] \in snapshots
      BY <2>1
    <2>4. \E x \in snapshots : x.sequence = 1
      BY <2>3
    <2> QED
      BY <1>1, <2>2, <2>4 DEF SnapshotInv
  <1>4. RowsInv
    BY StoreAssumption DEF Init, RowsInv
  <1>5. ASSUME NEW r \in Requests PROVE requests[r] = Unused /\ Own(r) = {}
    <2>1. \A n \in 1 .. Len(log) : log[n].command # r
      BY <1>1, StoreAssumption
    <2> QED
      BY <2>1 DEF Init, Own
  <1>6. requests \in [Requests -> RequestType]
    BY UnusedType DEF Init
  <1>7. ASSUME NEW r \in Requests PROVE RequestInv(r) /\ RetryInv(r) /\ AnswerInv(r)
    <2>1. /\ Unused.pc = "unused" /\ Unused.late = FALSE /\ Unused.answer = NoAnswer
          /\ Unused.op.kind = None
      BY DEF Unused, NoOp
    <2>2. RequestInv(r)
      BY <1>5, <2>1 DEF RequestInv
    <2>3. RetryInv(r)
      BY <1>5, <2>1 DEF RetryInv, None
    <2>4. AnswerInv(r)
      BY <1>5, <2>1 DEF AnswerInv, NoAnswer, None
    <2> QED
      BY <2>2, <2>3, <2>4
  <1>8. ApprovalIInv
    <2>1. Resolutions = {}
      BY <1>1, ResolutionIs DEF Resolutions
    <2>2. \A a \in Approvals : /\ decisions[a] = None
                               /\ approvals[a] = IF a = "earlier" THEN "pending" ELSE "absent"
      BY DEF Init
    <2>3. "pending" \notin Decision /\ "absent" \notin Decision
      BY DEF Decision
    <2> QED
      BY <1>1, <2>1, <2>2, <2>3 DEF ApprovalIInv
  <1> QED
    BY <1>2, <1>3, <1>4, <1>6, <1>7, <1>8 DEF StoreIInv, Promises

-----------------------------------------------------------------------------
(* The rows beside the stream                                               *)

LEMMA RowsOf ==
  ASSUME NEW events, NEW a \in Approvals, \E e \in Resolved(events) : e.approval = a
  PROVE  /\ \E e \in Resolved(events) :
              e.approval = a /\ ResolutionOf(events, a) = Resolution[e.type]
         /\ ResolutionOf(events, a) \in Decision
  <1> DEFINE e == CHOOSE x \in Resolved(events) : x.approval = a
  <1>1. e \in Resolved(events) /\ e.approval = a
    OBVIOUS
  <1>2. e.type \in ResolutionType
    BY <1>1, ResolutionIs DEF Resolved
  <1>3. ResolutionOf(events, a) = Resolution[e.type]
    BY DEF ResolutionOf
  <1> HIDE DEF e
  <1> QED
    BY <1>1, <1>2, <1>3, ResolutionIs

LEMMA RowsWritten ==
  ASSUME RowsInv, NEW events, NEW s, Write(events, s)
  PROVE  /\ approvals' \in
              [Approvals -> {"absent", "pending", "approved", "denied", "expired", "stale"}]
         /\ decisions' \in [Approvals -> Decision \cup {None}]
  <1>1. approvals' = ApprovalRows(events) /\ decisions' = DecisionRows(events)
    BY DEF Write
  <1>2. ASSUME NEW a \in Approvals, a \in {e.approval : e \in Resolved(events)}
        PROVE  ResolutionOf(events, a) \in Decision
    BY <1>2, RowsOf
  <1>3. \A a \in Approvals :
          /\ approvals[a] \in {"absent", "pending", "approved", "denied", "expired", "stale"}
          /\ decisions[a] \in Decision \cup {None}
    BY DEF RowsInv
  <1>4. DecisionRows(events) \in [Approvals -> Decision \cup {None}]
    BY <1>2, <1>3 DEF DecisionRows
  <1>5. ApprovalRows(events) \in
          [Approvals -> {"absent", "pending", "approved", "denied", "expired", "stale"}]
    BY <1>2, <1>3 DEF ApprovalRows, Decision
  <1> QED
    BY <1>1, <1>4, <1>5

LEMMA StepRows ==
  ASSUME RowsInv, NEW r \in Requests, Step(r)
  PROVE  RowsInv'
  <1>1. faults \in 0 .. MaxFaults /\ MaxFaults \in Nat
    BY StoreAssumption DEF RowsInv
  <1>2. faults' \in 0 .. MaxFaults
    <2>1. Fault \/ UNCHANGED faults
      BY DEF Step, Issue, Repeat, Lose, GetApproval, GetRun, ReadRow, Decide, Commit, Conflict,
             LockedTick, MarkStale
    <2> QED
      BY <1>1, <2>1 DEF Fault
  <1>3. UNCHANGED overdue
    BY DEF Step, Issue, Repeat, Lose, GetApproval, GetRun, ReadRow, Decide, Commit, Conflict,
           LockedTick, MarkStale, Receive
  <1>4. \/ UNCHANGED <<approvals, decisions>>
        \/ \E events, s : Write(events, s)
        \/ MarkStale(r)
    BY DEF Step, Issue, Repeat, Lose, GetApproval, GetRun, ReadRow, Decide, Commit, Conflict,
           LockedTick, Receive, stored
  <1>5. CASE UNCHANGED <<approvals, decisions>>
    BY <1>2, <1>3, <1>5 DEF RowsInv
  <1>6. CASE \E events, s : Write(events, s)
    BY <1>2, <1>3, <1>6, RowsWritten DEF RowsInv
  <1>7. CASE MarkStale(r)
    BY <1>2, <1>3, <1>7 DEF RowsInv, MarkStale
  <1> QED
    BY <1>4, <1>5, <1>6, <1>7

\* The events of a command either resolve one open approval, with the first of
\* them, or resolve none and ask for at most one, named after the command.
LEMMA Settles ==
  ASSUME NEW s \in StreamState, NEW c \in Command, Types(s, c.op) # <<>>
  PROVE  LET E == Effects(s, c)
             a == c.op.approval
         IN  \/ /\ c.op.kind = "resolve-approval" /\ a \in Approvals /\ a \in s.pending
                /\ E[1] \in ToSet(E) /\ E[1].approval = a /\ E[1].type \in ResolutionType
                /\ Resolved(E) = {E[1]} /\ Requested(E) = {}
                /\ \A i \in 1 .. Len(E) : (E[i].type \in ResolutionType) => (i = 1)
             \/ /\ c.op.kind # "resolve-approval"
                /\ Resolved(E) = {}
                /\ Requested(E) \subseteq
                     (IF c.op.kind = "submit-action" /\ s.able THEN {c.command} ELSE {})
                /\ \A i \in 1 .. Len(E) : E[i].type \notin ResolutionType
  <1> DEFINE E == Effects(s, c)
             T == Types(s, c.op)
             a == c.op.approval
  <1>1. /\ E \in Seq(StreamEvent) /\ Len(E) = Len(T) /\ Len(E) \in 1 .. 2
        /\ \A i \in 1 .. Len(E) :
             E[i] = Event(s.sequence + i, c.command, <<c.key, i - 1>>, T[i], ApprovalOf(c))
    BY EffectsAre
  <1>2. c.op \in Op
    BY DEF Command
  <1> HIDE DEF E
  <1>3. ASSUME NEW i \in 1 .. Len(E) PROVE E[i].type = T[i] /\ E[i].approval = ApprovalOf(c)
    <2> HIDE DEF T
    <2>1. E[i] = Event(s.sequence + i, c.command, <<c.key, i - 1>>, T[i], ApprovalOf(c))
      BY <1>1
    <2> QED
      BY <2>1 DEF Event
  <1>4. ToSet(E) = {E[i] : i \in 1 .. Len(E)} /\ 1 \in 1 .. Len(E)
    BY <1>1 DEF ToSet
  <1>5. CASE c.op.kind = "resolve-approval"
    <2>1. /\ a \in Approvals /\ a \in s.pending
          /\ \/ T = <<"action.denied">> \/ T = <<"action.approval_expired">>
             \/ T = <<"action.approved", "action.executed">>
      BY <1>2, <1>5, TypesCases, OpCases
    <2>2. T[1] \in ResolutionType /\ (Len(T) = 2 => T[2] = "action.executed")
      BY <2>1 DEF ResolutionType
    <2> HIDE DEF T
    <2>3. \A i \in 1 .. Len(E) : i = 1 \/ (i = 2 /\ Len(T) = 2)
      BY <1>1
    <2>4. "action.executed" \notin ResolutionType
      BY DEF ResolutionType
    <2>5. \A t \in ResolutionType : t # "action.approval_requested"
      BY DEF ResolutionType
    <2>6. \A i \in 1 .. Len(E) : /\ (E[i].type \in ResolutionType) => (i = 1)
                                 /\ E[i].type # "action.approval_requested"
      BY <1>3, <2>2, <2>3, <2>4, <2>5
    <2>7. E[1].type \in ResolutionType /\ E[1].approval = a /\ E[1] \in ToSet(E)
      BY <1>3, <1>4, <1>5, <2>2 DEF ApprovalOf
    <2>8. Resolved(E) = {E[1]}
      BY <1>4, <2>6, <2>7, ResolutionIs DEF Resolved
    <2>9. Requested(E) = {}
      BY <1>4, <2>6 DEF Requested
    <2> QED
      BY <1>5, <2>1, <2>6, <2>7, <2>8, <2>9 DEF E
  <1>6. CASE c.op.kind # "resolve-approval"
    <2>1. \/ T = <<"checkpoint.created">> \/ T = <<"run.completed">> \/ T = <<"clock.advanced">>
          \/ T = <<"inject.triggered", "participant.status_changed">>
          \/ T = <<"action.rejected">>
          \/ /\ c.op.kind = "submit-action" /\ s.able
             /\ T = <<"action.proposed", "action.approval_requested">>
      BY <1>2, <1>6, TypesCases
    <2> DEFINE asks == c.op.kind = "submit-action" /\ s.able
    <2>2. /\ T[1] \notin ResolutionType /\ T[1] # "action.approval_requested"
          /\ (Len(T) = 2) => /\ T[2] \notin ResolutionType
                             /\ (T[2] = "action.approval_requested") => asks
      BY <2>1 DEF ResolutionType
    <2> HIDE DEF T, asks
    <2>3. \A i \in 1 .. Len(E) : i = 1 \/ (i = 2 /\ Len(T) = 2)
      BY <1>1
    <2>4. \A i \in 1 .. Len(E) : /\ E[i].type \notin ResolutionType
                                 /\ (E[i].type = "action.approval_requested") => asks
      BY <1>3, <2>2, <2>3
    <2>5. Resolved(E) = {}
      BY <1>4, <2>4, ResolutionIs DEF Resolved
    <2>6. asks => ApprovalOf(c) = c.command
      BY DEF asks, ApprovalOf
    <2>7. Requested(E) \subseteq (IF asks THEN {c.command} ELSE {})
      BY <1>3, <1>4, <2>4, <2>6 DEF Requested
    <2> QED
      BY <1>6, <2>4, <2>5, <2>7 DEF E, asks
  <1> QED
    BY <1>5, <1>6

\* The resolutions in the stream, and what they resolve, after a step that
\* appends events.
LEMMA WriteResolves ==
  ASSUME LogInv, NEW r \in Requests, NEW c, Writes(r, c)
  PROVE  LET E == Effects(Now, c)
         IN  /\ \A n \in Resolutions : n \in Resolutions' /\ log'[n] = log[n]
             /\ \A n \in Resolutions' \ Resolutions :
                  /\ n - Len(log) \in 1 .. Len(E) /\ log'[n] = E[n - Len(log)]
                  /\ E[n - Len(log)].type \in ResolutionType
             /\ (E[1].type \in ResolutionType) =>
                  /\ Len(log) + 1 \in Resolutions' /\ log'[Len(log) + 1] = E[1]
                  /\ Len(log) + 1 \notin Resolutions
  <1> DEFINE E == Effects(Now, c)
  <1>1. /\ log \in Seq(StreamEvent) /\ Len(log) \in Nat /\ Len(E) \in 1 .. 2
        /\ Len(log') = Len(log) + Len(E)
        /\ \A i \in 1 .. Len(log) : log'[i] = log[i]
        /\ \A i \in 1 .. Len(E) : log'[Len(log) + i] = E[i]
        /\ \A i \in 1 .. Len(log') \ 1 .. Len(log) :
             i - Len(log) \in 1 .. Len(E) /\ log'[i] = E[i - Len(log)]
    <2>1. log \in Seq(StreamEvent) /\ Len(log) \in Nat
      BY DEF LogInv
    <2>2. /\ Len(E) \in 1 .. 2 /\ Len(log') = Len(log) + Len(E)
          /\ \A i \in 1 .. Len(log) : log'[i] = log[i]
          /\ \A i \in 1 .. Len(E) : log'[Len(log) + i] = E[i]
          /\ \A i \in 1 .. Len(log') \ 1 .. Len(log) :
               i - Len(log) \in 1 .. Len(E) /\ log'[i] = E[i - Len(log)]
      BY WriteExtends
    <2> HIDE DEF E
    <2> QED
      BY <2>1, <2>2
  <1> HIDE DEF E
  <1>2. /\ Resolutions = {n \in 1 .. Len(log) : log[n].type \in ResolutionType}
        /\ Resolutions' = {n \in 1 .. Len(log') : log'[n].type \in ResolutionType}
    BY ResolutionIs DEF Resolutions
  <1>3. ASSUME NEW n \in Resolutions PROVE n \in Resolutions' /\ log'[n] = log[n]
    <2>1. n \in 1 .. Len(log) /\ n \in 1 .. Len(log') /\ log[n].type \in ResolutionType
      BY <1>1, <1>2
    <2> QED
      BY <1>1, <1>2, <2>1
  <1>4. ASSUME NEW n \in Resolutions' \ Resolutions
        PROVE  /\ n - Len(log) \in 1 .. Len(E) /\ log'[n] = E[n - Len(log)]
               /\ E[n - Len(log)].type \in ResolutionType
    <2>1. n \in 1 .. Len(log') /\ log'[n].type \in ResolutionType
      BY <1>2
    <2>2. n \notin 1 .. Len(log)
      BY <1>1, <1>2, <2>1
    <2> QED
      BY <1>1, <2>1, <2>2
  <1>5. ASSUME E[1].type \in ResolutionType
        PROVE  /\ Len(log) + 1 \in Resolutions' /\ log'[Len(log) + 1] = E[1]
               /\ Len(log) + 1 \notin Resolutions
    <2>1. 1 \in 1 .. Len(E) /\ Len(log) + 1 \in 1 .. Len(log') /\ Len(log) + 1 \notin 1 .. Len(log)
      <3>1. Len(log) \in Nat /\ Len(E) \in 1 .. 2 /\ Len(log') = Len(log) + Len(E)
        BY <1>1
      <3>2. \A a \in Nat : \A e \in 1 .. 2 :
              1 \in 1 .. e /\ a + 1 \in 1 .. a + e /\ a + 1 \notin 1 .. a
        OBVIOUS
      <3> QED
        BY <3>1, <3>2
    <2> QED
      BY <1>1, <1>2, <1>5, <2>1
  <1> QED
    BY <1>3, <1>4, <1>5 DEF E

\* The rows of an approval follow the stream when events are appended.
LEMMA WriteKeepsApprovals ==
  ASSUME LogInv, RowsInv, ApprovalIInv, NEW r \in Requests, NEW c, Writes(r, c)
  PROVE  ApprovalIInv'
  <1> DEFINE E == Effects(Now, c)
             b == c.op.approval
             k == Len(log) + 1
  <1>1. /\ c \in Command /\ c.command = r /\ Types(Now, c.op) # <<>> /\ Now \in StreamState
        /\ r \notin Now.commands
    BY NowIsState DEF Writes, NowInv, Duplicate
  <1>2. /\ approvals' = ApprovalRows(E) /\ decisions' = DecisionRows(E)
    BY DEF Writes, Write
  <1>3. /\ Now'.commands = Now.commands \cup {r}
        /\ Now'.pending =
             IF c.op.kind = "submit-action" /\ Now.able THEN Now.pending \cup {c.command}
             ELSE IF c.op.kind = "resolve-approval" THEN Now.pending \ {b}
             ELSE Now.pending
    <2>1. Now' = Replay(Now, E)
      BY WriteExtends
    <2>2. /\ Replay(Now, E).commands = Now.commands \cup {c.command}
          /\ Replay(Now, E).pending =
               IF c.op.kind = "submit-action" /\ Now.able THEN Now.pending \cup {c.command}
               ELSE IF c.op.kind = "resolve-approval" THEN Now.pending \ {b}
               ELSE Now.pending
      BY <1>1, EffectsState
    <2> HIDE DEF E, b
    <2> QED
      BY <1>1, <2>1, <2>2
  <1>4. /\ \A n \in Resolutions : n \in Resolutions' /\ log'[n] = log[n]
        /\ \A n \in Resolutions' \ Resolutions :
             /\ n - Len(log) \in 1 .. Len(E) /\ log'[n] = E[n - Len(log)]
             /\ E[n - Len(log)].type \in ResolutionType
        /\ (E[1].type \in ResolutionType) =>
             k \in Resolutions' /\ log'[k] = E[1] /\ k \notin Resolutions
    BY WriteResolves
  <1>5. \/ /\ c.op.kind = "resolve-approval" /\ b \in Approvals /\ b \in Now.pending
           /\ E[1] \in ToSet(E) /\ E[1].approval = b /\ E[1].type \in ResolutionType
           /\ Resolved(E) = {E[1]} /\ Requested(E) = {}
           /\ \A i \in 1 .. Len(E) : (E[i].type \in ResolutionType) => (i = 1)
        \/ /\ c.op.kind # "resolve-approval"
           /\ Resolved(E) = {}
           /\ Requested(E) \subseteq
                (IF c.op.kind = "submit-action" /\ Now.able THEN {c.command} ELSE {})
           /\ \A i \in 1 .. Len(E) : E[i].type \notin ResolutionType
    BY <1>1, Settles
  <1>6. Now.pending \subseteq Now.commands /\ Len(log) \in Nat
    BY DEF ApprovalIInv, LogInv
  <1>7. \A n \in Resolutions :
          /\ log[n].approval \in Approvals /\ log[n].approval \in Now.commands
          /\ log[n].approval \notin Now.pending
          /\ decisions[log[n].approval] = Resolution[log[n].type]
          /\ \A m \in Resolutions : (log[m].approval = log[n].approval) => (m = n)
    BY DEF ApprovalIInv
  <1>8. \A a \in Approvals :
          /\ (decisions[a] # None) => (\E n \in Resolutions : log[n].approval = a)
          /\ approvals[a] \in Decision => approvals[a] = decisions[a]
          /\ (approvals[a] = "pending") => (a \in Now.pending)
    BY DEF ApprovalIInv
  <1>9. /\ "pending" \notin Decision /\ "absent" \notin Decision /\ None \notin Decision
    BY DEF Decision, None
  <1> HIDE DEF E, b
  <1>10. CASE /\ c.op.kind = "resolve-approval" /\ b \in Approvals /\ b \in Now.pending
              /\ E[1] \in ToSet(E) /\ E[1].approval = b /\ E[1].type \in ResolutionType
              /\ Resolved(E) = {E[1]} /\ Requested(E) = {}
              /\ \A i \in 1 .. Len(E) : (E[i].type \in ResolutionType) => (i = 1)
    <2> DEFINE d == Resolution[E[1].type]
    <2>1. /\ Now'.pending = Now.pending \ {b}
          /\ k \in Resolutions' /\ log'[k] = E[1] /\ k \notin Resolutions
      BY <1>3, <1>4, <1>10
    <2>2. ASSUME NEW n \in Resolutions' \ Resolutions PROVE n = k
      <3>1. n - Len(log) = 1 /\ n \in Nat
        BY <1>4, <1>10, <2>2 DEF Resolutions
      <3> QED
        BY <1>6, <3>1
    <2>3. decisions[b] = None
      BY <1>7, <1>8, <1>10
    <2>4. d \in Decision
      BY <1>10, ResolutionIs
    <2> HIDE DEF k
    <2>5. ASSUME NEW a \in Approvals
          PROVE  /\ decisions'[a] = IF a = b THEN d ELSE decisions[a]
                 /\ approvals'[a] = IF a = b /\ approvals[a] = "pending" THEN d ELSE approvals[a]
      <3>1. (\E e \in Resolved(E) : e.approval = a) <=> (a = b)
        BY <1>10
      <3>2. (a = b) => (ResolutionOf(E, a) = d)
        BY <1>10, RowsOf
      <3>3. decisions'[a] = IF a \in {e.approval : e \in Resolved(E)} /\ decisions[a] = None
                            THEN ResolutionOf(E, a) ELSE decisions[a]
        BY <1>2 DEF DecisionRows
      <3>4. approvals'[a] = IF a \in {e.approval : e \in Resolved(E)} /\ approvals[a] = "pending"
                            THEN ResolutionOf(E, a) ELSE approvals[a]
        BY <1>2, <1>10 DEF ApprovalRows
      <3> HIDE DEF d
      <3> QED
        BY <2>3, <3>1, <3>2, <3>3, <3>4
    <2> HIDE DEF d
    <2>6. Now'.pending \subseteq Now'.commands
      BY <1>3, <1>6, <2>1
    <2>7. ASSUME NEW n \in Resolutions'
          PROVE  /\ log'[n].approval \in Approvals /\ log'[n].approval \in Now'.commands
                 /\ log'[n].approval \notin Now'.pending
                 /\ decisions'[log'[n].approval] = Resolution[log'[n].type]
                 /\ \A m \in Resolutions' : (log'[m].approval = log'[n].approval) => (m = n)
      <3>1. \A m \in Resolutions : log'[m].approval = log[m].approval /\ log[m].approval # b
        BY <1>4, <1>7, <1>10
      <3>2. \A m \in Resolutions' : m \in Resolutions \/ m = k
        BY <2>2
      <3>3. log'[k].approval = b
        BY <1>10, <2>1
      <3>4. CASE n \in Resolutions
        BY <1>3, <1>4, <1>7, <2>1, <2>5, <3>1, <3>2, <3>3, <3>4
      <3>5. CASE n = k
        <4>1. b \in Now.commands
          BY <1>6, <1>10
        <4>2. decisions'[b] = d /\ d = Resolution[log'[k].type]
          BY <1>10, <2>1, <2>5 DEF d
        <4> QED
          BY <1>3, <1>10, <2>1, <3>1, <3>2, <3>3, <3>5, <4>1, <4>2
      <3> QED
        BY <3>2, <3>4, <3>5
    <2>8. ASSUME NEW a \in Approvals
          PROVE  /\ (decisions'[a] # None) => (\E n \in Resolutions' : log'[n].approval = a)
                 /\ approvals'[a] \in Decision => approvals'[a] = decisions'[a]
                 /\ (approvals'[a] = "pending") => (a \in Now'.pending)
      <3>1. CASE a = b
        <4>1. decisions'[a] = d /\ (\E n \in Resolutions' : log'[n].approval = a)
          BY <1>10, <2>1, <2>5, <3>1
        <4>2. approvals[a] \notin Decision
          BY <1>8, <1>9, <2>3, <3>1
        <4> QED
          BY <1>9, <2>4, <2>5, <3>1, <4>1, <4>2
      <3>2. CASE a # b
        <4>1. decisions'[a] = decisions[a] /\ approvals'[a] = approvals[a]
          BY <2>5, <3>2
        <4>2. (\E n \in Resolutions : log[n].approval = a) =>
                 (\E n \in Resolutions' : log'[n].approval = a)
          BY <1>4
        <4> QED
          BY <1>8, <2>1, <3>2, <4>1, <4>2
      <3> QED
        BY <3>1, <3>2
    <2> QED
      BY <2>6, <2>7, <2>8 DEF ApprovalIInv
  <1>11. CASE /\ c.op.kind # "resolve-approval"
              /\ Resolved(E) = {}
              /\ Requested(E) \subseteq
                   (IF c.op.kind = "submit-action" /\ Now.able THEN {c.command} ELSE {})
              /\ \A i \in 1 .. Len(E) : E[i].type \notin ResolutionType
    <2>1. /\ Requested(E) \subseteq Now'.pending /\ Now.pending \subseteq Now'.pending
          /\ Now'.pending \subseteq Now.pending \cup {r}
      BY <1>1, <1>3, <1>11
    <2>2. \A n \in Resolutions' : n \in Resolutions
      BY <1>4, <1>11
    <2>3. ASSUME NEW a \in Approvals
          PROVE  /\ decisions'[a] = decisions[a]
                 /\ approvals'[a] = IF a \in Requested(E) /\ approvals[a] = "absent"
                                    THEN "pending" ELSE approvals[a]
      BY <1>2, <1>11 DEF DecisionRows, ApprovalRows
    <2>4. Now'.pending \subseteq Now'.commands
      BY <1>3, <1>6, <2>1
    <2>5. ASSUME NEW n \in Resolutions'
          PROVE  /\ log'[n].approval \in Approvals /\ log'[n].approval \in Now'.commands
                 /\ log'[n].approval \notin Now'.pending
                 /\ decisions'[log'[n].approval] = Resolution[log'[n].type]
                 /\ \A m \in Resolutions' : (log'[m].approval = log'[n].approval) => (m = n)
      BY <1>1, <1>3, <1>4, <1>7, <2>1, <2>2, <2>3
    <2>6. ASSUME NEW a \in Approvals
          PROVE  /\ (decisions'[a] # None) => (\E n \in Resolutions' : log'[n].approval = a)
                 /\ approvals'[a] \in Decision => approvals'[a] = decisions'[a]
                 /\ (approvals'[a] = "pending") => (a \in Now'.pending)
      BY <1>4, <1>8, <1>9, <2>1, <2>3
    <2> QED
      BY <2>4, <2>5, <2>6 DEF ApprovalIInv
  <1> QED
    BY <1>5, <1>10, <1>11

\* The rows of an approval follow the stream in every step.
LEMMA StepKeepsApprovals ==
  ASSUME StoreIInv, Promises, ApprovalIInv, NEW r \in Requests, Step(r)
  PROVE  ApprovalIInv'
  <1>1. LogInv /\ RowsInv
    BY DEF StoreIInv
  <1>2. \/ Writes(r, CommandOf(r)) \/ MarkStale(r) \/ UNCHANGED stored
    BY CommitActs, LockedTickActs
       DEF Step, Issue, Repeat, Lose, GetApproval, GetRun, ReadRow, Decide, Conflict, Receive
  <1>3. CASE Writes(r, CommandOf(r))
    BY <1>1, <1>3, WriteKeepsApprovals
  <1>4. CASE MarkStale(r)
    <2>1. /\ UNCHANGED <<log, decisions>>
          /\ approvals' = [approvals EXCEPT ![requests[r].op.approval] =
                             IF @ = "pending" THEN "stale" ELSE @]
      BY <1>4 DEF MarkStale
    <2>2. approvals \in
            [Approvals -> {"absent", "pending", "approved", "denied", "expired", "stale"}]
      BY <1>1 DEF RowsInv
    <2>3. \A a \in Approvals :
            approvals'[a] = approvals[a] \/ (approvals'[a] = "stale" /\ approvals[a] = "pending")
      BY <2>1, <2>2
    <2>4. Now' = Now /\ Resolutions' = Resolutions
      BY <2>1 DEF Now, Resolutions
    <2>5. "stale" \notin Decision /\ "stale" # "pending"
      BY DEF Decision
    <2> QED
      BY <2>1, <2>3, <2>4, <2>5 DEF ApprovalIInv
  <1>5. CASE UNCHANGED stored
    <2>1. Now' = Now /\ Resolutions' = Resolutions /\ UNCHANGED <<log, decisions, approvals>>
      BY <1>5 DEF stored, Now, Resolutions
    <2> QED
      BY <2>1 DEF ApprovalIInv
  <1> QED
    BY <1>2, <1>3, <1>4, <1>5

-----------------------------------------------------------------------------
(* The theorems                                                             *)

LEMMA StepActs ==
  ASSUME StoreIInv, Promises, NEW r \in Requests, Step(r)
  PROVE  Acts(r) /\ PatientWith(r)
  BY IssueActs, RepeatActs, LoseActs, GetApprovalActs, GetRunActs, ReadRowActs, DecideActs,
     CommitActs, ConflictActs, LockedTickActs, MarkStaleActs DEF Step

LEMMA StepKeeps ==
  ASSUME StoreIInv, Promises, NEW r \in Requests, Acts(r), RowsInv'
  PROVE  StoreIInv' /\ Promises'
  <1>1. LogInv /\ SnapshotInv
    BY DEF StoreIInv
  <1>2. LogInv' /\ SnapshotInv'
    <2>1. CASE Stays
      <3>1. Now' = Now /\ \A n : StateAt(n)' = StateAt(n)
        BY <2>1 DEF Stays, Now, StateAt
      <3> QED
        BY <1>1, <2>1, <3>1 DEF LogInv, SnapshotInv, Stays
    <2>2. CASE Writes(r, CommandOf(r))
      BY <1>1, <2>2, WriteKeepsLog, WriteKeepsSnapshots
    <2> QED
      BY <2>1, <2>2 DEF Acts
  <1>3. ASSUME NEW q \in Requests PROVE RequestInv(q)' /\ RetryInv(q)' /\ AnswerInv(q)'
    <2>1. CASE q = r
      BY <2>1 DEF Acts
    <2>2. CASE q # r
      BY <2>2, OthersKeep DEF Acts, Others
    <2> QED
      BY <2>1, <2>2
  <1> QED
    BY <1>2, <1>3 DEF StoreIInv, Promises, Acts

LEMMA NothingHappens ==
  ASSUME StoreIInv, Promises, ApprovalIInv, UNCHANGED <<stored, requests>>, RowsInv'
  PROVE  StoreIInv' /\ Promises' /\ ApprovalIInv'
  <1>1. /\ UNCHANGED <<row, log, snapshots, approvals, decisions, requests>>
        /\ Now' = Now /\ Resolutions' = Resolutions /\ \A n : StateAt(n)' = StateAt(n)
        /\ \A q : Own(q)' = Own(q) /\ CommandOf(q)' = CommandOf(q) /\ Applied(q)' = Applied(q)
    BY DEF stored, Now, Resolutions, StateAt, Own, CommandOf, Applied
  <1>2. LogInv' /\ SnapshotInv' /\ ApprovalIInv'
    BY <1>1 DEF StoreIInv, LogInv, SnapshotInv, ApprovalIInv
  <1>3. ASSUME NEW q \in Requests PROVE RequestInv(q)' /\ RetryInv(q)' /\ AnswerInv(q)'
    <2>1. RequestInv(q) /\ RetryInv(q) /\ AnswerInv(q)
      BY DEF StoreIInv, Promises
    <2> QED
      BY <1>1, <2>1 DEF RequestInv, SeenInv, DecidedInv, RetryInv, AnswerInv
  <1> QED
    BY <1>1, <1>2, <1>3 DEF StoreIInv, Promises

\* The invariants hold in every state, whatever requests race, are repeated
\* or die.
THEOREM StoreInductive == Spec => [](StoreIInv /\ Promises /\ ApprovalIInv)
  <1>1. Init => StoreIInv /\ Promises /\ ApprovalIInv
    BY InitHolds
  <1>2. StoreIInv /\ Promises /\ ApprovalIInv /\ [Next]_vars
        => StoreIInv' /\ Promises' /\ ApprovalIInv'
    <2> SUFFICES ASSUME StoreIInv, Promises, ApprovalIInv, [Next]_vars
                 PROVE  StoreIInv' /\ Promises' /\ ApprovalIInv'
      OBVIOUS
    <2>1. RowsInv
      BY DEF StoreIInv
    <2>2. CASE TimePasses
      <3>1. RowsInv'
        BY <2>1, <2>2 DEF RowsInv, TimePasses, stored
      <3> QED
        BY <2>2, <3>1, NothingHappens DEF TimePasses
    <2>3. ASSUME NEW r \in Requests, Step(r)
          PROVE  StoreIInv' /\ Promises' /\ ApprovalIInv'
      BY <2>1, <2>3, StepRows, StepActs, StepKeeps, StepKeepsApprovals
    <2>4. CASE UNCHANGED vars
      <3>1. RowsInv'
        BY <2>1, <2>4 DEF RowsInv, vars
      <3> QED
        BY <2>4, <3>1, NothingHappens DEF vars, stored
    <2> QED
      BY <2>2, <2>3, <2>4 DEF Next
  <1> QED
    BY <1>1, <1>2, PTL DEF Spec

LEMMA InvStore == StoreIInv => StoreInv
  <1> SUFFICES ASSUME StoreIInv PROVE StoreInv
    OBVIOUS
  <1>1. LogInv /\ SnapshotInv /\ RowsInv /\ requests \in [Requests -> RequestType]
    BY DEF StoreIInv
  <1>2. row \in [status : {"running", "completed"}, version : Nat, sequence : Nat]
    <2>1. /\ row = RowOf(Now) /\ row.status \in {"running", "completed"}
          /\ row.version \in Nat /\ row.sequence = Len(log) /\ Len(log) \in Nat
      BY <1>1, NowIsState DEF LogInv, NowInv
    <2> QED
      BY <2>1 DEF RowOf
  <1>3. ASSUME NEW x \in snapshots
        PROVE  /\ x.sequence \in Nat /\ x.state.sequence \in Nat
               /\ x.state = Replay(Created, SubSeq(log, 1, x.sequence))
    <2>1. x.sequence \in 1 .. Len(log) /\ x.state = StateAt(x.sequence) /\ Len(log) \in Nat
      BY <1>1 DEF SnapshotInv, LogInv
    <2>2. StateAt(x.sequence).sequence = x.sequence
      BY <1>1, <2>1, PrefixState
    <2> QED
      BY <2>1, <2>2 DEF StateAt
  <1>4. TypeOK
    BY <1>1, <1>2, <1>3 DEF TypeOK, RowsInv, RequestType, AnswerType, AnswerStatus, Attempt
  <1>5. StoredStateIsStream
    BY <1>1, <1>3 DEF StoredStateIsStream, LogInv, Now
  <1> QED
    BY <1>4, <1>5 DEF StoreInv

\* StoreInv: between any two statements of any requests the tables are well
\* formed, the events are numbered without a gap, and the run row and every
\* snapshot are the state that the stream stands for.
THEOREM StoredStateFollowsStream == Spec => []StoreInv
  BY StoreInductive, InvStore, PTL

LEMMA InvAnswers == Promises => AnswersAreTrue
  <1> SUFFICES ASSUME Promises, NEW r \in Requests
               PROVE  CASE requests[r].answer.status = "accepted" ->
                             Own(r) \notin {{}, {"action.rejected"}}
                        [] requests[r].answer.status = "rejected" ->
                             Own(r) \in {{}, {"action.rejected"}, {"action.approval_expired"}}
                        [] requests[r].answer.status = "duplicate" ->
                             \/ Applied(requests[r].key)
                             \/ requests[r].op.kind = "advance-clock" /\ row.status = "completed"
                        [] OTHER -> TRUE
    BY DEF AnswersAreTrue
  <1> QED
    BY DEF Promises, AnswerInv

\* AnswersAreTrue: an accepted command has its events in the stream, a refused
\* one none but the record of the refusal or of the expiry, and a duplicate is
\* one whose key was applied before or a tick of a completed run.
THEOREM AnswersHold == Spec => []AnswersAreTrue
  BY StoreInductive, InvAnswers, PTL

LEMMA InvApprovals == ApprovalIInv => ApprovalsFollowStream
  <1> SUFFICES ASSUME ApprovalIInv PROVE ApprovalsFollowStream
    OBVIOUS
  <1>1. \A m, n \in Resolutions : log[m].approval = log[n].approval => m = n
    BY DEF ApprovalIInv
  <1>2. ASSUME NEW a \in Approvals
        PROVE  LET resolution ==
                     {Resolution[log[n].type] : n \in {m \in Resolutions : log[m].approval = a}}
               IN  /\ decisions[a] \in resolution \cup {None}
                   /\ (resolution # {}) => (decisions[a] # None)
                   /\ approvals[a] \in Decision => approvals[a] \in resolution
                   /\ approvals[a] = "pending" => a \in Replay(Created, log).pending
    <2> DEFINE resolution ==
                 {Resolution[log[n].type] : n \in {m \in Resolutions : log[m].approval = a}}
    <2>1. \A n \in Resolutions :
            /\ decisions[log[n].approval] = Resolution[log[n].type]
            /\ Resolution[log[n].type] \in Decision
      BY ResolutionIs DEF ApprovalIInv, Resolutions
    <2>2. None \notin Decision
      BY DEF None, Decision
    <2>3. /\ (decisions[a] # None) => (\E n \in Resolutions : log[n].approval = a)
          /\ approvals[a] \in Decision => approvals[a] = decisions[a]
          /\ (approvals[a] = "pending") => (a \in Now.pending)
      BY DEF ApprovalIInv
    <2>4. decisions[a] \in resolution \cup {None}
      BY <2>1, <2>3
    <2>5. (resolution # {}) => (decisions[a] # None)
      BY <2>1, <2>2
    <2> HIDE DEF resolution
    <2>6. approvals[a] \in Decision => approvals[a] \in resolution
      BY <2>2, <2>3, <2>4
    <2> QED
      BY <2>3, <2>4, <2>5, <2>6 DEF Now, resolution
  <1> QED
    BY <1>1, <1>2 DEF ApprovalsFollowStream

\* ApprovalsFollowStream: however many people decide on an approval at the same
\* time, the stream resolves it once, and its decision row and its own row
\* name that resolution.
THEOREM ApprovalsHold == Spec => []ApprovalsFollowStream
  BY StoreInductive, InvApprovals, PTL

\* ConflictTakesTwoCommits: resolveApproval's one retry is enough unless two
\* other commands are committed while it is under way.
THEOREM PatienceHolds == Spec => ConflictTakesTwoCommits
  <1> DEFINE Patient ==
               \A r \in Requests :
                 /\ requests[r].op.kind = "resolve-approval"
                 /\ requests'[r].answer.code = "RUN_VERSION_CONFLICT"
                 /\ requests[r].answer.code = None
                 => row.version >= requests[r].since + 2
  <1>1. StoreIInv /\ Promises /\ [Next]_vars => [Patient]_vars
    <2> SUFFICES ASSUME StoreIInv, Promises, Next, NEW r \in Requests,
                        requests[r].op.kind = "resolve-approval",
                        requests'[r].answer.code = "RUN_VERSION_CONFLICT",
                        requests[r].answer.code = None
                 PROVE  row.version >= requests[r].since + 2
      OBVIOUS
    <2>1. requests'[r] # requests[r]
      BY DEF None
    <2>2. PICK q \in Requests : Step(q)
      BY <2>1 DEF Next, TimePasses
    <2>3. q = r
      BY <2>1, <2>2, StepActs DEF Acts, Others
    <2> QED
      BY <2>2, <2>3, StepActs DEF PatientWith
  <1>2. [][Patient]_vars => ConflictTakesTwoCommits
    BY DEF ConflictTakesTwoCommits
  <1> QED
    BY <1>1, <1>2, StoreInductive, PTL DEF Spec

-----------------------------------------------------------------------------
(* The command log                                                          *)

asked == [r \in Requests |-> [key |-> requests[r].key, op |-> requests[r].op]]

\* The abstract specification has a kernel of its own, which is this one.
LEMMA SameKernel ==
  /\ Log!NotAsked = [key |-> None, op |-> NoOp] /\ Log!Op = Op
  /\ Log!Created = Created /\ Log!StartedLog = StartedLog
  /\ \A s, l : Log!Replay(s, l) = Replay(s, l)
  /\ \A s : Log!Version(s) = Version(s)
  /\ \A s, c : Log!Duplicate(s, c) <=> Duplicate(s, c)
  /\ \A s, op : Log!Types(s, op) = Types(s, op)
  /\ \A s, c : Log!Effects(s, c) = Effects(s, c)
  <1>1. /\ Log!NotAsked = [key |-> None, op |-> NoOp] /\ Log!Op = Op
    BY Zenon DEF Log!NotAsked, Log!None, None, Log!NoOp, NoOp, Log!Op, Op, Log!Approvals,
                 Approvals, Log!Decision, Decision
  <1>2. Log!Created = Created /\ Log!StartedLog = StartedLog
    BY Zenon DEF Log!Created, Created, Log!StartedLog, StartedLog, Log!Event, Event,
                 Log!None, None
  <1>3. \A s : Log!Version(s) = Version(s)
    BY Zenon DEF Log!Version, Version, Log!Cardinality, Cardinality
  <1>4. \A s, c : Log!Duplicate(s, c) <=> Duplicate(s, c)
    BY Zenon DEF Log!Duplicate, Duplicate
  <1>5. \A s, e : Log!Apply(s, e) = Apply(s, e)
    BY Zenon DEF Log!Apply, Apply, Log!None, None
  <1>6. ASSUME NEW s, NEW l PROVE Log!Replay(s, l) = Replay(s, l)
    BY <1>5, Zenon DEF Log!Replay, Replay, Log!Apply, Apply, Log!None, None
  <1>7. \A s, op : Log!Types(s, op) = Types(s, op)
    BY Zenon DEF Log!Types, Types, Log!Terminal, Terminal, Log!Resolving, Resolving
  <1>8. \A s, c : Log!Effects(s, c) = Effects(s, c)
    BY Zenon DEF Log!Effects, Effects, Log!Event, Event, Log!Types, Types, Log!Terminal, Terminal,
                 Log!Resolving, Resolving
  <1> QED
    BY <1>1, <1>6, <1>7, <1>8, <1>2, <1>3, <1>4

\* A step of a request asks for a command, lets one take effect, or does
\* nothing that the command log would tell.
LEMMA StepImplements ==
  ASSUME StoreIInv, Promises, NEW r \in Requests, Acts(r)
  PROVE  Log!Next \/ UNCHANGED <<log, asked>>
  <1>1. /\ requests' \in [Requests -> RequestType] /\ Others(r)
        /\ Stays \/ Writes(r, CommandOf(r))
    BY DEF Acts
  <1>2. ASSUME requests'[r].key = requests[r].key, requests'[r].op = requests[r].op
        PROVE  asked' = asked
    BY <1>1, <1>2 DEF asked, Others
  <1>3. asked[r] = [key |-> requests[r].key, op |-> requests[r].op]
    BY DEF asked
  <1>4. CASE /\ requests'[r].key = requests[r].key /\ requests'[r].op = requests[r].op
             /\ Stays
    BY <1>2, <1>4 DEF Stays
  <1>5. CASE /\ requests'[r].key = requests[r].key /\ requests'[r].op = requests[r].op
             /\ Writes(r, CommandOf(r))
    <2> DEFINE c == CommandOf(r)
               d == [command |-> r, key |-> asked[r].key, expected |-> Version(Now), op |-> c.op]
    <2>1. /\ c \in Command /\ c.command = r /\ ~ Duplicate(Now, c) /\ Types(Now, c.op) # <<>>
          /\ log' = log \o Effects(Now, c)
      BY <1>5 DEF Writes, Write
    <2>2. /\ LogInv /\ requests \in [Requests -> RequestType] /\ RequestInv(r)
      BY DEF StoreIInv
    <2>3. c.key = requests[r].key /\ c.key \in Requests /\ c.key # None
      BY <2>1, StoreAssumption DEF CommandOf, Command
    <2>4. requests[r].pc # "unused"
      BY <2>2, <2>3 DEF RequestInv, Unused
    <2>5. c.op \in Log!Decided(requests[r].op)
      BY <2>2, <2>4, CommandIs
    <2>6. log' # log
      BY <1>5, <2>2, WriteKeepsLog DEF LogInv
    <2>7. asked[r].key = c.key /\ asked[r].op = requests[r].op
      BY <1>3, <2>3
    <2>8. /\ d.command = c.command /\ d.key = c.key /\ d.op = c.op
      BY <2>1, <2>7
    <2>9. /\ ~ Log!Duplicate(Now, d) /\ Log!Types(Now, c.op) # <<>>
          /\ log' = log \o Log!Effects(Now, d)
      <3>1. ~ Duplicate(Now, d)
        BY <2>1, <2>8 DEF Duplicate
      <3>2. Effects(Now, d) = Effects(Now, c)
        <4> HIDE DEF d, c
        <4> QED
          BY <2>8, Zenon DEF Effects
      <3> HIDE DEF d, c
      <3> QED
        BY <2>1, <3>1, <3>2, SameKernel
    <2>10. Now = Log!Replay(Log!Created, log) /\ Version(Now) = Log!Version(Now)
      BY SameKernel DEF Now
    <2>11. asked[r] # Log!NotAsked
      BY <2>3, <2>7, SameKernel
    <2>12. Log!TakeEffect(r)
      <3>1. asked' = asked
        BY <1>2, <1>5
      <3> HIDE DEF c
      <3> QED
        BY <2>5, <2>6, <2>7, <2>9, <2>10, <2>11, <3>1 DEF Log!TakeEffect, asked
    <2> QED
      BY <2>12 DEF Log!Next
  <1>6. CASE /\ requests[r] = Unused /\ Stays
             /\ requests'[r].key \in Requests /\ requests'[r].op \in Op
    <2> DEFINE new == [key |-> requests'[r].key, op |-> requests'[r].op]
    <2>1. asked[r] = Log!NotAsked
      BY <1>3, <1>6, SameKernel DEF Unused
    <2>2. asked'[r] = new /\ asked' = [asked EXCEPT ![r] = new]
      BY <1>1 DEF asked, Others
    <2>3. new \in [key : Requests, op : Log!Op]
      BY <1>6, SameKernel
    <2>4. UNCHANGED log
      BY <1>6 DEF Stays
    <2>5. Log!Ask(r)
      <3> HIDE DEF new
      <3> QED
        BY <2>1, <2>2, <2>3, <2>4 DEF Log!Ask, asked
    <2> QED
      BY <2>5 DEF Log!Next
  <1> QED
    BY <1>1, <1>4, <1>5, <1>6 DEF Acts

\* ImplementsCommandLog: whichever requests race, are repeated or are lost, the
\* stream is the work of commands that took effect one at a time, each on the
\* state of the whole stream before it.
THEOREM StoreImplementsCommandLog == Spec => ImplementsCommandLog
  <1>1. Init => Log!Init
    <2> SUFFICES ASSUME Init PROVE Log!Init
      OBVIOUS
    <2>1. log = Log!StartedLog
      BY SameKernel DEF Init
    <2>2. asked = [r \in Requests |-> Log!NotAsked]
      BY SameKernel DEF Init, asked, Unused
    <2> QED
      BY <2>1, <2>2 DEF Log!Init, asked
  <1>2. StoreIInv /\ Promises /\ [Next]_vars => [Log!Next]_(<<log, asked>>)
    <2> SUFFICES ASSUME StoreIInv, Promises, [Next]_vars
                 PROVE  Log!Next \/ UNCHANGED <<log, asked>>
      OBVIOUS
    <2>1. CASE TimePasses
      BY <2>1 DEF TimePasses, stored, asked
    <2>2. ASSUME NEW r \in Requests, Step(r)
          PROVE  Log!Next \/ UNCHANGED <<log, asked>>
      BY <2>2, StepActs, StepImplements
    <2>3. CASE UNCHANGED vars
      BY <2>3 DEF vars, asked
    <2> QED
      BY <2>1, <2>2, <2>3 DEF Next
  <1>3. StoreIInv /\ Promises /\ [Next]_vars => [Log!Next]_(Log!logVars)
    BY <1>2 DEF asked, Log!logVars
  <1> QED
    BY <1>1, <1>3, StoreInductive, PTL DEF Spec, ImplementsCommandLog, Log!Spec
=============================================================================
