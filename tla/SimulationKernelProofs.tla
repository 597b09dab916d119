----------------------- MODULE SimulationKernelProofs -----------------------
(***************************************************************************)
(* What holds of the kernel for every scenario and every sequence of       *)
(* commands: its types, the well-formedness of the event stream, that an   *)
(* inject fires once, and that completion is final.                        *)
(*                                                                         *)
(* None of the three is inductive.  A command checks applied ids and keys, *)
(* fired injects and the status in the state, while the properties are     *)
(* about the stream, so that KernelInv says what the state knows of the    *)
(* stream: Consistent(state, log, Len(log)).  An exception puts the state  *)
(* back to base and drops the events of the call, so that the same has to  *)
(* hold of base and the prefix of the stream that belongs to it.  And the  *)
(* check of a key looks at the first key of a command only, so that the    *)
(* events of a command must be known to follow such a first one            *)
(* (KeysOpened, OpenCall).                                                 *)
(***************************************************************************)
EXTENDS KernelReplay, DataInduction, FiniteSetTheorems

\* The fields every event has.
LEMMA EventFields ==
  ASSUME NEW e \in Event
  PROVE  /\ e.sequence \in Nat /\ e.cause \in CommandIds \cup {None}
         /\ e.key \in EventKey /\ e.type \in EventType
  <1>1. \A T, D : e \in EventOf(T, D) =>
          /\ e.sequence \in Nat /\ e.cause \in CommandIds \cup {None}
          /\ e.key \in EventKey /\ e.type \in T
    BY DEF EventOf
  <1>2. e.sequence \in Nat /\ e.cause \in CommandIds \cup {None} /\ e.key \in EventKey
    BY <1>1, ZenonT(60) DEF Event
  <1>3. e.type \in EventType
    BY <1>1, ZenonT(60) DEF Event, EventType
  <1> QED
    BY <1>2, <1>3

\* The payload of an event, by its type.
LEMMA EventData ==
  ASSUME NEW e \in Event
  PROVE  /\ e.type = "clock.advanced" => e.data \in [minutes : Nat]
         /\ e.type = "state.changed" => e.data \in [path : Paths, value : Int]
         /\ e.type = "inject.scheduled" => e.data \in Schedule
         /\ e.type = "inject.triggered" =>
              e.data \in [inject : Injects, schedule : ScheduleId \cup {None}]
         /\ e.type = "participant.status_changed" =>
              e.data \in [participant : Participants, status : ParticipantStatus]
         /\ e.type = "action.approval_requested" => e.data \in Approval
         /\ e.type = "action.executed" =>
              e.data \in [participant : Participants, action : Actions]
  <1>1. \A T, D : e \in EventOf(T, D) => e.type \in T /\ e.data \in D
    BY DEF EventOf
  <1>2. \/ e.type \in {"run.created"} \/ e.type \in PlainType \/ e.type \in Resolutions
        \/ e.type \in {"clock.advanced"} /\ e.data \in [minutes : Nat]
        \/ e.type \in {"state.changed"} /\ e.data \in [path : Paths, value : Int]
        \/ e.type \in {"inject.scheduled"} /\ e.data \in Schedule
        \/ /\ e.type \in {"inject.triggered"}
           /\ e.data \in [inject : Injects, schedule : ScheduleId \cup {None}]
        \/ /\ e.type \in {"participant.status_changed"}
           /\ e.data \in [participant : Participants, status : ParticipantStatus]
        \/ e.type \in {"action.approval_requested"} /\ e.data \in Approval
        \/ /\ e.type \in {"action.executed"}
           /\ e.data \in [participant : Participants, action : Actions]
    BY <1>1, ZenonT(60) DEF Event
  <1> QED
    BY <1>2 DEF PlainType, Resolutions

\* The bookkeeping keeps the types, and the set of seen commands finite.
LEMMA StampedType ==
  ASSUME NEW s \in State, NEW e \in Event, IsFiniteSet(s.appliedCommandIds)
  PROVE  /\ Stamped(s, e) \in State
         /\ IsFiniteSet(Stamped(s, e).appliedCommandIds)
  <1> DEFINE ids == IF e.cause = None THEN s.appliedCommandIds
                    ELSE s.appliedCommandIds \cup {e.cause}
  <1>1. IsFiniteSet(ids)
    BY FS_AddElement
  <1>2. ids \subseteq CommandIds
    BY EventFields DEF State
  <1>3. Cardinality(ids) \in Nat
    BY <1>1, FS_CardinalityType
  <1> HIDE DEF ids
  <1> DEFINE version == IF e.cause = None THEN s.version ELSE Cardinality(ids)
             s1 == [s EXCEPT !.latestSequence = e.sequence]
             s2 == [s1 EXCEPT !.appliedCommandIds = ids]
             s3 == [s2 EXCEPT !.appliedKeys = s.appliedKeys \cup {e.key}]
             s4 == [s3 EXCEPT !.version = version]
             s5 == [s4 EXCEPT !.occurred = s.occurred \cup {e.type}]
  <1>4. Stamped(s, e) = s5
    BY DEF Stamped, ids
  <1>5. /\ version \in Nat
        /\ s.appliedKeys \cup {e.key} \subseteq EventKey
        /\ s.occurred \cup {e.type} \subseteq EventType
    BY <1>3, EventFields DEF State
  <1> HIDE DEF version
  <1>6. s1 \in State
    BY EventFields DEF State
  <1> HIDE DEF s1
  <1>7. s2 \in State
    BY <1>2, <1>6 DEF State
  <1> HIDE DEF s2
  <1>8. s3 \in State
    BY <1>5, <1>7 DEF State
  <1> HIDE DEF s3
  <1>9. s4 \in State
    BY <1>5, <1>8 DEF State
  <1> HIDE DEF s4
  <1>10. s5 \in State
    BY <1>5, <1>9 DEF State
  <1> QED
    <2>1. s5.appliedCommandIds = ids
      BY DEF State, s1, s2, s3, s4
    <2> QED
      BY <1>1, <1>4, <1>10, <2>1

\* The effect of an event on its own field of a stamped state.
Own(s, e, t) ==
  /\ t \in State
  /\ t.latestSequence = s.latestSequence /\ t.version = s.version
  /\ t.appliedCommandIds = s.appliedCommandIds /\ t.appliedKeys = s.appliedKeys
  /\ t.triggered = IF e.type = "inject.triggered" THEN s.triggered \cup {e.data.inject}
                   ELSE s.triggered
  /\ t.status = CASE e.type \in {"run.started", "run.resumed"} -> "running"
                  [] e.type = "run.paused" -> "paused"
                  [] e.type = "run.completed" -> "completed"
                  [] OTHER -> s.status

\* applyEvent keeps the types, and of the fields the invariant speaks of it only
\* touches the run status and the fired injects.
LEMMA ApplyEventOwn ==
  ASSUME NEW s0 \in State, NEW e \in Event, IsFiniteSet(s0.appliedCommandIds),
         e.type # "run.created"
  PROVE  Own(Stamped(s0, e), e, ApplyEvent(s0, e))
  <1> DEFINE s == Stamped(s0, e)
  <1>1. s \in State
    BY StampedType
  <1> HIDE DEF s
  <1>2. CASE e.type \in {"run.started", "run.resumed"}
    <2>1. ApplyEvent(s0, e) = [s EXCEPT !.status = "running", !.worldStatus = "running"]
      BY <1>2 DEF ApplyEvent, s, UpdateRunStatus
    <2> QED
      BY <1>1, <1>2, <2>1 DEF State, RunStatus, Own, s
  <1>3. CASE e.type = "run.paused"
    <2>1. ApplyEvent(s0, e) = [s EXCEPT !.status = "paused", !.worldStatus = "paused"]
      BY <1>3 DEF ApplyEvent, s, UpdateRunStatus
    <2> QED
      BY <1>1, <1>3, <2>1 DEF State, RunStatus, Own, s
  <1>4. CASE e.type = "run.completed"
    <2>1. ApplyEvent(s0, e) = [s EXCEPT !.status = "completed", !.worldStatus = "completed"]
      BY <1>4 DEF ApplyEvent, s, UpdateRunStatus
    <2> QED
      BY <1>1, <1>4, <2>1 DEF State, RunStatus, Own, s
  <1>5. CASE e.type = "clock.advanced"
    <2> DEFINE time == s.time + e.data.minutes
               world == [p \in Paths |-> IF p = ElapsedPath THEN time ELSE s.world[p]]
    <2>1. time \in Nat /\ world \in [Paths -> Int]
      BY <1>1, <1>5, EventData DEF State
    <2>2. ApplyEvent(s0, e) = [s EXCEPT !.time = time, !.world = world]
      BY <1>1, <1>5 DEF ApplyEvent, s, State
    <2> HIDE DEF time, world
    <2> QED
      BY <1>1, <1>5, <2>1, <2>2 DEF State, Own, s
  <1>6. CASE e.type = "state.changed"
    <2>1. e.data.path \in Paths /\ e.data.value \in Int
      BY <1>6, EventData
    <2> DEFINE world == [s.world EXCEPT ![e.data.path] = e.data.value]
    <2>2. ApplyEvent(s0, e) = [s EXCEPT !.world = world]
      BY <1>6 DEF ApplyEvent, s
    <2>3. world \in [Paths -> Int]
      BY <1>1, <2>1 DEF State
    <2> HIDE DEF world
    <2> QED
      BY <1>1, <1>6, <2>2, <2>3 DEF State, Own, s
  <1>7. CASE e.type = "inject.scheduled"
    <2>1. e.data \in Schedule
      BY <1>7, EventData
    <2>2. ApplyEvent(s0, e) = [s EXCEPT !.scheduled = s.scheduled \cup {e.data}]
      BY <1>7 DEF ApplyEvent, s
    <2> QED
      BY <1>1, <1>7, <2>1, <2>2 DEF State, Own, s
  <1>8. CASE e.type = "inject.triggered"
    <2>1. e.data.inject \in Injects
      BY <1>8, EventData
    <2> DEFINE rest == {x \in s.scheduled : x.id # e.data.schedule}
    <2> DEFINE triggered == s.triggered \cup {e.data.inject}
    <2>2. ApplyEvent(s0, e) = [s EXCEPT !.triggered = triggered, !.scheduled = rest]
      BY <1>8 DEF ApplyEvent, s
    <2>3. rest \subseteq Schedule /\ triggered \subseteq Injects
      BY <1>1, <2>1 DEF State
    <2>4. triggered = s.triggered \cup {e.data.inject}
      OBVIOUS
    <2> HIDE DEF rest, triggered
    <2>5. ApplyEvent(s0, e) \in State
      BY <1>1, <2>2, <2>3 DEF State
    <2>6. ApplyEvent(s0, e).triggered = triggered
      BY <1>1, <2>2 DEF State
    <2> QED
      BY <1>1, <1>8, <2>2, <2>4, <2>5, <2>6 DEF State, Own, s
  <1>9. CASE e.type = "participant.status_changed"
    <2>1. e.data.participant \in Participants /\ e.data.status \in ParticipantStatus
      BY <1>9, EventData
    <2> DEFINE participants == [s.participants EXCEPT ![e.data.participant] = e.data.status]
    <2>2. ApplyEvent(s0, e) = [s EXCEPT !.participants = participants]
      BY <1>9 DEF ApplyEvent, s
    <2>3. participants \in [Participants -> ParticipantStatus]
      BY <1>1, <2>1 DEF State
    <2> HIDE DEF participants
    <2> QED
      BY <1>1, <1>9, <2>2, <2>3 DEF State, Own, s
  <1>10. CASE e.type = "action.approval_requested"
    <2>1. e.data \in Approval
      BY <1>10, EventData
    <2>2. ApplyEvent(s0, e) = [s EXCEPT !.pending = @ \cup {e.data}]
      BY <1>10 DEF ApplyEvent, s
    <2> QED
      BY <1>1, <1>10, <2>1, <2>2 DEF State, Own, s
  <1>11. CASE e.type \in Resolutions
    <2> DEFINE rest == {a \in s.pending : a.approvalId # e.data.approvalId}
    <2>1. ApplyEvent(s0, e) = [s EXCEPT !.pending = rest]
      BY <1>11 DEF ApplyEvent, s, ResolveOpen, Resolutions
    <2>2. rest \subseteq Approval
      BY <1>1 DEF State
    <2> HIDE DEF rest
    <2> QED
      BY <1>1, <1>11, <2>1, <2>2 DEF State, Own, s, Resolutions
  <1>12. CASE e.type = "action.executed"
    <2> DEFINE k == <<e.data.participant, e.data.action>>
    <2>1. k \in Participants \X Actions
      BY <1>12, EventData
    <2> DEFINE counts == [s.actionCounts EXCEPT ![k] = s.actionCounts[k] + 1]
    <2>2. ApplyEvent(s0, e) = [s EXCEPT !.actionCounts = counts]
      BY <1>12 DEF ApplyEvent, s
    <2> HIDE DEF k
    <2>3. counts \in [Participants \X Actions -> Nat]
      <3>1. /\ s.actionCounts \in [Participants \X Actions -> Nat]
            /\ s.actionCounts[k] + 1 \in Nat
        BY <1>1, <2>1 DEF State
      <3> QED
        BY <2>1, <3>1
    <2> HIDE DEF counts
    <2> QED
      BY <1>1, <1>12, <2>2, <2>3 DEF State, Own, s
  <1>13. CASE e.type \in {"action.proposed", "action.rejected", "signal.emitted",
                          "metric.recorded", "checkpoint.created", "branch.created"}
    <2>1. ApplyEvent(s0, e) = s
      BY <1>13 DEF ApplyEvent, s
    <2> QED
      BY <1>1, <1>13, <2>1 DEF Own, s
  <1>14. e.type \in EventType
    BY EventFields
  <1> QED
    BY <1>2, <1>3, <1>4, <1>5, <1>6, <1>7, <1>8, <1>9, <1>10, <1>11, <1>12, <1>13, <1>14
    DEF EventType, PlainType, Resolutions

-----------------------------------------------------------------------------
(* The stream and the state that belongs to its first n events              *)

\* A command's first event has key <<k, 0>>, and comes before its others.
KeysOpened(l) ==
  \A i \in 1 .. Len(l), k \in Keys, n \in Nat :
    l[i].key = <<k, n>> => \E j \in 1 .. i : l[j].key = <<k, 0>>

\* What holds of the stream itself; every part speaks of single events or of
\* pairs, so that it also holds of every prefix.
StreamInv(l) ==
  /\ \A i \in 1 .. Len(l) : l[i].sequence = i
  /\ \A i, j \in 1 .. Len(l) : i # j => l[i].key # l[j].key
  /\ KeysOpened(l)
  /\ \A i, j \in 1 .. Len(l) :
       i # j /\ l[i].type = "inject.triggered" /\ l[j].type = "inject.triggered"
         => l[i].data.inject # l[j].data.inject
  /\ l[1].data # NoData =>
       \A i \in 1 .. Len(l) : l[i].type = "inject.triggered"
         => l[i].data.inject \notin l[1].data.inherited.triggered
  /\ \A i, j \in 1 .. Len(l) : l[i].type = "run.completed" /\ j > i
         => l[j].type \in {"checkpoint.created", "branch.created"}

\* s has taken in exactly the first n events of l.
Consistent(s, l, n) ==
  /\ IsFiniteSet(s.appliedCommandIds)
  /\ s.latestSequence = n
  /\ s.appliedKeys = {l[i].key : i \in 1 .. n}
  /\ s.appliedCommandIds = {l[i].cause : i \in 1 .. n} \ {None}
  /\ s.version = Cardinality(s.appliedCommandIds)
  /\ \A i \in 1 .. n : l[i].type = "inject.triggered" => l[i].data.inject \in s.triggered
  /\ l[1].data # NoData => l[1].data.inherited.triggered \subseteq s.triggered
  /\ \A i \in 1 .. n : l[i].type = "run.completed" => s.status = "completed"

\* An append that execute may make after l in state s.
MayFollow(s, l, e) ==
  /\ e.type # "run.created" /\ e.cause \in CommandIds
  /\ e.sequence = s.latestSequence + 1
  /\ \A i \in 1 .. Len(l) : l[i].key # e.key
  /\ \E k \in Keys, n \in Nat :
       e.key = <<k, n>> /\ (n = 0 \/ \E j \in 1 .. Len(l) : l[j].key = <<k, 0>>)
  /\ e.type = "inject.triggered" => e.data.inject \notin s.triggered
  /\ Terminal(s) => e.type \in {"checkpoint.created", "branch.created"}

\* Appending leaves the earlier events where they are.
LEMMA AppendedLog ==
  ASSUME NEW l \in Seq(Event), NEW e \in Event
  PROVE  /\ Append(l, e) \in Seq(Event) /\ Len(Append(l, e)) = Len(l) + 1
         /\ \A i \in 1 .. Len(l) : Append(l, e)[i] = l[i]
         /\ Append(l, e)[Len(l) + 1] = e
OBVIOUS

\* A state that belongs to a prefix still does when the stream grows.
LEMMA PrefixGrows ==
  ASSUME NEW l, NEW m, NEW n \in Nat \ {0}, NEW s, Consistent(s, l, n),
         \A i \in 1 .. n : m[i] = l[i]
  PROVE  Consistent(s, m, n)
  <1>1. m[1] = l[1]
    OBVIOUS
  <1>2. {m[i].key : i \in 1 .. n} = {l[i].key : i \in 1 .. n}
    OBVIOUS
  <1>3. {m[i].cause : i \in 1 .. n} = {l[i].cause : i \in 1 .. n}
    OBVIOUS
  <1> QED
    BY <1>1, <1>2, <1>3 DEF Consistent

\* The stream stays well formed when an event that may follow is appended.
LEMMA StreamGrows ==
  ASSUME NEW l \in Seq(Event), Len(l) > 0, StreamInv(l),
         NEW s \in State, Consistent(s, l, Len(l)),
         NEW e \in Event, MayFollow(s, l, e)
  PROVE  StreamInv(Append(l, e))
  <1> DEFINE m == Append(l, e)
             n == Len(l)
  <1>1. /\ n \in Nat \ {0} /\ Len(m) = n + 1 /\ m[n + 1] = e
        /\ \A i \in 1 .. n : m[i] = l[i]
    BY AppendedLog
  <1>2. \A i \in 1 .. n + 1 : i \in 1 .. n \/ i = n + 1
    BY <1>1
  <1>3. m[1] = l[1]
    BY <1>1
  <1> HIDE DEF m, n
  <1>4. \A i \in 1 .. n + 1 : m[i].sequence = i
    BY <1>1, <1>2 DEF StreamInv, MayFollow, Consistent, n
  <1>5. \A i, j \in 1 .. n + 1 : i # j => m[i].key # m[j].key
    BY <1>1, <1>2 DEF StreamInv, MayFollow, n
  <1>6. \A i \in 1 .. n + 1, k \in Keys, x \in Nat :
          m[i].key = <<k, x>> => \E j \in 1 .. i : m[j].key = <<k, 0>>
    <2>1. TAKE i \in 1 .. n + 1, k \in Keys, x \in Nat
    <2>2. HAVE m[i].key = <<k, x>>
    <2>3. CASE i \in 1 .. n
      <3>1. PICK j \in 1 .. i : l[j].key = <<k, 0>>
        <4>1. KeysOpened(l) /\ l[i].key = <<k, x>> /\ i \in 1 .. Len(l)
          BY <1>1, <2>2, <2>3 DEF StreamInv, n
        <4> QED
          BY <4>1 DEF KeysOpened
      <3> QED
        BY <1>1, <2>3, <3>1
    <2>4. CASE i = n + 1
      <3>1. x = 0 \/ \E j \in 1 .. n : l[j].key = <<k, 0>>
        BY <1>1, <2>2, <2>4 DEF MayFollow, n
      <3> QED
        BY <1>1, <2>2, <2>4, <3>1
    <2> QED
      BY <1>2, <2>3, <2>4
  <1>7. \A i, j \in 1 .. n + 1 :
          i # j /\ m[i].type = "inject.triggered" /\ m[j].type = "inject.triggered"
            => m[i].data.inject # m[j].data.inject
    <2>1. \A i \in 1 .. n : m[i].type = "inject.triggered" /\ e.type = "inject.triggered"
                             => m[i].data.inject # e.data.inject
      BY <1>1 DEF Consistent, MayFollow, n
    <2>2. \A i, j \in 1 .. n :
          i # j /\ m[i].type = "inject.triggered" /\ m[j].type = "inject.triggered"
            => m[i].data.inject # m[j].data.inject
      BY <1>1 DEF StreamInv, n
    <2> QED
      BY <1>1, <1>2, <2>1, <2>2
  <1>8. m[1].data # NoData =>
          \A i \in 1 .. n + 1 : m[i].type = "inject.triggered"
            => m[i].data.inject \notin m[1].data.inherited.triggered
    BY <1>1, <1>2, <1>3 DEF StreamInv, Consistent, MayFollow, n
  <1>9. \A i, j \in 1 .. n + 1 : m[i].type = "run.completed" /\ j > i
          => m[j].type \in {"checkpoint.created", "branch.created"}
    <2>1. TAKE i, j \in 1 .. n + 1
    <2>2. HAVE m[i].type = "run.completed" /\ j > i
    <2>3. i \in 1 .. n
      BY <1>1, <2>2
    <2>4. CASE j \in 1 .. n
      BY <1>1, <2>2, <2>3, <2>4 DEF StreamInv, n
    <2>5. CASE j = n + 1
      BY <1>1, <2>2, <2>3, <2>5 DEF Consistent, MayFollow, Terminal, n
    <2> QED
      BY <1>2, <2>4, <2>5
  <1> QED
    BY <1>1, <1>4, <1>5, <1>6, <1>7, <1>8, <1>9 DEF StreamInv, KeysOpened, m

\* ... and the state the event is applied to goes along with it.
LEMMA StateGrows ==
  ASSUME NEW l \in Seq(Event), Len(l) > 0,
         NEW s \in State, Consistent(s, l, Len(l)),
         NEW e \in Event, MayFollow(s, l, e)
  PROVE  /\ ApplyEvent(s, e) \in State
         /\ Consistent(ApplyEvent(s, e), Append(l, e), Len(l) + 1)
  <1> DEFINE m == Append(l, e)
             n == Len(l)
             t == ApplyEvent(s, e)
             u == Stamped(s, e)
  <1>1. /\ n \in Nat \ {0} /\ Len(m) = n + 1 /\ m[n + 1] = e
        /\ \A i \in 1 .. n : m[i] = l[i]
    BY AppendedLog
  <1>2. \A i \in 1 .. n + 1 : i \in 1 .. n \/ i = n + 1
    BY <1>1
  <1>3. m[1] = l[1]
    BY <1>1
  <1>4. e.cause \in CommandIds /\ e.cause # None /\ e.type # "run.created"
    BY KernelAssumption DEF MayFollow
  <1>5. IsFiniteSet(s.appliedCommandIds)
    BY DEF Consistent
  <1>6. Own(u, e, t)
    BY <1>4, <1>5, ApplyEventOwn
  <1>7. IsFiniteSet(u.appliedCommandIds)
    BY <1>5, StampedType
  <1>8. /\ u.latestSequence = e.sequence
        /\ u.appliedCommandIds = s.appliedCommandIds \cup {e.cause}
        /\ u.appliedKeys = s.appliedKeys \cup {e.key}
        /\ u.version = Cardinality(u.appliedCommandIds)
        /\ u.triggered = s.triggered
        /\ u.status = s.status
    BY <1>4 DEF Stamped, State
  <1> HIDE DEF m, n, t, u
  <1>9. {m[i].key : i \in 1 .. n + 1} = {l[i].key : i \in 1 .. n} \cup {e.key}
    BY <1>1, <1>2
  <1>10. {m[i].cause : i \in 1 .. n + 1} = {l[i].cause : i \in 1 .. n} \cup {e.cause}
    BY <1>1, <1>2
  <1>11. t.latestSequence = n + 1
    BY <1>6, <1>8 DEF Own, MayFollow, Consistent, n
  <1>12. t.appliedKeys = {m[i].key : i \in 1 .. n + 1}
    BY <1>6, <1>8, <1>9 DEF Own, Consistent, n
  <1>13. /\ t.appliedCommandIds = {m[i].cause : i \in 1 .. n + 1} \ {None}
         /\ t.version = Cardinality(t.appliedCommandIds)
         /\ IsFiniteSet(t.appliedCommandIds)
    BY <1>4, <1>6, <1>7, <1>8, <1>10 DEF Own, Consistent, n
  <1>14. s.triggered \subseteq t.triggered
    BY <1>6, <1>8 DEF Own
  <1>15. \A i \in 1 .. n + 1 : m[i].type = "inject.triggered" => m[i].data.inject \in t.triggered
    BY <1>1, <1>2, <1>6, <1>8, <1>14 DEF Own, Consistent, n
  <1>16. m[1].data # NoData => m[1].data.inherited.triggered \subseteq t.triggered
    BY <1>3, <1>14 DEF Consistent, n
  <1>17. \A i \in 1 .. n + 1 : m[i].type = "run.completed" => t.status = "completed"
    <2>1. s.status = "completed" => t.status = "completed"
      BY <1>6, <1>8 DEF Own, MayFollow, Terminal
    <2>2. e.type = "run.completed" => t.status = "completed"
      BY <1>6 DEF Own
    <2> QED
      BY <1>1, <1>2, <2>1, <2>2 DEF Consistent, n
  <1>18. t \in State
    BY <1>6 DEF Own
  <1> QED
    BY <1>11, <1>12, <1>13, <1>15, <1>16, <1>17, <1>18 DEF Consistent, m, n, t

\* Cutting the stream back to a prefix keeps it well formed.
LEMMA StreamShrinks ==
  ASSUME NEW l \in Seq(Event), StreamInv(l), NEW n \in 1 .. Len(l)
  PROVE  /\ SubSeq(l, 1, n) \in Seq(Event) /\ Len(SubSeq(l, 1, n)) = n
         /\ \A i \in 1 .. n : SubSeq(l, 1, n)[i] = l[i]
         /\ StreamInv(SubSeq(l, 1, n))
  <1> DEFINE m == SubSeq(l, 1, n)
  <1>1. m \in Seq(Event) /\ Len(m) = n /\ \A i \in 1 .. n : m[i] = l[i]
    OBVIOUS
  <1>2. 1 .. n \subseteq 1 .. Len(l) /\ m[1] = l[1]
    BY <1>1
  <1> HIDE DEF m
  <1>3. \A i \in 1 .. n, k \in Keys, x \in Nat :
          m[i].key = <<k, x>> => \E j \in 1 .. i : m[j].key = <<k, 0>>
    <2>1. TAKE i \in 1 .. n, k \in Keys, x \in Nat
    <2>2. HAVE m[i].key = <<k, x>>
    <2>3. KeysOpened(l) /\ l[i].key = <<k, x>> /\ i \in 1 .. Len(l)
      BY <1>1, <1>2, <2>2 DEF StreamInv
    <2>4. PICK j \in 1 .. i : l[j].key = <<k, 0>>
      BY <2>3 DEF KeysOpened
    <2> QED
      BY <1>1, <2>4
  <1>4. /\ \A i \in 1 .. n : m[i].sequence = i
        /\ \A i, j \in 1 .. n : i # j => m[i].key # m[j].key
    BY <1>1, <1>2 DEF StreamInv
  <1>5. \A i, j \in 1 .. n :
          i # j /\ m[i].type = "inject.triggered" /\ m[j].type = "inject.triggered"
            => m[i].data.inject # m[j].data.inject
    BY <1>1, <1>2 DEF StreamInv
  <1>6. m[1].data # NoData =>
          \A i \in 1 .. n : m[i].type = "inject.triggered"
            => m[i].data.inject \notin m[1].data.inherited.triggered
    BY <1>1, <1>2 DEF StreamInv
  <1>7. \A i, j \in 1 .. n : m[i].type = "run.completed" /\ j > i
          => m[j].type \in {"checkpoint.created", "branch.created"}
    BY <1>1, <1>2 DEF StreamInv
  <1>8. StreamInv(m)
    BY <1>1, <1>3, <1>4, <1>5, <1>6, <1>7 DEF StreamInv, KeysOpened
  <1> QED
    BY <1>1, <1>8 DEF m

-----------------------------------------------------------------------------
(* The inductive invariant                                                  *)

\* The events of the open call follow those of base and carry its key.
OpenCall ==
  /\ base.latestSequence < Len(log)
  /\ \A i \in base.latestSequence + 1 .. Len(log) :
       log[i].key = <<call.key, i - base.latestSequence - 1>>

KernelInv ==
  /\ TypeOK
  /\ StreamInv(log)
  /\ base.latestSequence \in 1 .. Len(log)
  /\ Consistent(state, log, Len(log))
  /\ Consistent(base, log, base.latestSequence)
  /\ Idle => base = state
  /\ ~ Idle => OpenCall

\* An event that execute creates is well typed if its type and payload are.
LEMMA CreatedEvent ==
  ASSUME NEW s \in State, NEW type, NEW cause \in CommandIds, NEW key \in Keys \X Nat,
         NEW data,
         \/ type \in PlainType /\ data = NoData
         \/ type \in Resolutions /\ data \in [approvalId : CommandIds]
         \/ type = "clock.advanced" /\ data \in [minutes : Nat]
         \/ type = "state.changed" /\ data \in [path : Paths, value : Int]
         \/ type = "inject.scheduled" /\ data \in Schedule
         \/ type = "inject.triggered" /\ data \in [inject : Injects, schedule : ScheduleId \cup {None}]
         \/ /\ type = "participant.status_changed"
            /\ data \in [participant : Participants, status : ParticipantStatus]
         \/ type = "action.approval_requested" /\ data \in Approval
         \/ type = "action.executed" /\ data \in [participant : Participants, action : Actions]
  PROVE  /\ CreateEvent(s, type, cause, key, data) \in Event
         /\ type # "run.created"
  <1> DEFINE e == CreateEvent(s, type, cause, key, data)
  <1>1. \A T, D : type \in T /\ data \in D => e \in EventOf(T, D)
    BY DEF EventOf, CreateEvent, State, EventKey
  <1> HIDE DEF e
  <1>2. e \in Event
    BY <1>1, ZenonT(60) DEF Event
  <1>3. type # "run.created"
    BY DEF PlainType, Resolutions
  <1> QED
    BY <1>2, <1>3 DEF e

\* The first event of an admitted command may follow the stream.
LEMMA FirstMayFollow ==
  ASSUME KernelInv, NEW c, c.id \in CommandIds, c.key \in Keys, Admitted(c),
         NEW type, NEW data, type # "run.created",
         type = "inject.triggered" => data.inject \notin state.triggered,
         Terminal(state) => type \in {"checkpoint.created", "branch.created"}
  PROVE  MayFollow(state, log, CreateEvent(state, type, c.id, <<c.key, 0>>, data))
  <1> DEFINE e == CreateEvent(state, type, c.id, <<c.key, 0>>, data)
  <1>1. /\ e.type = type /\ e.cause = c.id /\ e.key = <<c.key, 0>> /\ e.data = data
        /\ e.sequence = state.latestSequence + 1
    BY DEF CreateEvent
  <1>2. <<c.key, 0>> \notin state.appliedKeys
    BY DEF Admitted, Seen
  <1>3. \A i \in 1 .. Len(log) : log[i].key # e.key
    BY <1>1, <1>2 DEF KernelInv, Consistent
  <1>4. \E k \in Keys, n \in Nat :
          e.key = <<k, n>> /\ (n = 0 \/ \E j \in 1 .. Len(log) : log[j].key = <<k, 0>>)
    BY <1>1
  <1> HIDE DEF e
  <1>5. MayFollow(state, log, e)
    BY <1>1, <1>3, <1>4 DEF MayFollow
  <1> QED
    BY <1>5 DEF e

\* A command that is begun opens a call behind the events of its base.
LEMMA BeginInv ==
  ASSUME KernelInv, NEW c, c.id \in CommandIds, c.key \in Keys, Admitted(c),
         NEW type, NEW data, NEW rest \in Seq(Effect), NEW settles \in BOOLEAN,
         CreateEvent(state, type, c.id, <<c.key, 0>>, data) \in Event,
         type # "run.created",
         type = "inject.triggered" => data.inject \notin state.triggered,
         Terminal(state) => type \in {"checkpoint.created", "branch.created"},
         Begin(c, type, data, rest, settles)
  PROVE  KernelInv'
  <1> DEFINE e == CreateEvent(state, type, c.id, <<c.key, 0>>, data)
  <1>1. MayFollow(state, log, e)
    BY FirstMayFollow
  <1>2. e.key = <<c.key, 0>>
    BY DEF CreateEvent
  <1>3. /\ state' = ApplyEvent(state, e) /\ log' = Append(log, e)
        /\ call' = [id |-> c.id, key |-> c.key, settles |-> settles]
        /\ todo' = rest /\ fired' = 0 /\ base' = base /\ outcome' = outcome
    BY DEF Begin
  <1> HIDE DEF e
  <1>4. /\ log \in Seq(Event) /\ state \in State /\ base = state
        /\ Len(log) \in Nat \ {0} /\ StreamInv(log) /\ Consistent(state, log, Len(log))
        /\ base.latestSequence = Len(log)
    BY DEF KernelInv, TypeOK, Admitted, Consistent
  <1>5. e \in Event
    BY DEF e
  <1>6. /\ Len(log') = Len(log) + 1 /\ log' \in Seq(Event) /\ log'[Len(log) + 1] = e
        /\ \A i \in 1 .. Len(log) : log'[i] = log[i]
    BY <1>3, <1>4, <1>5, AppendedLog
  <1>7. StreamInv(log')
    BY <1>1, <1>3, <1>4, <1>5, StreamGrows
  <1>8. state' \in State /\ Consistent(state', log', Len(log'))
    BY <1>1, <1>3, <1>4, <1>5, <1>6, StateGrows
  <1>9. Consistent(base', log', base'.latestSequence)
    <2>1. Consistent(state, log', Len(log))
      BY <1>4, <1>6, PrefixGrows
    <2> QED
      BY <1>3, <1>4, <2>1
  <1>10. TypeOK'
    BY <1>3, <1>6, <1>8, KernelAssumption DEF KernelInv, TypeOK
  <1>11. ~ Idle'
    BY <1>3, KernelAssumption DEF Idle, NoCall
  <1>12. OpenCall'
    BY <1>2, <1>3, <1>4, <1>6 DEF OpenCall
  <1>13. base'.latestSequence \in 1 .. Len(log')
    BY <1>3, <1>4, <1>6
  <1> QED
    BY <1>7, <1>8, <1>9, <1>10, <1>11, <1>12, <1>13 DEF KernelInv

\* A rejected attempt is kept in the stream and closes at once.
LEMMA RejectionInv ==
  ASSUME KernelInv, NEW c, c.id \in CommandIds, c.key \in Keys, Admitted(c),
         ~ Terminal(state), RecordActionRejection(c)
  PROVE  KernelInv'
  <1> DEFINE e == CreateEvent(state, "action.rejected", c.id, <<c.key, 0>>, NoData)
  <1>1. MayFollow(state, log, e)
    BY FirstMayFollow
  <1>2. state \in State /\ <<c.key, 0>> \in Keys \X Nat
    BY DEF KernelInv, TypeOK
  <1>3. e \in Event
    BY <1>2, CreatedEvent DEF PlainType
  <1>4. /\ state' = ApplyEvent(state, e) /\ log' = Append(log, e) /\ base' = state'
        /\ outcome' = [status |-> "rejected", code |-> "ACTION_NOT_ALLOWED"]
        /\ call' = call /\ todo' = todo /\ fired' = fired
    BY DEF RecordActionRejection
  <1> HIDE DEF e
  <1>5. /\ log \in Seq(Event) /\ state \in State /\ Idle
        /\ Len(log) \in Nat \ {0} /\ StreamInv(log) /\ Consistent(state, log, Len(log))
    BY DEF KernelInv, TypeOK, Admitted
  <1>6. Len(log') = Len(log) + 1 /\ log' \in Seq(Event)
    BY <1>3, <1>4, <1>5, AppendedLog
  <1>7. StreamInv(log')
    BY <1>1, <1>3, <1>4, <1>5, StreamGrows
  <1>8. state' \in State /\ Consistent(state', log', Len(log'))
    BY <1>1, <1>3, <1>4, <1>5, <1>6, StateGrows
  <1>9. base' = state' /\ base'.latestSequence = Len(log')
    BY <1>4, <1>8 DEF Consistent
  <1>10. TypeOK'
    BY <1>4, <1>6, <1>8 DEF KernelInv, TypeOK, Code
  <1>11. Idle'
    BY <1>4, <1>5 DEF Idle
  <1> QED
    BY <1>5, <1>6, <1>7, <1>8, <1>9, <1>10, <1>11 DEF KernelInv

\* A later append of the open call may follow the stream.
LEMMA LaterMayFollow ==
  ASSUME KernelInv, ~ Idle, ~ Terminal(state), NEW type, NEW data, type # "run.created",
         type = "inject.triggered" => data.inject \notin state.triggered
  PROVE  MayFollow(state, log,
           CreateEvent(state, type, call.id,
                       <<call.key, state.latestSequence - base.latestSequence>>, data))
  <1> DEFINE b == base.latestSequence
             n == state.latestSequence - b
             e == CreateEvent(state, type, call.id, <<call.key, n>>, data)
  <1>1. /\ e.type = type /\ e.cause = call.id /\ e.key = <<call.key, n>> /\ e.data = data
        /\ e.sequence = state.latestSequence + 1
    BY DEF CreateEvent
  <1>2. call.id \in CommandIds /\ call.key \in Keys
    BY DEF KernelInv, TypeOK, Idle
  <1>3. /\ state.latestSequence = Len(log) /\ b \in 1 .. Len(log) /\ b < Len(log)
        /\ \A i \in b + 1 .. Len(log) : log[i].key = <<call.key, i - b - 1>>
        /\ Len(log) \in Nat
    BY DEF KernelInv, Consistent, OpenCall, TypeOK
  <1>4. n \in Nat \ {0} /\ n = Len(log) - b
    BY <1>3
  <1>5. log[b + 1].key = <<call.key, 0>> /\ b + 1 \in 1 .. Len(log)
    BY <1>3
  <1>6. \A i \in 1 .. Len(log) : log[i].key # e.key
    <2>1. SUFFICES ASSUME NEW i \in 1 .. Len(log), log[i].key = <<call.key, n>> PROVE FALSE
      BY <1>1
    <2>2. CASE i \in b + 1 .. Len(log)
      BY <1>3, <1>4, <2>1, <2>2
    <2>3. CASE i \in 1 .. b
      <3>1. KeysOpened(log)
        BY DEF KernelInv, StreamInv
      <3>2. PICK j \in 1 .. i : log[j].key = <<call.key, 0>>
        BY <1>2, <1>4, <2>1, <3>1 DEF KeysOpened
      <3>3. j # b + 1 /\ j \in 1 .. Len(log)
        BY <1>3, <2>3
      <3> QED
        BY <1>5, <3>2, <3>3 DEF KernelInv, StreamInv
    <2> QED
      BY <1>3, <2>2, <2>3
  <1> HIDE DEF e
  <1>7. MayFollow(state, log, e)
    BY <1>1, <1>2, <1>4, <1>5, <1>6 DEF MayFollow
  <1> QED
    BY <1>7 DEF e

\* A later append of the open call keeps the invariant.
LEMMA AppendInv ==
  ASSUME KernelInv, ~ Idle, ~ Terminal(state), NEW type, NEW data,
         \A key \in Keys \X Nat : CreateEvent(state, type, call.id, key, data) \in Event,
         type # "run.created",
         type = "inject.triggered" => data.inject \notin state.triggered,
         AppendEvent(type, data), todo' \in Seq(Effect), fired' \in 0 .. MaxTriggerIterations,
         UNCHANGED <<base, call, outcome>>
  PROVE  KernelInv'
  <1> DEFINE n == state.latestSequence - base.latestSequence
             e == CreateEvent(state, type, call.id, <<call.key, n>>, data)
  <1>1. MayFollow(state, log, e)
    BY LaterMayFollow
  <1>2. e.key = <<call.key, n>>
    BY DEF CreateEvent
  <1>3. /\ state' = ApplyEvent(state, e) /\ log' = Append(log, e)
        /\ base' = base /\ call' = call /\ outcome' = outcome
    BY DEF AppendEvent
  <1>4. /\ log \in Seq(Event) /\ state \in State /\ Len(log) \in Nat \ {0}
        /\ StreamInv(log) /\ Consistent(state, log, Len(log))
        /\ Consistent(base, log, base.latestSequence)
        /\ base.latestSequence \in 1 .. Len(log) /\ state.latestSequence = Len(log)
        /\ OpenCall /\ call.key \in Keys
    BY DEF KernelInv, TypeOK, Consistent, Idle
  <1>5. n \in Nat /\ n = Len(log) - base.latestSequence
    BY <1>4
  <1>6. e \in Event
    BY <1>4, <1>5
  <1> HIDE DEF e
  <1>7. /\ Len(log') = Len(log) + 1 /\ log' \in Seq(Event) /\ log'[Len(log) + 1] = e
        /\ \A i \in 1 .. Len(log) : log'[i] = log[i]
    BY <1>3, <1>4, <1>6, AppendedLog
  <1>8. StreamInv(log')
    BY <1>1, <1>3, <1>4, <1>6, StreamGrows
  <1>9. state' \in State /\ Consistent(state', log', Len(log'))
    BY <1>1, <1>3, <1>4, <1>6, <1>7, StateGrows
  <1>10. Consistent(base', log', base'.latestSequence)
    <2>1. Consistent(base, log', base.latestSequence)
      <3>1. /\ base.latestSequence \in Nat \ {0}
            /\ \A i \in 1 .. base.latestSequence : log'[i] = log[i]
        BY <1>4, <1>7
      <3> QED
        BY <1>4, <3>1, PrefixGrows
    <2> QED
      BY <1>3, <2>1
  <1>11. TypeOK'
    BY <1>3, <1>7, <1>9 DEF KernelInv, TypeOK
  <1>12. ~ Idle'
    BY <1>3 DEF Idle
  <1>13. OpenCall'
    <2>1. \A i \in base.latestSequence + 1 .. Len(log) + 1 :
            log'[i].key = <<call.key, i - base.latestSequence - 1>>
      <3>1. TAKE i \in base.latestSequence + 1 .. Len(log) + 1
      <3>2. CASE i \in base.latestSequence + 1 .. Len(log)
        BY <1>4, <1>7, <3>2 DEF OpenCall
      <3>3. CASE i = Len(log) + 1
        BY <1>2, <1>4, <1>5, <1>7, <3>3
      <3> QED
        BY <1>4, <3>2, <3>3
    <2>2. base.latestSequence < Len(log) + 1
      BY <1>4
    <2>3. /\ base.latestSequence < Len(log')
          /\ \A i \in base.latestSequence + 1 .. Len(log') :
               log'[i].key = <<call.key, i - base.latestSequence - 1>>
      BY <1>7, <2>1, <2>2
    <2> HIDE DEF n
    <2> QED
      BY <1>3, <2>3 DEF OpenCall
  <1>14. base'.latestSequence \in 1 .. Len(log')
    BY <1>3, <1>4, <1>7
  <1> QED
    BY <1>8, <1>9, <1>10, <1>11, <1>12, <1>13, <1>14 DEF KernelInv

\* A returning call makes its state the base of the next one.
LEMMA ReturnInv == ASSUME KernelInv, Return PROVE KernelInv'
  <1>1. /\ state' = state /\ log' = log /\ base' = state /\ todo' = todo /\ fired' = 0
        /\ call' = NoCall /\ outcome' = [status |-> "accepted", code |-> None]
    BY DEF Return
  <1>2. TypeOK'
    BY <1>1, KernelAssumption DEF KernelInv, TypeOK, Code
  <1>3. Idle'
    BY <1>1 DEF Idle
  <1>4. state.latestSequence = Len(log) /\ Len(log) \in Nat /\ Len(log) > 0
    BY DEF KernelInv, Consistent, TypeOK
  <1> QED
    BY <1>1, <1>2, <1>3, <1>4 DEF KernelInv

\* A call that throws is undone: the stream is cut back to the base.
LEMMA ThrowInv ==
  ASSUME KernelInv, NEW reason \in Code, Throw(reason), todo = <<>>
  PROVE  KernelInv'
  <1> DEFINE b == base.latestSequence
  <1>1. /\ state' = base /\ base' = base /\ log' = SubSeq(log, 1, b) /\ todo' = todo
        /\ fired' = 0 /\ call' = NoCall /\ outcome' = [status |-> "error", code |-> reason]
    BY DEF Throw
  <1>2. /\ log \in Seq(Event) /\ StreamInv(log) /\ b \in 1 .. Len(log) /\ base \in State
        /\ Consistent(base, log, b) /\ b \in Nat \ {0}
    BY DEF KernelInv, TypeOK
  <1>3. /\ log' \in Seq(Event) /\ Len(log') = b /\ StreamInv(log')
        /\ \A i \in 1 .. b : log'[i] = log[i]
    BY <1>1, <1>2, StreamShrinks
  <1>4. Consistent(base, log', b)
    BY <1>2, <1>3, PrefixGrows
  <1>5. TypeOK'
    BY <1>1, <1>2, <1>3, KernelAssumption DEF KernelInv, TypeOK
  <1>6. Idle'
    BY <1>1 DEF Idle
  <1> QED
    BY <1>1, <1>2, <1>3, <1>4, <1>5, <1>6 DEF KernelInv

-----------------------------------------------------------------------------
(* The steps                                                                *)

\* The event of an effect is well typed, and is never an inject's trigger.
LEMMA EffectEvents ==
  ASSUME NEW s \in State, NEW x \in Effect, NEW cause \in CommandIds
  PROVE  /\ \A key \in Keys \X Nat :
              CreateEvent(s, EffectEvent(s, x).type, cause, key, EffectEvent(s, x).data) \in Event
         /\ EffectEvent(s, x).type # "run.created"
         /\ EffectEvent(s, x).type # "inject.triggered"
  <1> DEFINE y == EffectEvent(s, x)
  <1> SUFFICES /\ \A key \in Keys \X Nat : CreateEvent(s, y.type, cause, key, y.data) \in Event
               /\ y.type # "run.created" /\ y.type # "inject.triggered"
    OBVIOUS
  <1>1. \/ /\ x.kind = "set-state" /\ x.path \in Paths /\ x.value \in Int
        \/ /\ x.kind = "increment-state" /\ x.path \in Paths /\ x.amount \in Int
        \/ /\ x.kind = "schedule-inject" /\ x.inject \in Injects /\ x.delay \in Nat
        \/ /\ x.kind = "change-participant-status" /\ x.participant \in Participants
           /\ x.status \in ParticipantStatus
        \/ x.kind = "emit-signal" \/ x.kind = "record-metric" \/ x.kind = "complete-run"
        \/ /\ x.kind = "execute-action" /\ x.participant \in Participants
           /\ x.action \in Actions
        \/ x.kind = "request-approval" /\ x.approval \in Approval
    BY DEF Effect
  <1>2. /\ s.world \in [Paths -> Int] /\ s.latestSequence + 1 \in Nat /\ s.time \in Nat
    BY DEF State
  <1>3. ASSUME y.type # "inject.triggered",
               \/ y.type \in PlainType /\ y.data = NoData
               \/ y.type = "state.changed" /\ y.data \in [path : Paths, value : Int]
               \/ y.type = "inject.scheduled" /\ y.data \in Schedule
               \/ /\ y.type = "participant.status_changed"
                  /\ y.data \in [participant : Participants, status : ParticipantStatus]
               \/ y.type = "action.approval_requested" /\ y.data \in Approval
               \/ /\ y.type = "action.executed"
                  /\ y.data \in [participant : Participants, action : Actions]
        PROVE  /\ \A key \in Keys \X Nat : CreateEvent(s, y.type, cause, key, y.data) \in Event
               /\ y.type # "run.created" /\ y.type # "inject.triggered"
    <2> HIDE DEF y
    <2>1. y.type # "run.created"
      BY <1>3 DEF PlainType
    <2> QED
      BY <1>3, <2>1, CreatedEvent
  <1>4. CASE x.kind = "set-state"
    <2>1. y = [type |-> "state.changed", data |-> [path |-> x.path, value |-> x.value]]
      BY <1>4 DEF EffectEvent
    <2> HIDE DEF y
    <2> QED
      BY <1>1, <1>3, <1>4, <2>1
  <1>5. CASE x.kind = "increment-state"
    <2>1. y = [type |-> "state.changed",
               data |-> [path |-> x.path, value |-> s.world[x.path] + x.amount]]
      BY <1>5 DEF EffectEvent
    <2>2. s.world[x.path] + x.amount \in Int /\ x.path \in Paths
      BY <1>1, <1>2, <1>5
    <2> HIDE DEF y
    <2> QED
      BY <1>3, <2>1, <2>2
  <1>6. CASE x.kind = "schedule-inject"
    <2>1. y = [type |-> "inject.scheduled",
               data |-> [id |-> <<x.inject, s.latestSequence + 1>>, inject |-> x.inject,
                         due |-> s.time + x.delay]]
      BY <1>6 DEF EffectEvent
    <2>2. x.inject \in Injects /\ s.time + x.delay \in Nat
      BY <1>1, <1>2, <1>6
    <2> HIDE DEF y
    <2> QED
      BY <1>2, <1>3, <2>1, <2>2 DEF Schedule, ScheduleId
  <1>7. CASE x.kind = "change-participant-status"
    <2>1. y = [type |-> "participant.status_changed",
               data |-> [participant |-> x.participant, status |-> x.status]]
      BY <1>7 DEF EffectEvent
    <2> HIDE DEF y
    <2> QED
      BY <1>1, <1>3, <1>7, <2>1
  <1>8. CASE x.kind \in {"emit-signal", "record-metric", "complete-run"}
    <2>1. y.type \in {"signal.emitted", "metric.recorded", "run.completed"} /\ y.data = NoData
      BY <1>8 DEF EffectEvent
    <2> HIDE DEF y
    <2> QED
      BY <1>3, <2>1 DEF PlainType
  <1>9. CASE x.kind = "execute-action"
    <2>1. y = [type |-> "action.executed",
               data |-> [participant |-> x.participant, action |-> x.action]]
      BY <1>9 DEF EffectEvent
    <2> HIDE DEF y
    <2> QED
      BY <1>1, <1>3, <1>9, <2>1
  <1>10. CASE x.kind = "request-approval"
    <2>1. y = [type |-> "action.approval_requested", data |-> x.approval]
      BY <1>10 DEF EffectEvent
    <2> HIDE DEF y
    <2> QED
      BY <1>1, <1>3, <1>10, <2>1
  <1> QED
    BY <1>1, <1>4, <1>5, <1>6, <1>7, <1>8, <1>9, <1>10

\* One effect of the open call keeps the invariant.
LEMMA ApplyEffectInv == ASSUME KernelInv, ApplyEffect PROVE KernelInv'
  <1> DEFINE x == Head(todo)
             y == EffectEvent(state, x)
  <1>1. todo \in Seq(Effect) /\ todo # <<>> /\ state \in State /\ ~ Idle
    BY DEF KernelInv, TypeOK, ApplyEffect
  <1>2. x \in Effect /\ Tail(todo) \in Seq(Effect)
    BY <1>1
  <1>3. call.id \in CommandIds
    BY <1>1 DEF KernelInv, TypeOK, Idle
  <1>4. /\ \A key \in Keys \X Nat : CreateEvent(state, y.type, call.id, key, y.data) \in Event
        /\ y.type # "run.created" /\ y.type # "inject.triggered"
    BY <1>1, <1>2, <1>3, EffectEvents
  <1>5. /\ ~ Terminal(state) /\ AppendEvent(y.type, y.data) /\ todo' = Tail(todo)
        /\ UNCHANGED <<base, call, outcome>> /\ fired' = fired
    BY DEF ApplyEffect
  <1>6. fired' \in 0 .. MaxTriggerIterations
    BY <1>5 DEF KernelInv, TypeOK
  <1> HIDE DEF x, y
  <1> QED
    BY <1>1, <1>2, <1>4, <1>5, <1>6, AppendInv

\* An inject fires only if it has not fired before.
LEMMA FireInv ==
  ASSUME KernelInv, ~ Idle, ~ Terminal(state), fired < MaxTriggerIterations,
         NEW i \in Injects, i \notin state.triggered,
         NEW schedule \in ScheduleId \cup {None}, Fire(i, schedule)
  PROVE  KernelInv'
  <1> DEFINE data == InjectData(i, schedule)
  <1>1. /\ data \in [inject : Injects, schedule : ScheduleId \cup {None}]
        /\ data.inject \notin state.triggered
    BY DEF InjectData
  <1>2. call.id \in CommandIds /\ state \in State
    BY DEF KernelInv, TypeOK, Idle
  <1>3. /\ AppendEvent("inject.triggered", data) /\ todo' = InjectDef[i].effects
        /\ fired' = fired + 1 /\ UNCHANGED <<base, call, outcome>>
    BY DEF Fire
  <1>4. todo' \in Seq(Effect) /\ fired' \in 0 .. MaxTriggerIterations
    BY <1>3, KernelAssumption DEF KernelInv, TypeOK
  <1> HIDE DEF data
  <1>5. \A key \in Keys \X Nat :
          CreateEvent(state, "inject.triggered", call.id, key, data) \in Event
    BY <1>1, <1>2, CreatedEvent
  <1> QED
    BY <1>1, <1>3, <1>4, <1>5, AppendInv

\* Both rounds of runDueInjects choose injects that have not fired.
LEMMA SettlingInv == ASSUME KernelInv, FireScheduled \/ FireConditional PROVE KernelInv'
  <1>1. CASE FireScheduled
    <2>1. PICK x \in DueSchedules(state) : Fire(x.inject, x.id)
      BY <1>1 DEF FireScheduled
    <2>2. x \in Schedule /\ x.inject \notin state.triggered
      BY DEF DueSchedules, KernelInv, TypeOK, State
    <2>3. x.inject \in Injects /\ x.id \in ScheduleId
      BY <2>2 DEF Schedule
    <2> QED
      BY <1>1, <2>1, <2>2, <2>3, FireInv DEF FireScheduled, Settling
  <1>2. CASE FireConditional
    <2>1. PICK n \in 1 .. Len(InjectOrder) :
            InjectOrder[n] \in EligibleInjects(state) /\ Fire(InjectOrder[n], None)
      BY <1>2 DEF FireConditional
    <2>2. InjectOrder[n] \in Injects /\ InjectOrder[n] \notin state.triggered
      BY <2>1 DEF EligibleInjects
    <2> QED
      BY <1>2, <2>1, <2>2, FireInv DEF FireConditional, Settling
  <1> QED
    BY <1>1, <1>2

\* A step that leaves everything but the outcome and the rest of the effects.
LEMMA QuietInv ==
  ASSUME KernelInv, UNCHANGED <<state, log, base, call, fired>>,
         todo' \in Seq(Effect),
         outcome' \in [status : {None, "accepted", "rejected", "duplicate", "error"},
                       code : Code]
  PROVE  KernelInv'
BY DEF KernelInv, TypeOK, Idle, OpenCall

\* A rejected command changes nothing but the outcome.
LEMMA RejectInv ==
  ASSUME KernelInv, NEW code \in Code, Reject(code) PROVE KernelInv'
  <1>1. todo' \in Seq(Effect)
    BY DEF Reject, KernelInv, TypeOK
  <1> QED
    BY <1>1, QuietInv DEF Reject

\* The envelope of a command is well typed.
LEMMA EnvelopeType ==
  ASSUME KernelInv, NEW c \in Envelopes
  PROVE  c.id \in CommandIds /\ c.key \in Keys
  <1>1. state.appliedCommandIds \subseteq CommandIds /\ state.appliedKeys \subseteq EventKey
    BY DEF KernelInv, TypeOK, State
  <1>2. ASSUME NEW S, NEW T PROVE Fresh(S, T) \subseteq S
    BY DEF Fresh
  <1>3. UsedKeys \subseteq Keys
    BY <1>1 DEF UsedKeys, EventKey
  <1>4. /\ c.id \in state.appliedCommandIds \cup Fresh(CommandIds, state.appliedCommandIds)
        /\ c.key \in UsedKeys \cup Fresh(Keys, UsedKeys)
    BY DEF Envelopes
  <1> QED
    BY <1>1, <1>2, <1>3, <1>4

\* Executing an action is its event and the effects of its definition.
LEMMA ExecuteActionType ==
  ASSUME NEW p \in Participants, NEW a \in Actions
  PROVE  ExecuteAction(p, a) \in Seq(Effect)
  <1> DEFINE x == [kind |-> "execute-action", participant |-> p, action |-> a]
  <1>1. x \in Effect
    BY DEF Effect
  <1>2. ActionDef[a].effects \in Seq(Effect)
    BY KernelAssumption
  <1> HIDE DEF x
  <1>3. <<x>> \in Seq(Effect)
    BY <1>1
  <1>4. <<x>> \o ActionDef[a].effects \in Seq(Effect)
    BY <1>2, <1>3
  <1> QED
    BY <1>4 DEF ExecuteAction, x

\* A command that begins with an event without a payload.
LEMMA PlainBeginInv ==
  ASSUME KernelInv, NEW c \in Envelopes, Admitted(c), NEW type \in PlainType,
         NEW rest \in Seq(Effect), NEW settles \in BOOLEAN,
         Terminal(state) => type \in {"checkpoint.created", "branch.created"},
         Begin(c, type, NoData, rest, settles)
  PROVE  KernelInv'
  <1>1. c.id \in CommandIds /\ c.key \in Keys
    BY EnvelopeType
  <1>2. state \in State /\ <<c.key, 0>> \in Keys \X Nat
    BY <1>1 DEF KernelInv, TypeOK
  <1>3. /\ CreateEvent(state, type, c.id, <<c.key, 0>>, NoData) \in Event
        /\ type # "run.created"
    BY <1>1, <1>2, CreatedEvent
  <1>4. type # "inject.triggered"
    BY DEF PlainType
  <1> QED
    BY <1>1, <1>3, <1>4, BeginInv

\* The three resolutions of an approval, and its two rejections.
LEMMA ResolveApprovalInv ==
  ASSUME KernelInv, NEW c \in Envelopes, NEW approvalId \in CommandIds,
         NEW decision \in Decisions, ResolveApproval(c, approvalId, decision)
  PROVE  KernelInv'
  <1> DEFINE data == [approvalId |-> approvalId]
  <1>1. c.id \in CommandIds /\ c.key \in Keys
    BY EnvelopeType
  <1>2. state \in State /\ <<c.key, 0>> \in Keys \X Nat
    BY <1>1 DEF KernelInv, TypeOK
  <1>3. Admitted(c) /\ ~ Terminal(state)
    BY DEF ResolveApproval
  <1>4. ASSUME NEW type \in Resolutions, NEW rest \in Seq(Effect), NEW settles \in BOOLEAN,
               Begin(c, type, data, rest, settles)
        PROVE  KernelInv'
    <2> data \in [approvalId : CommandIds]
      OBVIOUS
    <2> HIDE DEF data
    <2>1. CreateEvent(state, type, c.id, <<c.key, 0>>, data) \in Event
      BY <1>1, <1>2, CreatedEvent
    <2>2. type # "inject.triggered" /\ type # "run.created"
      BY DEF Resolutions
    <2> QED
      BY <1>1, <1>3, <1>4, <2>1, <2>2, BeginInv
  <1>5. ASSUME Reject("APPROVAL_STALE") PROVE KernelInv'
    BY <1>5, RejectInv DEF Code
  <1>6. <<>> \in Seq(Effect)
    OBVIOUS
  <1>7. ASSUME NEW x \in state.pending,
               Begin(c, "action.approved", data, ExecuteAction(x.participant, x.action), TRUE)
        PROVE  KernelInv'
    <2>1. x.participant \in Participants /\ x.action \in Actions
      BY <1>2 DEF State, Approval
    <2>2. ExecuteAction(x.participant, x.action) \in Seq(Effect)
      BY <2>1, ExecuteActionType
    <2> QED
      BY <1>4, <1>7, <2>2 DEF Resolutions
  <1> QED
    BY <1>4, <1>5, <1>6, <1>7 DEF ResolveApproval, Resolutions

\* An action that is rejected, recorded as rejected, proposed or executed.
LEMMA SubmitActionInv ==
  ASSUME KernelInv, NEW c \in Envelopes, NEW p \in Participants, NEW a \in Actions,
         SubmitAction(c, p, a)
  PROVE  KernelInv'
  <1> DEFINE request == [approvalId |-> c.id, action |-> a, participant |-> p]
             x == [kind |-> "request-approval", approval |-> request]
  <1>1. c.id \in CommandIds /\ c.key \in Keys
    BY EnvelopeType
  <1>2. Admitted(c) /\ ~ Terminal(state)
    BY DEF SubmitAction
  <1>3. ExecuteAction(p, a) \in Seq(Effect)
    BY ExecuteActionType
  <1>4. <<x>> \in Seq(Effect)
    <2>1. request \in Approval
      BY <1>1 DEF Approval
    <2>2. x \in Effect
      BY <2>1 DEF Effect
    <2> HIDE DEF x
    <2> QED
      BY <2>2
  <1>5. ASSUME NEW rest \in Seq(Effect), NEW settles \in BOOLEAN,
               Begin(c, "action.proposed", NoData, rest, settles)
        PROVE  KernelInv'
    BY <1>2, <1>5, PlainBeginInv DEF PlainType
  <1>6. ASSUME Reject("ACTION_NOT_ALLOWED") PROVE KernelInv'
    BY <1>6, RejectInv DEF Code
  <1>7. ASSUME RecordActionRejection(c) PROVE KernelInv'
    BY <1>1, <1>2, <1>7, RejectionInv
  <1> QED
    BY <1>3, <1>4, <1>5, <1>6, <1>7 DEF SubmitAction

\* A director's trigger fires only an inject that has not fired.
LEMMA TriggerInjectInv ==
  ASSUME KernelInv, NEW c \in Envelopes, NEW i \in Injects, TriggerInject(c, i)
  PROVE  KernelInv'
  <1> DEFINE data == InjectData(i, None)
  <1>1. c.id \in CommandIds /\ c.key \in Keys
    BY EnvelopeType
  <1>2. state \in State /\ <<c.key, 0>> \in Keys \X Nat
    BY <1>1 DEF KernelInv, TypeOK
  <1>3. Admitted(c) /\ ~ Terminal(state)
    BY DEF TriggerInject
  <1>4. /\ data \in [inject : Injects, schedule : ScheduleId \cup {None}]
        /\ data.inject = i
    BY DEF InjectData
  <1>5. InjectDef[i].effects \in Seq(Effect)
    BY KernelAssumption
  <1>6. CASE i \notin state.triggered
            /\ Begin(c, "inject.triggered", data, InjectDef[i].effects, FALSE)
    <2> HIDE DEF data
    <2>1. CreateEvent(state, "inject.triggered", c.id, <<c.key, 0>>, data) \in Event
      BY <1>1, <1>2, <1>4, CreatedEvent
    <2> QED
      BY <1>1, <1>3, <1>4, <1>5, <1>6, <2>1, BeginInv
  <1>7. CASE Reject("ACTION_NOT_ALLOWED")
    BY <1>7, RejectInv DEF Code
  <1> QED
    BY <1>6, <1>7 DEF TriggerInject

\* An advance of the clock carries a positive number of minutes.
LEMMA AdvanceClockInv ==
  ASSUME KernelInv, NEW c \in Envelopes, NEW minutes \in Minutes, AdvanceClock(c, minutes)
  PROVE  KernelInv'
  <1> DEFINE data == [minutes |-> minutes]
  <1>1. c.id \in CommandIds /\ c.key \in Keys
    BY EnvelopeType
  <1>2. state \in State /\ <<c.key, 0>> \in Keys \X Nat
    BY <1>1 DEF KernelInv, TypeOK
  <1>3. Admitted(c) /\ ~ Terminal(state)
    BY DEF AdvanceClock
  <1>4. CASE minutes > 0 /\ Begin(c, "clock.advanced", data, <<>>, TRUE)
    <2>1. minutes \in Nat
      BY <1>4, KernelAssumption
    <2>2. data \in [minutes : Nat]
      BY <2>1
    <2> HIDE DEF data
    <2>3. CreateEvent(state, "clock.advanced", c.id, <<c.key, 0>>, data) \in Event
      BY <1>1, <1>2, <2>2, CreatedEvent
    <2>4. <<>> \in Seq(Effect)
      OBVIOUS
    <2> QED
      BY <1>1, <1>3, <1>4, <2>3, <2>4, BeginInv
  <1>5. CASE Reject("ACTION_NOT_ALLOWED") \/ Reject("VALIDATION_ERROR")
    BY <1>5, RejectInv DEF Code
  <1> QED
    BY <1>4, <1>5 DEF AdvanceClock

\* Every command keeps the invariant, whatever execute makes of it.
LEMMA ExecuteInv == ASSUME KernelInv, NEW c \in Envelopes, Execute(c) PROVE KernelInv'
  <1>1. /\ <<>> \in Seq(Effect)
        /\ {"RUN_VERSION_CONFLICT", "RUN_TERMINAL", "VALIDATION_ERROR",
            "ACTION_NOT_ALLOWED"} \subseteq Code
    BY DEF Code
  <1>2. CASE RejectMisaddressed(c) \/ RejectVersion(c) \/ RejectTerminal(c)
    BY <1>1, <1>2, RejectInv DEF RejectMisaddressed, RejectVersion, RejectTerminal
  <1>3. CASE ReturnDuplicate(c)
    <2>1. todo' \in Seq(Effect)
      BY <1>3 DEF ReturnDuplicate, KernelInv, TypeOK
    <2> QED
      BY <1>3, <2>1, QuietInv DEF ReturnDuplicate, Code
  <1>4. CASE StartRun(c) \/ PauseRun(c) \/ ResumeRun(c)
    <2>1. /\ Admitted(c) /\ ~ Terminal(state)
          /\ \/ Reject("ACTION_NOT_ALLOWED")
             \/ Begin(c, "run.started", NoData, <<>>, TRUE)
             \/ Begin(c, "run.paused", NoData, <<>>, FALSE)
             \/ Begin(c, "run.resumed", NoData, <<>>, FALSE)
      BY <1>4 DEF StartRun, PauseRun, ResumeRun
    <2> QED
      BY <1>1, <2>1, RejectInv, PlainBeginInv DEF PlainType
  <1>5. CASE \E minutes \in Minutes : AdvanceClock(c, minutes)
    BY <1>5, AdvanceClockInv
  <1>6. CASE \E p \in Participants, a \in Actions : SubmitAction(c, p, a)
    BY <1>6, SubmitActionInv
  <1>7. CASE \E approvalId \in CommandIds, decision \in Decisions :
               ResolveApproval(c, approvalId, decision)
    BY <1>7, ResolveApprovalInv
  <1>8. CASE \E i \in Injects : TriggerInject(c, i)
    BY <1>8, TriggerInjectInv
  <1>9. CASE FinishRun(c) \/ CreateCheckpoint(c) \/ CreateBranch(c)
    BY <1>1, <1>9, PlainBeginInv DEF FinishRun, CreateCheckpoint, CreateBranch, PlainType
  <1> QED
    BY <1>2, <1>3, <1>4, <1>5, <1>6, <1>7, <1>8, <1>9 DEF Execute

\* Every step of the kernel keeps the invariant.
LEMMA NextInv == ASSUME KernelInv, [Next]_vars PROVE KernelInv'
  <1>1. CASE \E c \in Envelopes : Execute(c)
    BY <1>1, ExecuteInv
  <1>2. CASE ApplyEffect
    BY <1>2, ApplyEffectInv
  <1>3. CASE DropEffects
    <2>1. todo' \in Seq(Effect)
      BY <1>3 DEF DropEffects
    <2> QED
      BY <1>3, <2>1, QuietInv DEF DropEffects, KernelInv, TypeOK
  <1>4. CASE FireScheduled \/ FireConditional
    BY <1>4, SettlingInv
  <1>5. CASE Return
    BY <1>5, ReturnInv
  <1>6. CASE ThrowIterations \/ ThrowInvalidState
    BY <1>6, ThrowInv DEF ThrowIterations, ThrowInvalidState, Settling, Code
  <1>7. CASE UNCHANGED vars
    BY <1>7 DEF vars, KernelInv, TypeOK, Idle, OpenCall
  <1> QED
    BY <1>1, <1>2, <1>3, <1>4, <1>5, <1>6, <1>7 DEF Next

\* A new run, or a branch that takes over its parent's state.
LEMMA InitInv == ASSUME Init PROVE KernelInv
  <1>1. PICK data \in Creations :
          LET e == CreateEvent(EmptyState, "run.created", None, CreateKey, data)
          IN  /\ state = ApplyEvent(EmptyState, e)
              /\ log = <<e>>
              /\ base = state
              /\ call = NoCall
              /\ todo = <<>>
              /\ fired = 0
              /\ outcome = NoOutcome
    BY DEF Init
  <1> DEFINE e == CreateEvent(EmptyState, "run.created", None, CreateKey, data)
             s == Stamped(EmptyState, e)
  <1>2. EmptyState \in State
    BY KernelAssumption
    DEF EmptyState, State, RunStatus
  <1>3. data = NoData \/ \E parent \in Inherited : data = [inherited |-> BranchState(parent)]
    BY <1>1 DEF Creations
  <1>4. \A parent \in Inherited : BranchState(parent) \in State
    <2>1. TAKE parent \in Inherited
    <2>2. parent \in State
      BY KernelAssumption
    <2> QED
      BY <2>2 DEF BranchState, State
  <1>5. data \in {NoData} \cup [inherited : State]
    BY <1>3, <1>4
  <1>6. data # NoData => data.inherited \in State
    BY <1>3, <1>4
  <1>7. e.sequence = 1 /\ e.type = "run.created" /\ e.cause = None
        /\ e.key = CreateKey /\ e.data = data
    BY DEF CreateEvent, EmptyState
  <1>8. e \in Event
    <2>1. e \in EventOf({"run.created"}, {NoData} \cup [inherited : State])
      BY <1>5 DEF CreateEvent, EventOf, EmptyState, EventKey
    <2> HIDE DEF e
    <2> QED
      BY <2>1 DEF Event
  <1>9. state = (IF data = NoData THEN s ELSE Inherit(s, e)) /\ base = state
        /\ log = <<e>> /\ call = NoCall /\ todo = <<>> /\ fired = 0 /\ outcome = NoOutcome
    BY <1>1, <1>7 DEF ApplyEvent
  <1>10. /\ EmptyState.appliedCommandIds = {} /\ EmptyState.appliedKeys = {}
         /\ EmptyState.version = 0 /\ EmptyState.triggered = {}
    BY DEF EmptyState
  <1>11. IsFiniteSet(EmptyState.appliedCommandIds) /\ Cardinality({}) = 0
    BY <1>10, FS_EmptySet
  <1> HIDE DEF e
  <1>12. s \in State
    BY <1>2, <1>8, <1>11, StampedType
  <1>13. /\ s.latestSequence = 1 /\ s.appliedKeys = {CreateKey}
         /\ s.appliedCommandIds = {} /\ s.version = 0
    BY <1>2, <1>7, <1>10 DEF Stamped, State
  <1> HIDE DEF s
  <1>14. data # NoData =>
           /\ Inherit(s, e) \in State
           /\ Inherit(s, e).triggered = data.inherited.triggered
           /\ Inherit(s, e).latestSequence = 1 /\ Inherit(s, e).appliedKeys = {CreateKey}
           /\ Inherit(s, e).appliedCommandIds = {} /\ Inherit(s, e).version = 0
    <2> HAVE data # NoData
    <2> DEFINE from == data.inherited
               s1 == [s EXCEPT !.time = from.time, !.world = from.world,
                               !.worldStatus = from.worldStatus]
               s2 == [s1 EXCEPT !.participants = from.participants,
                                !.scheduled = from.scheduled, !.triggered = from.triggered]
               s3 == [s2 EXCEPT !.pending = from.pending, !.actionCounts = from.actionCounts]
               s4 == [s3 EXCEPT !.occurred = from.occurred \cup {e.type}]
    <2>1. Inherit(s, e) = s4
      BY <1>7 DEF Inherit
    <2>2. from \in State
      BY <1>6
    <2>3. from.occurred \cup {e.type} \subseteq EventType
      BY <1>8, <2>2, EventFields DEF State
    <2> HIDE DEF from
    <2>4. s1 \in State /\ s1.latestSequence = 1 /\ s1.appliedKeys = {CreateKey}
          /\ s1.appliedCommandIds = {} /\ s1.version = 0
      BY <1>12, <1>13, <2>2 DEF State
    <2> HIDE DEF s1
    <2>5. s2 \in State /\ s2.latestSequence = 1 /\ s2.appliedKeys = {CreateKey}
          /\ s2.appliedCommandIds = {} /\ s2.version = 0 /\ s2.triggered = from.triggered
      BY <2>2, <2>4 DEF State
    <2> HIDE DEF s2
    <2>6. s3 \in State /\ s3.latestSequence = 1 /\ s3.appliedKeys = {CreateKey}
          /\ s3.appliedCommandIds = {} /\ s3.version = 0 /\ s3.triggered = from.triggered
      BY <2>2, <2>5 DEF State
    <2> HIDE DEF s3
    <2>7. s4 \in State /\ s4.latestSequence = 1 /\ s4.appliedKeys = {CreateKey}
          /\ s4.appliedCommandIds = {} /\ s4.version = 0 /\ s4.triggered = from.triggered
      BY <2>3, <2>6 DEF State
    <2> HIDE DEF s4
    <2> QED
      BY <2>1, <2>7 DEF from
  <1>15. /\ state \in State /\ state.latestSequence = 1 /\ state.appliedKeys = {CreateKey}
         /\ state.appliedCommandIds = {} /\ state.version = 0
         /\ data # NoData => state.triggered = data.inherited.triggered
    BY <1>9, <1>12, <1>13, <1>14
  <1>16. log \in Seq(Event) /\ Len(log) = 1 /\ log[1] = e
    BY <1>8, <1>9
  <1>17. {log[i].key : i \in 1 .. 1} = {CreateKey} /\ {log[i].cause : i \in 1 .. 1} = {None}
    BY <1>7, <1>16
  <1>18. Consistent(state, log, 1)
    BY <1>7, <1>11, <1>10, <1>15, <1>16, <1>17 DEF Consistent
  <1>19. StreamInv(log)
    <2>1. KeysOpened(log)
      <3>1. \A k \in Keys, n \in Nat : CreateKey # <<k, n>>
        BY KernelAssumption
      <3>2. \A i \in 1 .. Len(log) : log[i].key = CreateKey
        BY <1>7, <1>16
      <3> HIDE DEF CreateKey
      <3> QED
        BY <3>1, <3>2 DEF KeysOpened
    <2> QED
      BY <1>7, <1>16, <2>1 DEF StreamInv
  <1>20. TypeOK
    BY <1>9, <1>15, <1>16, KernelAssumption DEF TypeOK, NoOutcome, Code
  <1> QED
    BY <1>9, <1>15, <1>16, <1>18, <1>19, <1>20 DEF KernelInv, Idle

\* The inductive invariant: the stream is well formed, and the working state and
\* the base each belong to a prefix of it, which is why a throw can cut it back.
THEOREM Invariance == Spec => []KernelInv
  <1> QED
    BY InitInv, NextInv, PTL DEF Spec

\* Every variable of the kernel has its type in every reachable state: no
\* sequence of commands and effects drives a field out of its domain.
THEOREM TypeCorrect == Spec => []TypeOK
  <1>1. KernelInv => TypeOK
    BY DEF KernelInv
  <1> QED
    BY <1>1, Invariance, PTL

\* The stream of a run has no gap and no repeated event key, whatever ids and
\* keys its commands carry and wherever one of them throws, and its version
\* counts the commands in it.
THEOREM StreamIsWellFormed == Spec => []TypedStream
  <1>1. KernelInv => StreamWellFormed
    BY DEF KernelInv, StreamInv, Consistent, StreamWellFormed
  <1> QED
    BY <1>1, Invariance, TypeCorrect, PTL DEF TypedStream

\* An inject fires at most once in a run and in the branches that descend
\* from it, whether by its condition, a schedule or a director's command.
THEOREM InjectsFireAtMostOnce == Spec => []InjectsFireOnce
  <1>1. KernelInv => InjectsFireOnce
    BY DEF KernelInv, StreamInv, InjectsFireOnce, Events
  <1> QED
    BY <1>1, Invariance, PTL

\* Once a run is completed its stream holds no event but checkpoints and
\* branches any more.
THEOREM CompletionIsFinal == Spec => []SilentAfterCompletion
  <1>1. KernelInv => SilentAfterCompletion
    BY DEF KernelInv, StreamInv, SilentAfterCompletion, Events
  <1> QED
    BY <1>1, Invariance, PTL

-----------------------------------------------------------------------------
(***************************************************************************)
(* What the stream of a run promises about approvals, the clock and        *)
(* cascades, for any definition, any commands and any bound.               *)
(*                                                                         *)
(* These properties relate events that are far apart, so that none is      *)
(* inductive.  The invariant ties the state to the stream it comes from    *)
(* (Follows): its status to the last event of the life cycle, the status   *)
(* of a participant to its last change, an open approval to a request      *)
(* without a resolution.  It says the same of base, for a throw goes back  *)
(* to it, and what the first effect of an open call may be (Warranted).    *)
(***************************************************************************)

-----------------------------------------------------------------------------
(* What the first n events of a stream say                                  *)

\* The run is running: nothing of the life cycle follows its last start.
RunsAt(l, n) ==
  \E j \in 1 .. n :
    /\ l[j].type \in {"run.started", "run.resumed"}
    /\ \A k \in j + 1 .. n : l[k].type \notin Lifecycle

\* Participant p has status st: by its last change, or from the beginning.
Changes(l, i, p) ==
  l[i].type = "participant.status_changed" /\ l[i].data.participant = p
First(l, p) ==
  IF l[1].data = NoData THEN InitialStatus[p] ELSE l[1].data.inherited.participants[p]
HasStatus(l, n, p, st) ==
  \/ st = First(l, p) /\ \A i \in 1 .. n : ~ Changes(l, i, p)
  \/ \E k \in 1 .. n :
       /\ Changes(l, k, p) /\ l[k].data.status = st
       /\ \A i \in k + 1 .. n : ~ Changes(l, i, p)

Asked(l, n, x) ==
  \E j \in 1 .. n : l[j].type = "action.approval_requested" /\ l[j].data = x
Unresolved(l, n, id) ==
  \A i \in 1 .. n : l[i].type \in Resolutions => l[i].data.approvalId # id

\* The state follows from the first n events.
Follows(s, l, n) ==
  /\ s.status = "running" => RunsAt(l, n)
  /\ \A p \in Participants : HasStatus(l, n, p, s.participants[p])
  /\ \A x \in s.pending :
       x.approvalId \in s.appliedCommandIds /\ Asked(l, n, x) /\ Unresolved(l, n, x.approvalId)
  /\ \A i \in 1 .. n : l[i].type \in Resolutions => l[i].data.approvalId \in s.appliedCommandIds

\* Participant p may execute action a behind the first n events: the last of
\* them approves it, if it has to be approved.
Gated(l, n, p, a) ==
  ActionDef[a].approval =>
    /\ l[n].type = "action.approved"
    /\ Asked(l, n, [approvalId |-> l[n].data.approvalId, action |-> a, participant |-> p])
MayExecute(l, n, p, a) ==
  HasStatus(l, n, p, "active") /\ a \in CanPerform[p] /\ Gated(l, n, p, a)

\* What the events themselves promise.
GateInv(l) ==
  /\ l[1].type = "run.created"
  /\ \A i \in 2 .. Len(l) : l[i].type = "clock.advanced" => RunsAt(l, i - 1)
  /\ \A i \in 2 .. Len(l) : l[i].type = "action.executed" =>
       MayExecute(l, i - 1, l[i].data.participant, l[i].data.action)
  /\ \A i, j \in 1 .. Len(l) :
       i # j /\ l[i].type \in Resolutions /\ l[j].type \in Resolutions
         => l[i].data.approvalId # l[j].data.approvalId

-----------------------------------------------------------------------------
(* The effect of an event on the fields Follows speaks of                   *)

StatusAfter(s, e) ==
  CASE e.type \in {"run.started", "run.resumed"} -> "running"
    [] e.type = "run.paused" -> "paused"
    [] e.type = "run.completed" -> "completed"
    [] OTHER -> s.status
ParticipantsAfter(s, e) ==
  IF e.type = "participant.status_changed"
  THEN [s.participants EXCEPT ![e.data.participant] = e.data.status] ELSE s.participants
PendingAfter(s, e) ==
  CASE e.type = "action.approval_requested" -> s.pending \cup {e.data}
    [] e.type \in Resolutions -> {a \in s.pending : a.approvalId # e.data.approvalId}
    [] OTHER -> s.pending

\* Stamping an event leaves these fields alone.
LEMMA StampedFields ==
  ASSUME NEW s \in State, NEW e \in Event
  PROVE  /\ Stamped(s, e).participants = s.participants
         /\ Stamped(s, e).pending = s.pending /\ Stamped(s, e).status = s.status
         /\ Stamped(s, e).triggered = s.triggered
         /\ Stamped(s, e).appliedCommandIds =
              IF e.cause = None THEN s.appliedCommandIds ELSE s.appliedCommandIds \cup {e.cause}
BY DEF Stamped, State

LEMMA ApplyEventFields ==
  ASSUME NEW s0 \in State, NEW e \in Event, IsFiniteSet(s0.appliedCommandIds),
         e.type # "run.created"
  PROVE  /\ ApplyEvent(s0, e).participants = ParticipantsAfter(s0, e)
         /\ ApplyEvent(s0, e).pending = PendingAfter(s0, e)
  <1> DEFINE s == Stamped(s0, e)
             t == ApplyEvent(s0, e)
  <1>1. s \in State /\ s.participants = s0.participants /\ s.pending = s0.pending
    BY StampedType, StampedFields
  <1> SUFFICES t.participants = ParticipantsAfter(s, e) /\ t.pending = PendingAfter(s, e)
    BY <1>1 DEF ParticipantsAfter, PendingAfter
  <1>2. CASE e.type \in {"run.started", "run.resumed", "run.paused", "run.completed"}
    <2>1. \E status \in RunStatus : t = [s EXCEPT !.status = status, !.worldStatus = status]
      BY <1>2 DEF ApplyEvent, UpdateRunStatus, RunStatus
    <2> HIDE DEF s, t
    <2> QED
      BY <1>1, <1>2, <2>1 DEF State, ParticipantsAfter, PendingAfter, Resolutions
  <1>3. CASE e.type = "clock.advanced"
    <2>1. t = [s EXCEPT !.time = @ + e.data.minutes,
                        !.world = [p \in Paths |->
                          IF p = ElapsedPath THEN s.time + e.data.minutes ELSE @[p]]]
      BY <1>3 DEF ApplyEvent
    <2> HIDE DEF s, t
    <2> QED
      BY <1>1, <1>3, <2>1 DEF State, ParticipantsAfter, PendingAfter, Resolutions
  <1>4. CASE e.type = "state.changed"
    <2>1. t = [s EXCEPT !.world[e.data.path] = e.data.value]
      BY <1>4 DEF ApplyEvent
    <2> HIDE DEF s, t
    <2> QED
      BY <1>1, <1>4, <2>1 DEF State, ParticipantsAfter, PendingAfter, Resolutions
  <1>5. CASE e.type = "inject.scheduled"
    <2>1. t = [s EXCEPT !.scheduled = @ \cup {e.data}]
      BY <1>5 DEF ApplyEvent
    <2> HIDE DEF s, t
    <2> QED
      BY <1>1, <1>5, <2>1 DEF State, ParticipantsAfter, PendingAfter, Resolutions
  <1>6. CASE e.type = "inject.triggered"
    <2>1. t = [s EXCEPT !.triggered = @ \cup {e.data.inject},
                        !.scheduled = {x \in @ : x.id # e.data.schedule}]
      BY <1>6 DEF ApplyEvent
    <2> HIDE DEF s, t
    <2> QED
      BY <1>1, <1>6, <2>1 DEF State, ParticipantsAfter, PendingAfter, Resolutions
  <1>7. CASE e.type = "participant.status_changed"
    <2>1. t = [s EXCEPT !.participants = ParticipantsAfter(s, e)]
      BY <1>7 DEF ApplyEvent, ParticipantsAfter
    <2> HIDE DEF s, t
    <2> QED
      BY <1>1, <1>7, <2>1 DEF State, PendingAfter, Resolutions
  <1>8. CASE e.type = "action.approval_requested" \/ e.type \in Resolutions
    <2>1. t = [s EXCEPT !.pending = PendingAfter(s, e)]
      BY <1>8 DEF ApplyEvent, ResolveOpen, Resolutions, PendingAfter
    <2> HIDE DEF s, t
    <2> QED
      BY <1>1, <1>8, <2>1 DEF State, ParticipantsAfter, Resolutions
  <1>9. CASE e.type = "action.executed"
    <2>1. t = [s EXCEPT !.actionCounts[<<e.data.participant, e.data.action>>] = @ + 1]
      BY <1>9 DEF ApplyEvent
    <2> HIDE DEF s, t
    <2> QED
      BY <1>1, <1>9, <2>1 DEF State, ParticipantsAfter, PendingAfter, Resolutions
  <1>10. CASE e.type \in {"action.proposed", "action.rejected", "signal.emitted",
                          "metric.recorded", "checkpoint.created", "branch.created"}
    <2>1. t = s
      BY <1>10 DEF ApplyEvent
    <2> HIDE DEF s, t
    <2> QED
      BY <1>1, <1>10, <2>1 DEF ParticipantsAfter, PendingAfter, Resolutions
  <1>11. e.type \in EventType
    BY EventFields
  <1> QED
    BY <1>2, <1>3, <1>4, <1>5, <1>6, <1>7, <1>8, <1>9, <1>10, <1>11
    DEF EventType, PlainType, Resolutions

\* The same of the status and of the seen commands, from ApplyEventOwn.
LEMMA ApplyEventStatus ==
  ASSUME NEW s0 \in State, NEW e \in Event, IsFiniteSet(s0.appliedCommandIds),
         e.type # "run.created", e.cause # None
  PROVE  /\ ApplyEvent(s0, e).status = StatusAfter(s0, e)
         /\ ApplyEvent(s0, e).appliedCommandIds = s0.appliedCommandIds \cup {e.cause}
         /\ ApplyEvent(s0, e).triggered =
              IF e.type = "inject.triggered" THEN s0.triggered \cup {e.data.inject}
              ELSE s0.triggered
  <1> DEFINE s == Stamped(s0, e)
             t == ApplyEvent(s0, e)
  <1>1. Own(s, e, t)
    BY ApplyEventOwn
  <1>2. /\ s.status = s0.status /\ s.triggered = s0.triggered
        /\ s.appliedCommandIds = s0.appliedCommandIds \cup {e.cause}
    BY StampedFields
  <1> HIDE DEF s, t
  <1>3. /\ t.status = StatusAfter(s, e)
        /\ t.appliedCommandIds = s0.appliedCommandIds \cup {e.cause}
    BY <1>1, <1>2 DEF Own, StatusAfter
  <1>4. t.triggered = IF e.type = "inject.triggered" THEN s0.triggered \cup {e.data.inject}
                      ELSE s0.triggered
    BY <1>1, <1>2 DEF Own
  <1>5. StatusAfter(s, e) = StatusAfter(s0, e)
    BY <1>2 DEF StatusAfter
  <1> QED
    BY <1>3, <1>4, <1>5 DEF t

-----------------------------------------------------------------------------
(* The stream grows and shrinks                                             *)

\* What an event needs to be appended after l in state s.
Permitted(s, l, e) ==
  /\ e.type # "run.created" /\ e.cause \in CommandIds
  /\ e.type = "clock.advanced" => s.status = "running"
  /\ e.type = "action.executed" => MayExecute(l, Len(l), e.data.participant, e.data.action)
  /\ e.type = "action.approval_requested" =>
       /\ e.data.approvalId \in s.appliedCommandIds
       /\ Unresolved(l, Len(l), e.data.approvalId)
  /\ e.type \in Resolutions => \E x \in s.pending : x.approvalId = e.data.approvalId

\* What the first n events say does not depend on those behind them.
LEMMA SamePrefix ==
  ASSUME NEW l, NEW m, NEW n \in Nat \ {0}, \A i \in 1 .. n : m[i] = l[i]
  PROVE  /\ RunsAt(l, n) => RunsAt(m, n)
         /\ \A p, st : HasStatus(l, n, p, st) => HasStatus(m, n, p, st)
         /\ \A x : Asked(l, n, x) => Asked(m, n, x)
         /\ \A id : Unresolved(l, n, id) => Unresolved(m, n, id)
         /\ \A p, a : MayExecute(l, n, p, a) => MayExecute(m, n, p, a)
         /\ \A s : Follows(s, l, n) => Follows(s, m, n)
  <1>1. RunsAt(l, n) => RunsAt(m, n)
    BY DEF RunsAt
  <1>2. \A i \in 1 .. n : \A p : Changes(l, i, p) <=> Changes(m, i, p)
    BY DEF Changes
  <1>3. \A p : First(l, p) = First(m, p)
    BY DEF First
  <1>4. \A p, st : HasStatus(l, n, p, st) => HasStatus(m, n, p, st)
    BY <1>2, <1>3 DEF HasStatus
  <1>5. \A x : Asked(l, n, x) => Asked(m, n, x)
    BY DEF Asked
  <1>6. \A id : Unresolved(l, n, id) => Unresolved(m, n, id)
    BY DEF Unresolved
  <1>7. \A p, a : Gated(l, n, p, a) => Gated(m, n, p, a)
    BY <1>5 DEF Gated
  <1>8. \A p, a : MayExecute(l, n, p, a) => MayExecute(m, n, p, a)
    BY <1>4, <1>7 DEF MayExecute
  <1>9. \A s : Follows(s, l, n) => Follows(s, m, n)
    BY <1>1, <1>4, <1>5, <1>6 DEF Follows
  <1> QED
    BY <1>1, <1>4, <1>5, <1>6, <1>8, <1>9

\* The state after a permitted event follows from the longer stream.
LEMMA FollowsGrows ==
  ASSUME NEW l \in Seq(Event), Len(l) > 0, NEW s \in State,
         IsFiniteSet(s.appliedCommandIds), Follows(s, l, Len(l)),
         NEW e \in Event, Permitted(s, l, e)
  PROVE  Follows(ApplyEvent(s, e), Append(l, e), Len(l) + 1)
  <1> DEFINE n == Len(l)
             m == Append(l, e)
             t == ApplyEvent(s, e)
  <1>1. /\ n \in Nat \ {0} /\ m[n + 1] = e /\ \A i \in 1 .. n : m[i] = l[i]
    BY AppendedLog
  <1>2. /\ e.type # "run.created" /\ e.cause \in CommandIds /\ e.cause # None
    BY KernelAssumption DEF Permitted
  <1>3. /\ t.participants = ParticipantsAfter(s, e) /\ t.pending = PendingAfter(s, e)
        /\ t.status = StatusAfter(s, e)
        /\ t.appliedCommandIds = s.appliedCommandIds \cup {e.cause}
    BY <1>2, ApplyEventFields, ApplyEventStatus
  <1>4. Follows(s, m, n)
    BY <1>1, SamePrefix
  <1>5. \A i \in 1 .. n + 1 : i \in 1 .. n \/ i = n + 1
    BY <1>1
  <1>6. 1 .. n \subseteq 1 .. n + 1 /\ n + 1 \in 1 .. n + 1 /\ 1 \in 1 .. n
    BY <1>1
  <1> HIDE DEF m, n, t
  <1>7. t.status = "running" => RunsAt(m, n + 1)
    <2>1. CASE e.type \in {"run.started", "run.resumed"}
      <3>1. \A k \in (n + 1) + 1 .. n + 1 : m[k].type \notin Lifecycle
        BY <1>1
      <3> QED
        BY <1>1, <1>6, <2>1, <3>1 DEF RunsAt
    <2>2. CASE e.type \notin {"run.started", "run.resumed"}
      <3> HAVE t.status = "running"
      <3>1. s.status = "running" /\ e.type \notin Lifecycle
        BY <1>2, <1>3, <2>2 DEF StatusAfter, Lifecycle
      <3>2. RunsAt(m, n)
        BY <1>4, <3>1 DEF Follows
      <3>3. PICK j \in 1 .. n : /\ m[j].type \in {"run.started", "run.resumed"}
                               /\ \A k \in j + 1 .. n : m[k].type \notin Lifecycle
        BY <3>2 DEF RunsAt
      <3>4. \A k \in j + 1 .. n + 1 : m[k].type \notin Lifecycle
        <4>1. TAKE k \in j + 1 .. n + 1
        <4>2. k \in j + 1 .. n \/ k = n + 1
          BY <1>1, <3>3
        <4> QED
          BY <1>1, <3>1, <3>3, <4>2
      <3> QED
        BY <1>6, <3>3, <3>4 DEF RunsAt
    <2> QED
      BY <2>1, <2>2
  <1>8. ASSUME NEW p \in Participants
        PROVE  HasStatus(m, n + 1, p, t.participants[p])
    <2>1. HasStatus(m, n, p, s.participants[p])
      BY <1>4 DEF Follows
    <2>2. Changes(m, n + 1, p) <=>
            (e.type = "participant.status_changed" /\ e.data.participant = p)
      BY <1>1 DEF Changes
    <2>3. CASE e.type = "participant.status_changed" /\ e.data.participant = p
      <3>1. t.participants[p] = e.data.status
        BY <1>3, <2>3 DEF ParticipantsAfter, State
      <3>2. Changes(m, n + 1, p) /\ m[n + 1].data.status = t.participants[p]
        BY <1>1, <2>2, <2>3, <3>1
      <3>3. \A i \in (n + 1) + 1 .. n + 1 : ~ Changes(m, i, p)
        BY <1>1
      <3> QED
        BY <1>6, <3>2, <3>3 DEF HasStatus
    <2>4. CASE ~ (e.type = "participant.status_changed" /\ e.data.participant = p)
      <3>1. t.participants[p] = s.participants[p]
        BY <1>3, <2>4 DEF ParticipantsAfter, State
      <3>2. ~ Changes(m, n + 1, p)
        BY <2>2, <2>4
      <3>3. CASE /\ s.participants[p] = First(m, p)
                 /\ \A i \in 1 .. n : ~ Changes(m, i, p)
        BY <1>5, <3>1, <3>2, <3>3 DEF HasStatus
      <3>4. ASSUME NEW k \in 1 .. n, Changes(m, k, p), m[k].data.status = s.participants[p],
                   \A i \in k + 1 .. n : ~ Changes(m, i, p)
            PROVE  HasStatus(m, n + 1, p, t.participants[p])
        <4>1. \A i \in k + 1 .. n + 1 : ~ Changes(m, i, p)
          <5>1. TAKE i \in k + 1 .. n + 1
          <5>2. i \in k + 1 .. n \/ i = n + 1
            BY <1>1, <3>4
          <5> QED
            BY <3>2, <3>4, <5>2
        <4> QED
          BY <1>6, <3>1, <3>4, <4>1 DEF HasStatus
      <3> QED
        BY <2>1, <3>3, <3>4 DEF HasStatus
    <2> QED
      BY <2>3, <2>4
  <1>9. \A i \in 1 .. n + 1 : m[i].type \in Resolutions =>
          m[i].data.approvalId \in t.appliedCommandIds
    <2>1. \A i \in 1 .. n : m[i].type \in Resolutions =>
            m[i].data.approvalId \in s.appliedCommandIds
      BY <1>4 DEF Follows
    <2>2. e.type \in Resolutions => e.data.approvalId \in s.appliedCommandIds
      BY <1>4 DEF Follows, Permitted
    <2> QED
      BY <1>1, <1>3, <1>5, <2>1, <2>2
  <1>10. ASSUME NEW x \in t.pending
         PROVE  /\ x.approvalId \in t.appliedCommandIds
                /\ Asked(m, n + 1, x) /\ Unresolved(m, n + 1, x.approvalId)
    <2>1. CASE e.type = "action.approval_requested" /\ x = e.data
      <3>1. x.approvalId \in t.appliedCommandIds /\ Unresolved(l, n, x.approvalId)
        BY <1>3, <2>1 DEF Permitted, n
      <3>2. Unresolved(m, n, x.approvalId)
        BY <1>1, <3>1, SamePrefix
      <3>3. Unresolved(m, n + 1, x.approvalId)
        BY <1>1, <1>5, <2>1, <3>2 DEF Unresolved, Resolutions
      <3> QED
        BY <1>1, <1>6, <2>1, <3>1, <3>3 DEF Asked
    <2>2. CASE /\ x \in s.pending
               /\ e.type \in Resolutions => x.approvalId # e.data.approvalId
      <3>1. /\ x.approvalId \in s.appliedCommandIds
            /\ Asked(m, n, x) /\ Unresolved(m, n, x.approvalId)
        BY <1>4, <2>2 DEF Follows
      <3>2. Unresolved(m, n + 1, x.approvalId)
        BY <1>1, <1>5, <2>2, <3>1 DEF Unresolved
      <3>3. Asked(m, n + 1, x)
        BY <1>6, <3>1 DEF Asked
      <3> QED
        BY <1>3, <3>1, <3>2, <3>3
    <2> QED
      BY <1>3, <2>1, <2>2 DEF PendingAfter, Resolutions
  <1> QED
    BY <1>7, <1>8, <1>9, <1>10 DEF Follows, m, n, t

\* A permitted event keeps what the events promise.
LEMMA GateGrows ==
  ASSUME NEW l \in Seq(Event), Len(l) > 0, GateInv(l),
         NEW s, Follows(s, l, Len(l)), NEW e \in Event, Permitted(s, l, e)
  PROVE  GateInv(Append(l, e))
  <1> DEFINE n == Len(l)
             m == Append(l, e)
  <1>1. /\ n \in Nat \ {0} /\ Len(m) = n + 1 /\ m[n + 1] = e
        /\ \A i \in 1 .. n : m[i] = l[i]
    BY AppendedLog
  <1>2. \A i \in 1 .. n + 1 : i \in 1 .. n \/ i = n + 1
    BY <1>1
  <1>3. ASSUME NEW i \in 2 .. n + 1
        PROVE  /\ RunsAt(l, i - 1) => RunsAt(m, i - 1)
               /\ \A p, a : MayExecute(l, i - 1, p, a) => MayExecute(m, i - 1, p, a)
    <2>1. i - 1 \in Nat \ {0} /\ \A k \in 1 .. i - 1 : m[k] = l[k]
      BY <1>1, <1>3
    <2> QED
      BY <2>1, SamePrefix
  <1> HIDE DEF m, n
  <1>4. ASSUME NEW i \in 2 .. n + 1, m[i].type = "clock.advanced"
        PROVE  RunsAt(m, i - 1)
    <2>1. CASE i \in 2 .. n
      BY <1>1, <1>3, <1>4, <2>1 DEF GateInv, n
    <2>2. CASE i = n + 1
      BY <1>1, <1>3, <1>4, <2>2 DEF Permitted, Follows, n
    <2> QED
      BY <1>1, <2>1, <2>2
  <1>5. ASSUME NEW i \in 2 .. n + 1, m[i].type = "action.executed"
        PROVE  MayExecute(m, i - 1, m[i].data.participant, m[i].data.action)
    <2>1. CASE i \in 2 .. n
      BY <1>1, <1>3, <1>5, <2>1 DEF GateInv, n
    <2>2. CASE i = n + 1
      <3>1. i - 1 = n /\ m[i] = e
        BY <1>1, <2>2
      <3> QED
        BY <1>3, <1>5, <3>1 DEF Permitted, n
    <2> QED
      BY <1>1, <2>1, <2>2
  <1>6. e.type \in Resolutions =>
          \A i \in 1 .. n : l[i].type \in Resolutions => l[i].data.approvalId # e.data.approvalId
    BY DEF Permitted, Follows, Unresolved, n
  <1>7. \A i, j \in 1 .. n + 1 :
          i # j /\ m[i].type \in Resolutions /\ m[j].type \in Resolutions
            => m[i].data.approvalId # m[j].data.approvalId
    BY <1>1, <1>2, <1>6 DEF GateInv, n
  <1> QED
    BY <1>1, <1>4, <1>5, <1>7 DEF GateInv, m

LEMMA GateShrinks ==
  ASSUME NEW l \in Seq(Event), GateInv(l), NEW n \in 1 .. Len(l)
  PROVE  GateInv(SubSeq(l, 1, n))
  <1> DEFINE m == SubSeq(l, 1, n)
  <1>1. Len(m) = n /\ \A i \in 1 .. n : m[i] = l[i]
    OBVIOUS
  <1>2. 1 .. n \subseteq 1 .. Len(l) /\ 2 .. n \subseteq 2 .. Len(l)
    OBVIOUS
  <1> HIDE DEF m
  <1>3. ASSUME NEW i \in 2 .. n
        PROVE  /\ RunsAt(l, i - 1) => RunsAt(m, i - 1)
               /\ \A p, a : MayExecute(l, i - 1, p, a) => MayExecute(m, i - 1, p, a)
    <2>1. i - 1 \in Nat \ {0} /\ \A k \in 1 .. i - 1 : m[k] = l[k]
      BY <1>1, <1>3
    <2> QED
      BY <2>1, SamePrefix
  <1>4. \A i \in 2 .. n : i \in 1 .. n
    OBVIOUS
  <1> QED
    BY <1>1, <1>2, <1>3, <1>4 DEF GateInv, m

-----------------------------------------------------------------------------
(* The invariant                                                            *)

\* Only the first effect of an open call may execute an action or ask for an
\* approval, and it may do so.
Ordinary(x) == x.kind \notin {"execute-action", "request-approval"}
Warranted ==
  \A k \in 1 .. Len(todo) :
    \/ Ordinary(todo[k])
    \/ /\ k = 1 /\ todo[k].kind = "execute-action"
       /\ MayExecute(log, Len(log), todo[k].participant, todo[k].action)
    \/ /\ k = 1 /\ todo[k].kind = "request-approval"
       /\ todo[k].approval.approvalId \in state.appliedCommandIds
       /\ Unresolved(log, Len(log), todo[k].approval.approvalId)

SafetyInv ==
  /\ KernelInv
  /\ GateInv(log)
  /\ Follows(state, log, Len(log))
  /\ Follows(base, log, base.latestSequence)
  /\ Warranted
  /\ Idle => todo = <<>>

\* The definitions hold no effect of the kernel's own.
LEMMA DefinedEffects ==
  /\ \A a \in Actions : \A k \in 1 .. Len(ActionDef[a].effects) : Ordinary(ActionDef[a].effects[k])
  /\ \A i \in Injects : \A k \in 1 .. Len(InjectDef[i].effects) : Ordinary(InjectDef[i].effects[k])
BY KernelAssumption DEF Ordinary

\* The stream grows by a permitted event.
LEMMA SafetyGrows ==
  ASSUME SafetyInv, KernelInv', NEW e \in Event, Permitted(state, log, e),
         state' = ApplyEvent(state, e), log' = Append(log, e),
         base' = base \/ base' = state', Warranted', Idle' => todo' = <<>>
  PROVE  SafetyInv'
  <1>1. /\ log \in Seq(Event) /\ Len(log) \in Nat \ {0} /\ state \in State
        /\ IsFiniteSet(state.appliedCommandIds)
        /\ base.latestSequence \in 1 .. Len(log)
        /\ Follows(state, log, Len(log)) /\ Follows(base, log, base.latestSequence)
        /\ GateInv(log)
    BY DEF SafetyInv, KernelInv, TypeOK, Consistent
  <1>2. /\ Len(log') = Len(log) + 1 /\ \A i \in 1 .. Len(log) : log'[i] = log[i]
    BY <1>1, AppendedLog
  <1>3. GateInv(log')
    BY <1>1, GateGrows
  <1>4. Follows(state', log', Len(log'))
    <2>1. Follows(ApplyEvent(state, e), Append(log, e), Len(log) + 1)
      BY <1>1, FollowsGrows
    <2> QED
      BY <1>2, <2>1
  <1>5. CASE base' = base
    <2>1. /\ base.latestSequence \in Nat \ {0}
          /\ \A i \in 1 .. base.latestSequence : log'[i] = log[i]
      BY <1>1, <1>2
    <2>2. Follows(base, log', base.latestSequence)
      BY <1>1, <2>1, SamePrefix
    <2> QED
      BY <1>3, <1>4, <1>5, <2>2 DEF SafetyInv
  <1>6. CASE base' = state'
    <2>1. base'.latestSequence = Len(log')
      BY <1>6 DEF KernelInv, Consistent
    <2> QED
      BY <1>3, <1>4, <1>6, <2>1 DEF SafetyInv
  <1> QED
    BY <1>5, <1>6

\* A step that leaves state and stream alone, and may drop effects.
LEMMA SafetyStays ==
  ASSUME SafetyInv, KernelInv', UNCHANGED <<state, log>>,
         base' = base \/ base' = state,
         (call' = call /\ todo' = todo) \/ todo' = <<>>
  PROVE  SafetyInv'
  <1>1. Warranted'
    <2>1. CASE todo' = todo
      BY <2>1 DEF SafetyInv, Warranted
    <2>2. CASE todo' = <<>>
      BY <2>2 DEF Warranted
    <2> QED
      BY <2>1, <2>2
  <1>2. state.latestSequence = Len(log)
    BY DEF SafetyInv, KernelInv, Consistent
  <1>3. Idle' => todo' = <<>>
    BY DEF SafetyInv, Idle
  <1> QED
    BY <1>1, <1>2, <1>3 DEF SafetyInv

\* A call that throws goes back to base and to the stream base follows from.
LEMMA SafetyThrow ==
  ASSUME SafetyInv, KernelInv', NEW reason, Throw(reason), todo = <<>>
  PROVE  SafetyInv'
  <1> DEFINE b == base.latestSequence
  <1>1. /\ log \in Seq(Event) /\ b \in 1 .. Len(log) /\ b \in Nat \ {0}
        /\ GateInv(log) /\ Follows(base, log, b)
    BY DEF SafetyInv, KernelInv, TypeOK
  <1>2. state' = base /\ base' = base /\ log' = SubSeq(log, 1, b) /\ todo' = <<>>
    BY DEF Throw
  <1>3. GateInv(log')
    BY <1>1, <1>2, GateShrinks
  <1>4. Len(log') = b /\ \A i \in 1 .. b : log'[i] = log[i]
    BY <1>1, <1>2
  <1>5. Follows(base, log', b)
    BY <1>1, <1>4, SamePrefix
  <1>6. Warranted'
    BY <1>2 DEF Warranted
  <1> QED
    BY <1>2, <1>3, <1>4, <1>5, <1>6 DEF SafetyInv

LEMMA BeginOpens ==
  ASSUME NEW c, c.id \in CommandIds, NEW type, NEW data, NEW rest, NEW settles,
         Begin(c, type, data, rest, settles)
  PROVE  ~ Idle'
BY KernelAssumption DEF Begin, Idle, NoCall

\* The first event of a command.
LEMMA BeginPermitted ==
  ASSUME SafetyInv, NEW c, c.id \in CommandIds,
         NEW type, NEW key, NEW data,
         type \notin {"run.created", "action.executed", "action.approval_requested"},
         type = "clock.advanced" => state.status = "running",
         type \in Resolutions => \E x \in state.pending : x.approvalId = data.approvalId
  PROVE  Permitted(state, log, CreateEvent(state, type, c.id, key, data))
BY DEF Permitted, CreateEvent

LEMMA BeginSafe ==
  ASSUME SafetyInv, KernelInv', NEW c, c.id \in CommandIds,
         NEW type, NEW data, NEW rest, NEW settles,
         CreateEvent(state, type, c.id, <<c.key, 0>>, data) \in Event,
         type \notin {"run.created", "action.executed", "action.approval_requested"},
         type = "clock.advanced" => state.status = "running",
         type \in Resolutions => \E x \in state.pending : x.approvalId = data.approvalId,
         Begin(c, type, data, rest, settles), Warranted'
  PROVE  SafetyInv'
  <1> DEFINE e == CreateEvent(state, type, c.id, <<c.key, 0>>, data)
  <1>1. Permitted(state, log, e)
    BY BeginPermitted
  <1>2. state' = ApplyEvent(state, e) /\ log' = Append(log, e) /\ base' = base
    BY DEF Begin
  <1>3. ~ Idle'
    BY BeginOpens
  <1> HIDE DEF e
  <1> QED
    BY <1>1, <1>2, <1>3, SafetyGrows DEF e

\* A command with a payload the gates do not look at, and ordinary effects.
LEMMA PlainBeginSafe ==
  ASSUME SafetyInv, KernelInv', NEW c \in Envelopes,
         NEW type \in PlainType, NEW rest, \A k \in 1 .. Len(rest) : Ordinary(rest[k]),
         NEW settles, Begin(c, type, NoData, rest, settles)
  PROVE  SafetyInv'
  <1>1. c.id \in CommandIds /\ c.key \in Keys /\ state \in State
    BY EnvelopeType DEF SafetyInv, KernelInv, TypeOK
  <1>2. <<c.key, 0>> \in Keys \X Nat
    BY <1>1
  <1>3. CreateEvent(state, type, c.id, <<c.key, 0>>, NoData) \in Event
    BY <1>1, <1>2, CreatedEvent
  <1>4. Warranted'
    BY DEF Warranted, Begin
  <1>5. /\ type \notin {"run.created", "action.executed", "action.approval_requested"}
        /\ type # "clock.advanced" /\ type \notin Resolutions
    BY DEF PlainType, Resolutions
  <1> QED
    BY <1>1, <1>3, <1>4, <1>5, BeginSafe

\* Behind the event a command begins with, whoever the policy allows may execute.
LEMMA ActionWarranted ==
  ASSUME SafetyInv, NEW e \in Event, Permitted(state, log, e),
         state' = ApplyEvent(state, e), log' = Append(log, e),
         e.type # "participant.status_changed",
         NEW p \in Participants, NEW a \in Actions, PolicyAllows(state, p, a),
         Gated(log', Len(log'), p, a), todo' = ExecuteAction(p, a)
  PROVE  Warranted'
  <1>1. /\ log \in Seq(Event) /\ Len(log) \in Nat \ {0} /\ state \in State
        /\ IsFiniteSet(state.appliedCommandIds) /\ Follows(state, log, Len(log))
    BY DEF SafetyInv, KernelInv, TypeOK, Consistent
  <1>2. Len(log') = Len(log) + 1
    BY <1>1, AppendedLog
  <1>3. Follows(state', log', Len(log'))
    BY <1>1, <1>2, FollowsGrows
  <1>4. state'.participants = state.participants
    BY <1>1, ApplyEventFields DEF Permitted, ParticipantsAfter
  <1>5. HasStatus(log', Len(log'), p, "active") /\ a \in CanPerform[p]
    BY <1>3, <1>4 DEF PolicyAllows, Follows
  <1>6. MayExecute(log', Len(log'), p, a)
    BY <1>5 DEF MayExecute
  <1> DEFINE x == [kind |-> "execute-action", participant |-> p, action |-> a]
             effects == ActionDef[a].effects
  <1>7. effects \in Seq(Effect) /\ \A k \in 1 .. Len(effects) : Ordinary(effects[k])
    BY KernelAssumption, DefinedEffects
  <1>8. todo' = <<x>> \o effects
    BY DEF ExecuteAction
  <1>9. x.kind = "execute-action" /\ x.participant = p /\ x.action = a
    OBVIOUS
  <1> HIDE DEF x, effects
  <1>10. /\ todo'[1] = x /\ Len(todo') = Len(effects) + 1
         /\ \A k \in 2 .. Len(effects) + 1 : todo'[k] = effects[k - 1] /\ k - 1 \in 1 .. Len(effects)
    BY <1>7, <1>8
  <1>11. \A k \in 1 .. Len(todo') : k = 1 \/ k \in 2 .. Len(effects) + 1
    BY <1>7, <1>10
  <1> QED
    BY <1>6, <1>7, <1>9, <1>10, <1>11 DEF Warranted

-----------------------------------------------------------------------------
(* The steps                                                                *)

\* What a command can rely on when it begins.
LEMMA CommandFacts ==
  ASSUME KernelInv, NEW c \in Envelopes
  PROVE  /\ c.id \in CommandIds /\ c.key \in Keys /\ state \in State /\ log \in Seq(Event)
         /\ Len(log) \in Nat \ {0} /\ IsFiniteSet(state.appliedCommandIds)
  <1>1. c.id \in CommandIds /\ c.key \in Keys
    BY EnvelopeType
  <1>2. state \in State /\ log \in Seq(Event)
    BY DEF KernelInv, TypeOK
  <1>3. Len(log) \in Nat \ {0}
    <2>1. base.latestSequence \in 1 .. Len(log)
      BY DEF KernelInv
    <2>2. Len(log) \in Nat
      BY <1>2
    <2> QED
      BY <2>1, <2>2
  <1>4. IsFiniteSet(state.appliedCommandIds)
    BY DEF KernelInv, Consistent
  <1> QED
    BY <1>1, <1>2, <1>3, <1>4

LEMMA RejectSafe ==
  ASSUME SafetyInv, KernelInv', NEW code, Reject(code) PROVE SafetyInv'
BY SafetyStays DEF Reject

\* A proposed action waits for its approval or is executed next.
LEMMA SubmitActionSafe ==
  ASSUME SafetyInv, KernelInv', NEW c \in Envelopes, NEW p \in Participants,
         NEW a \in Actions, SubmitAction(c, p, a)
  PROVE  SafetyInv'
  <1> DEFINE request == [approvalId |-> c.id, action |-> a, participant |-> p]
             x == [kind |-> "request-approval", approval |-> request]
             e == CreateEvent(state, "action.proposed", c.id, <<c.key, 0>>, NoData)
             r == CreateEvent(state, "action.rejected", c.id, <<c.key, 0>>, NoData)
  <1>1. /\ c.id \in CommandIds /\ c.key \in Keys /\ state \in State /\ log \in Seq(Event)
        /\ Len(log) \in Nat \ {0} /\ IsFiniteSet(state.appliedCommandIds)
    BY CommandFacts DEF SafetyInv
  <1>2. <<c.key, 0>> \in Keys \X Nat
    BY <1>1
  <1>3. e \in Event /\ r \in Event
    BY <1>1, <1>2, CreatedEvent DEF PlainType
  <1>4. Permitted(state, log, e) /\ Permitted(state, log, r)
    BY <1>1, BeginPermitted DEF Resolutions
  <1>5. e.type = "action.proposed" /\ e.cause = c.id
    BY DEF CreateEvent
  <1>6. CASE Reject("ACTION_NOT_ALLOWED")
    BY <1>6, RejectSafe
  <1>7. CASE RecordActionRejection(c)
    <2>1. /\ state' = ApplyEvent(state, r) /\ log' = Append(log, r) /\ base' = state'
          /\ call' = call /\ todo' = todo
      BY <1>7 DEF RecordActionRejection
    <2>2. todo' = <<>>
      BY <2>1 DEF SubmitAction, Admitted, SafetyInv
    <2>3. Warranted'
      BY <2>2 DEF Warranted
    <2> HIDE DEF r
    <2> QED
      BY <1>3, <1>4, <2>1, <2>2, <2>3, SafetyGrows
  <1>8. CASE /\ PolicyAllows(state, p, a)
             /\ Begin(c, "action.proposed", NoData, <<x>>, FALSE)
    <2>1. state' = ApplyEvent(state, e) /\ log' = Append(log, e) /\ base' = base /\ todo' = <<x>>
      BY <1>8 DEF Begin
    <2>2. c.id \notin state.appliedCommandIds
      BY DEF SubmitAction, Admitted, Seen
    <2>3. /\ Len(log') = Len(log) + 1 /\ log'[Len(log) + 1] = e
          /\ \A i \in 1 .. Len(log) : log'[i] = log[i]
      BY <1>1, <1>3, <2>1, AppendedLog
    <2>4. \A i \in 1 .. Len(log') : i \in 1 .. Len(log) \/ i = Len(log) + 1
      BY <1>1, <2>3
    <2>5. Unresolved(log', Len(log'), c.id)
      BY <1>5, <2>2, <2>3, <2>4 DEF Unresolved, SafetyInv, Follows, Resolutions
    <2>6. c.id \in state'.appliedCommandIds
      BY <1>1, <1>3, <1>5, <2>1, ApplyEventStatus, KernelAssumption
    <2>7. x.kind = "request-approval" /\ x.approval.approvalId = c.id
      OBVIOUS
    <2> HIDE DEF x, e
    <2>8. Len(todo') = 1 /\ todo'[1] = x
      BY <2>1
    <2>9. Warranted'
      BY <2>5, <2>6, <2>7, <2>8 DEF Warranted
    <2>10. ~ Idle'
      BY <1>1, <1>8, BeginOpens
    <2> QED
      BY <1>3, <1>4, <2>1, <2>9, <2>10, SafetyGrows
  <1>9. CASE /\ PolicyAllows(state, p, a) /\ ~ ActionDef[a].approval
             /\ Begin(c, "action.proposed", NoData, ExecuteAction(p, a), TRUE)
    <2>1. /\ state' = ApplyEvent(state, e) /\ log' = Append(log, e) /\ base' = base
          /\ todo' = ExecuteAction(p, a)
      BY <1>9 DEF Begin
    <2>2. Gated(log', Len(log'), p, a)
      BY <1>9 DEF Gated
    <2> HIDE DEF e
    <2>3. Warranted'
      BY <1>3, <1>4, <1>5, <1>9, <2>1, <2>2, ActionWarranted
    <2>4. ~ Idle'
      BY <1>1, <1>9, BeginOpens
    <2> QED
      BY <1>3, <1>4, <2>1, <2>3, <2>4, SafetyGrows
  <1> QED
    BY <1>6, <1>7, <1>8, <1>9 DEF SubmitAction

\* A resolution names an open approval, and an approved action is executed next.
LEMMA ResolveApprovalSafe ==
  ASSUME SafetyInv, KernelInv', NEW c \in Envelopes, NEW approvalId \in CommandIds,
         NEW decision \in Decisions, ResolveApproval(c, approvalId, decision)
  PROVE  SafetyInv'
  <1> DEFINE data == [approvalId |-> approvalId]
             open == {x \in state.pending : x.approvalId = approvalId}
  <1>1. /\ c.id \in CommandIds /\ c.key \in Keys /\ state \in State /\ log \in Seq(Event)
        /\ Len(log) \in Nat \ {0} /\ IsFiniteSet(state.appliedCommandIds)
        /\ Follows(state, log, Len(log))
    BY CommandFacts DEF SafetyInv
  <1>2. <<c.key, 0>> \in Keys \X Nat
    BY <1>1
  <1>3. data \in [approvalId : CommandIds] /\ data.approvalId = approvalId
    OBVIOUS
  <1>4. ASSUME NEW type \in Resolutions
        PROVE  /\ CreateEvent(state, type, c.id, <<c.key, 0>>, data) \in Event
               /\ type \notin {"run.created", "action.executed", "action.approval_requested"}
               /\ type # "clock.advanced"
    <2> HIDE DEF data
    <2>1. CreateEvent(state, type, c.id, <<c.key, 0>>, data) \in Event
      BY <1>1, <1>2, <1>3, CreatedEvent
    <2> QED
      BY <2>1 DEF Resolutions
  <1>5. ASSUME NEW type \in Resolutions, open # {}, Begin(c, type, data, <<>>, FALSE)
        PROVE  SafetyInv'
    <2>1. Warranted'
      BY <1>5 DEF Warranted, Begin
    <2>2. \E x \in state.pending : x.approvalId = data.approvalId
      BY <1>5
    <2> HIDE DEF data
    <2> QED
      BY <1>1, <1>4, <1>5, <2>1, <2>2, BeginSafe
  <1>6. ASSUME NEW x \in open, StillAllowed(x),
               Begin(c, "action.approved", data, ExecuteAction(x.participant, x.action), TRUE)
        PROVE  SafetyInv'
    <2> DEFINE e == CreateEvent(state, "action.approved", c.id, <<c.key, 0>>, data)
               p == x.participant
               a == x.action
    <2>1. /\ x \in state.pending /\ x.approvalId = approvalId
          /\ x \in Approval /\ p \in Participants /\ a \in Actions
      BY <1>1 DEF State, Approval
    <2>2. e \in Event /\ e.type = "action.approved" /\ e.data = data
      BY <1>4 DEF CreateEvent, Resolutions
    <2>3. Permitted(state, log, e)
      BY <1>1, <1>3, <2>1, BeginPermitted
    <2>4. /\ state' = ApplyEvent(state, e) /\ log' = Append(log, e) /\ base' = base
          /\ todo' = ExecuteAction(p, a)
      BY <1>6 DEF Begin
    <2> HIDE DEF e
    <2>5. /\ Len(log') = Len(log) + 1 /\ log'[Len(log) + 1] = e
          /\ \A i \in 1 .. Len(log) : log'[i] = log[i]
      BY <1>1, <2>2, <2>4, AppendedLog
    <2>6. Asked(log', Len(log'), x)
      BY <1>1, <2>1, <2>5 DEF Follows, Asked
    <2>7. x = [approvalId |-> approvalId, action |-> a, participant |-> p]
      BY <2>1 DEF Approval
    <2>8. /\ log'[Len(log')].type = "action.approved"
          /\ log'[Len(log')].data.approvalId = approvalId
      BY <1>3, <2>2, <2>5
    <2> HIDE DEF p, a, data
    <2>9. Gated(log', Len(log'), p, a)
      BY <2>6, <2>7, <2>8 DEF Gated
    <2>10. PolicyAllows(state, p, a)
      BY <1>6 DEF StillAllowed, p, a
    <2>11. Warranted'
      BY <2>1, <2>2, <2>3, <2>4, <2>9, <2>10, ActionWarranted
    <2>12. ~ Idle'
      BY <1>1, <1>6, BeginOpens
    <2> QED
      BY <2>2, <2>3, <2>4, <2>11, <2>12, SafetyGrows
  <1>7. CASE Reject("APPROVAL_STALE")
    BY <1>7, RejectSafe
  <1> QED
    BY <1>5, <1>6, <1>7 DEF ResolveApproval, Resolutions

\* The clock is moved by a command that finds the run running.
LEMMA AdvanceClockSafe ==
  ASSUME SafetyInv, KernelInv', NEW c \in Envelopes, NEW minutes \in Minutes,
         AdvanceClock(c, minutes)
  PROVE  SafetyInv'
  <1> DEFINE data == [minutes |-> minutes]
  <1>1. c.id \in CommandIds /\ c.key \in Keys /\ state \in State
    BY EnvelopeType DEF SafetyInv, KernelInv, TypeOK
  <1>2. <<c.key, 0>> \in Keys \X Nat
    BY <1>1
  <1>3. CASE /\ state.status = "running" /\ minutes > 0
             /\ Begin(c, "clock.advanced", data, <<>>, TRUE)
    <2>1. minutes \in Nat
      BY <1>3, KernelAssumption
    <2>2. data \in [minutes : Nat]
      BY <2>1
    <2>3. Warranted'
      BY <1>3 DEF Warranted, Begin
    <2> HIDE DEF data
    <2>4. CreateEvent(state, "clock.advanced", c.id, <<c.key, 0>>, data) \in Event
      BY <1>1, <1>2, <2>2, CreatedEvent
    <2> QED
      BY <1>1, <1>3, <2>3, <2>4, BeginSafe DEF Resolutions
  <1>4. CASE Reject("ACTION_NOT_ALLOWED") \/ Reject("VALIDATION_ERROR")
    BY <1>4, RejectSafe
  <1> QED
    BY <1>3, <1>4 DEF AdvanceClock

LEMMA TriggerInjectSafe ==
  ASSUME SafetyInv, KernelInv', NEW c \in Envelopes, NEW i \in Injects, TriggerInject(c, i)
  PROVE  SafetyInv'
  <1> DEFINE data == InjectData(i, None)
  <1>1. c.id \in CommandIds /\ c.key \in Keys /\ state \in State
    BY EnvelopeType DEF SafetyInv, KernelInv, TypeOK
  <1>2. <<c.key, 0>> \in Keys \X Nat
    BY <1>1
  <1>3. data \in [inject : Injects, schedule : ScheduleId \cup {None}]
    BY DEF InjectData
  <1>4. CASE Begin(c, "inject.triggered", data, InjectDef[i].effects, FALSE)
    <2>1. Warranted'
      BY <1>4, DefinedEffects DEF Warranted, Begin
    <2> HIDE DEF data
    <2>2. CreateEvent(state, "inject.triggered", c.id, <<c.key, 0>>, data) \in Event
      BY <1>1, <1>2, <1>3, CreatedEvent
    <2> QED
      BY <1>1, <1>4, <2>1, <2>2, BeginSafe DEF Resolutions
  <1>5. CASE Reject("ACTION_NOT_ALLOWED")
    BY <1>5, RejectSafe
  <1> QED
    BY <1>4, <1>5 DEF TriggerInject

LEMMA ExecuteSafe ==
  ASSUME SafetyInv, KernelInv', NEW c \in Envelopes, Execute(c) PROVE SafetyInv'
  <1>1. \A k \in 1 .. Len(<<>>) : Ordinary(<<>>[k])
    OBVIOUS
  <1>2. CASE RejectMisaddressed(c) \/ RejectVersion(c) \/ RejectTerminal(c)
    BY <1>2, RejectSafe DEF RejectMisaddressed, RejectVersion, RejectTerminal
  <1>3. CASE ReturnDuplicate(c)
    BY <1>3, SafetyStays DEF ReturnDuplicate
  <1>4. CASE StartRun(c) \/ PauseRun(c) \/ ResumeRun(c)
    <2>1. \/ Reject("ACTION_NOT_ALLOWED")
          \/ Begin(c, "run.started", NoData, <<>>, TRUE)
          \/ Begin(c, "run.paused", NoData, <<>>, FALSE)
          \/ Begin(c, "run.resumed", NoData, <<>>, FALSE)
      BY <1>4 DEF StartRun, PauseRun, ResumeRun
    <2> QED
      BY <1>1, <2>1, RejectSafe, PlainBeginSafe DEF PlainType
  <1>5. CASE \E minutes \in Minutes : AdvanceClock(c, minutes)
    BY <1>5, AdvanceClockSafe
  <1>6. CASE \E p \in Participants, a \in Actions : SubmitAction(c, p, a)
    BY <1>6, SubmitActionSafe
  <1>7. CASE \E approvalId \in CommandIds, decision \in Decisions :
               ResolveApproval(c, approvalId, decision)
    BY <1>7, ResolveApprovalSafe
  <1>8. CASE \E i \in Injects : TriggerInject(c, i)
    BY <1>8, TriggerInjectSafe
  <1>9. CASE FinishRun(c) \/ CreateCheckpoint(c) \/ CreateBranch(c)
    BY <1>1, <1>9, PlainBeginSafe DEF FinishRun, CreateCheckpoint, CreateBranch, PlainType
  <1> QED
    BY <1>2, <1>3, <1>4, <1>5, <1>6, <1>7, <1>8, <1>9 DEF Execute

\* What the first effect of an open call appends is permitted.
LEMMA EffectPermitted ==
  ASSUME SafetyInv, ~ Idle, todo # <<>>, NEW key,
         NEW x, x = Head(todo), NEW y, y = EffectEvent(state, x)
  PROVE  Permitted(state, log, CreateEvent(state, y.type, call.id, key, y.data))
  <1> DEFINE e == CreateEvent(state, y.type, call.id, key, y.data)
  <1>1. /\ e.type = y.type /\ e.data = y.data /\ e.cause = call.id
    BY DEF CreateEvent
  <1>2. call.id \in CommandIds /\ todo \in Seq(Effect)
    BY DEF SafetyInv, KernelInv, TypeOK, Idle
  <1>3. x \in Effect /\ 1 \in 1 .. Len(todo) /\ todo[1] = x
    BY <1>2
  <1>4. x.kind \in {"set-state", "increment-state", "schedule-inject",
                   "change-participant-status", "emit-signal", "record-metric",
                   "complete-run", "execute-action", "request-approval"}
    BY <1>3 DEF Effect
  <1>5. CASE x.kind = "execute-action"
    <2>1. /\ y.type = "action.executed" /\ y.data.participant = x.participant
          /\ y.data.action = x.action
      BY <1>5 DEF EffectEvent
    <2>2. MayExecute(log, Len(log), x.participant, x.action)
      BY <1>3, <1>5 DEF SafetyInv, Warranted, Ordinary
    <2> HIDE DEF e
    <2> QED
      BY <1>1, <1>2, <2>1, <2>2 DEF Permitted, Resolutions, e
  <1>6. CASE x.kind = "request-approval"
    <2>1. y.type = "action.approval_requested" /\ y.data = x.approval
      BY <1>6 DEF EffectEvent
    <2>2. /\ x.approval.approvalId \in state.appliedCommandIds
          /\ Unresolved(log, Len(log), x.approval.approvalId)
      BY <1>3, <1>6 DEF SafetyInv, Warranted, Ordinary
    <2> HIDE DEF e
    <2> QED
      BY <1>1, <1>2, <2>1, <2>2 DEF Permitted, Resolutions, e
  <1>7. CASE Ordinary(x)
    <2>1. y.type \in {"state.changed", "inject.scheduled", "participant.status_changed",
                     "signal.emitted", "metric.recorded", "run.completed"}
      BY <1>4, <1>7 DEF EffectEvent, Ordinary
    <2> HIDE DEF e
    <2> QED
      BY <1>1, <1>2, <2>1 DEF Permitted, Resolutions, e
  <1> QED
    BY <1>5, <1>6, <1>7 DEF Ordinary

LEMMA ApplyEffectSafe == ASSUME SafetyInv, KernelInv', ApplyEffect PROVE SafetyInv'
  <1> DEFINE x == Head(todo)
             y == EffectEvent(state, x)
             key == <<call.key, state.latestSequence - base.latestSequence>>
             e == CreateEvent(state, y.type, call.id, key, y.data)
  <1>1. /\ ~ Idle /\ todo # <<>> /\ todo \in Seq(Effect) /\ state \in State
        /\ call.id \in CommandIds /\ call.key \in Keys
        /\ state.latestSequence - base.latestSequence \in Nat
    BY DEF SafetyInv, KernelInv, TypeOK, ApplyEffect, Idle, Consistent
  <1>2. /\ state' = ApplyEvent(state, e) /\ log' = Append(log, e) /\ base' = base
        /\ todo' = Tail(todo) /\ call' = call
    BY DEF ApplyEffect, AppendEvent
  <1>3. x \in Effect /\ key \in Keys \X Nat
    BY <1>1
  <1>4. e \in Event
    BY <1>1, <1>3, EffectEvents
  <1>5. Permitted(state, log, e)
    BY <1>1, EffectPermitted
  <1>6. Warranted'
    <2>1. /\ Len(todo') = Len(todo) - 1
          /\ \A k \in 1 .. Len(todo') :
               todo'[k] = todo[k + 1] /\ k + 1 \in 1 .. Len(todo) /\ k + 1 # 1
      BY <1>1, <1>2
    <2>2. \A k \in 1 .. Len(todo) : k # 1 => Ordinary(todo[k])
      BY DEF SafetyInv, Warranted
    <2> QED
      BY <2>1, <2>2 DEF Warranted
  <1>7. ~ Idle'
    BY <1>1, <1>2 DEF Idle
  <1> HIDE DEF e
  <1> QED
    BY <1>2, <1>4, <1>5, <1>6, <1>7, SafetyGrows

LEMMA FireSafe ==
  ASSUME SafetyInv, KernelInv', ~ Idle, NEW i \in Injects,
         NEW schedule \in ScheduleId \cup {None}, Fire(i, schedule)
  PROVE  SafetyInv'
  <1> DEFINE data == InjectData(i, schedule)
             key == <<call.key, state.latestSequence - base.latestSequence>>
             e == CreateEvent(state, "inject.triggered", call.id, key, data)
  <1>1. /\ state \in State /\ call.id \in CommandIds /\ call.key \in Keys
        /\ state.latestSequence - base.latestSequence \in Nat
    BY DEF SafetyInv, KernelInv, TypeOK, Idle, Consistent
  <1>2. /\ state' = ApplyEvent(state, e) /\ log' = Append(log, e) /\ base' = base
        /\ todo' = InjectDef[i].effects /\ call' = call
    BY DEF Fire, AppendEvent
  <1>3. data \in [inject : Injects, schedule : ScheduleId \cup {None}] /\ key \in Keys \X Nat
    BY <1>1 DEF InjectData
  <1>4. e \in Event
    <2> HIDE DEF data, key
    <2> QED
      BY <1>1, <1>3, CreatedEvent
  <1>5. Permitted(state, log, e)
    BY <1>1 DEF Permitted, CreateEvent, Resolutions
  <1>6. Warranted'
    BY <1>2, DefinedEffects DEF Warranted
  <1>7. ~ Idle'
    BY <1>2 DEF Idle
  <1> HIDE DEF e
  <1> QED
    BY <1>2, <1>4, <1>5, <1>6, <1>7, SafetyGrows

LEMMA SettlingSafe ==
  ASSUME SafetyInv, KernelInv', FireScheduled \/ FireConditional PROVE SafetyInv'
  <1>1. CASE FireScheduled
    <2>1. PICK x \in DueSchedules(state) : Fire(x.inject, x.id)
      BY <1>1 DEF FireScheduled
    <2>2. x \in Schedule
      BY DEF DueSchedules, SafetyInv, KernelInv, TypeOK, State
    <2>3. x.inject \in Injects /\ x.id \in ScheduleId
      BY <2>2 DEF Schedule
    <2> QED
      BY <1>1, <2>1, <2>3, FireSafe DEF FireScheduled, Settling
  <1>2. CASE FireConditional
    <2>1. PICK n \in 1 .. Len(InjectOrder) : Fire(InjectOrder[n], None)
      BY <1>2 DEF FireConditional
    <2>2. InjectOrder[n] \in Injects
      BY KernelAssumption
    <2> QED
      BY <1>2, <2>1, <2>2, FireSafe DEF FireConditional, Settling
  <1> QED
    BY <1>1, <1>2

LEMMA NextSafe == ASSUME SafetyInv, [Next]_vars PROVE SafetyInv'
  <1>1. KernelInv'
    BY NextInv DEF SafetyInv
  <1>2. CASE \E c \in Envelopes : Execute(c)
    BY <1>1, <1>2, ExecuteSafe
  <1>3. CASE ApplyEffect
    BY <1>1, <1>3, ApplyEffectSafe
  <1>4. CASE DropEffects
    BY <1>1, <1>4, SafetyStays DEF DropEffects
  <1>5. CASE FireScheduled \/ FireConditional
    BY <1>1, <1>5, SettlingSafe
  <1>6. CASE Return
    BY <1>1, <1>6, SafetyStays DEF Return
  <1>7. CASE ThrowIterations \/ ThrowInvalidState
    BY <1>1, <1>7, SafetyThrow DEF ThrowIterations, ThrowInvalidState, Settling
  <1>8. CASE UNCHANGED vars
    BY <1>1, <1>8, SafetyStays DEF vars
  <1> QED
    BY <1>2, <1>3, <1>4, <1>5, <1>6, <1>7, <1>8 DEF Next

\* A run begins without a clock that runs and without open approvals.
LEMMA InitSafe == ASSUME Init PROVE SafetyInv
  <1>1. KernelInv
    BY InitInv
  <1>2. PICK data \in Creations :
          LET e == CreateEvent(EmptyState, "run.created", None, CreateKey, data)
          IN  /\ state = ApplyEvent(EmptyState, e)
              /\ log = <<e>>
              /\ base = state /\ call = NoCall /\ todo = <<>>
    BY DEF Init
  <1> DEFINE e == CreateEvent(EmptyState, "run.created", None, CreateKey, data)
             s == Stamped(EmptyState, e)
  <1>3. e.type = "run.created" /\ e.data = data
    BY DEF CreateEvent
  <1>4. /\ s.status = "created" /\ s.participants = InitialStatus /\ s.pending = {}
    BY DEF Stamped, EmptyState
  <1>5. data = NoData \/ \E parent \in Inherited : data = [inherited |-> BranchState(parent)]
    BY DEF Creations
  <1>6. \A parent \in Inherited : BranchState(parent).pending = {}
    BY KernelAssumption DEF BranchState, State
  <1>7. state = IF data = NoData THEN s ELSE Inherit(s, e)
    BY <1>2, <1>3 DEF ApplyEvent
  <1>8. state \in State /\ log = <<e>> /\ Len(log) = 1 /\ log[1] = e
        /\ base = state /\ todo = <<>> /\ state.latestSequence = 1
    BY <1>1, <1>2 DEF KernelInv, TypeOK, Consistent
  <1>9. data # NoData =>
          /\ Inherit(s, e).status = s.status /\ Inherit(s, e).pending = data.inherited.pending
          /\ Inherit(s, e).participants = data.inherited.participants
    BY <1>3 DEF Inherit, Stamped, EmptyState
  <1> HIDE DEF e, s
  <1>10. /\ state.status = "created" /\ state.pending = {}
         /\ \A p \in Participants : state.participants[p] = First(log, p)
    BY <1>3, <1>4, <1>5, <1>6, <1>7, <1>8, <1>9 DEF First
  <1>11. /\ \A p : ~ Changes(log, 1, p) /\ log[1].type \notin Resolutions
    BY <1>3, <1>8 DEF Changes, Resolutions
  <1>12. \A i \in 1 .. 1 : i = 1
    OBVIOUS
  <1>13. Follows(state, log, 1)
    BY <1>10, <1>11, <1>12 DEF Follows, HasStatus
  <1>14. GateInv(log)
    BY <1>3, <1>8, <1>11, <1>12 DEF GateInv
  <1>15. Warranted
    BY <1>8 DEF Warranted
  <1> QED
    BY <1>1, <1>8, <1>13, <1>14, <1>15 DEF SafetyInv

THEOREM SafetyInvariance == Spec => []SafetyInv
  <1> QED
    BY InitSafe, NextSafe, PTL DEF Spec

\* Virtual time passes only while the run is running: no command moves the
\* clock of a run that was paused, completed or never started.
THEOREM ClockStopsWithTheRun == Spec => []ClockRunsOnlyWhileRunning
  <1>1. SafetyInv => ClockRunsOnlyWhileRunning
    <2> SUFFICES ASSUME SafetyInv, NEW i \in Events("clock.advanced")
                 PROVE  \E j \in 1 .. i - 1 :
                          /\ log[j].type \in {"run.started", "run.resumed"}
                          /\ \A k \in j + 1 .. i : log[k].type \notin Lifecycle
      BY DEF ClockRunsOnlyWhileRunning
    <2>1. i \in 1 .. Len(log) /\ log[i].type = "clock.advanced" /\ log[1].type = "run.created"
      BY DEF Events, SafetyInv, GateInv
    <2>2. i \in 2 .. Len(log)
      BY <2>1
    <2>3. RunsAt(log, i - 1)
      BY <2>1, <2>2 DEF SafetyInv, GateInv
    <2>4. PICK j \in 1 .. i - 1 : /\ log[j].type \in {"run.started", "run.resumed"}
                                 /\ \A k \in j + 1 .. i - 1 : log[k].type \notin Lifecycle
      BY <2>3 DEF RunsAt
    <2>5. \A k \in j + 1 .. i : log[k].type \notin Lifecycle
      <3>1. TAKE k \in j + 1 .. i
      <3>2. k \in j + 1 .. i - 1 \/ k = i
        BY <2>2, <2>4
      <3> QED
        BY <2>1, <2>4, <3>2 DEF Lifecycle
    <2> QED
      BY <2>4, <2>5
  <1> QED
    BY <1>1, SafetyInvariance, PTL

\* The status that the stream up to n gives a participant is the one it has there.
LEMMA StatusIsStatusAt ==
  ASSUME NEW n \in Nat, NEW p, NEW st, HasStatus(log, n, p, st)
  PROVE  StatusAt(p, n) = st
  <1> DEFINE changes == {i \in 1 .. n : Changes(log, i, p)}
  <1>1. StatusAt(p, n) =
          IF changes = {} THEN First(log, p)
          ELSE log[CHOOSE i \in changes : \A j \in changes : j <= i].data.status
    BY DEF StatusAt, Changes, First
  <1>2. CASE st = First(log, p) /\ \A i \in 1 .. n : ~ Changes(log, i, p)
    BY <1>1, <1>2
  <1>3. CASE \E k \in 1 .. n : /\ Changes(log, k, p) /\ log[k].data.status = st
                               /\ \A i \in k + 1 .. n : ~ Changes(log, i, p)
    <2>1. PICK k \in 1 .. n : /\ Changes(log, k, p) /\ log[k].data.status = st
                             /\ \A i \in k + 1 .. n : ~ Changes(log, i, p)
      BY <1>3
    <2>2. k \in changes /\ \A j \in changes : j <= k
      <3>1. \A j \in 1 .. n : j <= k \/ j \in k + 1 .. n
        BY <2>1
      <3> QED
        BY <2>1, <3>1
    <2>3. \A i \in changes : (\A j \in changes : j <= i) => i = k
      BY <2>2
    <2> HIDE DEF changes
    <2>4. (CHOOSE i \in changes : \A j \in changes : j <= i) = k
      BY <2>2, <2>3
    <2> QED
      BY <1>1, <2>1, <2>2, <2>4
  <1> QED
    BY <1>2, <1>3 DEF HasStatus

\* What stands between a proposal and its execution still holds when the action
\* is executed: an approval of this very request, given once, and a participant
\* who is active and may perform it, however long the approval was waited for.
THEOREM ApprovalsAreGates == Spec => []ApprovalsGateActions
  <1>1. ASSUME SafetyInv, NEW i \in Events("action.executed")
        PROVE  /\ i \in 2 .. Len(log)
               /\ MayExecute(log, i - 1, log[i].data.participant, log[i].data.action)
    <2>1. i \in 1 .. Len(log) /\ log[i].type = "action.executed" /\ log[1].type = "run.created"
      BY <1>1 DEF Events, SafetyInv, GateInv
    <2>2. i \in 2 .. Len(log)
      BY <2>1
    <2> QED
      BY <1>1, <2>1, <2>2 DEF SafetyInv, GateInv
  <1>2. SafetyInv => ApprovedFirst
    <2> SUFFICES ASSUME SafetyInv PROVE ApprovedFirst
      OBVIOUS
    <2>1. ASSUME NEW i \in Events("action.executed"), ActionDef[log[i].data.action].approval
          PROVE  /\ log[i - 1].type = "action.approved"
                 /\ \E j \in Events("action.approval_requested") :
                      log[j].data = [approvalId |-> log[i - 1].data.approvalId,
                                     action |-> log[i].data.action,
                                     participant |-> log[i].data.participant]
      <3>1. /\ i \in 2 .. Len(log)
            /\ Gated(log, i - 1, log[i].data.participant, log[i].data.action)
        BY <1>1 DEF MayExecute
      <3>2. 1 .. i - 1 \subseteq 1 .. Len(log)
        BY <3>1
      <3> QED
        BY <2>1, <3>1, <3>2 DEF Gated, Asked, Events
    <2>2. \A i, j \in 1 .. Len(log) :
            i # j /\ log[i].type \in Resolutions /\ log[j].type \in Resolutions
              => log[i].data # log[j].data
      BY DEF SafetyInv, GateInv
    <2> QED
      BY <2>1, <2>2 DEF ApprovedFirst
  <1>3. SafetyInv => ExecutedByActive
    <2> SUFFICES ASSUME SafetyInv, NEW i \in Events("action.executed")
                 PROVE  /\ StatusAt(log[i].data.participant, i) = "active"
                        /\ log[i].data.action \in CanPerform[log[i].data.participant]
      BY DEF ExecutedByActive
    <2> DEFINE p == log[i].data.participant
    <2>1. /\ i \in 2 .. Len(log) /\ HasStatus(log, i - 1, p, "active")
          /\ log[i].data.action \in CanPerform[p]
      BY <1>1 DEF MayExecute
    <2>2. ~ Changes(log, i, p)
      BY DEF Changes, Events
    <2>3. i \in Nat /\ \A j \in 1 .. i : j \in 1 .. i - 1 \/ j = i
      BY <2>1
    <2> HIDE DEF p
    <2>4. HasStatus(log, i, p, "active")
      <3>1. CASE "active" = First(log, p) /\ \A j \in 1 .. i - 1 : ~ Changes(log, j, p)
        BY <2>2, <2>3, <3>1 DEF HasStatus
      <3>2. ASSUME NEW k \in 1 .. i - 1, Changes(log, k, p), log[k].data.status = "active",
                   \A j \in k + 1 .. i - 1 : ~ Changes(log, j, p)
            PROVE  HasStatus(log, i, p, "active")
        <4>1. \A j \in k + 1 .. i : j \in k + 1 .. i - 1 \/ j = i
          BY <2>1, <3>2
        <4>2. k \in 1 .. i
          BY <2>1, <3>2
        <4> QED
          BY <2>2, <3>2, <4>1, <4>2 DEF HasStatus
      <3> QED
        BY <2>1, <3>1, <3>2 DEF HasStatus
    <2> QED
      BY <2>1, <2>3, <2>4, StatusIsStatusAt DEF p
  <1>4. SafetyInv => ApprovalsGateActions
    BY <1>2, <1>3 DEF ApprovalsGateActions
  <1> QED
    BY <1>4, SafetyInvariance, PTL

-----------------------------------------------------------------------------
(***************************************************************************)
(* A cascade of injects ends with nothing left behind, or with an error    *)
(* that only a cascade as long as the bound can cause: for any definition  *)
(* of triggers and effects, any commands and any bound.                    *)
(*                                                                         *)
(* The property speaks of the last command of an idle kernel.  The         *)
(* invariant says it of base, where a throw goes back to, and of an open   *)
(* call what makes it true in the end: its events are the only ones with   *)
(* its id, whatever obliges it to settle has been noted, and each round of *)
(* runDueInjects has fired an inject that had not fired before the call.   *)
(***************************************************************************)

Settlers == {"run.started", "clock.advanced", "action.executed"}

\* If the last command up to n had to settle, nothing is due in s.
LeavesNothing(s, l, n) ==
  (\E i \in 1 .. n : l[i].cause = l[n].cause /\ l[i].type \in Settlers) => Quiescent(s)

Executes(effects) ==
  \E k \in 1 .. Len(effects) : effects[k].kind = "execute-action"

\* What is known of the open call.
CallSettles ==
  /\ call.id \notin base.appliedCommandIds
  /\ \A i \in base.latestSequence + 1 .. Len(log) :
       log[i].cause = call.id /\ (log[i].type \in Settlers => call.settles)
  /\ Executes(todo) => call.settles
  /\ base.triggered \subseteq state.triggered
  /\ fired <= Cardinality(state.triggered \ base.triggered)

CascadeInv ==
  /\ KernelInv
  /\ LeavesNothing(base, log, base.latestSequence)
  /\ ~ Idle => CallSettles
  /\ BoundIsEarned

\* The longer stream says the same of base.
LEMMA BaseLeavesNothing ==
  ASSUME NEW l, NEW m, NEW n \in Nat \ {0}, \A i \in 1 .. n : m[i] = l[i],
         NEW s, LeavesNothing(s, l, n)
  PROVE  LeavesNothing(s, m, n)
BY DEF LeavesNothing

\* The fired injects are a finite set, whatever fires.
LEMMA FiniteTriggered ==
  ASSUME NEW s \in State, NEW t \in State
  PROVE  /\ s.triggered \subseteq Injects
         /\ IsFiniteSet(s.triggered \ t.triggered)
         /\ IsFiniteSet(Injects \ t.triggered)
         /\ Cardinality(s.triggered \ t.triggered) \in Nat
         /\ Cardinality(Injects \ t.triggered) \in Nat
  <1>1. s.triggered \subseteq Injects /\ t.triggered \subseteq Injects
    BY DEF State
  <1>2. /\ IsFiniteSet(s.triggered \ t.triggered)
        /\ IsFiniteSet(Injects \ t.triggered)
    BY <1>1, KernelAssumption, FS_Subset
  <1> QED
    BY <1>1, <1>2, FS_CardinalityType

\* A command begins: its id is new, and it has fired nothing yet.
LEMMA BeginCascade ==
  ASSUME CascadeInv, KernelInv', NEW c \in Envelopes, Admitted(c),
         NEW type, type # "run.created", NEW data, NEW rest, NEW settles,
         CreateEvent(state, type, c.id, <<c.key, 0>>, data) \in Event,
         type \in Settlers \/ Executes(rest) => settles = TRUE,
         Begin(c, type, data, rest, settles)
  PROVE  CascadeInv'
  <1> DEFINE e == CreateEvent(state, type, c.id, <<c.key, 0>>, data)
  <1>1. /\ c.id \in CommandIds /\ c.id # None
    BY EnvelopeType, KernelAssumption DEF CascadeInv
  <1>2. /\ state' = ApplyEvent(state, e) /\ log' = Append(log, e) /\ base' = base
        /\ call' = [id |-> c.id, key |-> c.key, settles |-> settles]
        /\ todo' = rest /\ fired' = 0
    BY DEF Begin
  <1>3. e.type = type /\ e.cause = c.id /\ e.data = data
    BY DEF CreateEvent
  <1>4. /\ log \in Seq(Event) /\ Len(log) \in Nat \ {0} /\ state \in State
        /\ IsFiniteSet(state.appliedCommandIds) /\ base = state
        /\ state.latestSequence = Len(log) /\ c.id \notin base.appliedCommandIds
    BY DEF CascadeInv, KernelInv, TypeOK, Consistent, Admitted, Seen
  <1> HIDE DEF e
  <1>5. /\ Len(log') = Len(log) + 1 /\ log'[Len(log) + 1] = e
        /\ \A i \in 1 .. Len(log) : log'[i] = log[i]
    BY <1>2, <1>4, AppendedLog DEF e
  <1>6. LeavesNothing(base', log', base'.latestSequence)
    BY <1>2, <1>4, <1>5, BaseLeavesNothing DEF CascadeInv
  <1>7. ~ Idle'
    BY <1>1, BeginOpens
  <1>8. \A i \in base'.latestSequence + 1 .. Len(log') : i = Len(log) + 1
    BY <1>2, <1>4, <1>5
  <1>9. state.triggered \subseteq state'.triggered
    BY <1>1, <1>2, <1>3, <1>4, ApplyEventStatus DEF e
  <1>10. fired' <= Cardinality(state'.triggered \ base'.triggered)
    <2>1. state' \in State /\ base' \in State
      BY DEF KernelInv, TypeOK
    <2>2. Cardinality(state'.triggered \ base'.triggered) \in Nat
      BY <2>1, FiniteTriggered
    <2> QED
      BY <1>2, <2>2
  <1>11. CallSettles'
    BY <1>2, <1>3, <1>4, <1>5, <1>8, <1>9, <1>10 DEF CallSettles, Executes
  <1>12. BoundIsEarned'
    BY <1>7 DEF BoundIsEarned
  <1> QED
    BY <1>6, <1>7, <1>11, <1>12 DEF CascadeInv

\* An append of the open call.
LEMMA AppendCascade ==
  ASSUME CascadeInv, KernelInv', ~ Idle, NEW type, type # "run.created", NEW data,
         AppendEvent(type, data), UNCHANGED <<base, call>>,
         CreateEvent(state, type, call.id,
           <<call.key, state.latestSequence - base.latestSequence>>, data) \in Event,
         type \in Settlers => call.settles, Executes(todo') => call.settles,
         \/ fired' = fired
         \/ /\ fired' = fired + 1 /\ type = "inject.triggered"
            /\ data.inject \notin state.triggered
  PROVE  CascadeInv'
  <1> DEFINE n == state.latestSequence - base.latestSequence
             e == CreateEvent(state, type, call.id, <<call.key, n>>, data)
  <1>1. /\ call.id \in CommandIds /\ call.id # None
    BY KernelAssumption DEF CascadeInv, KernelInv, TypeOK, Idle
  <1>2. state' = ApplyEvent(state, e) /\ log' = Append(log, e)
    BY DEF AppendEvent
  <1>3. e.type = type /\ e.cause = call.id /\ e.data = data /\ e \in Event
    BY DEF CreateEvent
  <1> HIDE DEF e, n
  <1>4. /\ log \in Seq(Event) /\ Len(log) \in Nat \ {0} /\ state \in State
        /\ IsFiniteSet(state.appliedCommandIds)
        /\ base.latestSequence \in 1 .. Len(log)
        /\ CallSettles /\ fired \in Nat
    BY DEF CascadeInv, KernelInv, TypeOK, Consistent
  <1>5. /\ Len(log') = Len(log) + 1 /\ log'[Len(log) + 1] = e
        /\ \A i \in 1 .. Len(log) : log'[i] = log[i]
    BY <1>2, <1>3, <1>4, AppendedLog
  <1>6. LeavesNothing(base', log', base'.latestSequence)
    <2>1. /\ base.latestSequence \in Nat \ {0}
          /\ \A i \in 1 .. base.latestSequence : log'[i] = log[i]
      BY <1>4, <1>5
    <2> QED
      BY <2>1, BaseLeavesNothing DEF CascadeInv
  <1>7. ~ Idle'
    BY DEF Idle
  <1>8. \A i \in base.latestSequence + 1 .. Len(log') :
          \/ i \in base.latestSequence + 1 .. Len(log) /\ i \in 1 .. Len(log)
          \/ i = Len(log) + 1
    BY <1>4, <1>5
  <1>9. state'.triggered = IF type = "inject.triggered" THEN state.triggered \cup {data.inject}
                           ELSE state.triggered
    BY <1>1, <1>2, <1>3, <1>4, ApplyEventStatus
  <1>10. base.triggered \subseteq state.triggered /\ state.triggered \subseteq state'.triggered
    BY <1>4, <1>9 DEF CallSettles
  <1>11. fired' <= Cardinality(state'.triggered \ base'.triggered)
    <2> DEFINE S == state.triggered \ base.triggered
               T == state'.triggered \ base.triggered
    <2> state' \in State /\ base' \in State /\ base \in State
      BY DEF CascadeInv, KernelInv, TypeOK
    <2>1. /\ IsFiniteSet(S) /\ Cardinality(S) \in Nat
          /\ IsFiniteSet(T) /\ Cardinality(T) \in Nat /\ fired <= Cardinality(S)
      BY <1>4, FiniteTriggered DEF CallSettles
    <2>2. CASE fired' = fired
      <3>1. S \subseteq T
        BY <1>10
      <3>2. Cardinality(S) <= Cardinality(T)
        BY <2>1, <3>1, FS_Subset
      <3> QED
        BY <1>4, <2>1, <2>2, <3>2
    <2>3. CASE /\ fired' = fired + 1 /\ type = "inject.triggered"
               /\ data.inject \notin state.triggered
      <3>1. T = S \cup {data.inject} /\ data.inject \notin S
        BY <1>9, <1>10, <2>3
      <3>2. Cardinality(T) = Cardinality(S) + 1
        BY <2>1, <3>1, FS_AddElement
      <3> QED
        BY <1>4, <2>1, <2>3, <3>2
    <2> QED
      BY <2>2, <2>3
  <1>12. \A i \in base'.latestSequence + 1 .. Len(log') :
           log'[i].cause = call'.id /\ (log'[i].type \in Settlers => call'.settles)
    BY <1>3, <1>4, <1>5, <1>8 DEF CallSettles
  <1>13. CallSettles'
    BY <1>4, <1>10, <1>11, <1>12 DEF CallSettles, Executes
  <1>14. BoundIsEarned'
    BY <1>7 DEF BoundIsEarned
  <1> QED
    BY <1>6, <1>7, <1>13, <1>14 DEF CascadeInv

\* A command that is refused, or found to be a duplicate, leaves things as they were.
LEMMA QuietCascade ==
  ASSUME CascadeInv, KernelInv', UNCHANGED <<state, log, base, call, todo, fired>>,
         outcome'.code # "iterations" \/ outcome' = outcome
  PROVE  CascadeInv'
BY DEF CascadeInv, CallSettles, Executes, Idle, BoundIsEarned

LEMMA RejectCascade ==
  ASSUME CascadeInv, KernelInv', NEW code, code # "iterations", Reject(code)
  PROVE  CascadeInv'
BY QuietCascade DEF Reject

\* A call that returns has settled if it had to.
LEMMA ReturnCascade == ASSUME CascadeInv, KernelInv', Return PROVE CascadeInv'
  <1>1. ~ Idle /\ (call.settles => Quiescent(state))
    BY DEF Return, Settled
  <1>2. /\ log' = log /\ state' = state /\ base' = state /\ call' = NoCall
        /\ outcome' = [status |-> "accepted", code |-> None]
    BY DEF Return
  <1>3. /\ call.id \in CommandIds /\ call.id # None
    BY <1>1, KernelAssumption DEF CascadeInv, KernelInv, TypeOK, Idle
  <1>4. /\ Len(log) \in Nat /\ base.latestSequence \in 1 .. Len(log)
        /\ base.latestSequence < Len(log)
        /\ state.latestSequence = Len(log)
        /\ base.appliedCommandIds = {log[i].cause : i \in 1 .. base.latestSequence} \ {None}
        /\ CallSettles
    BY <1>1 DEF CascadeInv, KernelInv, TypeOK, Consistent, OpenCall
  <1>5. log[Len(log)].cause = call.id
    BY <1>4 DEF CallSettles
  <1>6. ASSUME NEW i \in 1 .. Len(log), log[i].cause = call.id, log[i].type \in Settlers
        PROVE  Quiescent(state)
    <2>1. i \notin 1 .. base.latestSequence
      BY <1>3, <1>4, <1>6 DEF CallSettles
    <2>2. i \in base.latestSequence + 1 .. Len(log)
      BY <1>4, <2>1
    <2> QED
      BY <1>1, <1>4, <1>6, <2>2 DEF CallSettles
  <1>7. LeavesNothing(state, log, Len(log))
    BY <1>5, <1>6 DEF LeavesNothing
  <1>8. Idle' /\ BoundIsEarned'
    BY <1>2 DEF Idle, BoundIsEarned, None
  <1> QED
    BY <1>2, <1>4, <1>7, <1>8 DEF CascadeInv

\* A call that throws goes back; it runs into the bound only by firing injects
\* that had not fired when it began.
LEMMA ThrowCascade ==
  ASSUME CascadeInv, KernelInv', ThrowIterations \/ ThrowInvalidState
  PROVE  CascadeInv'
  <1> DEFINE b == base.latestSequence
  <1>1. PICK reason \in {"iterations", "schema"} :
          /\ Throw(reason) /\ ~ Idle
          /\ reason = "iterations" => fired = MaxTriggerIterations
    BY DEF ThrowIterations, ThrowInvalidState, Settling
  <1>2. /\ state' = base /\ base' = base /\ log' = SubSeq(log, 1, b) /\ call' = NoCall
        /\ outcome' = [status |-> "error", code |-> reason]
    BY <1>1 DEF Throw
  <1>3. /\ log \in Seq(Event) /\ b \in 1 .. Len(log) /\ b \in Nat \ {0}
        /\ LeavesNothing(base, log, b) /\ CallSettles
    BY <1>1 DEF CascadeInv, KernelInv, TypeOK
  <1>4. LeavesNothing(base, log', b)
    <2>1. \A i \in 1 .. b : log'[i] = log[i]
      BY <1>2, <1>3
    <2> QED
      BY <1>3, <2>1, BaseLeavesNothing
  <1>5. reason = "iterations" => Cardinality(Injects \ base.triggered) >= MaxTriggerIterations
    <2> DEFINE S == state.triggered \ base.triggered
               T == Injects \ base.triggered
    <2> state \in State /\ base \in State
      BY DEF CascadeInv, KernelInv, TypeOK
    <2>1. /\ S \subseteq T /\ IsFiniteSet(T) /\ Cardinality(S) \in Nat /\ Cardinality(T) \in Nat
      BY FiniteTriggered
    <2>2. Cardinality(S) <= Cardinality(T)
      BY <2>1, FS_Subset
    <2>3. fired <= Cardinality(S)
      BY <1>3 DEF CallSettles
    <2> HIDE DEF S, T
    <2>4. reason = "iterations" => Cardinality(T) >= MaxTriggerIterations
      BY <1>1, <2>1, <2>2, <2>3, KernelAssumption
    <2> QED
      BY <2>4 DEF T
  <1>6. Idle' /\ BoundIsEarned'
    BY <1>2, <1>5 DEF Idle, BoundIsEarned
  <1> QED
    BY <1>2, <1>4, <1>6 DEF CascadeInv

\* A rejected attempt is the only event of its command.
LEMMA RejectionCascade ==
  ASSUME CascadeInv, KernelInv', NEW c \in Envelopes, Admitted(c), RecordActionRejection(c)
  PROVE  CascadeInv'
  <1> DEFINE e == CreateEvent(state, "action.rejected", c.id, <<c.key, 0>>, NoData)
  <1>1. c.id \in CommandIds /\ c.id # None /\ c.key \in Keys
    BY EnvelopeType, KernelAssumption DEF CascadeInv
  <1>2. /\ log' = Append(log, e) /\ base' = state' /\ call' = call
        /\ outcome' = [status |-> "rejected", code |-> "ACTION_NOT_ALLOWED"]
    BY DEF RecordActionRejection
  <1>3. /\ log \in Seq(Event) /\ Len(log) \in Nat \ {0} /\ state \in State
        /\ state.appliedCommandIds = {log[i].cause : i \in 1 .. Len(log)} \ {None}
        /\ c.id \notin state.appliedCommandIds /\ Idle
    BY DEF CascadeInv, KernelInv, TypeOK, Consistent, Admitted, Seen
  <1>4. e.cause = c.id /\ e.type = "action.rejected"
    BY DEF CreateEvent
  <1>5. e \in Event
    BY <1>1, <1>3, CreatedEvent DEF PlainType
  <1> HIDE DEF e
  <1>6. /\ Len(log') = Len(log) + 1 /\ log'[Len(log) + 1] = e
        /\ \A i \in 1 .. Len(log) : log'[i] = log[i]
    BY <1>2, <1>3, <1>5, AppendedLog
  <1>7. \A i \in 1 .. Len(log') : i \in 1 .. Len(log) \/ i = Len(log) + 1
    BY <1>3, <1>6
  <1>8. \A i \in 1 .. Len(log) : log'[i].cause # c.id
    BY <1>1, <1>3, <1>6
  <1>9. LeavesNothing(state', log', Len(log'))
    BY <1>4, <1>6, <1>7, <1>8 DEF LeavesNothing, Settlers
  <1>10. base'.latestSequence = Len(log')
    BY <1>2 DEF KernelInv, Consistent
  <1>11. Idle' /\ BoundIsEarned'
    BY <1>2, <1>3 DEF Idle, BoundIsEarned
  <1> QED
    BY <1>2, <1>9, <1>10, <1>11 DEF CascadeInv

-----------------------------------------------------------------------------
(* The steps                                                                *)

\* Only an action's execution obliges a command to settle by its effects.
LEMMA DefinedDoNotExecute ==
  /\ ~ Executes(<<>>)
  /\ \A a \in Actions : ~ Executes(ActionDef[a].effects)
  /\ \A i \in Injects : ~ Executes(InjectDef[i].effects)
BY DefinedEffects DEF Executes, Ordinary

LEMMA PlainBeginCascade ==
  ASSUME CascadeInv, KernelInv', NEW c \in Envelopes, Admitted(c), NEW type \in PlainType,
         NEW rest, NEW settles, type = "run.started" \/ Executes(rest) => settles = TRUE,
         Begin(c, type, NoData, rest, settles)
  PROVE  CascadeInv'
  <1>1. c.id \in CommandIds /\ c.key \in Keys /\ state \in State
    BY EnvelopeType DEF CascadeInv, KernelInv, TypeOK
  <1>2. <<c.key, 0>> \in Keys \X Nat
    BY <1>1
  <1>3. CreateEvent(state, type, c.id, <<c.key, 0>>, NoData) \in Event
    BY <1>1, <1>2, CreatedEvent
  <1>4. type # "run.created" /\ (type \in Settlers => type = "run.started")
    BY DEF PlainType, Settlers
  <1> QED
    BY <1>3, <1>4, BeginCascade

LEMMA SubmitActionCascade ==
  ASSUME CascadeInv, KernelInv', NEW c \in Envelopes, NEW p \in Participants,
         NEW a \in Actions, SubmitAction(c, p, a)
  PROVE  CascadeInv'
  <1> DEFINE request == [approvalId |-> c.id, action |-> a, participant |-> p]
             x == [kind |-> "request-approval", approval |-> request]
  <1>1. Admitted(c)
    BY DEF SubmitAction
  <1>2. ~ Executes(<<x>>)
    <2>1. x.kind # "execute-action"
      OBVIOUS
    <2> HIDE DEF x
    <2>2. \A k \in 1 .. Len(<<x>>) : <<x>>[k] = x
      OBVIOUS
    <2> QED
      BY <2>1, <2>2 DEF Executes
  <1>3. ASSUME NEW rest, NEW settles, Executes(rest) => settles = TRUE,
               Begin(c, "action.proposed", NoData, rest, settles)
        PROVE  CascadeInv'
    BY <1>1, <1>3, PlainBeginCascade DEF PlainType
  <1>4. CASE Reject("ACTION_NOT_ALLOWED")
    BY <1>4, RejectCascade
  <1>5. CASE RecordActionRejection(c)
    BY <1>1, <1>5, RejectionCascade
  <1>6. CASE Begin(c, "action.proposed", NoData, <<x>>, FALSE)
    BY <1>2, <1>3, <1>6
  <1>7. CASE Begin(c, "action.proposed", NoData, ExecuteAction(p, a), TRUE)
    BY <1>3, <1>7
  <1> QED
    BY <1>4, <1>5, <1>6, <1>7 DEF SubmitAction

LEMMA ResolveApprovalCascade ==
  ASSUME CascadeInv, KernelInv', NEW c \in Envelopes, NEW approvalId \in CommandIds,
         NEW decision \in Decisions, ResolveApproval(c, approvalId, decision)
  PROVE  CascadeInv'
  <1> DEFINE data == [approvalId |-> approvalId]
  <1>1. /\ c.id \in CommandIds /\ c.key \in Keys /\ state \in State /\ Admitted(c)
    BY EnvelopeType DEF CascadeInv, KernelInv, TypeOK, ResolveApproval
  <1>2. <<c.key, 0>> \in Keys \X Nat
    BY <1>1
  <1>3. ASSUME NEW type \in Resolutions, NEW rest, NEW settles,
               Executes(rest) => settles = TRUE, Begin(c, type, data, rest, settles)
        PROVE  CascadeInv'
    <2> data \in [approvalId : CommandIds]
      OBVIOUS
    <2> HIDE DEF data
    <2>1. CreateEvent(state, type, c.id, <<c.key, 0>>, data) \in Event
      BY <1>1, <1>2, CreatedEvent
    <2>2. type # "run.created" /\ type \notin Settlers
      BY DEF Resolutions, Settlers
    <2> QED
      BY <1>1, <1>3, <2>1, <2>2, BeginCascade
  <1>4. CASE Reject("APPROVAL_STALE")
    BY <1>4, RejectCascade
  <1>5. ASSUME NEW type \in Resolutions, Begin(c, type, data, <<>>, FALSE)
        PROVE  CascadeInv'
    BY <1>3, <1>5, DefinedDoNotExecute
  <1>6. ASSUME NEW rest, Begin(c, "action.approved", data, rest, TRUE)
        PROVE  CascadeInv'
    BY <1>3, <1>6 DEF Resolutions
  <1> HIDE DEF data
  <1> QED
    BY <1>4, <1>5, <1>6 DEF ResolveApproval, Resolutions, data

LEMMA AdvanceClockCascade ==
  ASSUME CascadeInv, KernelInv', NEW c \in Envelopes, NEW minutes \in Minutes,
         AdvanceClock(c, minutes)
  PROVE  CascadeInv'
  <1> DEFINE data == [minutes |-> minutes]
  <1>1. c.id \in CommandIds /\ c.key \in Keys /\ state \in State /\ Admitted(c)
    BY EnvelopeType DEF CascadeInv, KernelInv, TypeOK, AdvanceClock
  <1>2. <<c.key, 0>> \in Keys \X Nat
    BY <1>1
  <1>3. CASE minutes > 0 /\ Begin(c, "clock.advanced", data, <<>>, TRUE)
    <2>1. minutes \in Nat
      BY <1>3, KernelAssumption
    <2>2. data \in [minutes : Nat]
      BY <2>1
    <2> HIDE DEF data
    <2>3. CreateEvent(state, "clock.advanced", c.id, <<c.key, 0>>, data) \in Event
      BY <1>1, <1>2, <2>2, CreatedEvent
    <2> QED
      BY <1>1, <1>3, <2>3, BeginCascade
  <1>4. CASE Reject("ACTION_NOT_ALLOWED") \/ Reject("VALIDATION_ERROR")
    BY <1>4, RejectCascade
  <1> QED
    BY <1>3, <1>4 DEF AdvanceClock

LEMMA TriggerInjectCascade ==
  ASSUME CascadeInv, KernelInv', NEW c \in Envelopes, NEW i \in Injects, TriggerInject(c, i)
  PROVE  CascadeInv'
  <1> DEFINE data == InjectData(i, None)
  <1>1. c.id \in CommandIds /\ c.key \in Keys /\ state \in State /\ Admitted(c)
    BY EnvelopeType DEF CascadeInv, KernelInv, TypeOK, TriggerInject
  <1>2. <<c.key, 0>> \in Keys \X Nat
    BY <1>1
  <1>3. data \in [inject : Injects, schedule : ScheduleId \cup {None}]
    BY DEF InjectData
  <1>4. CASE Begin(c, "inject.triggered", data, InjectDef[i].effects, FALSE)
    <2> HIDE DEF data
    <2>1. CreateEvent(state, "inject.triggered", c.id, <<c.key, 0>>, data) \in Event
      BY <1>1, <1>2, <1>3, CreatedEvent
    <2>2. ~ Executes(InjectDef[i].effects) /\ "inject.triggered" \notin Settlers
      BY DefinedDoNotExecute DEF Settlers
    <2> QED
      BY <1>1, <1>4, <2>1, <2>2, BeginCascade
  <1>5. CASE Reject("ACTION_NOT_ALLOWED")
    BY <1>5, RejectCascade
  <1> QED
    BY <1>4, <1>5 DEF TriggerInject

LEMMA ExecuteCascade ==
  ASSUME CascadeInv, KernelInv', NEW c \in Envelopes, Execute(c) PROVE CascadeInv'
  <1>1. CASE RejectMisaddressed(c) \/ RejectVersion(c) \/ RejectTerminal(c)
    BY <1>1, RejectCascade DEF RejectMisaddressed, RejectVersion, RejectTerminal
  <1>2. CASE ReturnDuplicate(c)
    <2>1. outcome'.code # "iterations"
      BY <1>2 DEF ReturnDuplicate, None
    <2> QED
      BY <1>2, <2>1, QuietCascade DEF ReturnDuplicate
  <1>3. CASE StartRun(c) \/ PauseRun(c) \/ ResumeRun(c)
    <2>1. /\ Admitted(c)
          /\ \/ Reject("ACTION_NOT_ALLOWED")
             \/ Begin(c, "run.started", NoData, <<>>, TRUE)
             \/ Begin(c, "run.paused", NoData, <<>>, FALSE)
             \/ Begin(c, "run.resumed", NoData, <<>>, FALSE)
      BY <1>3 DEF StartRun, PauseRun, ResumeRun
    <2> QED
      BY <2>1, RejectCascade, PlainBeginCascade, DefinedDoNotExecute DEF PlainType
  <1>4. CASE \E minutes \in Minutes : AdvanceClock(c, minutes)
    BY <1>4, AdvanceClockCascade
  <1>5. CASE \E p \in Participants, a \in Actions : SubmitAction(c, p, a)
    BY <1>5, SubmitActionCascade
  <1>6. CASE \E approvalId \in CommandIds, decision \in Decisions :
               ResolveApproval(c, approvalId, decision)
    BY <1>6, ResolveApprovalCascade
  <1>7. CASE \E i \in Injects : TriggerInject(c, i)
    BY <1>7, TriggerInjectCascade
  <1>8. CASE FinishRun(c) \/ CreateCheckpoint(c) \/ CreateBranch(c)
    <2>1. /\ Admitted(c)
          /\ \/ Begin(c, "run.completed", NoData, <<>>, FALSE)
             \/ Begin(c, "checkpoint.created", NoData, <<>>, FALSE)
             \/ Begin(c, "branch.created", NoData, <<>>, FALSE)
      BY <1>8 DEF FinishRun, CreateCheckpoint, CreateBranch
    <2> QED
      BY <2>1, PlainBeginCascade, DefinedDoNotExecute DEF PlainType
  <1> QED
    BY <1>1, <1>2, <1>3, <1>4, <1>5, <1>6, <1>7, <1>8 DEF Execute

\* An effect executes an action only in a call that settles.
LEMMA ApplyEffectCascade == ASSUME CascadeInv, KernelInv', ApplyEffect PROVE CascadeInv'
  <1> DEFINE x == Head(todo)
             y == EffectEvent(state, x)
             key == <<call.key, state.latestSequence - base.latestSequence>>
  <1>1. /\ ~ Idle /\ todo # <<>> /\ todo \in Seq(Effect) /\ state \in State
        /\ call.id \in CommandIds /\ call.key \in Keys
        /\ state.latestSequence - base.latestSequence \in Nat
        /\ CallSettles
    BY DEF CascadeInv, KernelInv, TypeOK, ApplyEffect, Idle, Consistent
  <1>2. /\ AppendEvent(y.type, y.data) /\ todo' = Tail(todo) /\ fired' = fired
        /\ UNCHANGED <<base, call>>
    BY DEF ApplyEffect
  <1>3. x \in Effect /\ key \in Keys \X Nat /\ todo[1] = x /\ 1 \in 1 .. Len(todo)
    BY <1>1
  <1>4. CreateEvent(state, y.type, call.id, key, y.data) \in Event /\ y.type # "run.created"
    BY <1>1, <1>3, EffectEvents
  <1>5. y.type \in Settlers => x.kind = "execute-action"
    <2>1. x.kind \in {"set-state", "increment-state", "schedule-inject",
                     "change-participant-status", "emit-signal", "record-metric",
                     "complete-run", "execute-action", "request-approval"}
      BY <1>3 DEF Effect
    <2>2. x.kind # "execute-action" =>
            y.type \in {"state.changed", "inject.scheduled", "participant.status_changed",
                       "signal.emitted", "metric.recorded", "run.completed",
                       "action.approval_requested"}
      BY <2>1 DEF EffectEvent
    <2> HIDE DEF y
    <2> QED
      BY <2>2 DEF Settlers
  <1>6. x.kind = "execute-action" => call.settles
    BY <1>1, <1>3 DEF CallSettles, Executes
  <1>7. Executes(todo') => call.settles
    <2>1. \A k \in 1 .. Len(todo') : todo'[k] = todo[k + 1] /\ k + 1 \in 1 .. Len(todo)
      BY <1>1, <1>2
    <2>2. Executes(todo') => Executes(todo)
      BY <2>1 DEF Executes
    <2> QED
      BY <1>1, <2>2 DEF CallSettles
  <1> HIDE DEF y
  <1> QED
    BY <1>1, <1>2, <1>4, <1>5, <1>6, <1>7, AppendCascade

LEMMA FireCascade ==
  ASSUME CascadeInv, KernelInv', Settling, NEW i \in Injects, i \notin state.triggered,
         NEW schedule \in ScheduleId \cup {None}, Fire(i, schedule)
  PROVE  CascadeInv'
  <1> DEFINE data == InjectData(i, schedule)
             key == <<call.key, state.latestSequence - base.latestSequence>>
  <1>1. /\ ~ Idle /\ call.settles /\ state \in State
        /\ call.id \in CommandIds /\ call.key \in Keys
        /\ state.latestSequence - base.latestSequence \in Nat
    BY DEF CascadeInv, KernelInv, TypeOK, Settling, Idle, Consistent
  <1>2. /\ AppendEvent("inject.triggered", data) /\ fired' = fired + 1
        /\ UNCHANGED <<base, call>>
    BY DEF Fire
  <1>3. /\ data \in [inject : Injects, schedule : ScheduleId \cup {None}]
        /\ key \in Keys \X Nat /\ data.inject = i
    BY <1>1 DEF InjectData
  <1> HIDE DEF data
  <1>4. CreateEvent(state, "inject.triggered", call.id, key, data) \in Event
    <2> HIDE DEF key
    <2> QED
      BY <1>1, <1>3, CreatedEvent
  <1> QED
    BY <1>1, <1>2, <1>3, <1>4, AppendCascade

LEMMA SettlingCascade ==
  ASSUME CascadeInv, KernelInv', FireScheduled \/ FireConditional PROVE CascadeInv'
  <1>1. CASE FireScheduled
    <2>1. PICK x \in DueSchedules(state) : Fire(x.inject, x.id)
      BY <1>1 DEF FireScheduled
    <2>2. x \in Schedule /\ x.inject \notin state.triggered
      BY DEF DueSchedules, CascadeInv, KernelInv, TypeOK, State
    <2>3. x.inject \in Injects /\ x.id \in ScheduleId
      BY <2>2 DEF Schedule
    <2> QED
      BY <1>1, <2>1, <2>2, <2>3, FireCascade DEF FireScheduled
  <1>2. CASE FireConditional
    <2>1. PICK n \in 1 .. Len(InjectOrder) :
            InjectOrder[n] \in EligibleInjects(state) /\ Fire(InjectOrder[n], None)
      BY <1>2 DEF FireConditional
    <2>2. InjectOrder[n] \in Injects /\ InjectOrder[n] \notin state.triggered
      BY <2>1 DEF EligibleInjects
    <2> QED
      BY <1>2, <2>1, <2>2, FireCascade DEF FireConditional
  <1> QED
    BY <1>1, <1>2

LEMMA NextCascade == ASSUME CascadeInv, [Next]_vars PROVE CascadeInv'
  <1>1. KernelInv'
    BY NextInv DEF CascadeInv
  <1>2. CASE \E c \in Envelopes : Execute(c)
    BY <1>1, <1>2, ExecuteCascade
  <1>3. CASE ApplyEffect
    BY <1>1, <1>3, ApplyEffectCascade
  <1>4. CASE DropEffects
    <2>1. /\ ~ Executes(todo') /\ ~ Idle /\ ~ Idle'
          /\ UNCHANGED <<state, log, base, call, fired>>
      BY <1>4, DefinedDoNotExecute DEF DropEffects, Idle
    <2> QED
      BY <1>1, <2>1 DEF CascadeInv, CallSettles, BoundIsEarned
  <1>5. CASE FireScheduled \/ FireConditional
    BY <1>1, <1>5, SettlingCascade
  <1>6. CASE Return
    BY <1>1, <1>6, ReturnCascade
  <1>7. CASE ThrowIterations \/ ThrowInvalidState
    BY <1>1, <1>7, ThrowCascade
  <1>8. CASE UNCHANGED vars
    BY <1>1, <1>8, QuietCascade DEF vars
  <1> QED
    BY <1>2, <1>3, <1>4, <1>5, <1>6, <1>7, <1>8 DEF Next

\* A run begins with one event, which obliges to nothing.
LEMMA InitCascade == ASSUME Init PROVE CascadeInv
  <1>1. KernelInv
    BY InitInv
  <1>2. PICK data \in Creations :
          LET e == CreateEvent(EmptyState, "run.created", None, CreateKey, data)
          IN  log = <<e>> /\ base = state /\ call = NoCall /\ outcome = NoOutcome
    BY DEF Init
  <1>3. Len(log) = 1 /\ log[1].type = "run.created"
    BY <1>2 DEF CreateEvent
  <1>4. base.latestSequence = 1
    BY <1>1, <1>2, <1>3 DEF KernelInv, Consistent
  <1>5. LeavesNothing(base, log, 1)
    <2>1. \A i \in 1 .. 1 : i = 1
      OBVIOUS
    <2> QED
      BY <1>3, <2>1 DEF LeavesNothing, Settlers
  <1>6. Idle /\ BoundIsEarned
    BY <1>2 DEF Idle, BoundIsEarned, NoOutcome, None
  <1> QED
    BY <1>1, <1>4, <1>5, <1>6 DEF CascadeInv

THEOREM CascadeInvariance == Spec => []CascadeInv
  <1> QED
    BY InitCascade, NextCascade, PTL DEF Spec

\* A command that started the run, moved the clock or executed an action leaves
\* no due schedule and no satisfied condition behind, unless it threw; and it
\* threw for its iterations only if as many injects were left as the bound allows.
THEOREM CascadesEndOrEarnTheBound == Spec => []CascadesEnd
  <1>1. CascadeInv => CascadesEnd
    <2>1. ASSUME CascadeInv PROVE SettledAfterCommand
      <3>1. Idle => base = state /\ state.latestSequence = Len(log)
        BY <2>1 DEF CascadeInv, KernelInv, Consistent
      <3> QED
        BY <2>1, <3>1 DEF CascadeInv, LeavesNothing, SettledAfterCommand, Settlers
    <2> QED
      BY <2>1 DEF CascadeInv, CascadesEnd
  <1> QED
    BY <1>1, CascadeInvariance, PTL

-----------------------------------------------------------------------------
(***************************************************************************)
(* That the stream alone restores the state, for any definition and any    *)
(* commands.  The invariant holds the states that the replay goes through: *)
(* the last of them is the state, and the one at the number of base is     *)
(* base, where a throw goes back to with the stream.                       *)
(***************************************************************************)

\* The states f that events l lead through from the empty state.
LeadsThrough(f, l) ==
  /\ f = [i \in 0 .. Len(l) |-> f[i]]
  /\ f[0] = EmptyState
  /\ \A i \in 1 .. Len(l) : f[i] = ApplyEvent(f[i - 1], l[i])

RestoresInv ==
  \E f : /\ LeadsThrough(f, log)
         /\ f[Len(log)] = state /\ f[base.latestSequence] = base

\* Replay goes through the same states.
LEMMA ReplayIsLast ==
  ASSUME NEW l, Len(l) \in Nat, NEW f, LeadsThrough(f, l)
  PROVE  Replay(EmptyState, l) = f[Len(l)]
  <1> DEFINE n == Len(l)
             Body(g) == [i \in 0 .. n |-> IF i = 0 THEN EmptyState ELSE ApplyEvent(g[i - 1], l[i])]
             after == CHOOSE g : g = Body(g)
  <1>1. /\ f = [i \in 0 .. n |-> f[i]] /\ f[0] = EmptyState
        /\ \A i \in 1 .. n : f[i] = ApplyEvent(f[i - 1], l[i])
    BY DEF LeadsThrough
  <1>2. n \in Nat
    OBVIOUS
  <1> HIDE DEF n
  <1>3. f = Body(f)
    <2>1. \A i \in 0 .. n : f[i] = Body(f)[i]
      BY <1>1, <1>2
    <2> QED
      BY <1>1, <2>1
  <1>4. after = Body(after)
    <2> HIDE DEF Body
    <2> QED
      BY <1>3, Zenon
  <1>5. Replay(EmptyState, l) = after[n]
    BY Zenon DEF Replay, n
  <1> HIDE DEF after
  <1>6. after[0] = EmptyState /\ \A i \in 1 .. n : after[i] = ApplyEvent(after[i - 1], l[i])
    BY <1>2, <1>4
  <1>7. after[0] = f[0]
    BY <1>1, <1>6
  <1>8. \A i \in 1 .. n : after[i - 1] = f[i - 1] => after[i] = f[i]
    BY <1>1, <1>6
  <1> HIDE DEF Body
  <1>9. \A i \in 0 .. n : after[i] = f[i]
    <2> DEFINE S == {i \in 0 .. n : after[i] = f[i]}
    <2>1. 0 \in S
      BY <1>2, <1>7
    <2>2. \A i \in 1 .. n : i - 1 \in S => i \in S
      BY <1>2, <1>8
    <2>3. 0 .. n \subseteq S
      <3> HIDE DEF S
      <3> QED
        BY <1>2, <2>1, <2>2, BoundedInduction
    <2> QED
      BY <2>3
  <1>10. after[n] = f[n]
    BY <1>2, <1>9
  <1>11. Replay(EmptyState, l) = f[n]
    BY <1>5, <1>10
  <1> QED
    BY <1>11 DEF n

\* What a step does to the stream and the two states.
Appends(e) == state' = ApplyEvent(state, e) /\ log' = Append(log, e)
StepKinds ==
  \/ UNCHANGED <<state, log, base>>
  \/ \E e : Appends(e) /\ (UNCHANGED base \/ base' = state')
  \/ base' = state /\ UNCHANGED <<state, log>>
  \/ state' = base /\ log' = SubSeq(log, 1, base.latestSequence) /\ UNCHANGED base

LEMMA CommandKinds == ASSUME NEW c \in Envelopes, Execute(c) PROVE StepKinds
  <1>1. ASSUME NEW code, Reject(code) PROVE StepKinds
    BY <1>1 DEF Reject, StepKinds
  <1>2. ASSUME NEW type, NEW data, NEW rest, NEW settles, Begin(c, type, data, rest, settles)
        PROVE  StepKinds
    BY <1>2 DEF Begin, StepKinds, Appends
  <1>3. CASE RejectMisaddressed(c) \/ RejectVersion(c) \/ RejectTerminal(c)
    BY <1>1, <1>3 DEF RejectMisaddressed, RejectVersion, RejectTerminal
  <1>4. CASE ReturnDuplicate(c)
    BY <1>4 DEF ReturnDuplicate, StepKinds
  <1>5. CASE StartRun(c) \/ PauseRun(c) \/ ResumeRun(c)
    BY <1>1, <1>2, <1>5 DEF StartRun, PauseRun, ResumeRun
  <1>6. CASE \E minutes \in Minutes : AdvanceClock(c, minutes)
    BY <1>1, <1>2, <1>6 DEF AdvanceClock
  <1>7. ASSUME NEW p \in Participants, NEW a \in Actions, SubmitAction(c, p, a)
        PROVE  StepKinds
    <2>1. CASE RecordActionRejection(c)
      BY <2>1 DEF RecordActionRejection, StepKinds, Appends
    <2> QED
      BY <1>1, <1>2, <1>7, <2>1 DEF SubmitAction
  <1>8. ASSUME NEW id \in CommandIds, NEW decision \in Decisions, ResolveApproval(c, id, decision)
        PROVE  StepKinds
    BY <1>1, <1>2, <1>8 DEF ResolveApproval
  <1>9. CASE \E i \in Injects : TriggerInject(c, i)
    BY <1>1, <1>2, <1>9 DEF TriggerInject
  <1>10. CASE FinishRun(c) \/ CreateCheckpoint(c) \/ CreateBranch(c)
    BY <1>2, <1>10 DEF FinishRun, CreateCheckpoint, CreateBranch
  <1> QED
    BY <1>3, <1>4, <1>5, <1>6, <1>7, <1>8, <1>9, <1>10 DEF Execute

LEMMA NextKinds == ASSUME [Next]_vars PROVE StepKinds
  <1>1. ASSUME NEW type, NEW data, AppendEvent(type, data), UNCHANGED base PROVE StepKinds
    BY <1>1 DEF AppendEvent, StepKinds, Appends
  <1>2. CASE ApplyEffect
    BY <1>1, <1>2 DEF ApplyEffect
  <1>3. CASE DropEffects
    BY <1>3 DEF DropEffects, StepKinds
  <1>4. CASE FireScheduled \/ FireConditional
    <2>1. PICK i, schedule : Fire(i, schedule)
      BY <1>4 DEF FireScheduled, FireConditional
    <2> QED
      BY <1>1, <2>1 DEF Fire
  <1>5. CASE Return
    BY <1>5 DEF Return, StepKinds
  <1>6. CASE ThrowIterations \/ ThrowInvalidState
    BY <1>6 DEF ThrowIterations, ThrowInvalidState, Throw, StepKinds
  <1>7. CASE UNCHANGED vars
    BY <1>7 DEF vars, StepKinds
  <1> QED
    BY <1>2, <1>3, <1>4, <1>5, <1>6, <1>7, CommandKinds DEF Next

LEMMA RestoresStep ==
  ASSUME KernelInv, KernelInv', RestoresInv, StepKinds
  PROVE  RestoresInv'
  <1> DEFINE n == Len(log)
             b == base.latestSequence
  <1>1. /\ log \in Seq(Event) /\ n \in Nat /\ b \in 1 .. n /\ state.latestSequence = n
        /\ log' \in Seq(Event)
    BY DEF KernelInv, TypeOK, Consistent
  <1>2. PICK f : /\ LeadsThrough(f, log)
                 /\ f[n] = state /\ f[b] = base
    BY DEF RestoresInv
  <1>3. CASE UNCHANGED <<state, log, base>>
    BY <1>2, <1>3 DEF RestoresInv
  <1>4. ASSUME NEW e, Appends(e), UNCHANGED base \/ base' = state'
        PROVE  RestoresInv'
    <2> DEFINE g == [i \in 0 .. n + 1 |-> IF i = n + 1 THEN state' ELSE f[i]]
    <2>1. /\ Len(log') = n + 1 /\ log'[n + 1] = e
          /\ \A i \in 1 .. n : log'[i] = log[i]
      BY <1>1, <1>4 DEF Appends
    <2> HIDE DEF n, b
    <2>2. /\ g[n + 1] = state' /\ \A i \in 0 .. n : g[i] = f[i]
      BY <1>1
    <2>3. ASSUME NEW i \in 1 .. n + 1 PROVE g[i] = ApplyEvent(g[i - 1], log'[i])
      <3>1. CASE i = n + 1
        <4>1. i - 1 = n /\ n \in 0 .. n
          BY <1>1, <3>1
        <4>2. g[i] = state' /\ g[i - 1] = f[n] /\ log'[i] = e
          BY <2>1, <2>2, <3>1, <4>1
        <4> HIDE DEF g
        <4> QED
          BY <1>2, <1>4, <4>2 DEF Appends
      <3>2. CASE i # n + 1
        <4>1. i \in 1 .. n /\ i \in 0 .. n /\ i - 1 \in 0 .. n
          BY <1>1, <3>2
        <4>2. g[i] = f[i] /\ g[i - 1] = f[i - 1] /\ log'[i] = log[i]
          BY <2>1, <2>2, <4>1
        <4>3. f[i] = ApplyEvent(f[i - 1], log[i])
          BY <1>2, <4>1 DEF LeadsThrough, n
        <4> HIDE DEF g
        <4> QED
          BY <4>2, <4>3
      <3> QED
        BY <3>1, <3>2
    <2>4. g[0] = EmptyState
      BY <1>1, <1>2, <2>2 DEF LeadsThrough
    <2>5. g = [i \in 0 .. n + 1 |-> g[i]]
      OBVIOUS
    <2>6. g[base'.latestSequence] = base'
      <3>1. CASE UNCHANGED base
        BY <1>1, <1>2, <2>2, <3>1 DEF b
      <3>2. CASE base' = state'
        <4>1. base'.latestSequence = n + 1
          BY <2>1, <3>2 DEF KernelInv, Consistent
        <4> QED
          BY <2>2, <3>2, <4>1
      <3> QED
        BY <1>4, <3>1, <3>2
    <2> HIDE DEF g
    <2>7. LeadsThrough(g, log')
      BY <2>1, <2>3, <2>4, <2>5 DEF LeadsThrough
    <2> QED
      BY <2>1, <2>2, <2>5, <2>6, <2>7 DEF RestoresInv
  <1>5. CASE base' = state /\ UNCHANGED <<state, log>>
    BY <1>1, <1>2, <1>5 DEF RestoresInv
  <1>6. CASE state' = base /\ log' = SubSeq(log, 1, b) /\ UNCHANGED base
    <2> DEFINE g == [i \in 0 .. b |-> f[i]]
    <2>1. Len(log') = b /\ \A i \in 1 .. b : log'[i] = log[i]
      BY <1>1, <1>6
    <2>2. \A i \in 0 .. b : g[i] = f[i]
      OBVIOUS
    <2> HIDE DEF n, b
    <2>3. ASSUME NEW i \in 1 .. b PROVE g[i] = ApplyEvent(g[i - 1], log'[i])
      <3>1. i \in 1 .. n /\ i \in 0 .. b /\ i - 1 \in 0 .. b
        BY <1>1
      <3>2. g[i] = f[i] /\ g[i - 1] = f[i - 1] /\ log'[i] = log[i]
        BY <2>1, <2>2, <3>1
      <3>3. f[i] = ApplyEvent(f[i - 1], log[i])
        BY <1>2, <3>1 DEF LeadsThrough, n
      <3> HIDE DEF g
      <3> QED
        BY <3>2, <3>3
    <2>4. g[0] = EmptyState /\ g[b] = base
      BY <1>1, <1>2, <2>2 DEF LeadsThrough
    <2>5. g = [i \in 0 .. b |-> g[i]]
      OBVIOUS
    <2> HIDE DEF g
    <2>6. LeadsThrough(g, log')
      BY <2>1, <2>3, <2>4, <2>5 DEF LeadsThrough
    <2>7. base'.latestSequence = b /\ state' = base'
      BY <1>6 DEF b
    <2> QED
      BY <1>6, <2>1, <2>4, <2>5, <2>6, <2>7 DEF RestoresInv
  <1> QED
    BY <1>3, <1>4, <1>5, <1>6 DEF StepKinds

LEMMA RestoresInit == ASSUME Init PROVE RestoresInv
  <1>1. PICK e : log = <<e>> /\ state = ApplyEvent(EmptyState, e) /\ base = state
    BY DEF Init
  <1>2. KernelInv
    BY InitInv
  <1>3. base.latestSequence = 1
    BY <1>1, <1>2 DEF KernelInv
  <1> DEFINE f == [i \in 0 .. 1 |-> IF i = 0 THEN EmptyState ELSE state]
  <1>4. f[0] = EmptyState /\ f[1] = state /\ f = [i \in 0 .. 1 |-> f[i]]
    OBVIOUS
  <1>5. Len(log) = 1 /\ log[1] = e
    BY <1>1
  <1> HIDE DEF f
  <1>6. LeadsThrough(f, log)
    <2>1. \A i \in 1 .. 1 : i = 1 /\ i - 1 = 0
      OBVIOUS
    <2> QED
      BY <1>1, <1>4, <1>5, <2>1 DEF LeadsThrough
  <1> QED
    BY <1>1, <1>3, <1>4, <1>5, <1>6 DEF RestoresInv

\* ReplayRestoresState: after every command, one that threw and was undone
\* included, the stored events replayed from nothing give the state it left.
THEOREM StreamRestoresState == Spec => []ReplayRestoresState
  <1>1. Init => RestoresInv
    BY RestoresInit
  <1>2. KernelInv /\ KernelInv' /\ RestoresInv /\ [Next]_vars => RestoresInv'
    BY NextKinds, RestoresStep
  <1>3. KernelInv /\ RestoresInv => ReplayRestoresState
    <2> SUFFICES ASSUME KernelInv, RestoresInv PROVE ReplayRestoresState
      OBVIOUS
    <2>1. Len(log) \in Nat
      BY DEF KernelInv, TypeOK
    <2> QED
      BY <2>1, ReplayIsLast DEF RestoresInv, ReplayRestoresState
  <1> QED
    BY <1>1, <1>2, <1>3, Invariance, PTL DEF Spec
=============================================================================
