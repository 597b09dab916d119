------------------------ MODULE AgentDispatchProofs ------------------------
(***************************************************************************)
(* What holds of the dispatches of an advisor for any number of processes, *)
(* dispatches, versions, questions and faults: the types, that the key is  *)
(* held by one active dispatch, that a dispatch has one workflow unless it *)
(* outlives its lock, that recommendations rest on their facts, and that   *)
(* no analysis is forgotten unless a process dies or a statement fails.    *)
(*                                                                         *)
(* DispatchesInv says what a process may rely on: its outbox message is    *)
(* still there and is its own, its dispatch and the one it has looked up   *)
(* exist, and a dispatch that is over does not hold the key.               *)
(***************************************************************************)
EXTENDS AgentDispatch, FiniteSetTheorems, TLAPS

Row ==
  [status : {"absent", "pending", "running", "waiting", "completed"},
   key : BOOLEAN, base : 0 .. MaxVersion, due : BOOLEAN,
   stale : BOOLEAN, open : BOOLEAN, answered : BOOLEAN]
Sources == {"none", "event", "schedule", "user", "workflow"}
Slot ==
  [pc : Pc, source : Sources,
   trigger : 0 .. MaxVersion, force : BOOLEAN,
   own : 0 .. MaxDispatches, target : 0 .. MaxDispatches, pending : BOOLEAN,
   old : SUBSET Advice, answer : BOOLEAN, seen : 0 .. MaxVersion, of : 0 .. MaxDispatches]
Session == [waiting : BOOLEAN, seen : 0 .. MaxVersion, of : 0 .. MaxDispatches]

Present(d) == dispatches[d].status # "absent"

\* What a process may rely on, by where it stands and what it came for.
Enqueuing == {"lookup", "merge", "create", "raced", "queue"}
Sourced(s) ==
  /\ slots[s].pc = "free" <=> slots[s].source = "none"
  /\ slots[s].pc \in {"expire", "schedule"} => slots[s].source = "event"
  /\ slots[s].pc \notin Enqueuing \cup {"free", "expire", "schedule"}
       => slots[s].source = "workflow"
  /\ slots[s].source = "event" => slots[s].trigger \in events
  /\ slots[s].source = "schedule" => slots[s].trigger \in schedules
  /\ slots[s].source = "workflow" => slots[s].own \in Ids /\ Present(slots[s].own)
  /\ slots[s].pc \in {"merge", "queue"} => slots[s].target \in Ids /\ Present(slots[s].target)

\* A message of the outbox has one handler at a time.
Alone ==
  \A s, t \in Slots :
    /\ slots[s].source \in {"event", "schedule"}
    /\ slots[s].source = slots[t].source
    /\ slots[s].trigger = slots[t].trigger
    => s = t

KeysFit ==
  /\ \A d \in Ids : dispatches[d].key => Active(d)
  /\ \A d, e \in Ids : (dispatches[d].key /\ dispatches[e].key) => d = e
MessagesFit == \A m \in messages : Present(m.dispatch)

DispatchesInv == TypeOK /\ (\A s \in Slots : Sourced(s)) /\ Alone /\ KeysFit /\ MessagesFit

-----------------------------------------------------------------------------
(* Types                                                                    *)

LEMMA Typing ==
  TypeOK <=>
    /\ run \in [version : 0 .. MaxVersion, running : BOOLEAN]
    /\ events \subseteq 1 .. MaxVersion
    /\ schedules \subseteq 1 .. MaxVersion
    /\ messages \subseteq [dispatch : Ids, delayed : BOOLEAN]
    /\ dispatches \in [Ids -> Row]
    /\ session \in Session
    /\ advice \subseteq Advice
    /\ slots \in [Slots -> Slot]
    /\ requests \in 0 .. MaxRequests
    /\ questions \in 0 .. MaxQuestions
    /\ faults \in 0 .. MaxFaults
BY DEF TypeOK, Row, Slot, Sources, Session

LEMMA IdleTyped ==
  /\ Idle \in Slot /\ NoDispatch \in Row /\ NoSession \in Session
  /\ Idle.pc = "free" /\ Idle.source = "none"
BY DispatchAssumption DEF Idle, Slot, Sources, Pc, NoDispatch, Row, NoSession, Session

\* A process that comes takes a slot that is free.
LEMMA EnterTakes ==
  ASSUME NEW p, Enter(p)
  PROVE  \E s \in Slots : At(s, "free") /\ slots' = [slots EXCEPT ![s] = p]
<1> DEFINE free == {s \in Slots : At(s, "free")}
<1>1. free # {} /\ slots' = [slots EXCEPT ![CHOOSE s \in free : TRUE] = p]
  BY DEF Enter
<1>2. (CHOOSE s \in free : TRUE) \in free
  BY <1>1
<1> QED BY <1>1, <1>2

\* A message stays in the outbox or leaves it, and a fault is counted if it stays.
LEMMA PublishedFits ==
  ASSUME NEW queue, NEW m \in queue, NEW new \in Published(queue, m),
         Redelivered(new # queue), faults \in 0 .. MaxFaults
  PROVE  faults' \in 0 .. MaxFaults /\ new \subseteq queue /\ queue \ {m} \subseteq new
BY DispatchAssumption DEF Published, Redelivered

LEMMA FaultCounts ==
  ASSUME NEW kind, Fault(kind), faults \in 0 .. MaxFaults
  PROVE  faults' \in 0 .. MaxFaults
BY DispatchAssumption DEF Fault

\* Where a process goes that ends, throws or is through.
LEMMA FinishGoes ==
  ASSUME TypeOK, NEW s \in Slots, Sourced(s), s \in Slots, Finish(s)
  PROVE  /\ \/ slots' = [slots EXCEPT ![s].pc = "schedule"] /\ slots[s].source = "event"
            \/ slots' = [slots EXCEPT ![s] = Idle]
         /\ schedules' \subseteq schedules
         /\ schedules \ {slots[s].trigger} \subseteq schedules'
         /\ slots[s].source # "schedule" => schedules' = schedules
         /\ faults' \in 0 .. MaxFaults
BY Typing, PublishedFits DEF Finish, Goto, End, Sourced

-----------------------------------------------------------------------------
(* A dispatch stays, with the version it was made for                       *)

Kept(d) == dispatches'[d].status # "absent" /\ dispatches'[d].base = dispatches[d].base

LEMMA RowStays ==
  ASSUME TypeOK, NEW x \in Ids, Present(x), [Next]_vars
  PROVE  Kept(x)
<1> USE Typing DEF Kept, Present
<1>1. CASE Command
  BY <1>1 DEF Command, counters, queues
<1>2. CASE CloseAdvice
  BY <1>2 DEF CloseAdvice, counters, queues
<1>3. CASE RequestAnalysis
  BY <1>3 DEF RequestAnalysis, counters, queues
<1>4. ASSUME NEW v \in events, HandleEvent(v) PROVE Kept(x)
  BY <1>4 DEF HandleEvent, counters, queues
<1>5. ASSUME NEW v \in schedules, HandleSchedule(v) PROVE Kept(x)
  BY <1>5 DEF HandleSchedule, counters, queues
<1>6. ASSUME NEW m \in messages, HandleDispatch(m) PROVE Kept(x)
  BY <1>6 DEF HandleDispatch, counters, queues
<1>7. ASSUME NEW d \in Ids, LockExpires(d) PROVE Kept(x)
  BY <1>7 DEF LockExpires, counters, queues
<1>8. ASSUME NEW d \in Ids, BackoffEnds(d) PROVE Kept(x)
  BY <1>8 DEF BackoffEnds, counters, queues
<1>9. ASSUME NEW d \in Ids, Recover(d) PROVE Kept(x)
  BY <1>9 DEF Recover, counters, queues
<1>10. ASSUME NEW d \in Ids, AnswerQuestion(d) PROVE Kept(x)
  BY <1>10 DEF AnswerQuestion, counters, queues
<1>11. ASSUME NEW d \in Ids, LockOutlived(d) PROVE Kept(x)
  BY <1>11 DEF LockOutlived, counters, queues
<1>12. ASSUME NEW s \in Slots, Expire(s) PROVE Kept(x)
  BY <1>12 DEF Expire, counters, queues
<1>13. ASSUME NEW s \in Slots, Schedule(s) PROVE Kept(x)
  BY <1>13 DEF Schedule, counters, queues
<1>14. ASSUME NEW s \in Slots, Lookup(s) PROVE Kept(x)
  BY <1>14 DEF Lookup, counters, queues
<1>15. ASSUME NEW s \in Slots, Merge(s) PROVE Kept(x)
  BY <1>15 DEF Merge, counters, queues
<1>16. ASSUME NEW s \in Slots, Create(s) PROVE Kept(x)
  BY <1>16 DEF Create, counters, queues, Fresh
<1>17. ASSUME NEW s \in Slots, Raced(s) PROVE Kept(x)
  <2>1. CASE KeyHolders # {}
    <3>1. PICK d \in KeyHolders :
            dispatches' =
              [dispatches EXCEPT ![d].due = dispatches[d].due \/ dispatches[d].status = "pending"]
      BY <1>17, <2>1 DEF Raced
    <3>2. d \in Ids
      BY DEF KeyHolders
    <3> QED BY <3>1, <3>2
  <2>2. CASE ~(KeyHolders # {})
    BY <1>17, <2>2 DEF Raced
  <2> QED BY <2>1, <2>2
<1>18. ASSUME NEW s \in Slots, Queue(s) PROVE Kept(x)
  BY <1>18 DEF Queue, counters, queues
<1>19. ASSUME NEW s \in Slots, Claim(s) PROVE Kept(x)
  <2>1. \/ dispatches' = dispatches
        \/ dispatches' = [dispatches EXCEPT ![slots[s].own].status = "running",
                                            ![slots[s].own].stale = FALSE]
    BY <1>19 DEF Claim
  <2>2. CASE dispatches' = dispatches
    BY <2>2
  <2>3. CASE dispatches' = [dispatches EXCEPT ![slots[s].own].status = "running",
                                            ![slots[s].own].stale = FALSE]
    BY <2>3
  <2> QED BY <2>1, <2>2, <2>3
<1>20. ASSUME NEW s \in Slots, CheckRun(s) PROVE Kept(x)
  BY <1>20 DEF CheckRun, counters, queues
<1>21. ASSUME NEW s \in Slots, Observe(s) PROVE Kept(x)
  BY <1>21 DEF Observe, counters, queues
<1>22. ASSUME NEW s \in Slots, Respond(s) PROVE Kept(x)
  BY <1>22 DEF Respond, counters, queues
<1>23. ASSUME NEW s \in Slots, MarkWaiting(s) PROVE Kept(x)
  BY <1>23 DEF MarkWaiting, counters, queues
<1>24. ASSUME NEW s \in Slots, CheckVersion(s) PROVE Kept(x)
  BY <1>24 DEF CheckVersion, counters, queues
<1>25. ASSUME NEW s \in Slots, Recommend(s) PROVE Kept(x)
  BY <1>25 DEF Recommend, counters, queues, Complete
<1>26. ASSUME NEW s \in Slots, Supersede(s) PROVE Kept(x)
  BY <1>26 DEF Supersede, counters, queues
<1>27. ASSUME NEW s \in Slots, MarkCompleted(s) PROVE Kept(x)
  BY <1>27 DEF MarkCompleted, counters, queues, Complete
<1>28. ASSUME NEW s \in Slots, MarkRetry(s) PROVE Kept(x)
  BY <1>28 DEF MarkRetry, counters, queues
<1>29. ASSUME NEW s \in Slots, QueueRetry(s) PROVE Kept(x)
  BY <1>29 DEF QueueRetry, counters, queues
<1>30. ASSUME NEW s \in Slots, StatementFails(s) PROVE Kept(x)
  BY <1>30 DEF StatementFails, counters, queues
<1>31. ASSUME NEW s \in Slots, ProcessDies(s) PROVE Kept(x)
  BY <1>31 DEF ProcessDies, counters, queues
<1>32. CASE UNCHANGED vars
  BY <1>32 DEF vars, counters, queues
<1> QED BY <1>1, <1>2, <1>3, <1>4, <1>5, <1>6, <1>7, <1>8, <1>9, <1>10, <1>11, <1>12,
      <1>13, <1>14, <1>15, <1>16, <1>17, <1>18, <1>19, <1>20, <1>21, <1>22, <1>23,
      <1>24, <1>25, <1>26, <1>27, <1>28, <1>29, <1>30, <1>31, <1>32 DEF Next,
      Deliver, Time, Enqueue, Analyse

-----------------------------------------------------------------------------
(* The types of the processes                                               *)

LEMMA SlotFields ==
  ASSUME NEW p \in Slot
  PROVE  /\ \A x \in Pc : [p EXCEPT !.pc = x] \in Slot
         /\ \A x \in Sources : [p EXCEPT !.source = x] \in Slot
         /\ \A x \in 0 .. MaxVersion : [p EXCEPT !.trigger = x] \in Slot
         /\ \A x \in BOOLEAN : [p EXCEPT !.force = x] \in Slot
         /\ \A x \in 0 .. MaxDispatches : [p EXCEPT !.own = x] \in Slot
BY DEF Slot

LEMMA FieldUpdates ==
  ASSUME NEW f \in [Slots -> Slot], NEW s \in Slots
  PROVE  /\ \A x \in Pc : [f EXCEPT ![s].pc = x] \in [Slots -> Slot]
         /\ \A x \in 0 .. MaxDispatches : [f EXCEPT ![s].target = x] \in [Slots -> Slot]
         /\ \A x \in 0 .. MaxDispatches : [f EXCEPT ![s].of = x] \in [Slots -> Slot]
         /\ \A x \in 0 .. MaxVersion : [f EXCEPT ![s].seen = x] \in [Slots -> Slot]
         /\ \A x \in SUBSET Advice : [f EXCEPT ![s].old = x] \in [Slots -> Slot]
         /\ \A x \in BOOLEAN : [f EXCEPT ![s].pending = x] \in [Slots -> Slot]
         /\ \A x \in BOOLEAN : [f EXCEPT ![s].answer = x] \in [Slots -> Slot]
         /\ \A x \in BOOLEAN : [f EXCEPT ![s].force = x] \in [Slots -> Slot]
BY DEF Slot

LEMMA GotoTyped ==
  ASSUME slots \in [Slots -> Slot], NEW s \in Slots, NEW pc \in Pc, Goto(s, pc)
  PROVE  slots' \in [Slots -> Slot]
BY DEF Goto, Slot

LEMMA EndTyped ==
  ASSUME slots \in [Slots -> Slot], NEW s \in Slots, End(s)
  PROVE  slots' \in [Slots -> Slot]
BY IdleTyped DEF End

LEMMA ThrownTyped ==
  ASSUME slots \in [Slots -> Slot], NEW s \in Slots, Thrown(s)
  PROVE  slots' \in [Slots -> Slot]
BY GotoTyped, EndTyped DEF Thrown, Pc

LEMMA FinishTyped ==
  ASSUME slots \in [Slots -> Slot], NEW s \in Slots, Finish(s)
  PROVE  slots' \in [Slots -> Slot]
BY GotoTyped, EndTyped DEF Finish, Pc

LEMMA SlotsTyped ==
  ASSUME TypeOK, slots \in [Slots -> Slot], \A x \in Slots : Sourced(x), [Next]_vars
  PROVE  slots' \in [Slots -> Slot]
<1>1. CASE Command
  BY <1>1 DEF Command
<1>2. CASE CloseAdvice
  BY <1>2 DEF CloseAdvice
<1>3. CASE RequestAnalysis
  <2>1. PICK s \in Slots :
          slots' = [slots EXCEPT ![s] =
            [Idle EXCEPT !.pc = "lookup", !.source = "user", !.force = TRUE]]
    BY <1>3, EnterTakes DEF RequestAnalysis
  <2>2. [Idle EXCEPT !.pc = "lookup", !.source = "user", !.force = TRUE] \in Slot
    BY IdleTyped, SlotFields DEF Pc, Sources
  <2> QED BY <2>1, <2>2
<1>4. ASSUME NEW v \in events, HandleEvent(v) PROVE slots' \in [Slots -> Slot]
  <2>1. PICK s \in Slots :
          slots' = [slots EXCEPT ![s] =
            [Idle EXCEPT !.pc = "expire", !.source = "event", !.trigger = v, !.force = TRUE]]
    BY <1>4, EnterTakes DEF HandleEvent
  <2>2. v \in 0 .. MaxVersion
    BY <1>4, Typing DEF Ids
  <2>3. [Idle EXCEPT !.pc = "expire", !.source = "event", !.trigger = v, !.force = TRUE] \in Slot
    BY <2>2, IdleTyped, SlotFields DEF Pc, Sources
  <2> QED BY <2>1, <2>3
<1>5. ASSUME NEW v \in schedules, HandleSchedule(v) PROVE slots' \in [Slots -> Slot]
  <2>1. CASE Enter([Idle EXCEPT !.pc = "lookup", !.source = "schedule", !.trigger = v])
    <3>1. PICK s \in Slots :
          slots' = [slots EXCEPT ![s] =
            [Idle EXCEPT !.pc = "lookup", !.source = "schedule", !.trigger = v]]
      BY <2>1, EnterTakes
    <3>2. v \in 0 .. MaxVersion
      BY <1>5, Typing
    <3>3. [Idle EXCEPT !.pc = "lookup", !.source = "schedule", !.trigger = v] \in Slot
      BY <3>2, IdleTyped, SlotFields DEF Pc, Sources
    <3> QED BY <3>1, <3>3
  <2> QED BY <1>5, <2>1 DEF HandleSchedule
<1>6. ASSUME NEW m \in messages, HandleDispatch(m) PROVE slots' \in [Slots -> Slot]
  <2>1. PICK s \in Slots :
          slots' = [slots EXCEPT ![s] =
            [Idle EXCEPT !.pc = "begin", !.source = "workflow", !.own = m.dispatch]]
    BY <1>6, EnterTakes DEF HandleDispatch
  <2>2. m.dispatch \in 0 .. MaxDispatches
    BY <1>6, Typing DEF Ids
  <2>3. [Idle EXCEPT !.pc = "begin", !.source = "workflow", !.own = m.dispatch] \in Slot
    BY <2>2, IdleTyped, SlotFields DEF Pc, Sources
  <2> QED BY <2>1, <2>3
<1>7. ASSUME NEW d \in Ids, LockExpires(d) PROVE slots' \in [Slots -> Slot]
  BY <1>7 DEF LockExpires
<1>8. ASSUME NEW d \in Ids, BackoffEnds(d) PROVE slots' \in [Slots -> Slot]
  BY <1>8 DEF BackoffEnds
<1>9. ASSUME NEW d \in Ids, Recover(d) PROVE slots' \in [Slots -> Slot]
  BY <1>9 DEF Recover
<1>10. ASSUME NEW d \in Ids, AnswerQuestion(d) PROVE slots' \in [Slots -> Slot]
  BY <1>10 DEF AnswerQuestion
<1>11. ASSUME NEW d \in Ids, LockOutlived(d) PROVE slots' \in [Slots -> Slot]
  BY <1>11 DEF LockOutlived
<1>12. ASSUME NEW s \in Slots, Expire(s) PROVE slots' \in [Slots -> Slot]
  BY <1>12, GotoTyped DEF Expire, Pc
<1>13. ASSUME NEW s \in Slots, Schedule(s) PROVE slots' \in [Slots -> Slot]
  BY <1>13, EndTyped DEF Schedule
<1>14. ASSUME NEW s \in Slots, Lookup(s) PROVE slots' \in [Slots -> Slot]
  <2>1. CASE Finish(s)
    BY <2>1, FinishTyped
  <2>2. CASE \E d \in Ids :
              slots' = [slots EXCEPT ![s].pc = "merge", ![s].target = d,
                                     ![s].pending = dispatches[d].status = "pending"]
    <3>1. PICK d \in Ids :
            slots' = [slots EXCEPT ![s].pc = "merge", ![s].target = d,
                                   ![s].pending = dispatches[d].status = "pending"]
      BY <2>2
    <3>2. /\ d \in 0 .. MaxDispatches /\ "merge" \in Pc
          /\ (dispatches[d].status = "pending") \in BOOLEAN
      BY DEF Ids, Pc
    <3> QED BY <3>1, <3>2, FieldUpdates
  <2>3. CASE \E old \in Last :
              slots' = [slots EXCEPT ![s].pc = "create", ![s].seen = run.version,
                                     ![s].old = old]
    <3>1. PICK old \in Last :
              slots' = [slots EXCEPT ![s].pc = "create", ![s].seen = run.version,
                                     ![s].old = old]
      BY <2>3
    <3>2. run.version \in 0 .. MaxVersion /\ old \in SUBSET Advice /\ "create" \in Pc
      BY Typing DEF Last, Pc
    <3> QED BY <3>1, <3>2, FieldUpdates
  <2> QED BY <1>14, <2>1, <2>2, <2>3 DEF Lookup, KeyHolders
<1>15. ASSUME NEW s \in Slots, Merge(s) PROVE slots' \in [Slots -> Slot]
  BY <1>15, GotoTyped DEF Merge, Pc
<1>16. ASSUME NEW s \in Slots, Create(s) PROVE slots' \in [Slots -> Slot]
  <2>1. CASE slots' = [slots EXCEPT ![s].pc = "raced", ![s].old = {}]
    BY <2>1, FieldUpdates DEF Pc
  <2>2. CASE \E d \in Ids : slots' = [slots EXCEPT ![s].pc = "queue", ![s].target = d,
                                                   ![s].old = {}]
    <3>1. PICK d \in Ids : slots' = [slots EXCEPT ![s].pc = "queue", ![s].target = d,
                                                    ![s].old = {}]
      BY <2>2
    <3>2. d \in 0 .. MaxDispatches /\ "queue" \in Pc /\ {} \in SUBSET Advice
      BY DEF Ids, Pc
    <3> QED BY <3>1, <3>2, FieldUpdates
  <2> QED BY <1>16, <2>1, <2>2 DEF Create, Fresh
<1>17. ASSUME NEW s \in Slots, Raced(s) PROVE slots' \in [Slots -> Slot]
  <2>1. CASE Thrown(s)
    BY <2>1, ThrownTyped
  <2>2. CASE \E d \in Ids : slots' = [slots EXCEPT ![s].pc = "queue", ![s].target = d]
    <3>1. PICK d \in Ids : slots' = [slots EXCEPT ![s].pc = "queue", ![s].target = d]
      BY <2>2
    <3>2. d \in 0 .. MaxDispatches /\ "queue" \in Pc
      BY DEF Ids, Pc
    <3> QED BY <3>1, <3>2, FieldUpdates
  <2> QED BY <1>17, <2>1, <2>2 DEF Raced, KeyHolders
<1>18. ASSUME NEW s \in Slots, Queue(s) PROVE slots' \in [Slots -> Slot]
  BY <1>18, FinishTyped DEF Queue
<1>19. ASSUME NEW s \in Slots, Claim(s) PROVE slots' \in [Slots -> Slot]
  <2>1. CASE End(s)
    BY <2>1, EndTyped
  <2>2. CASE slots' = [slots EXCEPT ![s].pc = "claimed",
                                    ![s].answer = dispatches[slots[s].own].answered]
    <3>1. slots[s].own \in Ids
      BY <1>19 DEF Claim, Sourced, At, Enqueuing
    <3>2. dispatches[slots[s].own].answered \in BOOLEAN
      BY <3>1, Typing DEF Row
    <3> QED BY <2>2, <3>2, FieldUpdates DEF Pc
  <2> QED BY <1>19, <2>1, <2>2 DEF Claim
<1>20. ASSUME NEW s \in Slots, CheckRun(s) PROVE slots' \in [Slots -> Slot]
  BY <1>20, GotoTyped DEF CheckRun, Pc
<1>21. ASSUME NEW s \in Slots, Observe(s) PROVE slots' \in [Slots -> Slot]
  <2>1. CASE \E pc \in Pc : Goto(s, pc)
    BY <2>1, GotoTyped
  <2>2. CASE slots' = [slots EXCEPT ![s].pc = "model",
               ![s].seen = IF slots[s].answer THEN session.seen ELSE run.version,
               ![s].of = IF slots[s].answer THEN session.of ELSE slots[s].own]
    <3> DEFINE seen == IF slots[s].answer THEN session.seen ELSE run.version
               of == IF slots[s].answer THEN session.of ELSE slots[s].own
    <3>1. seen \in 0 .. MaxVersion /\ of \in 0 .. MaxDispatches /\ "model" \in Pc
      BY Typing DEF Session, Slot, Pc
    <3>2. slots' = [slots EXCEPT ![s].pc = "model", ![s].seen = seen, ![s].of = of]
      BY <2>2
    <3> HIDE DEF seen, of
    <3> QED BY <3>1, <3>2, FieldUpdates
  <2> QED BY <1>21, <2>1, <2>2 DEF Observe, Pc
<1>22. ASSUME NEW s \in Slots, Respond(s) PROVE slots' \in [Slots -> Slot]
  BY <1>22, GotoTyped DEF Respond, Pc
<1>23. ASSUME NEW s \in Slots, MarkWaiting(s) PROVE slots' \in [Slots -> Slot]
  BY <1>23, EndTyped DEF MarkWaiting
<1>24. ASSUME NEW s \in Slots, CheckVersion(s) PROVE slots' \in [Slots -> Slot]
  BY <1>24, GotoTyped DEF CheckVersion, Pc
<1>25. ASSUME NEW s \in Slots, Recommend(s) PROVE slots' \in [Slots -> Slot]
  BY <1>25, EndTyped DEF Recommend
<1>26. ASSUME NEW s \in Slots, Supersede(s) PROVE slots' \in [Slots -> Slot]
  BY <1>26, FieldUpdates DEF Supersede, Pc
<1>27. ASSUME NEW s \in Slots, MarkCompleted(s) PROVE slots' \in [Slots -> Slot]
  BY <1>27, EndTyped DEF MarkCompleted
<1>28. ASSUME NEW s \in Slots, MarkRetry(s) PROVE slots' \in [Slots -> Slot]
  BY <1>28, GotoTyped DEF MarkRetry, Pc
<1>29. ASSUME NEW s \in Slots, QueueRetry(s) PROVE slots' \in [Slots -> Slot]
  BY <1>29, EndTyped DEF QueueRetry
<1>30. ASSUME NEW s \in Slots, StatementFails(s) PROVE slots' \in [Slots -> Slot]
  BY <1>30, ThrownTyped DEF StatementFails
<1>31. ASSUME NEW s \in Slots, ProcessDies(s) PROVE slots' \in [Slots -> Slot]
  BY <1>31, EndTyped DEF ProcessDies
<1>32. CASE UNCHANGED vars
  BY <1>32 DEF vars
<1> QED BY <1>1, <1>2, <1>3, <1>4, <1>5, <1>6, <1>7, <1>8, <1>9, <1>10, <1>11, <1>12,
      <1>13, <1>14, <1>15, <1>16, <1>17, <1>18, <1>19, <1>20, <1>21, <1>22, <1>23,
      <1>24, <1>25, <1>26, <1>27, <1>28, <1>29, <1>30, <1>31, <1>32 DEF Next,
      Deliver, Time, Enqueue, Analyse

-----------------------------------------------------------------------------
(* The types of the dispatches                                              *)

LEMMA RowUpdates ==
  ASSUME NEW f \in [Ids -> Row], NEW d
  PROVE  /\ \A x \in {"pending", "running", "waiting", "completed"} :
              [f EXCEPT ![d].status = x] \in [Ids -> Row]
         /\ \A x \in BOOLEAN : [f EXCEPT ![d].key = x] \in [Ids -> Row]
         /\ \A x \in BOOLEAN : [f EXCEPT ![d].due = x] \in [Ids -> Row]
         /\ \A x \in BOOLEAN : [f EXCEPT ![d].stale = x] \in [Ids -> Row]
         /\ \A x \in BOOLEAN : [f EXCEPT ![d].open = x] \in [Ids -> Row]
         /\ \A x \in BOOLEAN : [f EXCEPT ![d].answered = x] \in [Ids -> Row]
<1>1. CASE d \in Ids
  BY <1>1 DEF Row
<1>2. CASE d \notin Ids
  BY <1>2
<1> QED BY <1>1, <1>2

LEMMA RowsTyped ==
  ASSUME slots \in [Slots -> Slot], dispatches \in [Ids -> Row],
         \A x \in Slots : Sourced(x), [Next]_vars
  PROVE  dispatches' \in [Ids -> Row]
<1>1. CASE Command
  BY <1>1 DEF Command, counters, queues
<1>2. CASE CloseAdvice
  BY <1>2 DEF CloseAdvice, counters, queues
<1>3. CASE RequestAnalysis
  BY <1>3 DEF RequestAnalysis, counters, queues
<1>4. ASSUME NEW v \in events, HandleEvent(v) PROVE dispatches' \in [Ids -> Row]
  BY <1>4 DEF HandleEvent, counters, queues
<1>5. ASSUME NEW v \in schedules, HandleSchedule(v) PROVE dispatches' \in [Ids -> Row]
  BY <1>5 DEF HandleSchedule, counters, queues
<1>6. ASSUME NEW m \in messages, HandleDispatch(m) PROVE dispatches' \in [Ids -> Row]
  BY <1>6 DEF HandleDispatch, counters, queues
<1>7. ASSUME NEW d \in Ids, LockExpires(d) PROVE dispatches' \in [Ids -> Row]
  BY <1>7, RowUpdates DEF LockExpires
<1>8. ASSUME NEW d \in Ids, BackoffEnds(d) PROVE dispatches' \in [Ids -> Row]
  BY <1>8, RowUpdates DEF BackoffEnds
<1>9. ASSUME NEW d \in Ids, Recover(d) PROVE dispatches' \in [Ids -> Row]
  BY <1>9, RowUpdates DEF Recover
<1>10. ASSUME NEW d \in Ids, AnswerQuestion(d) PROVE dispatches' \in [Ids -> Row]
  BY <1>10, RowUpdates DEF AnswerQuestion
<1>11. ASSUME NEW d \in Ids, LockOutlived(d) PROVE dispatches' \in [Ids -> Row]
  BY <1>11, RowUpdates DEF LockOutlived
<1>12. ASSUME NEW s \in Slots, Expire(s) PROVE dispatches' \in [Ids -> Row]
  BY <1>12 DEF Expire, counters, queues
<1>13. ASSUME NEW s \in Slots, Schedule(s) PROVE dispatches' \in [Ids -> Row]
  BY <1>13 DEF Schedule, counters, queues
<1>14. ASSUME NEW s \in Slots, Lookup(s) PROVE dispatches' \in [Ids -> Row]
  BY <1>14 DEF Lookup, counters, queues
<1>15. ASSUME NEW s \in Slots, Merge(s) PROVE dispatches' \in [Ids -> Row]
  <2>1. slots[s].pending \in BOOLEAN /\ slots[s].target \in Ids
    BY <1>15 DEF Merge, Slot, Sourced, At
  <2>2. (dispatches[slots[s].target].due \/ slots[s].pending) \in BOOLEAN
    OBVIOUS
  <2>3. dispatches' = [dispatches EXCEPT ![slots[s].target].due =
                         dispatches[slots[s].target].due \/ slots[s].pending]
    BY <1>15 DEF Merge
  <2> QED BY <2>1, <2>2, <2>3, RowUpdates
<1>16. ASSUME NEW s \in Slots, Create(s) PROVE dispatches' \in [Ids -> Row]
  <2> DEFINE new == [NoDispatch EXCEPT !.status = "pending", !.key = TRUE, !.due = TRUE,
                                       !.base = slots[s].seen]
  <2>1. slots[s].seen \in 0 .. MaxVersion
    BY DEF Slot
  <2>2. new \in Row
    BY <2>1, IdleTyped DEF Row
  <2>3. \/ dispatches' = dispatches
        \/ \E d \in Ids : dispatches' = [dispatches EXCEPT ![d] = new]
    BY <1>16 DEF Create, Fresh
  <2> QED BY <2>2, <2>3
<1>17. ASSUME NEW s \in Slots, Raced(s) PROVE dispatches' \in [Ids -> Row]
  <2>1. CASE dispatches' = dispatches
    BY <2>1
  <2>2. CASE \E d \in Ids :
               dispatches' = [dispatches EXCEPT
                 ![d].due = dispatches[d].due \/ dispatches[d].status = "pending"]
    <3>1. PICK d \in Ids :
            dispatches' = [dispatches EXCEPT
              ![d].due = dispatches[d].due \/ dispatches[d].status = "pending"]
      BY <2>2
    <3>2. (dispatches[d].due \/ dispatches[d].status = "pending") \in BOOLEAN
      OBVIOUS
    <3> QED BY <3>1, <3>2, RowUpdates
  <2> QED BY <1>17, <2>1, <2>2 DEF Raced, KeyHolders
<1>18. ASSUME NEW s \in Slots, Queue(s) PROVE dispatches' \in [Ids -> Row]
  BY <1>18 DEF Queue, counters, queues
<1>19. ASSUME NEW s \in Slots, Claim(s) PROVE dispatches' \in [Ids -> Row]
  <2>1. CASE dispatches' = dispatches
    BY <2>1
  <2>2. CASE dispatches' = [dispatches EXCEPT ![slots[s].own].status = "running",
                                              ![slots[s].own].stale = FALSE]
    BY <2>2, RowUpdates
  <2> QED BY <1>19, <2>1, <2>2 DEF Claim
<1>20. ASSUME NEW s \in Slots, CheckRun(s) PROVE dispatches' \in [Ids -> Row]
  BY <1>20 DEF CheckRun, counters, queues
<1>21. ASSUME NEW s \in Slots, Observe(s) PROVE dispatches' \in [Ids -> Row]
  BY <1>21 DEF Observe, counters, queues
<1>22. ASSUME NEW s \in Slots, Respond(s) PROVE dispatches' \in [Ids -> Row]
  BY <1>22 DEF Respond, counters, queues
<1>23. ASSUME NEW s \in Slots, MarkWaiting(s) PROVE dispatches' \in [Ids -> Row]
  BY <1>23, RowUpdates DEF MarkWaiting
<1>24. ASSUME NEW s \in Slots, CheckVersion(s) PROVE dispatches' \in [Ids -> Row]
  BY <1>24 DEF CheckVersion, counters, queues
<1>25. ASSUME NEW s \in Slots, Recommend(s) PROVE dispatches' \in [Ids -> Row]
  BY <1>25, RowUpdates DEF Recommend, Complete
<1>26. ASSUME NEW s \in Slots, Supersede(s) PROVE dispatches' \in [Ids -> Row]
  BY <1>26, RowUpdates DEF Supersede
<1>27. ASSUME NEW s \in Slots, MarkCompleted(s) PROVE dispatches' \in [Ids -> Row]
  BY <1>27, RowUpdates DEF MarkCompleted, Complete
<1>28. ASSUME NEW s \in Slots, MarkRetry(s) PROVE dispatches' \in [Ids -> Row]
  BY <1>28, RowUpdates DEF MarkRetry
<1>29. ASSUME NEW s \in Slots, QueueRetry(s) PROVE dispatches' \in [Ids -> Row]
  BY <1>29 DEF QueueRetry, counters, queues
<1>30. ASSUME NEW s \in Slots, StatementFails(s) PROVE dispatches' \in [Ids -> Row]
  BY <1>30 DEF StatementFails, counters, queues
<1>31. ASSUME NEW s \in Slots, ProcessDies(s) PROVE dispatches' \in [Ids -> Row]
  BY <1>31 DEF ProcessDies, counters, queues
<1>32. CASE UNCHANGED vars
  BY <1>32 DEF vars
<1> QED BY <1>1, <1>2, <1>3, <1>4, <1>5, <1>6, <1>7, <1>8, <1>9, <1>10, <1>11, <1>12,
      <1>13, <1>14, <1>15, <1>16, <1>17, <1>18, <1>19, <1>20, <1>21, <1>22, <1>23,
      <1>24, <1>25, <1>26, <1>27, <1>28, <1>29, <1>30, <1>31, <1>32 DEF Next,
      Deliver, Time, Enqueue, Analyse

-----------------------------------------------------------------------------
(* The other types                                                          *)

OthersTyped ==
  /\ run \in [version : 0 .. MaxVersion, running : BOOLEAN]
  /\ events \subseteq 1 .. MaxVersion
  /\ schedules \subseteq 1 .. MaxVersion
  /\ messages \subseteq [dispatch : Ids, delayed : BOOLEAN]
  /\ session \in Session
  /\ advice \subseteq Advice
  /\ requests \in 0 .. MaxRequests
  /\ questions \in 0 .. MaxQuestions
  /\ faults \in 0 .. MaxFaults

LEMMA OthersStay ==
  ASSUME TypeOK, OthersTyped, slots \in [Slots -> Slot],
         \A x \in Slots : Sourced(x), [Next]_vars
  PROVE  OthersTyped'
<1> USE DispatchAssumption DEF OthersTyped
<1>1. CASE Command
  <2>1. run.version \in 0 .. MaxVersion /\ run.version + 1 \in 1 .. MaxVersion
    BY <1>1 DEF Command
  <2>2. run' \in [version : 0 .. MaxVersion, running : BOOLEAN]
    BY <1>1, <2>1 DEF Command
  <2>3. events' \subseteq 1 .. MaxVersion
    BY <1>1, <2>1 DEF Command
  <2> QED BY <1>1, <2>2, <2>3 DEF Command, counters
<1>2. CASE CloseAdvice
  BY <1>2 DEF CloseAdvice, counters, queues
<1>3. CASE RequestAnalysis
  BY <1>3 DEF RequestAnalysis, counters, queues
<1>4. ASSUME NEW v \in events, HandleEvent(v) PROVE OthersTyped'
  BY <1>4 DEF HandleEvent, counters, queues
<1>5. ASSUME NEW v \in schedules, HandleSchedule(v) PROVE OthersTyped'
  BY <1>5 DEF HandleSchedule, counters, queues
<1>6. ASSUME NEW m \in messages, HandleDispatch(m) PROVE OthersTyped'
  BY <1>6, PublishedFits DEF HandleDispatch, counters
<1>7. ASSUME NEW d \in Ids, LockExpires(d) PROVE OthersTyped'
  BY <1>7 DEF LockExpires, counters, queues
<1>8. ASSUME NEW d \in Ids, BackoffEnds(d) PROVE OthersTyped'
  BY <1>8 DEF BackoffEnds, counters, queues
<1>9. ASSUME NEW d \in Ids, Recover(d) PROVE OthersTyped'
  <2>1. Message(d, FALSE) \in [dispatch : Ids, delayed : BOOLEAN]
    BY DEF Message
  <2>2. messages' \subseteq messages \cup {Message(d, FALSE)} /\ faults' \in 0 .. MaxFaults
    BY <1>9, FaultCounts DEF Recover
  <2> QED BY <1>9, <2>1, <2>2 DEF Recover, counters
<1>10. ASSUME NEW d \in Ids, AnswerQuestion(d) PROVE OthersTyped'
  <2>1. Message(d, FALSE) \in [dispatch : Ids, delayed : BOOLEAN]
    BY DEF Message
  <2>2. messages' \subseteq messages \cup {Message(d, FALSE)} /\ faults' \in 0 .. MaxFaults
    BY <1>10, FaultCounts DEF AnswerQuestion
  <2> QED BY <1>10, <2>1, <2>2 DEF AnswerQuestion, counters
<1>11. ASSUME NEW d \in Ids, LockOutlived(d) PROVE OthersTyped'
  BY <1>11, FaultCounts DEF LockOutlived, counters, queues
<1>12. ASSUME NEW s \in Slots, Expire(s) PROVE OthersTyped'
  BY <1>12 DEF Expire, counters, queues
<1>13. ASSUME NEW s \in Slots, Schedule(s) PROVE OthersTyped'
  <2>1. slots[s].trigger \in events
    BY <1>13 DEF Schedule, At, Sourced, Enqueuing
  <2>2. events' \subseteq events /\ faults' \in 0 .. MaxFaults
    BY <1>13, <2>1, PublishedFits DEF Schedule
  <2>3. schedules' \subseteq 1 .. MaxVersion
    BY <1>13, <2>1 DEF Schedule
  <2> QED BY <1>13, <2>2, <2>3 DEF Schedule, counters
<1>14. ASSUME NEW s \in Slots, Lookup(s) PROVE OthersTyped'
  <2>1. schedules' \subseteq schedules /\ faults' \in 0 .. MaxFaults
    BY <1>14, FinishGoes DEF Lookup
  <2> QED BY <1>14, <2>1 DEF Lookup, counters
<1>15. ASSUME NEW s \in Slots, Merge(s) PROVE OthersTyped'
  BY <1>15 DEF Merge, counters, queues
<1>16. ASSUME NEW s \in Slots, Create(s) PROVE OthersTyped'
  BY <1>16 DEF Create, counters, queues
<1>17. ASSUME NEW s \in Slots, Raced(s) PROVE OthersTyped'
  BY <1>17 DEF Raced, counters, queues
<1>18. ASSUME NEW s \in Slots, Queue(s) PROVE OthersTyped'
  <2>1. schedules' \subseteq schedules /\ faults' \in 0 .. MaxFaults
    BY <1>18, FinishGoes DEF Queue
  <2>2. Message(slots[s].target, FALSE) \in [dispatch : Ids, delayed : BOOLEAN]
    BY <1>18 DEF Queue, At, Sourced, Message
  <2> QED BY <1>18, <2>1, <2>2 DEF Queue, counters
<1>19. ASSUME NEW s \in Slots, Claim(s) PROVE OthersTyped'
  BY <1>19 DEF Claim, counters, queues
<1>20. ASSUME NEW s \in Slots, CheckRun(s) PROVE OthersTyped'
  BY <1>20 DEF CheckRun, counters, queues
<1>21. ASSUME NEW s \in Slots, Observe(s) PROVE OthersTyped'
  BY <1>21 DEF Observe, counters, queues
<1>22. ASSUME NEW s \in Slots, Respond(s) PROVE OthersTyped'
  <2>1. slots[s].seen \in 0 .. MaxVersion /\ slots[s].of \in 0 .. MaxDispatches
    BY DEF Slot
  <2>2. [waiting |-> TRUE, seen |-> slots[s].seen, of |-> slots[s].of] \in Session
    BY <2>1 DEF Session
  <2>3. session' \in Session
    BY <1>22, <2>2, IdleTyped DEF Respond
  <2>4. questions' \in 0 .. MaxQuestions
    BY <1>22 DEF Respond
  <2>5. faults' \in 0 .. MaxFaults
    BY <1>22, FaultCounts DEF Respond
  <2> QED BY <1>22, <2>3, <2>4, <2>5 DEF Respond, queues
<1>23. ASSUME NEW s \in Slots, MarkWaiting(s) PROVE OthersTyped'
  BY <1>23 DEF MarkWaiting, counters, queues
<1>24. ASSUME NEW s \in Slots, CheckVersion(s) PROVE OthersTyped'
  BY <1>24 DEF CheckVersion, counters, queues
<1>25. ASSUME NEW s \in Slots, Recommend(s) PROVE OthersTyped'
  <2> DEFINE new == [base |-> dispatches[slots[s].own].base, seen |-> slots[s].seen,
                     borrowed |-> slots[s].of # slots[s].own]
  <2>1. slots[s].own \in Ids
    BY <1>25 DEF Recommend, At, Sourced, Enqueuing
  <2>2. /\ dispatches[slots[s].own].base \in 0 .. MaxVersion
        /\ slots[s].seen \in 0 .. MaxVersion
        /\ (slots[s].of # slots[s].own) \in BOOLEAN
    BY <2>1, Typing DEF Row, Slot
  <2>3. new \in Advice
    BY <2>2 DEF Advice
  <2>4. advice' = advice \cup {new}
    BY <1>25 DEF Recommend
  <2> HIDE DEF new
  <2> QED BY <1>25, <2>3, <2>4 DEF Recommend, counters, queues
<1>26. ASSUME NEW s \in Slots, Supersede(s) PROVE OthersTyped'
  BY <1>26 DEF Supersede, counters, queues
<1>27. ASSUME NEW s \in Slots, MarkCompleted(s) PROVE OthersTyped'
  BY <1>27 DEF MarkCompleted, counters, queues
<1>28. ASSUME NEW s \in Slots, MarkRetry(s) PROVE OthersTyped'
  BY <1>28 DEF MarkRetry, counters, queues
<1>29. ASSUME NEW s \in Slots, QueueRetry(s) PROVE OthersTyped'
  <2>1. Message(slots[s].own, TRUE) \in [dispatch : Ids, delayed : BOOLEAN]
    BY <1>29 DEF QueueRetry, At, Sourced, Enqueuing, Message
  <2> QED BY <1>29, <2>1 DEF QueueRetry, counters
<1>30. ASSUME NEW s \in Slots, StatementFails(s) PROVE OthersTyped'
  BY <1>30, FaultCounts DEF StatementFails, counters, queues
<1>31. ASSUME NEW s \in Slots, ProcessDies(s) PROVE OthersTyped'
  BY <1>31, FaultCounts DEF ProcessDies, counters, queues
<1>32. CASE UNCHANGED vars
  BY <1>32 DEF vars
<1> QED BY <1>1, <1>2, <1>3, <1>4, <1>5, <1>6, <1>7, <1>8, <1>9, <1>10, <1>11, <1>12,
      <1>13, <1>14, <1>15, <1>16, <1>17, <1>18, <1>19, <1>20, <1>21, <1>22, <1>23,
      <1>24, <1>25, <1>26, <1>27, <1>28, <1>29, <1>30, <1>31, <1>32 DEF Next,
      Deliver, Time, Enqueue, Analyse

LEMMA TypesStay ==
  ASSUME TypeOK, \A x \in Slots : Sourced(x), [Next]_vars
  PROVE  TypeOK'
<1>1. slots \in [Slots -> Slot] /\ dispatches \in [Ids -> Row] /\ OthersTyped
  BY Typing DEF OthersTyped
<1>2. slots' \in [Slots -> Slot] /\ dispatches' \in [Ids -> Row] /\ OthersTyped'
  BY <1>1, SlotsTyped, RowsTyped, OthersStay
<1> QED BY <1>2 DEF TypeOK, OthersTyped, Row, Slot, Sources, Session

-----------------------------------------------------------------------------
(* What the processes rely on                                               *)

\* A message stays in the outbox while a process works for it.
LEMMA QueuesStay ==
  ASSUME DispatchesInv, [Next]_vars, NEW x \in Slots,
         slots'[x].source = slots[x].source, slots'[x].trigger = slots[x].trigger
  PROVE  /\ slots[x].source = "event" => slots[x].trigger \in events'
         /\ slots[x].source = "schedule" => slots[x].trigger \in schedules'
<1> DEFINE Goal == /\ slots[x].source = "event" => slots[x].trigger \in events'
                   /\ slots[x].source = "schedule" => slots[x].trigger \in schedules'
<1> USE Typing DEF DispatchesInv
<1>1. CASE Command
  BY <1>1 DEF Command, Sourced
<1>2. CASE CloseAdvice
  BY <1>2 DEF CloseAdvice, queues, Sourced
<1>3. CASE RequestAnalysis
  BY <1>3 DEF RequestAnalysis, queues, Sourced
<1>4. ASSUME NEW v \in events, HandleEvent(v) PROVE Goal
  BY <1>4 DEF HandleEvent, queues, Sourced
<1>5. ASSUME NEW v \in schedules, HandleSchedule(v) PROVE Goal
  <2>1. events' = events /\ schedules \ {v} \subseteq schedules'
    BY <1>5 DEF HandleSchedule
  <2>2. slots[x].source = "schedule" => slots[x].trigger # v
    BY <1>5 DEF HandleSchedule, Handled
  <2> QED BY <2>1, <2>2 DEF Sourced
<1>6. ASSUME NEW m \in messages, HandleDispatch(m) PROVE Goal
  BY <1>6 DEF HandleDispatch, queues, Sourced
<1>7. ASSUME NEW d \in Ids, LockExpires(d) PROVE Goal
  BY <1>7 DEF LockExpires, queues, Sourced
<1>8. ASSUME NEW d \in Ids, BackoffEnds(d) PROVE Goal
  BY <1>8 DEF BackoffEnds, queues, Sourced
<1>9. ASSUME NEW d \in Ids, Recover(d) PROVE Goal
  BY <1>9 DEF Recover, Sourced
<1>10. ASSUME NEW d \in Ids, AnswerQuestion(d) PROVE Goal
  BY <1>10 DEF AnswerQuestion, Sourced
<1>11. ASSUME NEW d \in Ids, LockOutlived(d) PROVE Goal
  BY <1>11 DEF LockOutlived, queues, Sourced
<1>12. ASSUME NEW s \in Slots, Expire(s) PROVE Goal
  BY <1>12 DEF Expire, queues, Sourced
<1>13. ASSUME NEW s \in Slots, Schedule(s) PROVE Goal
  <2>1. slots[s].trigger \in events /\ slots[s].source = "event" /\ slots'[s].source = "none"
    BY <1>13 DEF Schedule, At, Sourced, End, Enqueuing, Idle
  <2>2. events \ {slots[s].trigger} \subseteq events' /\ schedules \subseteq schedules'
    BY <1>13, <2>1, PublishedFits DEF Schedule
  <2> QED BY <2>1, <2>2 DEF Sourced, Alone
<1>14. ASSUME NEW s \in Slots, Lookup(s) PROVE Goal
  <2>1. events' = events /\ (slots[s].source # "schedule" => schedules' = schedules)
    BY <1>14, FinishGoes DEF Lookup
  <2>2. CASE slots[s].source = "schedule" /\ schedules' # schedules
    <3>1. schedules \ {slots[s].trigger} \subseteq schedules' /\ slots' = [slots EXCEPT ![s] = Idle]
      BY <1>14, <2>2, FinishGoes DEF Lookup
    <3> QED BY <2>1, <2>2, <3>1, IdleTyped DEF Sourced, Alone
  <2> QED BY <2>1, <2>2 DEF Sourced
<1>15. ASSUME NEW s \in Slots, Merge(s) PROVE Goal
  BY <1>15 DEF Merge, queues, Sourced
<1>16. ASSUME NEW s \in Slots, Create(s) PROVE Goal
  BY <1>16 DEF Create, queues, Sourced
<1>17. ASSUME NEW s \in Slots, Raced(s) PROVE Goal
  BY <1>17 DEF Raced, queues, Sourced
<1>18. ASSUME NEW s \in Slots, Queue(s) PROVE Goal
  <2>1. events' = events /\ (slots[s].source # "schedule" => schedules' = schedules)
    BY <1>18, FinishGoes DEF Queue
  <2>2. CASE slots[s].source = "schedule" /\ schedules' # schedules
    <3>1. schedules \ {slots[s].trigger} \subseteq schedules' /\ slots' = [slots EXCEPT ![s] = Idle]
      BY <1>18, <2>2, FinishGoes DEF Queue
    <3> QED BY <2>1, <2>2, <3>1, IdleTyped DEF Sourced, Alone
  <2> QED BY <2>1, <2>2 DEF Sourced
<1>19. ASSUME NEW s \in Slots, Claim(s) PROVE Goal
  BY <1>19 DEF Claim, queues, Sourced
<1>20. ASSUME NEW s \in Slots, CheckRun(s) PROVE Goal
  BY <1>20 DEF CheckRun, queues, Sourced
<1>21. ASSUME NEW s \in Slots, Observe(s) PROVE Goal
  BY <1>21 DEF Observe, queues, Sourced
<1>22. ASSUME NEW s \in Slots, Respond(s) PROVE Goal
  BY <1>22 DEF Respond, queues, Sourced
<1>23. ASSUME NEW s \in Slots, MarkWaiting(s) PROVE Goal
  BY <1>23 DEF MarkWaiting, queues, Sourced
<1>24. ASSUME NEW s \in Slots, CheckVersion(s) PROVE Goal
  BY <1>24 DEF CheckVersion, queues, Sourced
<1>25. ASSUME NEW s \in Slots, Recommend(s) PROVE Goal
  BY <1>25 DEF Recommend, queues, Sourced
<1>26. ASSUME NEW s \in Slots, Supersede(s) PROVE Goal
  BY <1>26 DEF Supersede, queues, Sourced
<1>27. ASSUME NEW s \in Slots, MarkCompleted(s) PROVE Goal
  BY <1>27 DEF MarkCompleted, queues, Sourced
<1>28. ASSUME NEW s \in Slots, MarkRetry(s) PROVE Goal
  BY <1>28 DEF MarkRetry, queues, Sourced
<1>29. ASSUME NEW s \in Slots, QueueRetry(s) PROVE Goal
  BY <1>29 DEF QueueRetry, queues, Sourced
<1>30. ASSUME NEW s \in Slots, StatementFails(s) PROVE Goal
  BY <1>30 DEF StatementFails, queues, Sourced
<1>31. ASSUME NEW s \in Slots, ProcessDies(s) PROVE Goal
  BY <1>31 DEF ProcessDies, queues, Sourced
<1>32. CASE UNCHANGED vars
  BY <1>32 DEF vars, Sourced
<1> QED BY <1>1, <1>2, <1>3, <1>4, <1>5, <1>6, <1>7, <1>8, <1>9, <1>10, <1>11, <1>12,
      <1>13, <1>14, <1>15, <1>16, <1>17, <1>18, <1>19, <1>20, <1>21, <1>22, <1>23,
      <1>24, <1>25, <1>26, <1>27, <1>28, <1>29, <1>30, <1>31, <1>32 DEF Next,
      Deliver, Time, Enqueue, Analyse

LEMMA KeyHoldersPresent ==
  ASSUME KeysFit
  PROVE  \A d \in KeyHolders : d \in Ids /\ Present(d)
BY DEF KeysFit, KeyHolders, Active, Present

LEMMA IdleFields ==
  /\ Idle.pc = "free" /\ Idle.source = "none" /\ Idle.trigger = 0 /\ Idle.own = 0
BY DEF Idle

\* A process that moves on for the same message or dispatch keeps what it relies on.
LEMMA MoveFits ==
  ASSUME DispatchesInv, [Next]_vars, NEW x \in Slots,
         slots'[x].source = slots[x].source, slots'[x].trigger = slots[x].trigger,
         slots'[x].own = slots[x].own,
         slots'[x].pc = "free" <=> slots[x].source = "none",
         slots'[x].pc \in {"expire", "schedule"} => slots[x].source = "event",
         slots'[x].pc \notin Enqueuing \cup {"free", "expire", "schedule"}
           => slots[x].source = "workflow",
         slots'[x].pc \in {"merge", "queue"}
           => slots'[x].target \in Ids /\ dispatches'[slots'[x].target].status # "absent"
  PROVE  Sourced(x)'
<1>1. slots[x].source = "workflow" => slots[x].own \in Ids /\ dispatches'[slots[x].own].status # "absent"
  BY RowStays DEF DispatchesInv, Sourced, Present, Kept
<1> QED BY <1>1, QueuesStay DEF Sourced, Present

LEMMA StaysFit ==
  ASSUME DispatchesInv, [Next]_vars, NEW x \in Slots, slots'[x] = slots[x]
  PROVE  Sourced(x)'
<1>1. Sourced(x)
  BY DEF DispatchesInv
<1>2. slots[x].pc \in {"merge", "queue"} => slots[x].target \in Ids /\ dispatches'[slots[x].target].status # "absent"
  BY <1>1, RowStays DEF DispatchesInv, Sourced, Present, Kept
<1> QED BY <1>1, <1>2, MoveFits DEF Sourced, Present

LEMMA EndFits ==
  ASSUME NEW x \in Slots, slots'[x] = Idle
  PROVE  Sourced(x)'
BY IdleTyped DEF Sourced, Enqueuing

LEMMA ThrownFits ==
  ASSUME DispatchesInv, [Next]_vars, NEW s \in Slots, Thrown(s), slots[s].pc # "free"
  PROVE  Sourced(s)' /\ \A x \in Slots : x # s => slots'[x] = slots[x]
<1>1. slots \in [Slots -> Slot]
  BY Typing DEF DispatchesInv
<1>2. CASE slots[s].source = "workflow"
  <2>1. slots' = [slots EXCEPT ![s].pc = "retry"]
    BY <1>2 DEF Thrown, Goto
  <2> QED BY <1>1, <1>2, <2>1, MoveFits DEF Enqueuing
<1>3. CASE slots[s].source # "workflow"
  BY <1>1, <1>3, EndFits DEF Thrown, End
<1> QED BY <1>2, <1>3

LEMMA SourcesStay ==
  ASSUME DispatchesInv, [Next]_vars, NEW x \in Slots
  PROVE  Sourced(x)'
<1> USE Typing DEF DispatchesInv
<1>1. CASE Command
  BY <1>1, StaysFit DEF Command
<1>2. CASE CloseAdvice
  BY <1>2, StaysFit DEF CloseAdvice
<1>3. CASE RequestAnalysis
  <2>1. PICK s \in Slots :
          slots' = [slots EXCEPT ![s] =
            [Idle EXCEPT !.pc = "lookup", !.source = "user", !.force = TRUE]]
    BY <1>3, EnterTakes DEF RequestAnalysis
  <2>2. CASE x # s
    BY <2>1, <2>2, StaysFit
  <2>3. CASE x = s
    BY <1>3, <2>1, <2>3, IdleFields DEF RequestAnalysis, Sourced, Enqueuing, queues
  <2> QED BY <2>2, <2>3
<1>4. ASSUME NEW v \in events, HandleEvent(v) PROVE Sourced(x)'
  <2>1. PICK s \in Slots :
          slots' = [slots EXCEPT ![s] =
            [Idle EXCEPT !.pc = "expire", !.source = "event", !.trigger = v, !.force = TRUE]]
    BY <1>4, EnterTakes DEF HandleEvent
  <2>2. CASE x # s
    BY <2>1, <2>2, StaysFit
  <2>3. CASE x = s
    BY <1>4, <2>1, <2>3, IdleFields DEF HandleEvent, Sourced, Enqueuing, queues
  <2> QED BY <2>2, <2>3
<1>5. ASSUME NEW v \in schedules, HandleSchedule(v) PROVE Sourced(x)'
  <2>1. CASE ~ run.running
    BY <1>5, <2>1, StaysFit DEF HandleSchedule
  <2>2. CASE run.running
    <3>1. /\ Enter([Idle EXCEPT !.pc = "lookup", !.source = "schedule", !.trigger = v])
          /\ schedules' = schedules
      BY <1>5, <2>2 DEF HandleSchedule
    <3>2. PICK s \in Slots :
            slots' = [slots EXCEPT ![s] =
                        [Idle EXCEPT !.pc = "lookup", !.source = "schedule", !.trigger = v]]
      BY <3>1, EnterTakes
    <3>3. CASE x # s
      BY <3>2, <3>3, StaysFit
    <3>4. CASE x = s
      BY <3>1, <3>2, <3>4, IdleFields DEF Sourced, Enqueuing
    <3> QED BY <3>3, <3>4
  <2> QED BY <2>1, <2>2
<1>6. ASSUME NEW m \in messages, HandleDispatch(m) PROVE Sourced(x)'
  <2>1. PICK s \in Slots :
          slots' = [slots EXCEPT ![s] =
            [Idle EXCEPT !.pc = "begin", !.source = "workflow", !.own = m.dispatch]]
    BY <1>6, EnterTakes DEF HandleDispatch
  <2>4. m.dispatch \in Ids /\ Present(m.dispatch) /\ dispatches' = dispatches
    BY <1>6, Typing DEF HandleDispatch, MessagesFit
  <2>2. CASE x # s
    BY <2>1, <2>2, StaysFit
  <2>3. CASE x = s
    BY <1>6, <2>1, <2>3, <2>4, IdleFields DEF HandleDispatch, Sourced, Enqueuing, Present
  <2> QED BY <2>2, <2>3
<1>7. ASSUME NEW d \in Ids, LockExpires(d) PROVE Sourced(x)'
  BY <1>7, StaysFit DEF LockExpires
<1>8. ASSUME NEW d \in Ids, BackoffEnds(d) PROVE Sourced(x)'
  BY <1>8, StaysFit DEF BackoffEnds
<1>9. ASSUME NEW d \in Ids, Recover(d) PROVE Sourced(x)'
  BY <1>9, StaysFit DEF Recover
<1>10. ASSUME NEW d \in Ids, AnswerQuestion(d) PROVE Sourced(x)'
  BY <1>10, StaysFit DEF AnswerQuestion
<1>11. ASSUME NEW d \in Ids, LockOutlived(d) PROVE Sourced(x)'
  BY <1>11, StaysFit DEF LockOutlived
<1>12. ASSUME NEW s \in Slots, Expire(s) PROVE Sourced(x)'
  <2>1. CASE x # s
    BY <1>12, <2>1, StaysFit DEF Expire, At, Goto
  <2>2. CASE x = s
    BY <1>12, <2>2, MoveFits DEF Expire, At, Goto, Sourced, Enqueuing
  <2> QED BY <2>1, <2>2
<1>13. ASSUME NEW s \in Slots, Schedule(s) PROVE Sourced(x)'
  <2>1. CASE x # s
    BY <1>13, <2>1, StaysFit DEF Schedule, End
  <2>2. CASE x = s
    BY <1>13, <2>2, EndFits DEF Schedule, End
  <2> QED BY <2>1, <2>2
<1>14. ASSUME NEW s \in Slots, Lookup(s) PROVE Sourced(x)'
  <2>1. CASE Finish(s)
    <3>1. CASE slots' = [slots EXCEPT ![s] = Idle]
      BY <3>1, StaysFit, EndFits
    <3>2. CASE slots' = [slots EXCEPT ![s].pc = "schedule"] /\ slots[s].source = "event"
      BY <3>2, StaysFit, MoveFits
    <3> QED BY <2>1, <3>1, <3>2, FinishGoes
  <2>2. CASE \E d \in KeyHolders :
              slots' = [slots EXCEPT ![s].pc = "merge", ![s].target = d,
                                     ![s].pending = dispatches[d].status = "pending"]
    <3>1. PICK d \in KeyHolders :
              slots' = [slots EXCEPT ![s].pc = "merge", ![s].target = d,
                                     ![s].pending = dispatches[d].status = "pending"]
      BY <2>2
    <3>2. CASE x # s
      BY <3>1, <3>2, StaysFit
    <3>3. CASE x = s
      <4>1. d \in Ids /\ dispatches'[d].status # "absent"
        BY KeyHoldersPresent, RowStays DEF Present, Kept
      <4>2. slots[s].pc = "lookup"
        BY <1>14 DEF Lookup, At
      <4> QED BY <3>1, <3>3, <4>1, <4>2, MoveFits DEF Sourced, Enqueuing
    <3> QED BY <3>2, <3>3
  <2>3. CASE \E old \in Last :
              slots' = [slots EXCEPT ![s].pc = "create", ![s].seen = run.version,
                                     ![s].old = old]
    <3>1. slots[s].pc = "lookup"
      BY <1>14 DEF Lookup, At
    <3> QED BY <2>3, <3>1, StaysFit, MoveFits DEF Sourced, Enqueuing
  <2> QED BY <1>14, <2>1, <2>2, <2>3 DEF Lookup
<1>15. ASSUME NEW s \in Slots, Merge(s) PROVE Sourced(x)'
  <2>1. slots[s].pc = "merge" /\ slots' = [slots EXCEPT ![s].pc = "queue"]
    BY <1>15 DEF Merge, At, Goto
  <2>2. CASE x # s
    BY <2>1, <2>2, StaysFit
  <2>3. CASE x = s
    <3>1. slots[s].target \in Ids /\ dispatches'[slots[s].target].status # "absent"
      BY <2>1, RowStays DEF Sourced, Present, Kept
    <3> QED BY <2>1, <2>3, <3>1, MoveFits DEF Sourced, Enqueuing
  <2> QED BY <2>2, <2>3
<1>16. ASSUME NEW s \in Slots, Create(s) PROVE Sourced(x)'
  <2>1. slots[s].pc = "create"
    BY <1>16 DEF Create, At
  <2>2. CASE slots' = [slots EXCEPT ![s].pc = "raced", ![s].old = {}]
    BY <2>1, <2>2, StaysFit, MoveFits DEF Sourced, Enqueuing
  <2>3. CASE KeyHolders = {}
    <3>1. PICK d \in Ids :
            /\ dispatches' = [dispatches EXCEPT ![d] =
                 [NoDispatch EXCEPT !.status = "pending", !.key = TRUE, !.due = TRUE,
                                    !.base = slots[s].seen]]
            /\ slots' = [slots EXCEPT ![s].pc = "queue", ![s].target = d, ![s].old = {}]
      BY <1>16, <2>3 DEF Create, Fresh
    <3>2. dispatches'[d].status # "absent"
      BY <3>1 DEF Present, NoDispatch
    <3>3. CASE x # s
      BY <3>1, <3>3, StaysFit
    <3>4. CASE x = s
      BY <2>1, <3>1, <3>2, <3>4, MoveFits DEF Sourced, Enqueuing
    <3> QED BY <3>3, <3>4
  <2> QED BY <1>16, <2>2, <2>3 DEF Create
<1>17. ASSUME NEW s \in Slots, Raced(s) PROVE Sourced(x)'
  <2>1. CASE Thrown(s)
    BY <1>17, <2>1, ThrownFits, StaysFit DEF Raced, At
  <2>2. CASE \E d \in KeyHolders : slots' = [slots EXCEPT ![s].pc = "queue", ![s].target = d]
    <3>1. PICK d \in KeyHolders : slots' = [slots EXCEPT ![s].pc = "queue", ![s].target = d]
      BY <2>2
    <3>2. CASE x # s
      BY <3>1, <3>2, StaysFit
    <3>3. CASE x = s
      <4>1. d \in Ids /\ dispatches'[d].status # "absent"
        BY KeyHoldersPresent, RowStays DEF Present, Kept
      <4>2. slots[s].pc = "raced"
        BY <1>17 DEF Raced, At
      <4> QED BY <3>1, <3>3, <4>1, <4>2, MoveFits DEF Sourced, Enqueuing
    <3> QED BY <3>2, <3>3
  <2> QED BY <1>17, <2>1, <2>2 DEF Raced
<1>18. ASSUME NEW s \in Slots, Queue(s) PROVE Sourced(x)'
  <2>1. CASE slots' = [slots EXCEPT ![s] = Idle]
    BY <2>1, StaysFit, EndFits
  <2>2. CASE slots' = [slots EXCEPT ![s].pc = "schedule"] /\ slots[s].source = "event"
    BY <2>2, StaysFit, MoveFits
  <2> QED BY <1>18, <2>1, <2>2, FinishGoes DEF Queue
<1>19. ASSUME NEW s \in Slots, Claim(s) PROVE Sourced(x)'
  <2>1. slots[s].pc = "begin"
    BY <1>19 DEF Claim, At
  <2>2. CASE slots' = [slots EXCEPT ![s] = Idle]
    BY <2>2, StaysFit, EndFits
  <2>3. CASE slots' = [slots EXCEPT ![s].pc = "claimed",
                                    ![s].answer = dispatches[slots[s].own].answered]
    BY <2>1, <2>3, StaysFit, MoveFits DEF Sourced, Enqueuing
  <2> QED BY <1>19, <2>2, <2>3 DEF Claim, End
<1>20. ASSUME NEW s \in Slots, CheckRun(s) PROVE Sourced(x)'
  <2>1. CASE x # s
    BY <1>20, <2>1, StaysFit DEF CheckRun, At, Goto
  <2>2. CASE x = s
    BY <1>20, <2>2, MoveFits DEF CheckRun, At, Goto, Sourced, Enqueuing
  <2> QED BY <2>1, <2>2
<1>21. ASSUME NEW s \in Slots, Observe(s) PROVE Sourced(x)'
  <2>1. slots[s].pc = "observe"
    BY <1>21 DEF Observe, At
  <2>2. CASE \E pc \in {"complete", "retry"} : slots' = [slots EXCEPT ![s].pc = pc]
    BY <2>1, <2>2, StaysFit, MoveFits DEF Sourced, Enqueuing
  <2>3. CASE slots' = [slots EXCEPT ![s].pc = "model",
               ![s].seen = IF slots[s].answer THEN session.seen ELSE run.version,
               ![s].of = IF slots[s].answer THEN session.of ELSE slots[s].own]
    <3>1. CASE x # s
      BY <2>3, <3>1, StaysFit
    <3>2. CASE x = s
      <4>1. /\ slots'[x].pc = "model" /\ slots'[x].source = slots[x].source
            /\ slots'[x].trigger = slots[x].trigger /\ slots'[x].own = slots[x].own
        BY <2>3, <3>2
      <4> QED BY <2>1, <3>2, <4>1, MoveFits DEF Sourced, Enqueuing
    <3> QED BY <3>1, <3>2
  <2> QED BY <1>21, <2>2, <2>3 DEF Observe, Goto
<1>22. ASSUME NEW s \in Slots, Respond(s) PROVE Sourced(x)'
  <2>1. /\ slots[s].pc = "model"
        /\ \E pc \in {"propose", "complete", "ask", "retry"} : slots' = [slots EXCEPT ![s].pc = pc]
    BY <1>22 DEF Respond, At, Goto
  <2> QED BY <2>1, StaysFit, MoveFits DEF Sourced, Enqueuing
<1>23. ASSUME NEW s \in Slots, MarkWaiting(s) PROVE Sourced(x)'
  <2>1. CASE x # s
    BY <1>23, <2>1, StaysFit DEF MarkWaiting, End
  <2>2. CASE x = s
    BY <1>23, <2>2, EndFits DEF MarkWaiting, End
  <2> QED BY <2>1, <2>2
<1>24. ASSUME NEW s \in Slots, CheckVersion(s) PROVE Sourced(x)'
  <2>1. CASE x # s
    BY <1>24, <2>1, StaysFit DEF CheckVersion, At, Goto
  <2>2. CASE x = s
    BY <1>24, <2>2, MoveFits DEF CheckVersion, At, Goto, Sourced, Enqueuing
  <2> QED BY <2>1, <2>2
<1>25. ASSUME NEW s \in Slots, Recommend(s) PROVE Sourced(x)'
  <2>1. CASE x # s
    BY <1>25, <2>1, StaysFit DEF Recommend, End
  <2>2. CASE x = s
    BY <1>25, <2>2, EndFits DEF Recommend, End
  <2> QED BY <2>1, <2>2
<1>26. ASSUME NEW s \in Slots, Supersede(s) PROVE Sourced(x)'
  <2>1. CASE x # s
    BY <1>26, <2>1, StaysFit DEF Supersede, At
  <2>2. CASE x = s
    BY <1>26, <2>2, MoveFits DEF Supersede, At, Sourced, Enqueuing
  <2> QED BY <2>1, <2>2
<1>27. ASSUME NEW s \in Slots, MarkCompleted(s) PROVE Sourced(x)'
  <2>1. CASE x # s
    BY <1>27, <2>1, StaysFit DEF MarkCompleted, End
  <2>2. CASE x = s
    BY <1>27, <2>2, EndFits DEF MarkCompleted, End
  <2> QED BY <2>1, <2>2
<1>28. ASSUME NEW s \in Slots, MarkRetry(s) PROVE Sourced(x)'
  <2>1. CASE x # s
    BY <1>28, <2>1, StaysFit DEF MarkRetry, At, Goto
  <2>2. CASE x = s
    BY <1>28, <2>2, MoveFits DEF MarkRetry, At, Goto, Sourced, Enqueuing
  <2> QED BY <2>1, <2>2
<1>29. ASSUME NEW s \in Slots, QueueRetry(s) PROVE Sourced(x)'
  <2>1. CASE x # s
    BY <1>29, <2>1, StaysFit DEF QueueRetry, End
  <2>2. CASE x = s
    BY <1>29, <2>2, EndFits DEF QueueRetry, End
  <2> QED BY <2>1, <2>2
<1>30. ASSUME NEW s \in Slots, StatementFails(s) PROVE Sourced(x)'
  <2>1. CASE x # s
    BY <1>30, <2>1, ThrownFits, StaysFit DEF StatementFails
  <2>2. CASE x = s
    BY <1>30, <2>2, ThrownFits DEF StatementFails, At
  <2> QED BY <2>1, <2>2
<1>31. ASSUME NEW s \in Slots, ProcessDies(s) PROVE Sourced(x)'
  <2>1. CASE x # s
    BY <1>31, <2>1, StaysFit DEF ProcessDies, End
  <2>2. CASE x = s
    BY <1>31, <2>2, EndFits DEF ProcessDies, End
  <2> QED BY <2>1, <2>2
<1>32. CASE UNCHANGED vars
  BY <1>32, StaysFit DEF vars
<1> QED BY <1>1, <1>2, <1>3, <1>4, <1>5, <1>6, <1>7, <1>8, <1>9, <1>10, <1>11, <1>12,
      <1>13, <1>14, <1>15, <1>16, <1>17, <1>18, <1>19, <1>20, <1>21, <1>22, <1>23,
      <1>24, <1>25, <1>26, <1>27, <1>28, <1>29, <1>30, <1>31, <1>32 DEF Next,
      Deliver, Time, Enqueue, Analyse

LEMMA SteadyAlone ==
  ASSUME Alone,
         \A x \in Slots :
           \/ slots'[x].source = "none"
           \/ slots'[x].source = slots[x].source /\ slots'[x].trigger = slots[x].trigger
  PROVE  Alone'
BY DEF Alone

LEMMA ThrownAlone ==
  ASSUME TypeOK, Alone, NEW s \in Slots, Thrown(s)
  PROVE  Alone'
<1>1. CASE slots' = [slots EXCEPT ![s].pc = "retry"]
  BY <1>1, SteadyAlone, Typing
<1>2. CASE slots' = [slots EXCEPT ![s] = Idle]
  BY <1>2, SteadyAlone, Typing, IdleFields
<1> QED BY <1>1, <1>2 DEF Thrown, Goto, End

LEMMA AloneStays ==
  ASSUME DispatchesInv, [Next]_vars
  PROVE  Alone'
<1> USE Typing DEF DispatchesInv
<1>1. CASE Command
  BY <1>1, SteadyAlone DEF Command
<1>2. CASE CloseAdvice
  BY <1>2, SteadyAlone DEF CloseAdvice
<1>3. CASE RequestAnalysis
  <2>1. PICK s \in Slots :
          slots' = [slots EXCEPT ![s] =
            [Idle EXCEPT !.pc = "lookup", !.source = "user", !.force = TRUE]]
    BY <1>3, EnterTakes DEF RequestAnalysis
  <2> QED BY <2>1, IdleFields DEF Alone
<1>4. ASSUME NEW v \in events, HandleEvent(v) PROVE Alone'
  <2>1. PICK s \in Slots :
          slots' = [slots EXCEPT ![s] =
            [Idle EXCEPT !.pc = "expire", !.source = "event", !.trigger = v, !.force = TRUE]]
    BY <1>4, EnterTakes DEF HandleEvent
  <2>2. \A x \in Slots : ~ (slots[x].source = "event" /\ slots[x].trigger = v)
    BY <1>4 DEF HandleEvent, Handled
  <2> QED BY <2>1, <2>2, IdleFields DEF Alone
<1>5. ASSUME NEW v \in schedules, HandleSchedule(v) PROVE Alone'
  <2>1. CASE ~ run.running
    BY <1>5, <2>1, SteadyAlone DEF HandleSchedule
  <2>2. CASE run.running
    <3>1. PICK s \in Slots :
            slots' = [slots EXCEPT ![s] =
                        [Idle EXCEPT !.pc = "lookup", !.source = "schedule", !.trigger = v]]
      BY <1>5, <2>2, EnterTakes DEF HandleSchedule
    <3>2. \A x \in Slots : ~ (slots[x].source = "schedule" /\ slots[x].trigger = v)
      BY <1>5 DEF HandleSchedule, Handled
    <3> QED BY <3>1, <3>2, IdleFields DEF Alone
  <2> QED BY <2>1, <2>2
<1>6. ASSUME NEW m \in messages, HandleDispatch(m) PROVE Alone'
  <2>1. PICK s \in Slots :
          slots' = [slots EXCEPT ![s] =
            [Idle EXCEPT !.pc = "begin", !.source = "workflow", !.own = m.dispatch]]
    BY <1>6, EnterTakes DEF HandleDispatch
  <2> QED BY <2>1, IdleFields DEF Alone
<1>7. ASSUME NEW d \in Ids, LockExpires(d) PROVE Alone'
  BY <1>7, SteadyAlone DEF LockExpires
<1>8. ASSUME NEW d \in Ids, BackoffEnds(d) PROVE Alone'
  BY <1>8, SteadyAlone DEF BackoffEnds
<1>9. ASSUME NEW d \in Ids, Recover(d) PROVE Alone'
  BY <1>9, SteadyAlone DEF Recover
<1>10. ASSUME NEW d \in Ids, AnswerQuestion(d) PROVE Alone'
  BY <1>10, SteadyAlone DEF AnswerQuestion
<1>11. ASSUME NEW d \in Ids, LockOutlived(d) PROVE Alone'
  BY <1>11, SteadyAlone DEF LockOutlived
<1>12. ASSUME NEW s \in Slots, Expire(s) PROVE Alone'
  BY <1>12, SteadyAlone DEF Expire, Goto
<1>13. ASSUME NEW s \in Slots, Schedule(s) PROVE Alone'
  BY <1>13, SteadyAlone DEF Schedule, End, Idle
<1>14. ASSUME NEW s \in Slots, Lookup(s) PROVE Alone'
  <2>1. CASE Finish(s)
    <3>1. CASE slots' = [slots EXCEPT ![s] = Idle]
      BY <3>1, SteadyAlone, IdleFields
    <3>2. CASE slots' = [slots EXCEPT ![s].pc = "schedule"]
      BY <3>2, SteadyAlone
    <3> QED BY <2>1, <3>1, <3>2, FinishGoes
  <2>2. CASE \E d, p : slots' = [slots EXCEPT ![s].pc = "merge", ![s].target = d, ![s].pending = p]
    BY <2>2, SteadyAlone
  <2>3. CASE \E v, old : slots' = [slots EXCEPT ![s].pc = "create", ![s].seen = v, ![s].old = old]
    BY <2>3, SteadyAlone
  <2> QED BY <1>14, <2>1, <2>2, <2>3 DEF Lookup
<1>15. ASSUME NEW s \in Slots, Merge(s) PROVE Alone'
  BY <1>15, SteadyAlone DEF Merge, Goto
<1>16. ASSUME NEW s \in Slots, Create(s) PROVE Alone'
  <2>1. CASE slots' = [slots EXCEPT ![s].pc = "raced", ![s].old = {}]
    BY <2>1, SteadyAlone
  <2>2. CASE \E d : slots' = [slots EXCEPT ![s].pc = "queue", ![s].target = d, ![s].old = {}]
    BY <2>2, SteadyAlone
  <2> QED BY <1>16, <2>1, <2>2 DEF Create
<1>17. ASSUME NEW s \in Slots, Raced(s) PROVE Alone'
  <2>1. CASE Thrown(s)
    BY <2>1, ThrownAlone
  <2>2. CASE \E d : slots' = [slots EXCEPT ![s].pc = "queue", ![s].target = d]
    BY <2>2, SteadyAlone
  <2> QED BY <1>17, <2>1, <2>2 DEF Raced
<1>18. ASSUME NEW s \in Slots, Queue(s) PROVE Alone'
  <2>1. CASE slots' = [slots EXCEPT ![s] = Idle]
    BY <2>1, SteadyAlone, IdleFields
  <2>2. CASE slots' = [slots EXCEPT ![s].pc = "schedule"]
    BY <2>2, SteadyAlone
  <2> QED BY <1>18, <2>1, <2>2, FinishGoes DEF Queue
<1>19. ASSUME NEW s \in Slots, Claim(s) PROVE Alone'
  <2>1. CASE End(s)
    BY <2>1, SteadyAlone DEF End, Idle
  <2>2. CASE \E b : slots' = [slots EXCEPT ![s].pc = "claimed", ![s].answer = b]
    BY <2>2, SteadyAlone
  <2> QED BY <1>19, <2>1, <2>2 DEF Claim
<1>20. ASSUME NEW s \in Slots, CheckRun(s) PROVE Alone'
  BY <1>20, SteadyAlone DEF CheckRun, Goto
<1>21. ASSUME NEW s \in Slots, Observe(s) PROVE Alone'
  <2>1. CASE \E pc : slots' = [slots EXCEPT ![s].pc = pc]
    BY <2>1, SteadyAlone
  <2>2. CASE \E v, d : slots' = [slots EXCEPT ![s].pc = "model", ![s].seen = v, ![s].of = d]
    BY <2>2, SteadyAlone
  <2> QED BY <1>21, <2>1, <2>2 DEF Observe, Goto
<1>22. ASSUME NEW s \in Slots, Respond(s) PROVE Alone'
  <2>1. \E pc : slots' = [slots EXCEPT ![s].pc = pc]
    BY <1>22 DEF Respond, Goto
  <2> QED BY <2>1, SteadyAlone
<1>23. ASSUME NEW s \in Slots, MarkWaiting(s) PROVE Alone'
  BY <1>23, SteadyAlone DEF MarkWaiting, End, Idle
<1>24. ASSUME NEW s \in Slots, CheckVersion(s) PROVE Alone'
  BY <1>24, SteadyAlone DEF CheckVersion, Goto
<1>25. ASSUME NEW s \in Slots, Recommend(s) PROVE Alone'
  BY <1>25, SteadyAlone DEF Recommend, End, Idle
<1>26. ASSUME NEW s \in Slots, Supersede(s) PROVE Alone'
  BY <1>26, SteadyAlone DEF Supersede
<1>27. ASSUME NEW s \in Slots, MarkCompleted(s) PROVE Alone'
  BY <1>27, SteadyAlone DEF MarkCompleted, End, Idle
<1>28. ASSUME NEW s \in Slots, MarkRetry(s) PROVE Alone'
  BY <1>28, SteadyAlone DEF MarkRetry, Goto
<1>29. ASSUME NEW s \in Slots, QueueRetry(s) PROVE Alone'
  BY <1>29, SteadyAlone DEF QueueRetry, End, Idle
<1>30. ASSUME NEW s \in Slots, StatementFails(s) PROVE Alone'
  BY <1>30, ThrownAlone DEF StatementFails
<1>31. ASSUME NEW s \in Slots, ProcessDies(s) PROVE Alone'
  BY <1>31, SteadyAlone DEF ProcessDies, End, Idle
<1>32. CASE UNCHANGED vars
  BY <1>32, SteadyAlone DEF vars
<1> QED BY <1>1, <1>2, <1>3, <1>4, <1>5, <1>6, <1>7, <1>8, <1>9, <1>10, <1>11, <1>12,
      <1>13, <1>14, <1>15, <1>16, <1>17, <1>18, <1>19, <1>20, <1>21, <1>22, <1>23,
      <1>24, <1>25, <1>26, <1>27, <1>28, <1>29, <1>30, <1>31, <1>32 DEF Next,
      Deliver, Time, Enqueue, Analyse

-----------------------------------------------------------------------------
(* The key and the messages                                                 *)

LEMMA KeysStay ==
  ASSUME DispatchesInv, [Next]_vars
  PROVE  KeysFit'
<1> USE Typing DEF DispatchesInv, KeysFit, Active
<1>1. CASE Command
  BY <1>1 DEF Command, queues, counters
<1>2. CASE CloseAdvice
  BY <1>2 DEF CloseAdvice, queues, counters
<1>3. CASE RequestAnalysis
  BY <1>3 DEF RequestAnalysis, queues, counters
<1>4. ASSUME NEW v \in events, HandleEvent(v) PROVE KeysFit'
  BY <1>4 DEF HandleEvent, queues, counters
<1>5. ASSUME NEW v \in schedules, HandleSchedule(v) PROVE KeysFit'
  BY <1>5 DEF HandleSchedule, queues, counters
<1>6. ASSUME NEW m \in messages, HandleDispatch(m) PROVE KeysFit'
  BY <1>6 DEF HandleDispatch, queues, counters
<1>7. ASSUME NEW d \in Ids, LockExpires(d) PROVE KeysFit'
  BY <1>7 DEF LockExpires
<1>8. ASSUME NEW d \in Ids, BackoffEnds(d) PROVE KeysFit'
  BY <1>8 DEF BackoffEnds
<1>9. ASSUME NEW d \in Ids, Recover(d) PROVE KeysFit'
  BY <1>9 DEF Recover
<1>10. ASSUME NEW d \in Ids, AnswerQuestion(d) PROVE KeysFit'
  BY <1>10 DEF AnswerQuestion
<1>11. ASSUME NEW d \in Ids, LockOutlived(d) PROVE KeysFit'
  BY <1>11 DEF LockOutlived
<1>12. ASSUME NEW s \in Slots, Expire(s) PROVE KeysFit'
  BY <1>12 DEF Expire, queues, counters
<1>13. ASSUME NEW s \in Slots, Schedule(s) PROVE KeysFit'
  BY <1>13 DEF Schedule, queues, counters
<1>14. ASSUME NEW s \in Slots, Lookup(s) PROVE KeysFit'
  BY <1>14 DEF Lookup, queues, counters
<1>15. ASSUME NEW s \in Slots, Merge(s) PROVE KeysFit'
  BY <1>15 DEF Merge
<1>16. ASSUME NEW s \in Slots, Create(s) PROVE KeysFit'
  <2>1. CASE dispatches' = dispatches
    BY <2>1
  <2>2. CASE KeyHolders = {}
    <3>1. \A d \in Ids : ~ dispatches[d].key
      BY <2>2 DEF KeyHolders
    <3>2. PICK d \in Ids :
            dispatches' = [dispatches EXCEPT ![d] =
              [NoDispatch EXCEPT !.status = "pending", !.key = TRUE, !.due = TRUE,
                                 !.base = slots[s].seen]]
      BY <1>16, <2>2 DEF Create, Fresh
    <3>3. /\ dispatches'[d].status = "pending"
          /\ \A e \in Ids : e # d => dispatches'[e] = dispatches[e]
      BY <3>2 DEF NoDispatch
    <3> QED BY <3>1, <3>3
  <2> QED BY <1>16, <2>1, <2>2 DEF Create
<1>17. ASSUME NEW s \in Slots, Raced(s) PROVE KeysFit'
  <2>1. CASE dispatches' = dispatches
    BY <2>1
  <2>2. CASE \E d \in Ids :
               dispatches' = [dispatches EXCEPT
                 ![d].due = dispatches[d].due \/ dispatches[d].status = "pending"]
    BY <2>2
  <2> QED BY <1>17, <2>1, <2>2 DEF Raced, KeyHolders
<1>18. ASSUME NEW s \in Slots, Queue(s) PROVE KeysFit'
  BY <1>18 DEF Queue, queues, counters
<1>19. ASSUME NEW s \in Slots, Claim(s) PROVE KeysFit'
  <2>1. CASE dispatches' = dispatches
    BY <2>1
  <2>2. CASE dispatches' = [dispatches EXCEPT ![slots[s].own].status = "running",
                                              ![slots[s].own].stale = FALSE]
    BY <2>2
  <2> QED BY <1>19, <2>1, <2>2 DEF Claim
<1>20. ASSUME NEW s \in Slots, CheckRun(s) PROVE KeysFit'
  BY <1>20 DEF CheckRun, queues, counters
<1>21. ASSUME NEW s \in Slots, Observe(s) PROVE KeysFit'
  BY <1>21 DEF Observe, queues, counters
<1>22. ASSUME NEW s \in Slots, Respond(s) PROVE KeysFit'
  BY <1>22 DEF Respond, queues, counters
<1>23. ASSUME NEW s \in Slots, MarkWaiting(s) PROVE KeysFit'
  BY <1>23 DEF MarkWaiting
<1>24. ASSUME NEW s \in Slots, CheckVersion(s) PROVE KeysFit'
  BY <1>24 DEF CheckVersion, queues, counters
<1>25. ASSUME NEW s \in Slots, Recommend(s) PROVE KeysFit'
  BY <1>25 DEF Recommend, Complete
<1>26. ASSUME NEW s \in Slots, Supersede(s) PROVE KeysFit'
  BY <1>26 DEF Supersede
<1>27. ASSUME NEW s \in Slots, MarkCompleted(s) PROVE KeysFit'
  BY <1>27 DEF MarkCompleted, Complete
<1>28. ASSUME NEW s \in Slots, MarkRetry(s) PROVE KeysFit'
  BY <1>28 DEF MarkRetry
<1>29. ASSUME NEW s \in Slots, QueueRetry(s) PROVE KeysFit'
  BY <1>29 DEF QueueRetry, queues, counters
<1>30. ASSUME NEW s \in Slots, StatementFails(s) PROVE KeysFit'
  BY <1>30 DEF StatementFails, queues, counters
<1>31. ASSUME NEW s \in Slots, ProcessDies(s) PROVE KeysFit'
  BY <1>31 DEF ProcessDies, queues, counters
<1>32. CASE UNCHANGED vars
  BY <1>32 DEF vars
<1> QED BY <1>1, <1>2, <1>3, <1>4, <1>5, <1>6, <1>7, <1>8, <1>9, <1>10, <1>11, <1>12,
      <1>13, <1>14, <1>15, <1>16, <1>17, <1>18, <1>19, <1>20, <1>21, <1>22, <1>23,
      <1>24, <1>25, <1>26, <1>27, <1>28, <1>29, <1>30, <1>31, <1>32 DEF Next,
      Deliver, Time, Enqueue, Analyse

LEMMA MessageFits ==
  ASSUME DispatchesInv, [Next]_vars,
         \A m \in messages' : m \in messages \/ (m.dispatch \in Ids /\ Present(m.dispatch))
  PROVE  MessagesFit'
BY RowStays, Typing DEF DispatchesInv, MessagesFit, Present, Kept

LEMMA MessagesStay ==
  ASSUME DispatchesInv, [Next]_vars
  PROVE  MessagesFit'
<1> USE DEF DispatchesInv
<1>1. CASE Command
  BY <1>1, MessageFits DEF Command, queues
<1>2. CASE CloseAdvice
  BY <1>2, MessageFits DEF CloseAdvice, queues
<1>3. CASE RequestAnalysis
  BY <1>3, MessageFits DEF RequestAnalysis, queues
<1>4. ASSUME NEW v \in events, HandleEvent(v) PROVE MessagesFit'
  BY <1>4, MessageFits DEF HandleEvent, queues
<1>5. ASSUME NEW v \in schedules, HandleSchedule(v) PROVE MessagesFit'
  BY <1>5, MessageFits DEF HandleSchedule, queues
<1>6. ASSUME NEW m \in messages, HandleDispatch(m) PROVE MessagesFit'
  <2>1. messages' \subseteq messages
    BY <1>6 DEF HandleDispatch, Published
  <2> QED BY <2>1, MessageFits
<1>7. ASSUME NEW d \in Ids, LockExpires(d) PROVE MessagesFit'
  BY <1>7, MessageFits DEF LockExpires, queues
<1>8. ASSUME NEW d \in Ids, BackoffEnds(d) PROVE MessagesFit'
  BY <1>8, MessageFits DEF BackoffEnds, queues
<1>9. ASSUME NEW d \in Ids, Recover(d) PROVE MessagesFit'
  <2>1. Present(d) /\ messages' \subseteq messages \cup {Message(d, FALSE)}
    BY <1>9 DEF Recover, Present
  <2> QED BY <2>1, MessageFits DEF Message
<1>10. ASSUME NEW d \in Ids, AnswerQuestion(d) PROVE MessagesFit'
  <2>1. Present(d) /\ messages' \subseteq messages \cup {Message(d, FALSE)}
    BY <1>10 DEF AnswerQuestion, Present
  <2> QED BY <2>1, MessageFits DEF Message
<1>11. ASSUME NEW d \in Ids, LockOutlived(d) PROVE MessagesFit'
  BY <1>11, MessageFits DEF LockOutlived, queues
<1>12. ASSUME NEW s \in Slots, Expire(s) PROVE MessagesFit'
  BY <1>12, MessageFits DEF Expire, queues
<1>13. ASSUME NEW s \in Slots, Schedule(s) PROVE MessagesFit'
  BY <1>13, MessageFits DEF Schedule, queues
<1>14. ASSUME NEW s \in Slots, Lookup(s) PROVE MessagesFit'
  BY <1>14, MessageFits DEF Lookup, queues
<1>15. ASSUME NEW s \in Slots, Merge(s) PROVE MessagesFit'
  BY <1>15, MessageFits DEF Merge, queues
<1>16. ASSUME NEW s \in Slots, Create(s) PROVE MessagesFit'
  BY <1>16, MessageFits DEF Create, queues
<1>17. ASSUME NEW s \in Slots, Raced(s) PROVE MessagesFit'
  BY <1>17, MessageFits DEF Raced, queues
<1>18. ASSUME NEW s \in Slots, Queue(s) PROVE MessagesFit'
  <2>1. Present(slots[s].target) /\ slots[s].target \in Ids
    BY <1>18 DEF Queue, At, Sourced
  <2> QED BY <1>18, <2>1, MessageFits DEF Queue, Message
<1>19. ASSUME NEW s \in Slots, Claim(s) PROVE MessagesFit'
  BY <1>19, MessageFits DEF Claim, queues
<1>20. ASSUME NEW s \in Slots, CheckRun(s) PROVE MessagesFit'
  BY <1>20, MessageFits DEF CheckRun, queues
<1>21. ASSUME NEW s \in Slots, Observe(s) PROVE MessagesFit'
  BY <1>21, MessageFits DEF Observe, queues
<1>22. ASSUME NEW s \in Slots, Respond(s) PROVE MessagesFit'
  BY <1>22, MessageFits DEF Respond, queues
<1>23. ASSUME NEW s \in Slots, MarkWaiting(s) PROVE MessagesFit'
  BY <1>23, MessageFits DEF MarkWaiting, queues
<1>24. ASSUME NEW s \in Slots, CheckVersion(s) PROVE MessagesFit'
  BY <1>24, MessageFits DEF CheckVersion, queues
<1>25. ASSUME NEW s \in Slots, Recommend(s) PROVE MessagesFit'
  BY <1>25, MessageFits DEF Recommend, queues
<1>26. ASSUME NEW s \in Slots, Supersede(s) PROVE MessagesFit'
  BY <1>26, MessageFits DEF Supersede, queues
<1>27. ASSUME NEW s \in Slots, MarkCompleted(s) PROVE MessagesFit'
  BY <1>27, MessageFits DEF MarkCompleted, queues
<1>28. ASSUME NEW s \in Slots, MarkRetry(s) PROVE MessagesFit'
  BY <1>28, MessageFits DEF MarkRetry, queues
<1>29. ASSUME NEW s \in Slots, QueueRetry(s) PROVE MessagesFit'
  <2>1. Present(slots[s].own) /\ slots[s].own \in Ids
    BY <1>29 DEF QueueRetry, At, Sourced, Enqueuing
  <2> QED BY <1>29, <2>1, MessageFits DEF QueueRetry, Message
<1>30. ASSUME NEW s \in Slots, StatementFails(s) PROVE MessagesFit'
  BY <1>30, MessageFits DEF StatementFails, queues
<1>31. ASSUME NEW s \in Slots, ProcessDies(s) PROVE MessagesFit'
  BY <1>31, MessageFits DEF ProcessDies, queues
<1>32. CASE UNCHANGED vars
  BY <1>32, MessageFits DEF vars
<1> QED BY <1>1, <1>2, <1>3, <1>4, <1>5, <1>6, <1>7, <1>8, <1>9, <1>10, <1>11, <1>12,
      <1>13, <1>14, <1>15, <1>16, <1>17, <1>18, <1>19, <1>20, <1>21, <1>22, <1>23,
      <1>24, <1>25, <1>26, <1>27, <1>28, <1>29, <1>30, <1>31, <1>32 DEF Next,
      Deliver, Time, Enqueue, Analyse

-----------------------------------------------------------------------------
(* DispatchesInv is inductive                                               *)

LEMMA DispatchesInvInit ==
  ASSUME Init
  PROVE  DispatchesInv
<1> USE DispatchAssumption, IdleTyped DEF Init, Ids
<1>1. TypeOK
  BY Typing
<1>2. \A s \in Slots : Sourced(s)
  BY DEF Sourced, Enqueuing
<1>3. Alone
  BY DEF Alone
<1>4. KeysFit /\ MessagesFit
  BY DEF KeysFit, MessagesFit, NoDispatch
<1> QED BY <1>1, <1>2, <1>3, <1>4 DEF DispatchesInv

LEMMA DispatchesInvStep ==
  ASSUME DispatchesInv, [Next]_vars
  PROVE  DispatchesInv'
<1>1. TypeOK'
  BY TypesStay DEF DispatchesInv
<1> QED BY <1>1, SourcesStay, AloneStays, KeysStay, MessagesStay DEF DispatchesInv

LEMMA DispatchesInvariance == Spec => []DispatchesInv
BY DispatchesInvInit, DispatchesInvStep, PTL DEF Spec

LEMMA OneKeyHolder ==
  ASSUME KeysFit
  PROVE  Cardinality(KeyHolders) <= 1
<1>1. CASE KeyHolders = {}
  BY <1>1, FS_EmptySet
<1>2. CASE KeyHolders # {}
  <2>1. PICK d \in KeyHolders : TRUE
    BY <1>2
  <2>2. KeyHolders = {d}
    BY <2>1 DEF KeysFit, KeyHolders
  <2> QED BY <2>2, FS_Singleton
<1> QED BY <1>1, <1>2

\* The advisor's key is held by one dispatch at most, and by an active one:
\* the insert of enqueueDispatch gives it, the two endings take it back with the
\* status, and a retry, an answer or a recovery never touches it.
THEOREM KeyHasOneActiveHolder == Spec => []DispatchInv
<1>1. DispatchesInv => DispatchInv
  BY OneKeyHolder DEF DispatchesInv, DispatchInv, KeyIsHeldByOneActive, KeysFit, KeyHolders
<1> QED BY <1>1, DispatchesInvariance, PTL

-----------------------------------------------------------------------------
(* A dispatch has one workflow, unless a workflow outlives its lock         *)

Holding == {"claimed", "observe", "model", "ask", "propose", "recommend", "supersede",
            "complete", "retry"}

\* From the claim to the last statement about the dispatch, the enqueuing behind
\* a superseded recommendation and its failure included.
Bound(s) == slots[s].source = "workflow" /\ slots[s].pc \in Holding \cup Enqueuing

WorkFits(s) ==
  Bound(s) =>
    /\ dispatches[slots[s].own].status \in {"running", "completed"}
    /\ dispatches[slots[s].own].status = "running" => ~ dispatches[slots[s].own].stale
    /\ slots[s].pc \in Holding \ {"retry"} => dispatches[slots[s].own].status = "running"
    /\ slots[s].pc \in Enqueuing => dispatches[slots[s].own].status = "completed"

BoundAlone ==
  \A s, t \in Slots : (Bound(s) /\ Bound(t) /\ slots[s].own = slots[t].own) => s = t

WorkInv == DispatchesInv /\ (\A s \in Slots : WorkFits(s)) /\ BoundAlone

RowKept(d) ==
  dispatches'[d].status = dispatches[d].status /\ dispatches'[d].stale = dispatches[d].stale

\* What others do leaves the row of a workflow as it is.
LEMMA BoundRowStays ==
  ASSUME "stall" \notin Faults, WorkInv, [Next]_vars,
         NEW x \in Slots, Bound(x), slots'[x] = slots[x]
  PROVE  RowKept(slots[x].own)
<1>0. WorkFits(x) /\ Sourced(x) /\ slots[x].own \in Ids
  BY DEF WorkInv, DispatchesInv, Sourced, Bound
<1> USE <1>0, Typing DEF RowKept, WorkInv, DispatchesInv
<1>1. CASE Command
  BY <1>1 DEF Command, queues, counters
<1>2. CASE CloseAdvice
  BY <1>2 DEF CloseAdvice, queues, counters
<1>3. CASE RequestAnalysis
  BY <1>3 DEF RequestAnalysis, queues, counters
<1>4. ASSUME NEW v \in events, HandleEvent(v) PROVE RowKept(slots[x].own)
  BY <1>4 DEF HandleEvent, queues, counters
<1>5. ASSUME NEW v \in schedules, HandleSchedule(v) PROVE RowKept(slots[x].own)
  BY <1>5 DEF HandleSchedule, queues, counters
<1>6. ASSUME NEW m \in messages, HandleDispatch(m) PROVE RowKept(slots[x].own)
  BY <1>6 DEF HandleDispatch, queues, counters
<1>7. ASSUME NEW d \in Ids, LockExpires(d) PROVE RowKept(slots[x].own)
  <2>1. d # slots[x].own
    <3> SUFFICES ASSUME d = slots[x].own PROVE FALSE
      OBVIOUS
    <3>1. dispatches[d].status = "running" /\ ~ Holds(x, d)
      BY <1>7 DEF LockExpires
    <3>2. slots[x].pc \in Holding
      BY <3>1 DEF Bound, WorkFits, Enqueuing, Holding
    <3> QED BY <3>1, <3>2 DEF Holds, Holding
  <2> QED BY <1>7, <2>1 DEF LockExpires
<1>8. ASSUME NEW d \in Ids, BackoffEnds(d) PROVE RowKept(slots[x].own)
  <2>1. d # slots[x].own
    BY <1>8 DEF BackoffEnds, WorkFits
  <2> QED BY <1>8, <2>1 DEF BackoffEnds
<1>9. ASSUME NEW d \in Ids, Recover(d) PROVE RowKept(slots[x].own)
  <2>1. d # slots[x].own
    BY <1>9 DEF Recover, WorkFits
  <2> QED BY <1>9, <2>1 DEF Recover
<1>10. ASSUME NEW d \in Ids, AnswerQuestion(d) PROVE RowKept(slots[x].own)
  <2>1. d # slots[x].own
    BY <1>10 DEF AnswerQuestion, WorkFits
  <2> QED BY <1>10, <2>1 DEF AnswerQuestion
<1>11. ASSUME NEW d \in Ids, LockOutlived(d) PROVE RowKept(slots[x].own)
  BY <1>11 DEF LockOutlived, Fault
<1>12. ASSUME NEW s \in Slots, Expire(s) PROVE RowKept(slots[x].own)
  BY <1>12 DEF Expire, queues, counters
<1>13. ASSUME NEW s \in Slots, Schedule(s) PROVE RowKept(slots[x].own)
  BY <1>13 DEF Schedule, queues, counters
<1>14. ASSUME NEW s \in Slots, Lookup(s) PROVE RowKept(slots[x].own)
  <2>1. dispatches' = dispatches
    BY <1>14 DEF Lookup
  <2> QED BY <2>1
<1>15. ASSUME NEW s \in Slots, Merge(s) PROVE RowKept(slots[x].own)
  BY <1>15 DEF Merge
<1>16. ASSUME NEW s \in Slots, Create(s) PROVE RowKept(slots[x].own)
  <2>1. CASE dispatches' = dispatches
    BY <2>1
  <2>2. CASE \E d \in Fresh : \E new : dispatches' = [dispatches EXCEPT ![d] = new]
    <3>1. slots[x].own \notin Fresh
      BY DEF Sourced, Present, Fresh, Bound
    <3> QED BY <2>2, <3>1 DEF Fresh
  <2> QED BY <1>16, <2>1, <2>2 DEF Create
<1>17. ASSUME NEW s \in Slots, Raced(s) PROVE RowKept(slots[x].own)
  <2>1. CASE dispatches' = dispatches
    BY <2>1
  <2>2. CASE \E d \in Ids :
               dispatches' = [dispatches EXCEPT
                 ![d].due = dispatches[d].due \/ dispatches[d].status = "pending"]
    BY <2>2
  <2> QED BY <1>17, <2>1, <2>2 DEF Raced, KeyHolders
<1>18. ASSUME NEW s \in Slots, Queue(s) PROVE RowKept(slots[x].own)
  BY <1>18 DEF Queue, queues, counters
<1>19. ASSUME NEW s \in Slots, Claim(s) PROVE RowKept(slots[x].own)
  <2>1. CASE dispatches' = dispatches
    BY <2>1
  <2>2. CASE /\ dispatches[slots[s].own].status = "pending"
             /\ dispatches' = [dispatches EXCEPT ![slots[s].own].status = "running",
                                                 ![slots[s].own].stale = FALSE]
    BY <2>2 DEF WorkFits
  <2> QED BY <1>19, <2>1, <2>2 DEF Claim, Claimable
<1>20. ASSUME NEW s \in Slots, CheckRun(s) PROVE RowKept(slots[x].own)
  BY <1>20 DEF CheckRun, queues, counters
<1>21. ASSUME NEW s \in Slots, Observe(s) PROVE RowKept(slots[x].own)
  BY <1>21 DEF Observe, queues, counters
<1>22. ASSUME NEW s \in Slots, Respond(s) PROVE RowKept(slots[x].own)
  BY <1>22 DEF Respond, queues, counters
<1>23. ASSUME NEW s \in Slots, MarkWaiting(s) PROVE RowKept(slots[x].own)
  <2>1. s # x /\ Bound(s)
    BY <1>23 DEF MarkWaiting, End, Idle, At, Bound, Sourced, Enqueuing, Holding
  <2>2. slots[s].own # slots[x].own
    BY <2>1 DEF BoundAlone
  <2> QED BY <1>23, <2>2 DEF MarkWaiting
<1>24. ASSUME NEW s \in Slots, CheckVersion(s) PROVE RowKept(slots[x].own)
  BY <1>24 DEF CheckVersion, queues, counters
<1>25. ASSUME NEW s \in Slots, Recommend(s) PROVE RowKept(slots[x].own)
  <2>1. s # x /\ Bound(s)
    BY <1>25 DEF Recommend, End, Idle, At, Bound, Sourced, Enqueuing, Holding
  <2>2. slots[s].own # slots[x].own
    BY <2>1 DEF BoundAlone
  <2> QED BY <1>25, <2>2 DEF Recommend, Complete
<1>26. ASSUME NEW s \in Slots, Supersede(s) PROVE RowKept(slots[x].own)
  <2>1. slots[s].pc = "supersede" /\ slots'[s].pc = "lookup"
    BY <1>26 DEF Supersede, At, Goto
  <2>2. Bound(s)
    BY <2>1 DEF Bound, Sourced, Enqueuing, Holding
  <2>3. slots[s].own # slots[x].own
    BY <2>1, <2>2 DEF BoundAlone
  <2> QED BY <1>26, <2>3 DEF Supersede
<1>27. ASSUME NEW s \in Slots, MarkCompleted(s) PROVE RowKept(slots[x].own)
  <2>1. s # x /\ Bound(s)
    BY <1>27 DEF MarkCompleted, End, Idle, At, Bound, Sourced, Enqueuing, Holding
  <2>2. slots[s].own # slots[x].own
    BY <2>1 DEF BoundAlone
  <2> QED BY <1>27, <2>2 DEF MarkCompleted, Complete
<1>28. ASSUME NEW s \in Slots, MarkRetry(s) PROVE RowKept(slots[x].own)
  <2>1. slots[s].pc = "retry" /\ slots'[s].pc = "requeue"
    BY <1>28 DEF MarkRetry, At, Goto
  <2>2. Bound(s)
    BY <2>1 DEF Bound, Sourced, Enqueuing, Holding
  <2>3. slots[s].own # slots[x].own
    BY <2>1, <2>2 DEF BoundAlone
  <2> QED BY <1>28, <2>3 DEF MarkRetry
<1>29. ASSUME NEW s \in Slots, QueueRetry(s) PROVE RowKept(slots[x].own)
  BY <1>29 DEF QueueRetry, queues, counters
<1>30. ASSUME NEW s \in Slots, StatementFails(s) PROVE RowKept(slots[x].own)
  BY <1>30 DEF StatementFails, queues, counters
<1>31. ASSUME NEW s \in Slots, ProcessDies(s) PROVE RowKept(slots[x].own)
  BY <1>31 DEF ProcessDies, queues, counters
<1>32. CASE UNCHANGED vars
  BY <1>32 DEF vars
<1> QED BY <1>1, <1>2, <1>3, <1>4, <1>5, <1>6, <1>7, <1>8, <1>9, <1>10, <1>11, <1>12,
      <1>13, <1>14, <1>15, <1>16, <1>17, <1>18, <1>19, <1>20, <1>21, <1>22, <1>23,
      <1>24, <1>25, <1>26, <1>27, <1>28, <1>29, <1>30, <1>31, <1>32 DEF Next,
      Deliver, Time, Enqueue, Analyse

Continues(x) ==
  /\ WorkFits(x)'
  /\ Bound(x)' =>
       \/ Bound(x) /\ slots'[x].own = slots[x].own
       \/ /\ dispatches[slots'[x].own].status = "pending"
          /\ \A y \in Slots : y # x => slots'[y] = slots[y]

LEMMA Unbound ==
  ASSUME NEW x, ~ Bound(x)'
  PROVE  Continues(x)
BY DEF Continues, WorkFits

LEMMA Untouched ==
  ASSUME "stall" \notin Faults, WorkInv, [Next]_vars, NEW x \in Slots, slots'[x] = slots[x]
  PROVE  Continues(x)
<1>1. CASE Bound(x)
  <2>1. RowKept(slots[x].own) /\ WorkFits(x)
    BY <1>1, BoundRowStays DEF WorkInv
  <2> QED BY <1>1, <2>1 DEF Continues, WorkFits, Bound, RowKept
<1>2. CASE ~ Bound(x)
  BY <1>2, Unbound DEF Bound
<1> QED BY <1>1, <1>2

\* A workflow that goes on with its row as it is.
LEMMA Moved ==
  ASSUME WorkInv, NEW x \in Slots,
         slots'[x].source = slots[x].source, slots'[x].own = slots[x].own,
         RowKept(slots[x].own),
         \/ slots'[x].pc = "retry" /\ slots[x].pc \in Holding \cup Enqueuing
         \/ slots'[x].pc \in Holding /\ slots[x].pc \in Holding \ {"retry"}
         \/ slots'[x].pc \in Enqueuing /\ slots[x].pc \in Enqueuing
         \/ slots'[x].pc \notin Holding \cup Enqueuing
  PROVE  Continues(x)
<1>1. CASE Bound(x)'
  <2>1. Bound(x) /\ WorkFits(x)
    BY <1>1 DEF Bound, WorkInv
  <2> QED BY <1>1, <2>1 DEF Continues, WorkFits, RowKept, Bound, Holding, Enqueuing
<1>2. CASE ~ Bound(x)'
  BY <1>2, Unbound
<1> QED BY <1>1, <1>2

LEMMA ThrownContinues ==
  ASSUME "stall" \notin Faults, WorkInv, [Next]_vars, dispatches' = dispatches,
         NEW s \in Slots, Thrown(s),
         slots[s].source = "workflow" => slots[s].pc \in Holding \cup Enqueuing,
         NEW x \in Slots
  PROVE  Continues(x)
<1>1. slots \in [Slots -> Slot]
  BY Typing DEF WorkInv, DispatchesInv
<1>2. CASE x # s
  BY <1>1, <1>2, Untouched DEF Thrown, Goto, End
<1>3. CASE x = s /\ slots[s].source = "workflow"
  <2>1. slots' = [slots EXCEPT ![s].pc = "retry"]
    BY <1>3 DEF Thrown, Goto
  <2> QED BY <1>1, <1>3, <2>1, Moved DEF RowKept
<1>4. CASE x = s /\ slots[s].source # "workflow"
  BY <1>1, <1>4, Unbound, IdleTyped DEF Thrown, End, Bound
<1> QED BY <1>2, <1>3, <1>4

LEMMA WorkContinues ==
  ASSUME "stall" \notin Faults, WorkInv, [Next]_vars, NEW x \in Slots
  PROVE  Continues(x)
<1> USE Typing DEF WorkInv, DispatchesInv
<1>1. CASE Command
  BY <1>1, Untouched DEF Command
<1>2. CASE CloseAdvice
  BY <1>2, Untouched DEF CloseAdvice
<1>3. CASE RequestAnalysis
  <2>1. PICK s \in Slots :
          slots' = [slots EXCEPT ![s] =
            [Idle EXCEPT !.pc = "lookup", !.source = "user", !.force = TRUE]]
    BY <1>3, EnterTakes DEF RequestAnalysis
  <2> QED BY <2>1, Untouched, Unbound, IdleTyped DEF Bound, Holding, Enqueuing
<1>4. ASSUME NEW v \in events, HandleEvent(v) PROVE Continues(x)
  <2>1. PICK s \in Slots :
          slots' = [slots EXCEPT ![s] =
            [Idle EXCEPT !.pc = "expire", !.source = "event", !.trigger = v, !.force = TRUE]]
    BY <1>4, EnterTakes DEF HandleEvent
  <2> QED BY <2>1, Untouched, Unbound, IdleTyped DEF Bound, Holding, Enqueuing
<1>5. ASSUME NEW v \in schedules, HandleSchedule(v) PROVE Continues(x)
  <2>1. CASE ~ run.running
    BY <1>5, <2>1, Untouched DEF HandleSchedule
  <2>2. CASE run.running
    <3>1. PICK s \in Slots :
            slots' = [slots EXCEPT ![s] =
                        [Idle EXCEPT !.pc = "lookup", !.source = "schedule", !.trigger = v]]
      BY <1>5, <2>2, EnterTakes DEF HandleSchedule
    <3> QED BY <3>1, Untouched, Unbound, IdleTyped DEF Bound
  <2> QED BY <2>1, <2>2
<1>6. ASSUME NEW m \in messages, HandleDispatch(m) PROVE Continues(x)
  <2>1. PICK s \in Slots :
          slots' = [slots EXCEPT ![s] =
            [Idle EXCEPT !.pc = "begin", !.source = "workflow", !.own = m.dispatch]]
    BY <1>6, EnterTakes DEF HandleDispatch
  <2> QED BY <2>1, Untouched, Unbound, IdleTyped DEF Bound, Holding, Enqueuing
<1>7. ASSUME NEW d \in Ids, LockExpires(d) PROVE Continues(x)
  BY <1>7, Untouched DEF LockExpires
<1>8. ASSUME NEW d \in Ids, BackoffEnds(d) PROVE Continues(x)
  BY <1>8, Untouched DEF BackoffEnds
<1>9. ASSUME NEW d \in Ids, Recover(d) PROVE Continues(x)
  BY <1>9, Untouched DEF Recover
<1>10. ASSUME NEW d \in Ids, AnswerQuestion(d) PROVE Continues(x)
  BY <1>10, Untouched DEF AnswerQuestion
<1>11. ASSUME NEW d \in Ids, LockOutlived(d) PROVE Continues(x)
  BY <1>11, Untouched DEF LockOutlived
<1>12. ASSUME NEW s \in Slots, Expire(s) PROVE Continues(x)
  <2>1. slots[s].source = "event"
    BY <1>12 DEF Expire, At, Sourced
  <2> QED BY <1>12, <2>1, Untouched, Unbound DEF Expire, Goto, Bound
<1>13. ASSUME NEW s \in Slots, Schedule(s) PROVE Continues(x)
  BY <1>13, Untouched, Unbound, IdleTyped DEF Schedule, End, Bound
<1>14. ASSUME NEW s \in Slots, Lookup(s) PROVE Continues(x)
  <2>1. slots[s].pc = "lookup" /\ dispatches' = dispatches
    BY <1>14 DEF Lookup, At
  <2>2. CASE Finish(s)
    <3>1. CASE slots' = [slots EXCEPT ![s] = Idle]
      BY <3>1, Untouched, Unbound, IdleTyped DEF Bound
    <3>2. CASE slots' = [slots EXCEPT ![s].pc = "schedule"] /\ slots[s].source = "event"
      BY <3>2, Untouched, Unbound DEF Bound
    <3> QED BY <2>2, <3>1, <3>2, FinishGoes
  <2>3. CASE \E d, p : slots' = [slots EXCEPT ![s].pc = "merge", ![s].target = d, ![s].pending = p]
    BY <2>1, <2>3, Untouched, Moved DEF RowKept, Enqueuing
  <2>4. CASE \E v, old : slots' = [slots EXCEPT ![s].pc = "create", ![s].seen = v, ![s].old = old]
    BY <2>1, <2>4, Untouched, Moved DEF RowKept, Enqueuing
  <2> QED BY <1>14, <2>2, <2>3, <2>4 DEF Lookup
<1>15. ASSUME NEW s \in Slots, Merge(s) PROVE Continues(x)
  <2>1. slots[s].pc = "merge" /\ slots' = [slots EXCEPT ![s].pc = "queue"]
    BY <1>15 DEF Merge, At, Goto
  <2>2. slots[s].own \in Ids => RowKept(slots[s].own)
    BY <1>15 DEF Merge, RowKept
  <2>3. CASE slots[s].source = "workflow"
    BY <2>1, <2>2, <2>3, Untouched, Moved DEF Enqueuing, Sourced
  <2>4. CASE slots[s].source # "workflow"
    BY <2>1, <2>4, Untouched, Unbound DEF Bound
  <2> QED BY <2>3, <2>4
<1>16. ASSUME NEW s \in Slots, Create(s) PROVE Continues(x)
  <2>1. slots[s].pc = "create"
    BY <1>16 DEF Create, At
  <2>2. slots[s].source = "workflow" => RowKept(slots[s].own)
    <3>1. slots[s].source = "workflow" => slots[s].own \in Ids \ Fresh
      BY DEF Sourced, Present, Fresh
    <3>2. \/ dispatches' = dispatches
          \/ \E d \in Fresh : \E new : dispatches' = [dispatches EXCEPT ![d] = new]
      BY <1>16 DEF Create
    <3> QED BY <3>1, <3>2 DEF RowKept
  <2>3. CASE slots[s].source # "workflow"
    <3>1. CASE slots' = [slots EXCEPT ![s].pc = "raced", ![s].old = {}]
      BY <2>3, <3>1, Untouched, Unbound DEF Bound
    <3>2. CASE \E d : slots' = [slots EXCEPT ![s].pc = "queue", ![s].target = d, ![s].old = {}]
      BY <2>3, <3>2, Untouched, Unbound DEF Bound
    <3> QED BY <1>16, <3>1, <3>2 DEF Create
  <2>4. CASE slots[s].source = "workflow" /\ slots' = [slots EXCEPT ![s].pc = "raced", ![s].old = {}]
    BY <2>1, <2>2, <2>4, Untouched, Moved DEF Enqueuing
  <2>5. CASE /\ slots[s].source = "workflow"
             /\ \E d : slots' = [slots EXCEPT ![s].pc = "queue", ![s].target = d, ![s].old = {}]
    BY <2>1, <2>2, <2>5, Untouched, Moved DEF Enqueuing
  <2> QED BY <1>16, <2>3, <2>4, <2>5 DEF Create
<1>17. ASSUME NEW s \in Slots, Raced(s) PROVE Continues(x)
  <2>1. slots[s].pc = "raced"
    BY <1>17 DEF Raced, At
  <2>2. CASE Thrown(s) /\ dispatches' = dispatches
    BY <2>1, <2>2, ThrownContinues DEF Enqueuing
  <2>3. CASE /\ \E d : slots' = [slots EXCEPT ![s].pc = "queue", ![s].target = d]
             /\ \E d \in Ids : dispatches' = [dispatches EXCEPT
                  ![d].due = dispatches[d].due \/ dispatches[d].status = "pending"]
    <3>1. \A e \in Ids : RowKept(e)
      BY <2>3 DEF RowKept
    <3>2. CASE slots[s].source = "workflow"
      BY <2>1, <2>3, <3>1, <3>2, Untouched, Moved DEF Enqueuing, Sourced
    <3>3. CASE slots[s].source # "workflow"
      BY <2>3, <3>3, Untouched, Unbound DEF Bound
    <3> QED BY <3>2, <3>3
  <2> QED BY <1>17, <2>2, <2>3 DEF Raced, KeyHolders
<1>18. ASSUME NEW s \in Slots, Queue(s) PROVE Continues(x)
  <2>1. CASE slots' = [slots EXCEPT ![s] = Idle]
    BY <2>1, Untouched, Unbound, IdleTyped DEF Bound
  <2>2. CASE slots' = [slots EXCEPT ![s].pc = "schedule"] /\ slots[s].source = "event"
    BY <2>2, Untouched, Unbound DEF Bound
  <2> QED BY <1>18, <2>1, <2>2, FinishGoes DEF Queue
<1>19. ASSUME NEW s \in Slots, Claim(s) PROVE Continues(x)
  <2>1. CASE slots' = [slots EXCEPT ![s] = Idle]
    BY <2>1, Untouched, Unbound, IdleTyped DEF Bound
  <2>2. CASE /\ dispatches[slots[s].own].status = "pending"
             /\ \E b : slots' = [slots EXCEPT ![s].pc = "claimed", ![s].answer = b]
             /\ dispatches' = [dispatches EXCEPT ![slots[s].own].status = "running",
                                                 ![slots[s].own].stale = FALSE]
    <3>1. CASE x # s
      BY <2>2, <3>1, Untouched
    <3>2. CASE x = s
      <4>1. slots[s].own \in Ids
        BY <1>19 DEF Claim, At, Sourced, Enqueuing
      <4> QED BY <2>2, <3>2, <4>1 DEF Continues, WorkFits, Holding, Enqueuing
    <3> QED BY <3>1, <3>2
  <2> QED BY <1>19, <2>1, <2>2 DEF Claim, Claimable, End
<1>20. ASSUME NEW s \in Slots, CheckRun(s) PROVE Continues(x)
  <2>1. /\ slots[s].pc \in Holding \ {"retry"} /\ dispatches' = dispatches
        /\ \E pc \in Holding : slots' = [slots EXCEPT ![s].pc = pc]
    BY <1>20 DEF CheckRun, At, Goto, Holding
  <2> QED BY <2>1, Untouched, Moved DEF RowKept
<1>21. ASSUME NEW s \in Slots, Observe(s) PROVE Continues(x)
  <2>1. slots[s].pc = "observe" /\ dispatches' = dispatches
    BY <1>21 DEF Observe, At
  <2>2. CASE \E pc \in {"complete", "retry"} : slots' = [slots EXCEPT ![s].pc = pc]
    BY <2>1, <2>2, Untouched, Moved DEF RowKept, Holding
  <2>3. CASE \E v, d : slots' = [slots EXCEPT ![s].pc = "model", ![s].seen = v, ![s].of = d]
    BY <2>1, <2>3, Untouched, Moved DEF RowKept, Holding
  <2> QED BY <1>21, <2>2, <2>3 DEF Observe, Goto
<1>22. ASSUME NEW s \in Slots, Respond(s) PROVE Continues(x)
  <2>1. /\ slots[s].pc \in Holding \ {"retry"} /\ dispatches' = dispatches
        /\ \E pc \in Holding : slots' = [slots EXCEPT ![s].pc = pc]
    BY <1>22 DEF Respond, At, Goto, Holding
  <2> QED BY <2>1, Untouched, Moved DEF RowKept
<1>23. ASSUME NEW s \in Slots, MarkWaiting(s) PROVE Continues(x)
  BY <1>23, Untouched, Unbound, IdleTyped DEF MarkWaiting, End, Bound
<1>24. ASSUME NEW s \in Slots, CheckVersion(s) PROVE Continues(x)
  <2>1. /\ slots[s].pc \in Holding \ {"retry"} /\ dispatches' = dispatches
        /\ \E pc \in Holding : slots' = [slots EXCEPT ![s].pc = pc]
    BY <1>24 DEF CheckVersion, At, Goto, Holding
  <2> QED BY <2>1, Untouched, Moved DEF RowKept
<1>25. ASSUME NEW s \in Slots, Recommend(s) PROVE Continues(x)
  BY <1>25, Untouched, Unbound, IdleTyped DEF Recommend, End, Bound
<1>26. ASSUME NEW s \in Slots, Supersede(s) PROVE Continues(x)
  <2>1. CASE x # s
    BY <1>26, <2>1, Untouched DEF Supersede
  <2>2. CASE x = s
    <3>1. slots[s].own \in Ids /\ slots[s].source = "workflow" /\ slots[s].pc = "supersede"
      BY <1>26 DEF Supersede, At, Sourced, Enqueuing
    <3>2. /\ slots'[s].own = slots[s].own /\ slots'[s].pc = "lookup"
          /\ dispatches'[slots[s].own].status = "completed"
      BY <1>26, <3>1 DEF Supersede
    <3>3. Bound(s)
      BY <3>1 DEF Bound, Holding
    <3> QED BY <2>2, <3>1, <3>2, <3>3 DEF Continues, WorkFits, Holding, Enqueuing
  <2> QED BY <2>1, <2>2
<1>27. ASSUME NEW s \in Slots, MarkCompleted(s) PROVE Continues(x)
  BY <1>27, Untouched, Unbound, IdleTyped DEF MarkCompleted, End, Bound
<1>28. ASSUME NEW s \in Slots, MarkRetry(s) PROVE Continues(x)
  <2>1. slots' = [slots EXCEPT ![s].pc = "requeue"]
    BY <1>28 DEF MarkRetry, Goto
  <2> QED BY <2>1, Untouched, Unbound DEF Bound, Holding, Enqueuing
<1>29. ASSUME NEW s \in Slots, QueueRetry(s) PROVE Continues(x)
  BY <1>29, Untouched, Unbound, IdleTyped DEF QueueRetry, End, Bound
<1>30. ASSUME NEW s \in Slots, StatementFails(s) PROVE Continues(x)
  <2>1. slots[s].source = "workflow" => slots[s].pc \in Holding \cup Enqueuing
    BY <1>30 DEF StatementFails, Holding, Enqueuing, Sourced
  <2> QED BY <1>30, <2>1, ThrownContinues DEF StatementFails
<1>31. ASSUME NEW s \in Slots, ProcessDies(s) PROVE Continues(x)
  BY <1>31, Untouched, Unbound, IdleTyped DEF ProcessDies, End, Bound
<1>32. CASE UNCHANGED vars
  BY <1>32, Untouched DEF vars
<1> QED BY <1>1, <1>2, <1>3, <1>4, <1>5, <1>6, <1>7, <1>8, <1>9, <1>10, <1>11, <1>12,
      <1>13, <1>14, <1>15, <1>16, <1>17, <1>18, <1>19, <1>20, <1>21, <1>22, <1>23,
      <1>24, <1>25, <1>26, <1>27, <1>28, <1>29, <1>30, <1>31, <1>32 DEF Next,
      Deliver, Time, Enqueue, Analyse

\* A start that is repeated finds the dispatch claimed, for as long as the one
\* that claimed it has anything to say of it: it is pending again only through
\* an answer, a retry or a recovery, and the recovery waits for the lock.
THEOREM ADispatchHasOneWorkflow ==
  ASSUME "stall" \notin Faults
  PROVE  Spec => []OneWorkflowPerDispatch
<1>1. Init => WorkInv
  <2> SUFFICES ASSUME Init PROVE WorkInv
    OBVIOUS
  <2>1. \A s \in Slots : ~ Bound(s)
    BY IdleTyped DEF Init, Bound
  <2> QED BY <2>1, DispatchesInvInit DEF WorkInv, WorkFits, BoundAlone
<1>2. WorkInv /\ [Next]_vars => WorkInv'
  <2> SUFFICES ASSUME WorkInv, [Next]_vars PROVE WorkInv'
    OBVIOUS
  <2>1. \A x \in Slots : Continues(x)
    BY WorkContinues
  <2>2. BoundAlone'
    <3> SUFFICES ASSUME NEW s \in Slots, NEW t \in Slots, Bound(s)', Bound(t)',
                        slots'[s].own = slots'[t].own
                 PROVE  s = t
      BY DEF BoundAlone
    <3>1. CASE /\ Bound(s) /\ slots'[s].own = slots[s].own
               /\ Bound(t) /\ slots'[t].own = slots[t].own
      BY <3>1 DEF WorkInv, BoundAlone
    <3>2. CASE /\ dispatches[slots'[s].own].status = "pending"
               /\ \A y \in Slots : y # s => slots'[y] = slots[y]
      BY <3>2 DEF WorkInv, WorkFits, Bound
    <3>3. CASE /\ dispatches[slots'[t].own].status = "pending"
               /\ \A y \in Slots : y # t => slots'[y] = slots[y]
      BY <3>3 DEF WorkInv, WorkFits, Bound
    <3> QED BY <2>1, <3>1, <3>2, <3>3 DEF Continues
  <2>3. DispatchesInv'
    BY DispatchesInvStep DEF WorkInv
  <2> QED BY <2>1, <2>2, <2>3 DEF WorkInv, Continues
<1>3. WorkInv => OneWorkflowPerDispatch
  BY DEF WorkInv, DispatchesInv, OneWorkflowPerDispatch, BoundAlone, Bound, Holds, Holding,
         Sourced, Enqueuing
<1> QED BY <1>1, <1>2, <1>3, PTL DEF Spec

-----------------------------------------------------------------------------
(***************************************************************************)
(* That a recommendation rests on the facts it is offered for, for any     *)
(* number of processes, dispatches, versions, questions and faults of      *)
(* every kind, workflows that outlive their lock included.                 *)
(*                                                                         *)
(* The facts at hand, of a process or of the session, are no older than    *)
(* the dispatch that observed them; a dispatch keeps its version; and the  *)
(* version is compared behind the last observation.  Facts that come from  *)
(* the session of another dispatch may be older; none are later.           *)
(***************************************************************************)

\* Facts of version n, which d observed: known by now, and no older than the
\* facts that d was made for.
Founded(n, d, now, rows) ==
  /\ n <= now
  /\ d \in Ids => rows[d].status # "absent" /\ rows[d].base <= n

SlotFounded(s) ==
  /\ Founded(slots[s].seen, slots[s].of, run.version, dispatches)
  /\ slots[s].pc = "recommend" => slots[s].seen <= dispatches[slots[s].own].base

FactsInv ==
  /\ DispatchesInv
  /\ \A d \in Ids : dispatches[d].base <= run.version
  /\ \A s \in Slots : SlotFounded(s)
  /\ Founded(session.seen, session.of, run.version, dispatches)
  /\ AdviceRestsOnItsFacts

LEMMA VersionGrows ==
  ASSUME TypeOK, [Next]_vars
  PROVE  run'.version \in Nat /\ run.version <= run'.version
<1> USE DispatchAssumption, Typing
<1>1. CASE Command
  BY <1>1 DEF Command
<1>2. CASE CloseAdvice
  BY <1>2 DEF CloseAdvice, queues, counters
<1>3. CASE RequestAnalysis
  BY <1>3 DEF RequestAnalysis, queues, counters
<1>4. ASSUME NEW v \in events, HandleEvent(v)
      PROVE run'.version \in Nat /\ run.version <= run'.version
  BY <1>4 DEF HandleEvent, queues, counters
<1>5. ASSUME NEW v \in schedules, HandleSchedule(v)
      PROVE run'.version \in Nat /\ run.version <= run'.version
  BY <1>5 DEF HandleSchedule, queues, counters
<1>6. ASSUME NEW m \in messages, HandleDispatch(m)
      PROVE run'.version \in Nat /\ run.version <= run'.version
  BY <1>6 DEF HandleDispatch, queues, counters
<1>7. ASSUME NEW d \in Ids, LockExpires(d)
      PROVE run'.version \in Nat /\ run.version <= run'.version
  BY <1>7 DEF LockExpires, queues, counters
<1>8. ASSUME NEW d \in Ids, BackoffEnds(d)
      PROVE run'.version \in Nat /\ run.version <= run'.version
  BY <1>8 DEF BackoffEnds, queues, counters
<1>9. ASSUME NEW d \in Ids, Recover(d) PROVE run'.version \in Nat /\ run.version <= run'.version
  BY <1>9 DEF Recover, queues, counters
<1>10. ASSUME NEW d \in Ids, AnswerQuestion(d)
       PROVE run'.version \in Nat /\ run.version <= run'.version
  BY <1>10 DEF AnswerQuestion, queues, counters
<1>11. ASSUME NEW d \in Ids, LockOutlived(d)
       PROVE run'.version \in Nat /\ run.version <= run'.version
  BY <1>11 DEF LockOutlived, queues, counters
<1>12. ASSUME NEW s \in Slots, Expire(s)
       PROVE run'.version \in Nat /\ run.version <= run'.version
  BY <1>12 DEF Expire, queues, counters
<1>13. ASSUME NEW s \in Slots, Schedule(s)
       PROVE run'.version \in Nat /\ run.version <= run'.version
  BY <1>13 DEF Schedule, queues, counters
<1>14. ASSUME NEW s \in Slots, Lookup(s)
       PROVE run'.version \in Nat /\ run.version <= run'.version
  <2>1. run' = run
    BY <1>14 DEF Lookup
  <2> QED BY <2>1
<1>15. ASSUME NEW s \in Slots, Merge(s)
       PROVE run'.version \in Nat /\ run.version <= run'.version
  BY <1>15 DEF Merge, queues, counters
<1>16. ASSUME NEW s \in Slots, Create(s)
       PROVE run'.version \in Nat /\ run.version <= run'.version
  <2>1. run' = run
    BY <1>16 DEF Create
  <2> QED BY <2>1
<1>17. ASSUME NEW s \in Slots, Raced(s)
       PROVE run'.version \in Nat /\ run.version <= run'.version
  BY <1>17 DEF Raced, queues, counters
<1>18. ASSUME NEW s \in Slots, Queue(s)
       PROVE run'.version \in Nat /\ run.version <= run'.version
  BY <1>18 DEF Queue, queues, counters
<1>19. ASSUME NEW s \in Slots, Claim(s)
       PROVE run'.version \in Nat /\ run.version <= run'.version
  BY <1>19 DEF Claim, queues, counters
<1>20. ASSUME NEW s \in Slots, CheckRun(s)
       PROVE run'.version \in Nat /\ run.version <= run'.version
  BY <1>20 DEF CheckRun, queues, counters
<1>21. ASSUME NEW s \in Slots, Observe(s)
       PROVE run'.version \in Nat /\ run.version <= run'.version
  BY <1>21 DEF Observe, queues, counters
<1>22. ASSUME NEW s \in Slots, Respond(s)
       PROVE run'.version \in Nat /\ run.version <= run'.version
  BY <1>22 DEF Respond, queues, counters
<1>23. ASSUME NEW s \in Slots, MarkWaiting(s)
       PROVE run'.version \in Nat /\ run.version <= run'.version
  BY <1>23 DEF MarkWaiting, queues, counters
<1>24. ASSUME NEW s \in Slots, CheckVersion(s)
       PROVE run'.version \in Nat /\ run.version <= run'.version
  BY <1>24 DEF CheckVersion, queues, counters
<1>25. ASSUME NEW s \in Slots, Recommend(s)
       PROVE run'.version \in Nat /\ run.version <= run'.version
  BY <1>25 DEF Recommend, queues, counters
<1>26. ASSUME NEW s \in Slots, Supersede(s)
       PROVE run'.version \in Nat /\ run.version <= run'.version
  BY <1>26 DEF Supersede, queues, counters
<1>27. ASSUME NEW s \in Slots, MarkCompleted(s)
       PROVE run'.version \in Nat /\ run.version <= run'.version
  BY <1>27 DEF MarkCompleted, queues, counters
<1>28. ASSUME NEW s \in Slots, MarkRetry(s)
       PROVE run'.version \in Nat /\ run.version <= run'.version
  BY <1>28 DEF MarkRetry, queues, counters
<1>29. ASSUME NEW s \in Slots, QueueRetry(s)
       PROVE run'.version \in Nat /\ run.version <= run'.version
  BY <1>29 DEF QueueRetry, queues, counters
<1>30. ASSUME NEW s \in Slots, StatementFails(s)
       PROVE run'.version \in Nat /\ run.version <= run'.version
  BY <1>30 DEF StatementFails, queues, counters
<1>31. ASSUME NEW s \in Slots, ProcessDies(s)
       PROVE run'.version \in Nat /\ run.version <= run'.version
  BY <1>31 DEF ProcessDies, queues, counters
<1>32. CASE UNCHANGED vars
  BY <1>32 DEF vars
<1> QED BY <1>1, <1>2, <1>3, <1>4, <1>5, <1>6, <1>7, <1>8, <1>9, <1>10, <1>11, <1>12,
      <1>13, <1>14, <1>15, <1>16, <1>17, <1>18, <1>19, <1>20, <1>21, <1>22, <1>23,
      <1>24, <1>25, <1>26, <1>27, <1>28, <1>29, <1>30, <1>31, <1>32 DEF Next,
      Deliver, Time, Enqueue, Analyse

LEMMA FoundedStays ==
  ASSUME TypeOK, [Next]_vars, NEW n \in Nat, NEW d, Founded(n, d, run.version, dispatches)
  PROVE  Founded(n, d, run'.version, dispatches')
<1>1. n <= run'.version
  BY VersionGrows, Typing, DispatchAssumption DEF Founded
<1>2. CASE d \in Ids
  BY <1>1, <1>2, RowStays DEF Founded, Present, Kept
<1> QED BY <1>1, <1>2 DEF Founded

\* A process with the same facts, none, or those of the run as it is.
LEMMA SlotKeepsFacts ==
  ASSUME FactsInv, [Next]_vars, NEW x \in Slots,
         slots'[x].seen = slots[x].seen, slots'[x].of = slots[x].of,
         slots'[x].pc = "recommend" => slots'[x].own = slots[x].own /\ slots[x].pc = "recommend"
  PROVE  SlotFounded(x)'
<1>1. TypeOK /\ Sourced(x) /\ SlotFounded(x)
  BY DEF FactsInv, DispatchesInv
<1>2. slots[x].seen \in Nat
  BY <1>1, Typing, DispatchAssumption DEF Slot
<1>3. Founded(slots[x].seen, slots[x].of, run'.version, dispatches')
  BY <1>1, <1>2, FoundedStays DEF SlotFounded
<1>4. slots[x].pc = "recommend"
        => slots[x].seen <= dispatches'[slots[x].own].base
  BY <1>1, RowStays DEF SlotFounded, Sourced, Enqueuing, Kept
<1> QED BY <1>3, <1>4 DEF SlotFounded

LEMMA SlotWithoutFacts ==
  ASSUME FactsInv, [Next]_vars, NEW x \in Slots,
         slots'[x].seen = 0, slots'[x].of = 0, slots'[x].pc # "recommend"
  PROVE  SlotFounded(x)'
<1>1. 0 <= run'.version /\ 0 \notin Ids
  BY VersionGrows, Typing DEF FactsInv, DispatchesInv, Ids
<1> QED BY <1>1 DEF SlotFounded, Founded

LEMMA IdleFacts == Idle.seen = 0 /\ Idle.of = 0 /\ Idle.pc = "free"
BY DEF Idle

LEMMA ThrownFacts ==
  ASSUME FactsInv, [Next]_vars, NEW s \in Slots, Thrown(s), NEW x \in Slots
  PROVE  SlotFounded(x)'
<1>1. slots \in [Slots -> Slot]
  BY Typing DEF FactsInv, DispatchesInv
<1>2. CASE slots' = [slots EXCEPT ![s].pc = "retry"]
  BY <1>1, <1>2, SlotKeepsFacts
<1>3. CASE slots' = [slots EXCEPT ![s] = Idle]
  BY <1>1, <1>3, IdleFacts, SlotKeepsFacts, SlotWithoutFacts
<1> QED BY <1>2, <1>3 DEF Thrown, Goto, End

LEMMA FinishFacts ==
  ASSUME FactsInv, [Next]_vars, NEW s \in Slots, Finish(s), NEW x \in Slots
  PROVE  SlotFounded(x)'
<1>1. slots \in [Slots -> Slot]
  BY Typing DEF FactsInv, DispatchesInv
<1>2. CASE slots' = [slots EXCEPT ![s].pc = "schedule"]
  BY <1>1, <1>2, SlotKeepsFacts
<1>3. CASE slots' = [slots EXCEPT ![s] = Idle]
  BY <1>1, <1>3, IdleFacts, SlotKeepsFacts, SlotWithoutFacts
<1> QED BY <1>2, <1>3 DEF Finish, Goto, End

LEMMA SlotsFounded ==
  ASSUME FactsInv, [Next]_vars, NEW x \in Slots
  PROVE  SlotFounded(x)'
<1> USE DispatchAssumption, Typing DEF FactsInv, DispatchesInv
<1>1. CASE Command
  BY <1>1, SlotKeepsFacts DEF Command
<1>2. CASE CloseAdvice
  BY <1>2, SlotKeepsFacts DEF CloseAdvice
<1>3. CASE RequestAnalysis
  <2>1. PICK s \in Slots :
          slots' = [slots EXCEPT ![s] =
            [Idle EXCEPT !.pc = "lookup", !.source = "user", !.force = TRUE]]
    BY <1>3, EnterTakes DEF RequestAnalysis
  <2> QED BY <2>1, IdleFacts, SlotKeepsFacts, SlotWithoutFacts
<1>4. ASSUME NEW v \in events, HandleEvent(v) PROVE SlotFounded(x)'
  <2>1. PICK s \in Slots :
          slots' = [slots EXCEPT ![s] =
            [Idle EXCEPT !.pc = "expire", !.source = "event", !.trigger = v, !.force = TRUE]]
    BY <1>4, EnterTakes DEF HandleEvent
  <2> QED BY <2>1, IdleFacts, SlotKeepsFacts, SlotWithoutFacts
<1>5. ASSUME NEW v \in schedules, HandleSchedule(v) PROVE SlotFounded(x)'
  <2>1. CASE ~ run.running
    BY <1>5, <2>1, SlotKeepsFacts DEF HandleSchedule
  <2>2. CASE run.running
    <3>1. PICK s \in Slots :
            slots' = [slots EXCEPT ![s] =
                        [Idle EXCEPT !.pc = "lookup", !.source = "schedule", !.trigger = v]]
      BY <1>5, <2>2, EnterTakes DEF HandleSchedule
    <3> QED BY <3>1, IdleFacts, SlotKeepsFacts, SlotWithoutFacts
  <2> QED BY <2>1, <2>2
<1>6. ASSUME NEW m \in messages, HandleDispatch(m) PROVE SlotFounded(x)'
  <2>1. PICK s \in Slots :
          slots' = [slots EXCEPT ![s] =
            [Idle EXCEPT !.pc = "begin", !.source = "workflow", !.own = m.dispatch]]
    BY <1>6, EnterTakes DEF HandleDispatch
  <2> QED BY <2>1, IdleFacts, SlotKeepsFacts, SlotWithoutFacts
<1>7. ASSUME NEW d \in Ids, LockExpires(d) PROVE SlotFounded(x)'
  BY <1>7, SlotKeepsFacts DEF LockExpires
<1>8. ASSUME NEW d \in Ids, BackoffEnds(d) PROVE SlotFounded(x)'
  BY <1>8, SlotKeepsFacts DEF BackoffEnds
<1>9. ASSUME NEW d \in Ids, Recover(d) PROVE SlotFounded(x)'
  BY <1>9, SlotKeepsFacts DEF Recover
<1>10. ASSUME NEW d \in Ids, AnswerQuestion(d) PROVE SlotFounded(x)'
  BY <1>10, SlotKeepsFacts DEF AnswerQuestion
<1>11. ASSUME NEW d \in Ids, LockOutlived(d) PROVE SlotFounded(x)'
  BY <1>11, SlotKeepsFacts DEF LockOutlived
<1>12. ASSUME NEW s \in Slots, Expire(s) PROVE SlotFounded(x)'
  BY <1>12, SlotKeepsFacts DEF Expire, Goto
<1>13. ASSUME NEW s \in Slots, Schedule(s) PROVE SlotFounded(x)'
  BY <1>13, IdleFacts, SlotKeepsFacts, SlotWithoutFacts DEF Schedule, End
<1>14. ASSUME NEW s \in Slots, Lookup(s) PROVE SlotFounded(x)'
  <2>1. CASE Finish(s)
    BY <2>1, FinishFacts
  <2>2. CASE \E d, p : slots' = [slots EXCEPT ![s].pc = "merge", ![s].target = d, ![s].pending = p]
    BY <2>2, SlotKeepsFacts
  <2>3. CASE \E old : slots' = [slots EXCEPT ![s].pc = "create", ![s].seen = run.version,
                                             ![s].old = old]
    <3>1. CASE x # s
      BY <2>3, <3>1, SlotKeepsFacts
    <3>2. CASE x = s
      <4>1. /\ slots'[s].seen = run.version /\ slots'[s].of = slots[s].of
            /\ slots'[s].pc = "create"
        BY <2>3
      <4>2. Founded(run.version, slots[s].of, run.version, dispatches)
        BY DEF SlotFounded, Founded, Row, Slot
      <4>3. Founded(run.version, slots[s].of, run'.version, dispatches')
        BY <4>2, FoundedStays
      <4> QED BY <3>2, <4>1, <4>3 DEF SlotFounded
    <3> QED BY <3>1, <3>2
  <2> QED BY <1>14, <2>1, <2>2, <2>3 DEF Lookup
<1>15. ASSUME NEW s \in Slots, Merge(s) PROVE SlotFounded(x)'
  BY <1>15, SlotKeepsFacts DEF Merge, Goto
<1>16. ASSUME NEW s \in Slots, Create(s) PROVE SlotFounded(x)'
  <2>1. CASE slots' = [slots EXCEPT ![s].pc = "raced", ![s].old = {}]
    BY <2>1, SlotKeepsFacts
  <2>2. CASE \E d : slots' = [slots EXCEPT ![s].pc = "queue", ![s].target = d, ![s].old = {}]
    BY <2>2, SlotKeepsFacts
  <2> QED BY <1>16, <2>1, <2>2 DEF Create
<1>17. ASSUME NEW s \in Slots, Raced(s) PROVE SlotFounded(x)'
  <2>1. CASE Thrown(s)
    BY <2>1, ThrownFacts
  <2>2. CASE \E d : slots' = [slots EXCEPT ![s].pc = "queue", ![s].target = d]
    BY <2>2, SlotKeepsFacts
  <2> QED BY <1>17, <2>1, <2>2 DEF Raced
<1>18. ASSUME NEW s \in Slots, Queue(s) PROVE SlotFounded(x)'
  BY <1>18, FinishFacts DEF Queue
<1>19. ASSUME NEW s \in Slots, Claim(s) PROVE SlotFounded(x)'
  <2>1. CASE slots' = [slots EXCEPT ![s] = Idle]
    BY <2>1, IdleFacts, SlotKeepsFacts, SlotWithoutFacts
  <2>2. CASE \E b : slots' = [slots EXCEPT ![s].pc = "claimed", ![s].answer = b]
    BY <2>2, SlotKeepsFacts
  <2> QED BY <1>19, <2>1, <2>2 DEF Claim, End
<1>20. ASSUME NEW s \in Slots, CheckRun(s) PROVE SlotFounded(x)'
  BY <1>20, SlotKeepsFacts DEF CheckRun, Goto
<1>21. ASSUME NEW s \in Slots, Observe(s) PROVE SlotFounded(x)'
  <2>1. CASE \E pc \in {"complete", "retry"} : slots' = [slots EXCEPT ![s].pc = pc]
    BY <2>1, SlotKeepsFacts
  <2>2. CASE slots' = [slots EXCEPT ![s].pc = "model",
               ![s].seen = IF slots[s].answer THEN session.seen ELSE run.version,
               ![s].of = IF slots[s].answer THEN session.of ELSE slots[s].own]
    <3>1. CASE x # s
      BY <2>2, <3>1, SlotKeepsFacts
    <3>2. CASE x = s
      <4>1. slots[s].own \in Ids /\ Present(slots[s].own)
        BY <1>21 DEF Observe, At, Sourced, Enqueuing
      <4>2. Founded(run.version, slots[s].own, run.version, dispatches)
        BY <4>1 DEF Founded, Present
      <4>3. /\ Founded(run.version, slots[s].own, run'.version, dispatches')
            /\ Founded(session.seen, session.of, run'.version, dispatches')
        BY <4>2, FoundedStays DEF Session
      <4>4. /\ slots'[s].pc = "model"
            /\ \/ slots'[s].seen = run.version /\ slots'[s].of = slots[s].own
               \/ slots'[s].seen = session.seen /\ slots'[s].of = session.of
        BY <2>2
      <4> QED BY <3>2, <4>3, <4>4 DEF SlotFounded
    <3> QED BY <3>1, <3>2
  <2> QED BY <1>21, <2>1, <2>2 DEF Observe, Goto
<1>22. ASSUME NEW s \in Slots, Respond(s) PROVE SlotFounded(x)'
  <2>1. \E pc \in {"propose", "complete", "ask", "retry"} : slots' = [slots EXCEPT ![s].pc = pc]
    BY <1>22 DEF Respond, Goto
  <2> QED BY <2>1, SlotKeepsFacts
<1>23. ASSUME NEW s \in Slots, MarkWaiting(s) PROVE SlotFounded(x)'
  BY <1>23, IdleFacts, SlotKeepsFacts, SlotWithoutFacts DEF MarkWaiting, End
<1>24. ASSUME NEW s \in Slots, CheckVersion(s) PROVE SlotFounded(x)'
  <2>1. CASE slots' = [slots EXCEPT ![s].pc = "supersede"]
    BY <2>1, SlotKeepsFacts
  <2>2. CASE Current(slots[s].own) /\ slots' = [slots EXCEPT ![s].pc = "recommend"]
    <3>1. CASE x # s
      BY <2>2, <3>1, SlotKeepsFacts
    <3>2. CASE x = s
      <4>1. dispatches' = dispatches /\ run' = run
        BY <1>24 DEF CheckVersion
      <4>2. /\ slots'[s].seen = slots[s].seen /\ slots'[s].of = slots[s].of
            /\ slots'[s].own = slots[s].own
        BY <2>2
      <4> QED BY <2>2, <3>2, <4>1, <4>2 DEF Current, SlotFounded, Founded
    <3> QED BY <3>1, <3>2
  <2>3. \/ slots' = [slots EXCEPT ![s].pc = "supersede"]
        \/ Current(slots[s].own) /\ slots' = [slots EXCEPT ![s].pc = "recommend"]
    BY <1>24 DEF CheckVersion, Goto
  <2> QED BY <2>1, <2>2, <2>3
<1>25. ASSUME NEW s \in Slots, Recommend(s) PROVE SlotFounded(x)'
  BY <1>25, IdleFacts, SlotKeepsFacts, SlotWithoutFacts DEF Recommend, End
<1>26. ASSUME NEW s \in Slots, Supersede(s) PROVE SlotFounded(x)'
  BY <1>26, SlotKeepsFacts DEF Supersede
<1>27. ASSUME NEW s \in Slots, MarkCompleted(s) PROVE SlotFounded(x)'
  BY <1>27, IdleFacts, SlotKeepsFacts, SlotWithoutFacts DEF MarkCompleted, End
<1>28. ASSUME NEW s \in Slots, MarkRetry(s) PROVE SlotFounded(x)'
  BY <1>28, SlotKeepsFacts DEF MarkRetry, Goto
<1>29. ASSUME NEW s \in Slots, QueueRetry(s) PROVE SlotFounded(x)'
  BY <1>29, IdleFacts, SlotKeepsFacts, SlotWithoutFacts DEF QueueRetry, End
<1>30. ASSUME NEW s \in Slots, StatementFails(s) PROVE SlotFounded(x)'
  BY <1>30, ThrownFacts DEF StatementFails
<1>31. ASSUME NEW s \in Slots, ProcessDies(s) PROVE SlotFounded(x)'
  BY <1>31, IdleFacts, SlotKeepsFacts, SlotWithoutFacts DEF ProcessDies, End
<1>32. CASE UNCHANGED vars
  BY <1>32, SlotKeepsFacts DEF vars
<1> QED BY <1>1, <1>2, <1>3, <1>4, <1>5, <1>6, <1>7, <1>8, <1>9, <1>10, <1>11, <1>12,
      <1>13, <1>14, <1>15, <1>16, <1>17, <1>18, <1>19, <1>20, <1>21, <1>22, <1>23,
      <1>24, <1>25, <1>26, <1>27, <1>28, <1>29, <1>30, <1>31, <1>32 DEF Next,
      Deliver, Time, Enqueue, Analyse

\* No dispatch is made for a version that is still to come.
LEMMA BasesStay ==
  ASSUME FactsInv, [Next]_vars, NEW x \in Ids
  PROVE  dispatches'[x].base <= run.version
<1> USE DispatchAssumption, Typing DEF FactsInv, DispatchesInv, Row
<1>1. CASE Command
  BY <1>1 DEF Command, queues, counters
<1>2. CASE CloseAdvice
  BY <1>2 DEF CloseAdvice, queues, counters
<1>3. CASE RequestAnalysis
  BY <1>3 DEF RequestAnalysis, queues, counters
<1>4. ASSUME NEW v \in events, HandleEvent(v) PROVE dispatches'[x].base <= run.version
  BY <1>4 DEF HandleEvent, queues, counters
<1>5. ASSUME NEW v \in schedules, HandleSchedule(v) PROVE dispatches'[x].base <= run.version
  BY <1>5 DEF HandleSchedule, queues, counters
<1>6. ASSUME NEW m \in messages, HandleDispatch(m) PROVE dispatches'[x].base <= run.version
  BY <1>6 DEF HandleDispatch, queues, counters
<1>7. ASSUME NEW d \in Ids, LockExpires(d) PROVE dispatches'[x].base <= run.version
  BY <1>7 DEF LockExpires
<1>8. ASSUME NEW d \in Ids, BackoffEnds(d) PROVE dispatches'[x].base <= run.version
  BY <1>8 DEF BackoffEnds
<1>9. ASSUME NEW d \in Ids, Recover(d) PROVE dispatches'[x].base <= run.version
  BY <1>9 DEF Recover
<1>10. ASSUME NEW d \in Ids, AnswerQuestion(d) PROVE dispatches'[x].base <= run.version
  BY <1>10 DEF AnswerQuestion
<1>11. ASSUME NEW d \in Ids, LockOutlived(d) PROVE dispatches'[x].base <= run.version
  BY <1>11 DEF LockOutlived
<1>12. ASSUME NEW s \in Slots, Expire(s) PROVE dispatches'[x].base <= run.version
  BY <1>12 DEF Expire, queues, counters
<1>13. ASSUME NEW s \in Slots, Schedule(s) PROVE dispatches'[x].base <= run.version
  BY <1>13 DEF Schedule, queues, counters
<1>14. ASSUME NEW s \in Slots, Lookup(s) PROVE dispatches'[x].base <= run.version
  BY <1>14 DEF Lookup, queues, counters
<1>15. ASSUME NEW s \in Slots, Merge(s) PROVE dispatches'[x].base <= run.version
  BY <1>15 DEF Merge
<1>16. ASSUME NEW s \in Slots, Create(s) PROVE dispatches'[x].base <= run.version
  <2>1. CASE dispatches' = dispatches
    BY <2>1
  <2>2. CASE \E d \in Ids :
               dispatches' = [dispatches EXCEPT ![d] =
                 [NoDispatch EXCEPT !.status = "pending", !.key = TRUE, !.due = TRUE,
                                    !.base = slots[s].seen]]
    <3>1. slots[s].seen <= run.version
      BY DEF SlotFounded, Founded
    <3>2. PICK d \in Ids :
               dispatches' = [dispatches EXCEPT ![d] =
                 [NoDispatch EXCEPT !.status = "pending", !.key = TRUE, !.due = TRUE,
                                    !.base = slots[s].seen]]
      BY <2>2
    <3>3. /\ dispatches'[d].base = slots[s].seen
          /\ \A e \in Ids : e # d => dispatches'[e] = dispatches[e]
      BY <3>2 DEF NoDispatch
    <3> QED BY <3>1, <3>3
  <2> QED BY <1>16, <2>1, <2>2 DEF Create, Fresh
<1>17. ASSUME NEW s \in Slots, Raced(s) PROVE dispatches'[x].base <= run.version
  <2>1. CASE dispatches' = dispatches
    BY <2>1
  <2>2. CASE \E d \in Ids :
               dispatches' = [dispatches EXCEPT
                 ![d].due = dispatches[d].due \/ dispatches[d].status = "pending"]
    BY <2>2
  <2> QED BY <1>17, <2>1, <2>2 DEF Raced, KeyHolders
<1>18. ASSUME NEW s \in Slots, Queue(s) PROVE dispatches'[x].base <= run.version
  BY <1>18 DEF Queue, queues, counters
<1>19. ASSUME NEW s \in Slots, Claim(s) PROVE dispatches'[x].base <= run.version
  <2>1. CASE dispatches' = dispatches
    BY <2>1
  <2>2. CASE dispatches' = [dispatches EXCEPT ![slots[s].own].status = "running",
                                              ![slots[s].own].stale = FALSE]
    BY <2>2
  <2> QED BY <1>19, <2>1, <2>2 DEF Claim
<1>20. ASSUME NEW s \in Slots, CheckRun(s) PROVE dispatches'[x].base <= run.version
  BY <1>20 DEF CheckRun, queues, counters
<1>21. ASSUME NEW s \in Slots, Observe(s) PROVE dispatches'[x].base <= run.version
  BY <1>21 DEF Observe, queues, counters
<1>22. ASSUME NEW s \in Slots, Respond(s) PROVE dispatches'[x].base <= run.version
  BY <1>22 DEF Respond, queues, counters
<1>23. ASSUME NEW s \in Slots, MarkWaiting(s) PROVE dispatches'[x].base <= run.version
  BY <1>23 DEF MarkWaiting
<1>24. ASSUME NEW s \in Slots, CheckVersion(s) PROVE dispatches'[x].base <= run.version
  BY <1>24 DEF CheckVersion, queues, counters
<1>25. ASSUME NEW s \in Slots, Recommend(s) PROVE dispatches'[x].base <= run.version
  BY <1>25 DEF Recommend, Complete
<1>26. ASSUME NEW s \in Slots, Supersede(s) PROVE dispatches'[x].base <= run.version
  BY <1>26 DEF Supersede
<1>27. ASSUME NEW s \in Slots, MarkCompleted(s) PROVE dispatches'[x].base <= run.version
  BY <1>27 DEF MarkCompleted, Complete
<1>28. ASSUME NEW s \in Slots, MarkRetry(s) PROVE dispatches'[x].base <= run.version
  BY <1>28 DEF MarkRetry
<1>29. ASSUME NEW s \in Slots, QueueRetry(s) PROVE dispatches'[x].base <= run.version
  BY <1>29 DEF QueueRetry, queues, counters
<1>30. ASSUME NEW s \in Slots, StatementFails(s) PROVE dispatches'[x].base <= run.version
  BY <1>30 DEF StatementFails, queues, counters
<1>31. ASSUME NEW s \in Slots, ProcessDies(s) PROVE dispatches'[x].base <= run.version
  BY <1>31 DEF ProcessDies, queues, counters
<1>32. CASE UNCHANGED vars
  BY <1>32 DEF vars
<1> QED BY <1>1, <1>2, <1>3, <1>4, <1>5, <1>6, <1>7, <1>8, <1>9, <1>10, <1>11, <1>12,
      <1>13, <1>14, <1>15, <1>16, <1>17, <1>18, <1>19, <1>20, <1>21, <1>22, <1>23,
      <1>24, <1>25, <1>26, <1>27, <1>28, <1>29, <1>30, <1>31, <1>32 DEF Next,
      Deliver, Time, Enqueue, Analyse

LEMMA SessionStays ==
  ASSUME FactsInv, [Next]_vars, session' = session
  PROVE  Founded(session'.seen, session'.of, run'.version, dispatches')
BY FoundedStays, Typing, DispatchAssumption DEF FactsInv, DispatchesInv, Session

LEMMA SessionFounded ==
  ASSUME FactsInv, [Next]_vars
  PROVE  Founded(session'.seen, session'.of, run'.version, dispatches')
<1>1. CASE Command
  BY <1>1, SessionStays DEF Command, queues
<1>2. CASE CloseAdvice
  BY <1>2, SessionStays DEF CloseAdvice, queues
<1>3. CASE RequestAnalysis
  BY <1>3, SessionStays DEF RequestAnalysis, queues
<1>4. ASSUME NEW v \in events, HandleEvent(v)
      PROVE Founded(session'.seen, session'.of, run'.version, dispatches')
  BY <1>4, SessionStays DEF HandleEvent, queues
<1>5. ASSUME NEW v \in schedules, HandleSchedule(v)
      PROVE Founded(session'.seen, session'.of, run'.version, dispatches')
  BY <1>5, SessionStays DEF HandleSchedule, queues
<1>6. ASSUME NEW m \in messages, HandleDispatch(m)
      PROVE Founded(session'.seen, session'.of, run'.version, dispatches')
  BY <1>6, SessionStays DEF HandleDispatch, queues
<1>7. ASSUME NEW d \in Ids, LockExpires(d)
      PROVE Founded(session'.seen, session'.of, run'.version, dispatches')
  BY <1>7, SessionStays DEF LockExpires, queues
<1>8. ASSUME NEW d \in Ids, BackoffEnds(d)
      PROVE Founded(session'.seen, session'.of, run'.version, dispatches')
  BY <1>8, SessionStays DEF BackoffEnds, queues
<1>9. ASSUME NEW d \in Ids, Recover(d)
      PROVE Founded(session'.seen, session'.of, run'.version, dispatches')
  BY <1>9, SessionStays DEF Recover, queues
<1>10. ASSUME NEW d \in Ids, AnswerQuestion(d)
       PROVE Founded(session'.seen, session'.of, run'.version, dispatches')
  BY <1>10, SessionStays DEF AnswerQuestion, queues
<1>11. ASSUME NEW d \in Ids, LockOutlived(d)
       PROVE Founded(session'.seen, session'.of, run'.version, dispatches')
  BY <1>11, SessionStays DEF LockOutlived, queues
<1>12. ASSUME NEW s \in Slots, Expire(s)
       PROVE Founded(session'.seen, session'.of, run'.version, dispatches')
  BY <1>12, SessionStays DEF Expire, queues
<1>13. ASSUME NEW s \in Slots, Schedule(s)
       PROVE Founded(session'.seen, session'.of, run'.version, dispatches')
  BY <1>13, SessionStays DEF Schedule, queues
<1>14. ASSUME NEW s \in Slots, Lookup(s)
       PROVE Founded(session'.seen, session'.of, run'.version, dispatches')
  <2>1. session' = session
    BY <1>14 DEF Lookup
  <2> QED BY <2>1, SessionStays
<1>15. ASSUME NEW s \in Slots, Merge(s)
       PROVE Founded(session'.seen, session'.of, run'.version, dispatches')
  BY <1>15, SessionStays DEF Merge, queues
<1>16. ASSUME NEW s \in Slots, Create(s)
       PROVE Founded(session'.seen, session'.of, run'.version, dispatches')
  <2>1. session' = session
    BY <1>16 DEF Create
  <2> QED BY <2>1, SessionStays
<1>17. ASSUME NEW s \in Slots, Raced(s)
       PROVE Founded(session'.seen, session'.of, run'.version, dispatches')
  BY <1>17, SessionStays DEF Raced, queues
<1>18. ASSUME NEW s \in Slots, Queue(s)
       PROVE Founded(session'.seen, session'.of, run'.version, dispatches')
  BY <1>18, SessionStays DEF Queue, queues
<1>19. ASSUME NEW s \in Slots, Claim(s)
       PROVE Founded(session'.seen, session'.of, run'.version, dispatches')
  BY <1>19, SessionStays DEF Claim, queues
<1>20. ASSUME NEW s \in Slots, CheckRun(s)
       PROVE Founded(session'.seen, session'.of, run'.version, dispatches')
  BY <1>20, SessionStays DEF CheckRun, queues
<1>21. ASSUME NEW s \in Slots, Observe(s)
       PROVE Founded(session'.seen, session'.of, run'.version, dispatches')
  BY <1>21, SessionStays DEF Observe, queues
<1>22. ASSUME NEW s \in Slots, Respond(s)
       PROVE Founded(session'.seen, session'.of, run'.version, dispatches')
  <2>1. \/ session' = session
        \/ session' = NoSession
        \/ session' = [waiting |-> TRUE, seen |-> slots[s].seen, of |-> slots[s].of]
    BY <1>22 DEF Respond
  <2>2. CASE session' = [waiting |-> TRUE, seen |-> slots[s].seen, of |-> slots[s].of]
    <3>1. session'.seen = slots[s].seen /\ session'.of = slots[s].of
      BY <2>2
    <3>2. slots[s].seen \in Nat /\ Founded(slots[s].seen, slots[s].of, run.version, dispatches)
      BY Typing, DispatchAssumption DEF FactsInv, DispatchesInv, SlotFounded, Slot
    <3> QED BY <3>1, <3>2, FoundedStays DEF FactsInv, DispatchesInv
  <2>3. CASE session' = NoSession
    <3>1. session'.seen = 0 /\ session'.of = 0
      BY <2>3 DEF NoSession
    <3>2. 0 \notin Ids /\ 0 <= run'.version
      BY VersionGrows, Typing, DispatchAssumption DEF Ids, FactsInv, DispatchesInv
    <3> QED BY <3>1, <3>2 DEF Founded
  <2> QED BY <2>1, <2>2, <2>3, SessionStays
<1>23. ASSUME NEW s \in Slots, MarkWaiting(s)
       PROVE Founded(session'.seen, session'.of, run'.version, dispatches')
  BY <1>23, SessionStays DEF MarkWaiting, queues
<1>24. ASSUME NEW s \in Slots, CheckVersion(s)
       PROVE Founded(session'.seen, session'.of, run'.version, dispatches')
  BY <1>24, SessionStays DEF CheckVersion, queues
<1>25. ASSUME NEW s \in Slots, Recommend(s)
       PROVE Founded(session'.seen, session'.of, run'.version, dispatches')
  BY <1>25, SessionStays DEF Recommend, queues
<1>26. ASSUME NEW s \in Slots, Supersede(s)
       PROVE Founded(session'.seen, session'.of, run'.version, dispatches')
  BY <1>26, SessionStays DEF Supersede, queues
<1>27. ASSUME NEW s \in Slots, MarkCompleted(s)
       PROVE Founded(session'.seen, session'.of, run'.version, dispatches')
  BY <1>27, SessionStays DEF MarkCompleted, queues
<1>28. ASSUME NEW s \in Slots, MarkRetry(s)
       PROVE Founded(session'.seen, session'.of, run'.version, dispatches')
  BY <1>28, SessionStays DEF MarkRetry, queues
<1>29. ASSUME NEW s \in Slots, QueueRetry(s)
       PROVE Founded(session'.seen, session'.of, run'.version, dispatches')
  BY <1>29, SessionStays DEF QueueRetry, queues
<1>30. ASSUME NEW s \in Slots, StatementFails(s)
       PROVE Founded(session'.seen, session'.of, run'.version, dispatches')
  BY <1>30, SessionStays DEF StatementFails, queues
<1>31. ASSUME NEW s \in Slots, ProcessDies(s)
       PROVE Founded(session'.seen, session'.of, run'.version, dispatches')
  BY <1>31, SessionStays DEF ProcessDies, queues
<1>32. CASE UNCHANGED vars
  BY <1>32, SessionStays DEF vars
<1> QED BY <1>1, <1>2, <1>3, <1>4, <1>5, <1>6, <1>7, <1>8, <1>9, <1>10, <1>11, <1>12,
      <1>13, <1>14, <1>15, <1>16, <1>17, <1>18, <1>19, <1>20, <1>21, <1>22, <1>23,
      <1>24, <1>25, <1>26, <1>27, <1>28, <1>29, <1>30, <1>31, <1>32 DEF Next,
      Deliver, Time, Enqueue, Analyse

LEMMA AdviceStays ==
  ASSUME FactsInv, [Next]_vars
  PROVE  AdviceRestsOnItsFacts'
<1> USE DEF AdviceRestsOnItsFacts
<1>0. AdviceRestsOnItsFacts
  BY DEF FactsInv
<1>1. CASE Command
  BY <1>0, <1>1 DEF Command, queues
<1>2. CASE CloseAdvice
  <2>1. advice' \subseteq advice
    BY <1>0, <1>2 DEF CloseAdvice
  <2> QED BY <1>0, <2>1
<1>3. CASE RequestAnalysis
  BY <1>0, <1>3 DEF RequestAnalysis, queues
<1>4. ASSUME NEW v \in events, HandleEvent(v) PROVE AdviceRestsOnItsFacts'
  <2>1. advice' \subseteq advice
    BY <1>0, <1>4 DEF HandleEvent
  <2> QED BY <1>0, <2>1
<1>5. ASSUME NEW v \in schedules, HandleSchedule(v) PROVE AdviceRestsOnItsFacts'
  BY <1>0, <1>5 DEF HandleSchedule, queues
<1>6. ASSUME NEW m \in messages, HandleDispatch(m) PROVE AdviceRestsOnItsFacts'
  BY <1>0, <1>6 DEF HandleDispatch, queues
<1>7. ASSUME NEW d \in Ids, LockExpires(d) PROVE AdviceRestsOnItsFacts'
  BY <1>0, <1>7 DEF LockExpires, queues
<1>8. ASSUME NEW d \in Ids, BackoffEnds(d) PROVE AdviceRestsOnItsFacts'
  BY <1>0, <1>8 DEF BackoffEnds, queues
<1>9. ASSUME NEW d \in Ids, Recover(d) PROVE AdviceRestsOnItsFacts'
  BY <1>0, <1>9 DEF Recover, queues
<1>10. ASSUME NEW d \in Ids, AnswerQuestion(d) PROVE AdviceRestsOnItsFacts'
  BY <1>0, <1>10 DEF AnswerQuestion, queues
<1>11. ASSUME NEW d \in Ids, LockOutlived(d) PROVE AdviceRestsOnItsFacts'
  BY <1>0, <1>11 DEF LockOutlived, queues
<1>12. ASSUME NEW s \in Slots, Expire(s) PROVE AdviceRestsOnItsFacts'
  <2>1. advice' \subseteq advice
    BY <1>0, <1>12 DEF Expire
  <2> QED BY <1>0, <2>1
<1>13. ASSUME NEW s \in Slots, Schedule(s) PROVE AdviceRestsOnItsFacts'
  BY <1>0, <1>13 DEF Schedule, queues
<1>14. ASSUME NEW s \in Slots, Lookup(s) PROVE AdviceRestsOnItsFacts'
  <2>1. advice' = advice
    BY <1>0, <1>14 DEF Lookup
  <2> QED BY <1>0, <2>1
<1>15. ASSUME NEW s \in Slots, Merge(s) PROVE AdviceRestsOnItsFacts'
  BY <1>0, <1>15 DEF Merge, queues
<1>16. ASSUME NEW s \in Slots, Create(s) PROVE AdviceRestsOnItsFacts'
  <2>1. advice' \subseteq advice
    BY <1>0, <1>16 DEF Create
  <2> QED BY <1>0, <2>1
<1>17. ASSUME NEW s \in Slots, Raced(s) PROVE AdviceRestsOnItsFacts'
  BY <1>0, <1>17 DEF Raced, queues
<1>18. ASSUME NEW s \in Slots, Queue(s) PROVE AdviceRestsOnItsFacts'
  BY <1>0, <1>18 DEF Queue, queues
<1>19. ASSUME NEW s \in Slots, Claim(s) PROVE AdviceRestsOnItsFacts'
  BY <1>0, <1>19 DEF Claim, queues
<1>20. ASSUME NEW s \in Slots, CheckRun(s) PROVE AdviceRestsOnItsFacts'
  BY <1>0, <1>20 DEF CheckRun, queues
<1>21. ASSUME NEW s \in Slots, Observe(s) PROVE AdviceRestsOnItsFacts'
  BY <1>0, <1>21 DEF Observe, queues
<1>22. ASSUME NEW s \in Slots, Respond(s) PROVE AdviceRestsOnItsFacts'
  BY <1>0, <1>22 DEF Respond, queues
<1>23. ASSUME NEW s \in Slots, MarkWaiting(s) PROVE AdviceRestsOnItsFacts'
  BY <1>0, <1>23 DEF MarkWaiting, queues
<1>24. ASSUME NEW s \in Slots, CheckVersion(s) PROVE AdviceRestsOnItsFacts'
  BY <1>0, <1>24 DEF CheckVersion, queues
<1>25. ASSUME NEW s \in Slots, Recommend(s) PROVE AdviceRestsOnItsFacts'
  <2> DEFINE new == [base |-> dispatches[slots[s].own].base, seen |-> slots[s].seen,
                     borrowed |-> slots[s].of # slots[s].own]
  <2>1. /\ slots[s].own \in Ids /\ dispatches[slots[s].own].base \in Nat
        /\ slots[s].seen \in Nat /\ slots[s].seen <= dispatches[slots[s].own].base
    <3>1. slots[s].pc = "recommend"
      BY <1>0, <1>25 DEF Recommend, At
    <3>2. slots[s].own \in Ids
      BY <3>1 DEF FactsInv, DispatchesInv, Sourced, Enqueuing
    <3>3. dispatches[slots[s].own].base \in Nat /\ slots[s].seen \in Nat
      BY <3>2, Typing, DispatchAssumption DEF FactsInv, DispatchesInv, Row, Slot
    <3> QED BY <3>1, <3>2, <3>3 DEF FactsInv, SlotFounded
  <2>2. slots[s].of = slots[s].own => dispatches[slots[s].own].base <= slots[s].seen
    BY <2>1 DEF FactsInv, SlotFounded, Founded
  <2>3. IF new.borrowed THEN new.seen <= new.base ELSE new.seen = new.base
    <3>1. CASE slots[s].of = slots[s].own
      <4>1. new.borrowed = FALSE
        BY <3>1
      <4> QED BY <2>1, <2>2, <3>1, <4>1
    <3>2. CASE slots[s].of # slots[s].own
      <4>1. new.borrowed = TRUE
        BY <3>2
      <4> QED BY <2>1, <4>1
    <3> QED BY <3>1, <3>2
  <2>4. advice' = advice \cup {new}
    BY <1>0, <1>25 DEF Recommend
  <2> HIDE DEF new
  <2> QED BY <1>0, <2>3, <2>4
<1>26. ASSUME NEW s \in Slots, Supersede(s) PROVE AdviceRestsOnItsFacts'
  BY <1>0, <1>26 DEF Supersede, queues
<1>27. ASSUME NEW s \in Slots, MarkCompleted(s) PROVE AdviceRestsOnItsFacts'
  BY <1>0, <1>27 DEF MarkCompleted, queues
<1>28. ASSUME NEW s \in Slots, MarkRetry(s) PROVE AdviceRestsOnItsFacts'
  BY <1>0, <1>28 DEF MarkRetry, queues
<1>29. ASSUME NEW s \in Slots, QueueRetry(s) PROVE AdviceRestsOnItsFacts'
  BY <1>0, <1>29 DEF QueueRetry, queues
<1>30. ASSUME NEW s \in Slots, StatementFails(s) PROVE AdviceRestsOnItsFacts'
  BY <1>0, <1>30 DEF StatementFails, queues
<1>31. ASSUME NEW s \in Slots, ProcessDies(s) PROVE AdviceRestsOnItsFacts'
  BY <1>0, <1>31 DEF ProcessDies, queues
<1>32. CASE UNCHANGED vars
  BY <1>0, <1>32 DEF vars
<1> QED BY <1>1, <1>2, <1>3, <1>4, <1>5, <1>6, <1>7, <1>8, <1>9, <1>10, <1>11, <1>12,
      <1>13, <1>14, <1>15, <1>16, <1>17, <1>18, <1>19, <1>20, <1>21, <1>22, <1>23,
      <1>24, <1>25, <1>26, <1>27, <1>28, <1>29, <1>30, <1>31, <1>32 DEF Next,
      Deliver, Time, Enqueue, Analyse

\* A recommendation rests on the facts it is offered for: a dispatch observes no
\* earlier than it was made, its version is compared after the last observation,
\* and no merge, retry, recovery or answer gives it another version.
THEOREM RecommendationsRestOnTheirFacts == Spec => []AdviceRestsOnItsFacts
<1>1. Init => FactsInv
  <2> SUFFICES ASSUME Init PROVE FactsInv
    OBVIOUS
  <2>1. DispatchesInv
    BY DispatchesInvInit
  <2>2. 0 \notin Ids
    BY DispatchAssumption DEF Ids
  <2> QED BY <2>1, <2>2
          DEF Init, FactsInv, SlotFounded, Founded, AdviceRestsOnItsFacts, NoDispatch, Idle,
              NoSession
<1>2. FactsInv /\ [Next]_vars => FactsInv'
  <2> SUFFICES ASSUME FactsInv, [Next]_vars PROVE FactsInv'
    OBVIOUS
  <2>1. TypeOK /\ DispatchesInv'
    BY DispatchesInvStep DEF FactsInv, DispatchesInv
  <2>2. \A d \in Ids : dispatches'[d].base <= run'.version
    <3> SUFFICES ASSUME NEW d \in Ids PROVE dispatches'[d].base <= run'.version
      OBVIOUS
    <3>1. dispatches'[d].base \in Nat /\ run.version \in Nat
      BY <2>1, Typing, DispatchAssumption DEF DispatchesInv, TypeOK
    <3> QED BY <2>1, <3>1, BasesStay, VersionGrows
  <2> QED BY <2>1, <2>2, SlotsFounded, SessionFounded, AdviceStays DEF FactsInv
<1>3. FactsInv => AdviceRestsOnItsFacts
  BY DEF FactsInv
<1> QED BY <1>1, <1>2, <1>3, PTL DEF Spec

-----------------------------------------------------------------------------
(***************************************************************************)
(* That no analysis is forgotten, for any number of processes, dispatches, *)
(* versions and questions, as long as no process dies and no statement     *)
(* fails; a repeated message, a failed turn and a workflow that outlives   *)
(* its lock do not lose one.                                               *)
(*                                                                         *)
(* NoAnalysisIsForgotten is inductive beside DispatchesInv: a step that    *)
(* makes a dispatch pending writes its message or goes on to write it, and *)
(* one that takes a message away has become its process.                   *)
(***************************************************************************)

Ahead(d) ==
  dispatches[d].status = "pending" =>
    IF dispatches[d].due THEN Carried(d) ELSE CarriedLater(d)

\* The messages and the processes that carry a dispatch are still there.
CarriersStay ==
  /\ messages \subseteq messages'
  /\ \A s \in Slots : slots[s].pc \in {"begin", "queue", "requeue"} => slots'[s] = slots[s]

LEMMA StillAhead ==
  ASSUME NEW x \in Ids, Ahead(x), CarriersStay,
         dispatches'[x].status = "pending" =>
           /\ dispatches[x].status = "pending"
           /\ dispatches'[x].due = dispatches[x].due \/ dispatches'[x].due
  PROVE  Ahead(x)'
<1>1. CarriedLater(x) => CarriedLater(x)'
  BY DEF CarriersStay, CarriedLater, At, Message
<1>2. Carried(x) => Carried(x)'
  BY <1>1 DEF CarriersStay, Carried, At, Message
<1>3. CarriedLater(x) => Carried(x)
  BY DEF Carried
<1> QED BY <1>1, <1>2, <1>3 DEF Ahead

\* A process that does not carry a dispatch goes wherever it goes.
LEMMA OneMoves ==
  ASSUME slots \in [Slots -> Slot], NEW s \in Slots,
         slots[s].pc \notin {"begin", "queue", "requeue"},
         messages \subseteq messages', NEW p, slots' = [slots EXCEPT ![s] = p]
  PROVE  CarriersStay
BY DEF CarriersStay

LEMMA OneGoes ==
  ASSUME slots \in [Slots -> Slot], NEW s \in Slots,
         slots[s].pc \notin {"begin", "queue", "requeue"},
         messages \subseteq messages',
         \/ \E pc : Goto(s, pc)
         \/ End(s) \/ Thrown(s) \/ Finish(s)
  PROVE  CarriersStay
BY DEF CarriersStay, Goto, End, Thrown, Finish

LEMMA NoneMoves ==
  ASSUME slots' = slots, messages \subseteq messages'
  PROVE  CarriersStay
BY DEF CarriersStay

LEMMA AheadStays ==
  ASSUME Faults \cap {"error", "crash"} = {}, DispatchesInv, [Next]_vars,
         NEW x \in Ids, Ahead(x)
  PROVE  Ahead(x)'
<1> USE Typing DEF DispatchesInv, At
<1>0. slots \in [Slots -> Slot] /\ dispatches \in [Ids -> Row]
  OBVIOUS
<1>00. ~ Fault("error") /\ ~ Fault("crash")
  BY DEF Fault
<1>1. CASE Command
  BY <1>1, NoneMoves, StillAhead DEF Command, queues
<1>2. CASE CloseAdvice
  BY <1>2, NoneMoves, StillAhead DEF CloseAdvice, queues
<1>3. CASE RequestAnalysis
  <2>1. Enter([Idle EXCEPT !.pc = "lookup", !.source = "user", !.force = TRUE])
    BY <1>3 DEF RequestAnalysis
  <2>2. CarriersStay
    BY <1>0, <1>3, <2>1, EnterTakes, OneMoves DEF RequestAnalysis, queues
  <2> QED BY <1>3, <2>2, StillAhead DEF RequestAnalysis
<1>4. ASSUME NEW v \in events, HandleEvent(v) PROVE Ahead(x)'
  <2>1. Enter([Idle EXCEPT !.pc = "expire", !.source = "event", !.trigger = v, !.force = TRUE])
    BY <1>4 DEF HandleEvent
  <2>2. CarriersStay
    BY <1>0, <1>4, <2>1, EnterTakes, OneMoves DEF HandleEvent, queues
  <2> QED BY <1>4, <2>2, StillAhead DEF HandleEvent
<1>5. ASSUME NEW v \in schedules, HandleSchedule(v) PROVE Ahead(x)'
  <2>1. CASE slots' = slots
    BY <1>5, <2>1, NoneMoves, StillAhead DEF HandleSchedule
  <2>2. CASE Enter([Idle EXCEPT !.pc = "lookup", !.source = "schedule", !.trigger = v])
    <3>1. CarriersStay
      BY <1>0, <1>5, <2>2, EnterTakes, OneMoves DEF HandleSchedule
    <3> QED BY <1>5, <3>1, StillAhead DEF HandleSchedule
  <2> QED BY <1>5, <2>1, <2>2 DEF HandleSchedule
<1>6. ASSUME NEW m \in messages, HandleDispatch(m) PROVE Ahead(x)'
  <2> DEFINE p == [Idle EXCEPT !.pc = "begin", !.source = "workflow", !.own = m.dispatch]
  <2>1. PICK s \in Slots : At(s, "free") /\ slots' = [slots EXCEPT ![s] = p]
    BY <1>6, EnterTakes DEF HandleDispatch
  <2>2. p.pc = "begin" /\ p.own = m.dispatch
    BY DEF Idle
  <2>3. /\ dispatches' = dispatches
        /\ messages \ {m} \subseteq messages'
        /\ m.delayed => dispatches[m.dispatch].due
        /\ m \in [dispatch : Ids, delayed : BOOLEAN]
    BY <1>6 DEF HandleDispatch, Published
  <2> HIDE DEF p
  <2>4. \A t \in Slots : slots[t].pc \in {"begin", "queue", "requeue"} => slots'[t] = slots[t]
    BY <1>0, <2>1
  <2>5. CASE x = m.dispatch /\ dispatches[x].due
    <3>1. slots'[s].own = x /\ slots'[s].pc = "begin"
      BY <1>0, <2>1, <2>2, <2>5
    <3>2. Carried(x)'
      BY <3>1 DEF Carried
    <3> QED BY <2>3, <2>5, <3>2 DEF Ahead
  <2>6. CASE x = m.dispatch /\ ~ dispatches[x].due
    <3>1. m # Message(x, TRUE)
      BY <2>3, <2>6 DEF Message
    <3>2. CarriedLater(x) => CarriedLater(x)'
      BY <2>3, <2>4, <3>1 DEF CarriedLater, Message
    <3> QED BY <2>3, <2>6, <3>2 DEF Ahead
  <2>7. CASE x # m.dispatch
    <3>1. m # Message(x, TRUE) /\ m # Message(x, FALSE)
      BY <2>7 DEF Message
    <3>2. CarriedLater(x) => CarriedLater(x)'
      BY <2>3, <2>4, <3>1 DEF CarriedLater, Message
    <3>3. Carried(x) => Carried(x)'
      BY <2>3, <2>4, <3>1, <3>2 DEF Carried, Message
    <3> QED BY <2>3, <3>2, <3>3 DEF Ahead
  <2> QED BY <2>5, <2>6, <2>7
<1>7. ASSUME NEW d \in Ids, LockExpires(d) PROVE Ahead(x)'
  BY <1>7, NoneMoves, StillAhead DEF LockExpires, queues
<1>8. ASSUME NEW d \in Ids, BackoffEnds(d) PROVE Ahead(x)'
  BY <1>0, <1>8, NoneMoves, StillAhead DEF BackoffEnds, queues, Row
<1>9. ASSUME NEW d \in Ids, Recover(d) PROVE Ahead(x)'
  <2>1. messages' = messages \cup {Message(d, FALSE)} /\ slots' = slots
    BY <1>00, <1>9 DEF Recover
  <2>2. CASE x = d
    BY <1>0, <1>9, <2>1, <2>2 DEF Recover, Ahead, Carried
  <2>3. CASE x # d
    BY <1>0, <1>9, <2>1, <2>3, NoneMoves, StillAhead DEF Recover
  <2> QED BY <2>2, <2>3
<1>10. ASSUME NEW d \in Ids, AnswerQuestion(d) PROVE Ahead(x)'
  <2>1. messages' = messages \cup {Message(d, FALSE)} /\ slots' = slots
    BY <1>00, <1>10 DEF AnswerQuestion
  <2>2. CASE x = d
    BY <1>0, <1>10, <2>1, <2>2 DEF AnswerQuestion, Ahead, Carried
  <2>3. CASE x # d
    BY <1>0, <1>10, <2>1, <2>3, NoneMoves, StillAhead DEF AnswerQuestion
  <2> QED BY <2>2, <2>3
<1>11. ASSUME NEW d \in Ids, LockOutlived(d) PROVE Ahead(x)'
  BY <1>11, NoneMoves, StillAhead DEF LockOutlived, queues
<1>12. ASSUME NEW s \in Slots, Expire(s) PROVE Ahead(x)'
  <2>1. CarriersStay
    BY <1>0, <1>12, OneGoes DEF Expire, queues
  <2> QED BY <1>12, <2>1, StillAhead DEF Expire
<1>13. ASSUME NEW s \in Slots, Schedule(s) PROVE Ahead(x)'
  <2>1. CarriersStay
    BY <1>0, <1>13, OneGoes DEF Schedule
  <2> QED BY <1>13, <2>1, StillAhead DEF Schedule
<1>14. ASSUME NEW s \in Slots, Lookup(s) PROVE Ahead(x)'
  <2>1. slots[s].pc \notin {"begin", "queue", "requeue"} /\ UNCHANGED <<messages, dispatches>>
    BY <1>14 DEF Lookup
  <2>2. CASE Finish(s)
    BY <1>0, <2>1, <2>2, OneGoes, StillAhead
  <2>3. CASE \A t \in Slots : t # s => slots'[t] = slots[t]
    <3>1. CarriersStay
      BY <2>1, <2>3 DEF CarriersStay
    <3> QED BY <2>1, <3>1, StillAhead
  <2> QED BY <1>0, <1>14, <2>2, <2>3 DEF Lookup
<1>15. ASSUME NEW s \in Slots, Merge(s) PROVE Ahead(x)'
  <2>1. CarriersStay
    BY <1>0, <1>15, OneGoes DEF Merge, queues
  <2>2. /\ dispatches'[x].status = dispatches[x].status
        /\ dispatches'[x].due = dispatches[x].due \/ dispatches'[x].due
    BY <1>0, <1>15 DEF Merge, Row, Slot
  <2> QED BY <2>1, <2>2, StillAhead
<1>16. ASSUME NEW s \in Slots, Create(s) PROVE Ahead(x)'
  <2>1. slots[s].pc \notin {"begin", "queue", "requeue"} /\ UNCHANGED messages
    BY <1>16 DEF Create, queues
  <2>2. CarriersStay
    BY <1>0, <1>16, <2>1 DEF Create, CarriersStay
  <2>3. CASE dispatches' = dispatches
    BY <2>2, <2>3, StillAhead
  <2>4. CASE KeyHolders = {}
    <3>1. PICK d \in Fresh :
            /\ dispatches' = [dispatches EXCEPT ![d] =
                 [NoDispatch EXCEPT !.status = "pending", !.key = TRUE, !.due = TRUE,
                                    !.base = slots[s].seen]]
            /\ slots' = [slots EXCEPT ![s].pc = "queue", ![s].target = d, ![s].old = {}]
      BY <1>16, <2>4 DEF Create
    <3>2. CASE x = d
      <4>1. slots'[s].target = x /\ slots'[s].pc = "queue"
        BY <1>0, <3>1, <3>2 DEF Slot
      <4>2. Carried(x)'
        BY <4>1 DEF Carried
      <4>3. dispatches'[x].due
        BY <1>0, <3>1, <3>2 DEF NoDispatch
      <4> QED BY <4>2, <4>3 DEF Ahead
    <3>3. CASE x # d
      BY <1>0, <2>2, <3>1, <3>3, StillAhead
    <3> QED BY <3>2, <3>3
  <2> QED BY <1>16, <2>3, <2>4 DEF Create
<1>17. ASSUME NEW s \in Slots, Raced(s) PROVE Ahead(x)'
  <2>1. slots[s].pc \notin {"begin", "queue", "requeue"} /\ UNCHANGED messages
    BY <1>17 DEF Raced, queues
  <2>2. CASE ~(KeyHolders # {})
    BY <1>0, <1>17, <2>1, <2>2, OneGoes, StillAhead DEF Raced
  <2>3. CASE KeyHolders # {}
    <3>1. PICK d \in KeyHolders :
            /\ dispatches' = [dispatches EXCEPT
                 ![d].due = dispatches[d].due \/ dispatches[d].status = "pending"]
            /\ slots' = [slots EXCEPT ![s].pc = "queue", ![s].target = d]
      BY <1>17, <2>3 DEF Raced
    <3>2. CarriersStay
      BY <1>0, <2>1, <3>1 DEF CarriersStay
    <3>3. /\ dispatches'[x].status = dispatches[x].status
          /\ dispatches'[x].due = dispatches[x].due \/ dispatches'[x].due
      BY <1>0, <3>1 DEF Row
    <3> QED BY <3>2, <3>3, StillAhead
  <2> QED BY <2>2, <2>3
<1>18. ASSUME NEW s \in Slots, Queue(s) PROVE Ahead(x)'
  <2>1. /\ slots[s].pc = "queue"
        /\ messages' = messages \cup {Message(slots[s].target, FALSE)}
        /\ dispatches' = dispatches
    BY <1>18 DEF Queue
  <2>2. \A t \in Slots : t # s => slots'[t] = slots[t]
    BY <1>0, <1>18 DEF Queue, Finish, Goto, End
  <2>3. CarriedLater(x) => CarriedLater(x)'
    BY <2>1, <2>2 DEF CarriedLater
  <2>4. Carried(x) => Carried(x)'
    BY <2>1, <2>2, <2>3 DEF Carried
  <2> QED BY <2>1, <2>3, <2>4 DEF Ahead
<1>19. ASSUME NEW s \in Slots, Claim(s) PROVE Ahead(x)'
  <2>1. slots[s].pc = "begin" /\ messages' = messages
    BY <1>19 DEF Claim, queues
  <2>2. \A t \in Slots : t # s => slots'[t] = slots[t]
    BY <1>0, <1>19 DEF Claim, End
  <2>3. CarriedLater(x) => CarriedLater(x)'
    BY <2>1, <2>2 DEF CarriedLater
  <2>4. slots[s].own # x => (Carried(x) => Carried(x)')
    BY <2>1, <2>2, <2>3 DEF Carried
  <2>5. CASE Claimable(slots[s].own)
    <3>1. dispatches' = [dispatches EXCEPT ![slots[s].own].status = "running",
                                           ![slots[s].own].stale = FALSE]
      BY <1>19, <2>5 DEF Claim
    <3>2. CASE slots[s].own = x
      BY <1>0, <3>1, <3>2 DEF Ahead, Row
    <3>3. CASE slots[s].own # x
      BY <1>0, <2>3, <2>4, <3>1, <3>3 DEF Ahead
    <3> QED BY <3>2, <3>3
  <2>6. CASE ~ Claimable(slots[s].own)
    <3>1. dispatches' = dispatches
      BY <1>19, <2>6 DEF Claim
    <3>2. CASE slots[s].own = x
      BY <2>3, <2>6, <3>1, <3>2 DEF Ahead, Claimable
    <3>3. CASE slots[s].own # x
      BY <2>3, <2>4, <3>1, <3>3 DEF Ahead
    <3> QED BY <3>2, <3>3
  <2> QED BY <2>5, <2>6
<1>20. ASSUME NEW s \in Slots, CheckRun(s) PROVE Ahead(x)'
  <2>1. CarriersStay
    BY <1>0, <1>20, OneGoes DEF CheckRun, queues
  <2> QED BY <1>20, <2>1, StillAhead DEF CheckRun
<1>21. ASSUME NEW s \in Slots, Observe(s) PROVE Ahead(x)'
  <2>1. CarriersStay
    BY <1>0, <1>21 DEF Observe, queues, CarriersStay, Goto
  <2> QED BY <1>21, <2>1, StillAhead DEF Observe
<1>22. ASSUME NEW s \in Slots, Respond(s) PROVE Ahead(x)'
  <2>1. CarriersStay
    BY <1>0, <1>22, OneGoes DEF Respond, queues
  <2> QED BY <1>22, <2>1, StillAhead DEF Respond
<1>23. ASSUME NEW s \in Slots, MarkWaiting(s) PROVE Ahead(x)'
  <2>1. CarriersStay
    BY <1>0, <1>23, OneGoes DEF MarkWaiting, queues
  <2>2. dispatches'[x].status = "waiting" \/ dispatches'[x] = dispatches[x]
    BY <1>0, <1>23 DEF MarkWaiting, Row
  <2> QED BY <2>1, <2>2, StillAhead
<1>24. ASSUME NEW s \in Slots, CheckVersion(s) PROVE Ahead(x)'
  <2>1. CarriersStay
    BY <1>0, <1>24, OneGoes DEF CheckVersion, queues
  <2> QED BY <1>24, <2>1, StillAhead DEF CheckVersion
<1>25. ASSUME NEW s \in Slots, Recommend(s) PROVE Ahead(x)'
  <2>1. CarriersStay
    BY <1>0, <1>25, OneGoes DEF Recommend, queues
  <2>2. dispatches'[x].status = "completed" \/ dispatches'[x] = dispatches[x]
    BY <1>0, <1>25 DEF Recommend, Complete, Row
  <2> QED BY <2>1, <2>2, StillAhead
<1>26. ASSUME NEW s \in Slots, Supersede(s) PROVE Ahead(x)'
  <2>1. CarriersStay
    BY <1>0, <1>26 DEF Supersede, queues, CarriersStay
  <2>2. dispatches'[x].status = "completed" \/ dispatches'[x] = dispatches[x]
    BY <1>0, <1>26 DEF Supersede, Row
  <2> QED BY <2>1, <2>2, StillAhead
<1>27. ASSUME NEW s \in Slots, MarkCompleted(s) PROVE Ahead(x)'
  <2>1. CarriersStay
    BY <1>0, <1>27, OneGoes DEF MarkCompleted, queues
  <2>2. dispatches'[x].status = "completed" \/ dispatches'[x] = dispatches[x]
    BY <1>0, <1>27 DEF MarkCompleted, Complete, Row
  <2> QED BY <2>1, <2>2, StillAhead
<1>28. ASSUME NEW s \in Slots, MarkRetry(s) PROVE Ahead(x)'
  <2>1. CarriersStay
    BY <1>0, <1>28, OneGoes DEF MarkRetry, queues
  <2>2. dispatches' = [dispatches EXCEPT ![slots[s].own].status = "pending",
                         ![slots[s].own].due = FALSE, ![slots[s].own].stale = FALSE]
    BY <1>28 DEF MarkRetry
  <2>3. CASE slots[s].own = x
    <3>1. slots'[s].own = x /\ slots'[s].pc = "requeue"
      BY <1>0, <1>28, <2>3 DEF MarkRetry, Goto, Slot
    <3>2. CarriedLater(x)'
      BY <3>1 DEF CarriedLater
    <3>3. CarriedLater(x)' => Carried(x)'
      BY DEF Carried
    <3> QED BY <3>2, <3>3 DEF Ahead
  <2>4. CASE slots[s].own # x
    BY <1>0, <2>1, <2>2, <2>4, StillAhead
  <2> QED BY <2>3, <2>4
<1>29. ASSUME NEW s \in Slots, QueueRetry(s) PROVE Ahead(x)'
  <2>1. /\ slots[s].pc = "requeue"
        /\ messages' = messages \cup {Message(slots[s].own, TRUE)}
        /\ dispatches' = dispatches
    BY <1>29 DEF QueueRetry
  <2>2. \A t \in Slots : t # s => slots'[t] = slots[t]
    BY <1>0, <1>29 DEF QueueRetry, End
  <2>3. CarriedLater(x) => CarriedLater(x)'
    BY <2>1, <2>2 DEF CarriedLater
  <2>4. Carried(x) => Carried(x)'
    BY <2>1, <2>2, <2>3 DEF Carried
  <2> QED BY <2>1, <2>3, <2>4 DEF Ahead
<1>30. ASSUME NEW s \in Slots, StatementFails(s) PROVE Ahead(x)'
  BY <1>00, <1>30 DEF StatementFails
<1>31. ASSUME NEW s \in Slots, ProcessDies(s) PROVE Ahead(x)'
  BY <1>00, <1>31 DEF ProcessDies
<1>32. CASE UNCHANGED vars
  BY <1>32, NoneMoves, StillAhead DEF vars
<1> QED BY <1>1, <1>2, <1>3, <1>4, <1>5, <1>6, <1>7, <1>8, <1>9, <1>10, <1>11, <1>12,
      <1>13, <1>14, <1>15, <1>16, <1>17, <1>18, <1>19, <1>20, <1>21, <1>22, <1>23,
      <1>24, <1>25, <1>26, <1>27, <1>28, <1>29, <1>30, <1>31, <1>32 DEF Next,
      Deliver, Time, Enqueue, Analyse

\* As long as no process dies and no statement fails, a dispatch that is pending
\* has its message in the outbox, or a process that took it or is about to write
\* it: the enqueue, the answer, the recovery and the retry all see to it, whoever
\* merged, claimed or retried the dispatch in between.
THEOREM NoAnalysisIsEverForgotten ==
  ASSUME Faults \cap {"error", "crash"} = {}
  PROVE  Spec => []NoAnalysisIsForgotten
<1>1. Init => NoAnalysisIsForgotten
  BY DEF Init, NoAnalysisIsForgotten, NoDispatch, Ids
<1>2. DispatchesInv /\ NoAnalysisIsForgotten /\ [Next]_vars => NoAnalysisIsForgotten'
  BY AheadStays DEF NoAnalysisIsForgotten, Ahead
<1> QED BY <1>1, <1>2, DispatchesInvariance, PTL DEF Spec
=============================================================================
