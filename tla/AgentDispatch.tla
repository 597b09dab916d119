---------------------------- MODULE AgentDispatch ----------------------------
(***************************************************************************)
(* The analyses of one advisor of a Run.  A domain event asks for one by   *)
(* way of the outbox (run.event, agent.schedule, agent.dispatch); a        *)
(* dispatch row carries it; a workflow claims the row, has the model take  *)
(* a turn in the advisor's session and turns the answer into a             *)
(* recommendation, a question or a retry.                                  *)
(*   src/apps/web/lib/agent-recommendation-service.ts  (the rows)          *)
(*   src/apps/web/lib/agent-outbox.ts                  (the handlers)      *)
(*   src/apps/web/lib/agent-dispatch-execution.ts      (the workflow)      *)
(*   src/apps/web/lib/eve-agent-runtime.ts             (the session)       *)
(*                                                                         *)
(* One transaction is one step, except where it reads what others may      *)
(* change before it writes.  A slot is a process: a handler or request     *)
(* that enqueues, or a workflow.  Recommendations are kept as far as they  *)
(* hold back or lose an analysis: those that are pending or deferred.      *)
(***************************************************************************)
EXTENDS Naturals, FiniteSets

CONSTANTS
  Slots,          \* bound: processes at work at the same time
  MaxDispatches,  \* bound: dispatch rows
  MaxVersion,     \* bound: versions of the run
  MaxRequests,    \* bound: analyses the incident commander asks for
  MaxQuestions,   \* bound: questions of the model
  Faults,         \* bound: the kinds of fault that occur
  MaxFaults       \* bound: faults

ASSUME DispatchAssumption ==
  /\ MaxDispatches \in Nat /\ MaxVersion \in Nat
  /\ MaxRequests \in Nat /\ MaxQuestions \in Nat /\ MaxFaults \in Nat
  /\ Faults \subseteq {"redelivery", "turn", "error", "crash", "stall"}

VARIABLES
  run,          \* the simulation_runs row: version, and whether it is running
  events,       \* unpublished run.event messages, by version
  schedules,    \* unpublished agent.schedule messages, by version
  messages,     \* unpublished agent.dispatch messages
  dispatches,   \* the agent_dispatches rows
  session,      \* the agent_session_links row
  advice,       \* the pending and deferred agent_recommendations
  slots,        \* the processes
  requests,     \* analyses asked for so far
  questions,    \* questions so far
  faults        \* faults so far

vars == <<run, events, schedules, messages, dispatches, session, advice, slots,
          requests, questions, faults>>
counters == <<requests, questions>>
queues == <<events, schedules, messages>>

Ids == 1 .. MaxDispatches

\* key: the row holds the advisor's activeKey.  due: nextAttemptAt has come.
\* stale: lockedAt is older than the lock's time.
NoDispatch ==
  [status |-> "absent", key |-> FALSE, base |-> 0, due |-> FALSE,
   stale |-> FALSE, open |-> FALSE, answered |-> FALSE]

\* seen: the version of the facts at hand; of: the dispatch that observed them.
Idle ==
  [pc |-> "free", source |-> "none", trigger |-> 0, force |-> FALSE, own |-> 0,
   target |-> 0, pending |-> FALSE, old |-> {}, answer |-> FALSE, seen |-> 0, of |-> 0]

\* Only a session that waits for an answer keeps what its model has seen.
NoSession == [waiting |-> FALSE, seen |-> 0, of |-> 0]

Init ==
  /\ run = [version |-> 0, running |-> TRUE]
  /\ events = {} /\ schedules = {} /\ messages = {}
  /\ dispatches = [d \in Ids |-> NoDispatch]
  /\ session = NoSession
  /\ advice = {}
  /\ slots = [s \in Slots |-> Idle]
  /\ requests = 0 /\ questions = 0 /\ faults = 0

Fault(kind) == kind \in Faults /\ faults < MaxFaults /\ faults' = faults + 1

\* A message is published, or stays because the publisher did not get so far.
Published(queue, m) ==
  IF "redelivery" \in Faults /\ faults < MaxFaults THEN {queue \ {m}, queue} ELSE {queue \ {m}}
Redelivered(changed) == faults' = IF changed THEN faults ELSE faults + 1
Handled(source, v) == \E s \in Slots : slots[s].source = source /\ slots[s].trigger = v

At(s, pc) == slots[s].pc = pc
Goto(s, pc) == slots' = [slots EXCEPT ![s].pc = pc]
End(s) == slots' = [slots EXCEPT ![s] = Idle]

\* The free slots are interchangeable, so that one of them will do.
Enter(process) ==
  LET free == {s \in Slots : At(s, "free")}
  IN  free # {} /\ slots' = [slots EXCEPT ![CHOOSE s \in free : TRUE] = process]

Active(d) == dispatches[d].status \in {"pending", "running", "waiting"}
KeyHolders == {d \in Ids : dispatches[d].key}
Message(d, delayed) == [dispatch |-> d, delayed |-> delayed]

-----------------------------------------------------------------------------
(* Facts and people                                                         *)

\* A command commits; it may also pause, resume or complete the run.
Command ==
  /\ run.version < MaxVersion
  /\ \E running \in BOOLEAN : run' = [version |-> run.version + 1, running |-> running]
  /\ events' = events \cup {run.version + 1}
  /\ UNCHANGED <<schedules, messages, dispatches, session, advice, slots, counters, faults>>

\* The run.event handler: supersedeStaleRecommendations,
HandleEvent(v) ==
  /\ v \in events /\ ~ Handled("event", v)
  /\ advice' = {x \in advice : x.base >= run.version}
  /\ Enter([Idle EXCEPT !.pc = "expire", !.source = "event", !.trigger = v, !.force = TRUE])
  /\ UNCHANGED <<run, queues, dispatches, session, counters, faults>>

\* then expireDueRecommendations, which finds what a command in between has
\* made old, and asks for a new analysis of it,
Expire(s) ==
  /\ At(s, "expire")
  /\ \E due \in SUBSET {x \in advice : x.base < run.version} :
       /\ advice' = advice \ due
       /\ Goto(s, IF due = {} THEN "schedule" ELSE "lookup")
  /\ UNCHANGED <<run, queues, dispatches, session, counters, faults>>

\* and agent.schedule if the advisor's policy has the event.
Schedule(s) ==
  /\ At(s, "schedule")
  /\ schedules' \in {schedules, schedules \cup {slots[s].trigger}}
  /\ events' \in Published(events, slots[s].trigger) /\ Redelivered(events' # events)
  /\ End(s)
  /\ UNCHANGED <<run, messages, dispatches, session, advice, counters>>

\* The incident commander decides on a recommendation, or its time runs out.
CloseAdvice ==
  /\ \E x \in advice : advice' = advice \ {x}
  /\ UNCHANGED <<run, queues, dispatches, session, slots, counters, faults>>

\* The route of agent-analysis: enqueueDispatch with force.
RequestAnalysis ==
  /\ requests < MaxRequests /\ requests' = requests + 1
  /\ run.running
  /\ Enter([Idle EXCEPT !.pc = "lookup", !.source = "user", !.force = TRUE])
  /\ UNCHANGED <<run, queues, dispatches, session, advice, questions, faults>>

\* answerQuestion, and then the message in a statement of its own.
AnswerQuestion(d) ==
  /\ dispatches[d].status = "waiting" /\ dispatches[d].open
  /\ dispatches' = [dispatches EXCEPT ![d].status = "pending", ![d].due = TRUE,
                      ![d].stale = FALSE, ![d].open = FALSE, ![d].answered = TRUE]
  /\ \/ messages' = messages \cup {Message(d, FALSE)} /\ UNCHANGED faults
     \/ UNCHANGED messages /\ Fault("crash")
  /\ UNCHANGED <<run, events, schedules, session, advice, slots, counters>>

-----------------------------------------------------------------------------
(* enqueueDispatch: one active dispatch for the advisor                     *)

\* The agent.schedule handler looks at the run once more.
HandleSchedule(v) ==
  /\ v \in schedules /\ ~ Handled("schedule", v)
  /\ IF run.running
     THEN /\ Enter([Idle EXCEPT !.pc = "lookup", !.source = "schedule", !.trigger = v])
          /\ UNCHANGED schedules
     ELSE schedules' = schedules \ {v} /\ UNCHANGED slots
  /\ UNCHANGED <<run, events, messages, dispatches, session, advice, counters, faults>>

\* The handler or request is through; the message of agent.schedule is published.
Finish(s) ==
  /\ IF slots[s].source = "event" THEN Goto(s, "schedule") ELSE End(s)
  /\ IF slots[s].source = "schedule"
     THEN /\ schedules' \in Published(schedules, slots[s].trigger)
          /\ Redelivered(schedules' # schedules)
     ELSE UNCHANGED <<schedules, faults>>

\* It throws: a handler's message stays, a workflow goes for a retry.
Thrown(s) == IF slots[s].source = "workflow" THEN Goto(s, "retry") ELSE End(s)

Last == IF advice = {} THEN {{}} ELSE {{x} : x \in advice}

\* The reads of the transaction: the run's version, who holds the key, and the
\* last recommendation.
Lookup(s) ==
  /\ At(s, "lookup")
  /\ CASE KeyHolders # {} ->
            \E d \in KeyHolders :
              /\ slots' = [slots EXCEPT ![s].pc = "merge", ![s].target = d,
                             ![s].pending = dispatches[d].status = "pending"]
              /\ UNCHANGED <<schedules, faults>>
       [] KeyHolders = {} /\ advice # {} /\ ~ slots[s].force -> Finish(s)
       [] OTHER ->
            /\ \E old \in Last :
                 slots' = [slots EXCEPT ![s].pc = "create", ![s].seen = run.version,
                                        ![s].old = old]
            /\ UNCHANGED <<schedules, faults>>
  /\ UNCHANGED <<run, events, messages, dispatches, session, advice, counters>>

\* The triggers join those of a dispatch that may have ended in between.
Merge(s) ==
  /\ At(s, "merge")
  /\ dispatches' = [dispatches EXCEPT ![slots[s].target].due = @ \/ slots[s].pending]
  /\ Goto(s, "queue")
  /\ UNCHANGED <<run, queues, session, advice, counters, faults>>

Fresh == {d \in Ids : dispatches[d].status = "absent"}

\* Mutant: the unique index on activeKey is not there.
CreateTwice(s) ==
  /\ At(s, "create")
  /\ \E d \in Fresh :
       /\ \A x \in Fresh : d <= x
       /\ dispatches' = [dispatches EXCEPT ![d] =
            [NoDispatch EXCEPT !.status = "pending", !.key = TRUE, !.due = TRUE,
                               !.base = slots[s].seen]]
       /\ slots' = [slots EXCEPT ![s].pc = "queue", ![s].target = d]
  /\ UNCHANGED advice
  /\ UNCHANGED <<run, queues, session, counters, faults>>

\* The insert, which the unique index on activeKey may turn away.  A forced
\* analysis takes the place of the recommendation that was read.
Create(s) ==
  /\ At(s, "create")
  /\ IF KeyHolders # {}
     THEN /\ slots' = [slots EXCEPT ![s].pc = "raced", ![s].old = {}]
          /\ UNCHANGED <<dispatches, advice>>
     ELSE \E d \in Fresh :
            /\ \A x \in Fresh : d <= x
            /\ dispatches' = [dispatches EXCEPT ![d] =
                 [NoDispatch EXCEPT !.status = "pending", !.key = TRUE, !.due = TRUE,
                                    !.base = slots[s].seen]]
            /\ slots' = [slots EXCEPT ![s].pc = "queue", ![s].target = d, ![s].old = {}]
            /\ advice' = advice \ slots[s].old
  /\ UNCHANGED <<run, queues, session, counters, faults>>

\* The second transaction of enqueueDispatch: merge, if the winner is there.
Raced(s) ==
  /\ At(s, "raced")
  /\ IF KeyHolders # {}
     THEN \E d \in KeyHolders :
            /\ dispatches' = [dispatches EXCEPT
                 ![d].due = @ \/ dispatches[d].status = "pending"]
            /\ slots' = [slots EXCEPT ![s].pc = "queue", ![s].target = d]
     ELSE Thrown(s) /\ UNCHANGED dispatches
  /\ UNCHANGED <<run, queues, session, advice, counters, faults>>

\* queueAgentDispatch, a statement of its own.
Queue(s) ==
  /\ At(s, "queue")
  /\ messages' = messages \cup {Message(slots[s].target, FALSE)}
  /\ Finish(s)
  /\ UNCHANGED <<run, events, dispatches, session, advice, counters>>

-----------------------------------------------------------------------------
(* executeAgentDispatch                                                     *)

\* The agent.dispatch handler starts a workflow.
HandleDispatch(m) ==
  /\ m \in messages
  /\ m.delayed => dispatches[m.dispatch].due
  /\ Enter([Idle EXCEPT !.pc = "begin", !.source = "workflow", !.own = m.dispatch])
  /\ messages' \in Published(messages, m) /\ Redelivered(messages' # messages)
  /\ UNCHANGED <<run, events, schedules, dispatches, session, advice, counters>>

\* Mutant: a dispatch that is running is claimed once more.
ClaimableAlways(d) == dispatches[d].status \in {"pending", "running"} /\ dispatches[d].due
Claimable(d) == dispatches[d].status = "pending" /\ dispatches[d].due

\* claimDispatch.  An answered question of the dispatch is never forgotten.
Claim(s) ==
  /\ At(s, "begin")
  /\ LET d == slots[s].own
     IN  IF Claimable(d)
         THEN /\ dispatches' = [dispatches EXCEPT ![d].status = "running", ![d].stale = FALSE]
              /\ slots' = [slots EXCEPT ![s].pc = "claimed",
                                        ![s].answer = dispatches[d].answered]
         ELSE End(s) /\ UNCHANGED dispatches
  /\ UNCHANGED <<run, queues, session, advice, counters, faults>>

CheckRun(s) ==
  /\ At(s, "claimed")
  /\ Goto(s, IF run.running THEN "observe" ELSE "complete")
  /\ UNCHANGED <<run, queues, dispatches, session, advice, counters, faults>>

\* The observation and the checks of AgentTurnService.turn.  No action that is
\* allowed ends the analysis; an answer needs a session that waits for it and
\* an observation one that does not.
Observe(s) ==
  /\ At(s, "observe")
  /\ \/ ~ slots[s].answer /\ Goto(s, "complete")
     \/ /\ run.running /\ session.waiting = slots[s].answer
        /\ slots' = [slots EXCEPT ![s].pc = "model",
             ![s].seen = IF slots[s].answer THEN session.seen ELSE run.version,
             ![s].of = IF slots[s].answer THEN session.of ELSE slots[s].own]
     \/ (~ run.running \/ session.waiting # slots[s].answer) /\ Goto(s, "retry")
  /\ UNCHANGED <<run, queues, dispatches, session, advice, counters, faults>>

\* The model's turn, and what persist keeps of it: only a session that waits
\* for an answer is continued.  Of a turn that fails the persist may fail too.
Respond(s) ==
  /\ At(s, "model")
  /\ \/ /\ \E pc \in {"propose", "complete"} : Goto(s, pc)
        /\ session' = NoSession
        /\ UNCHANGED <<questions, faults>>
     \/ /\ questions < MaxQuestions /\ questions' = questions + 1
        /\ Goto(s, "ask")
        /\ session' = [waiting |-> TRUE, seen |-> slots[s].seen, of |-> slots[s].of]
        /\ UNCHANGED faults
     \/ /\ Fault("turn")
        /\ Goto(s, "retry")
        /\ session' \in {session, NoSession}
        /\ UNCHANGED questions
  /\ UNCHANGED <<run, queues, dispatches, advice, requests>>

\* markDispatchWaiting
MarkWaiting(s) ==
  /\ At(s, "ask")
  /\ dispatches' = [dispatches EXCEPT ![slots[s].own].status = "waiting",
                      ![slots[s].own].stale = FALSE, ![slots[s].own].open = TRUE]
  /\ End(s)
  /\ UNCHANGED <<run, queues, session, advice, counters, faults>>

\* Mutant: the version is not compared.
CurrentAlways(d) == TRUE
Current(d) == run.version = dispatches[d].base

\* createRecommendation reads the dispatch and the run ...
CheckVersion(s) ==
  /\ At(s, "propose")
  /\ Goto(s, IF Current(slots[s].own) THEN "recommend" ELSE "supersede")
  /\ UNCHANGED <<run, queues, dispatches, session, advice, counters, faults>>

Complete(d) ==
  [dispatches EXCEPT ![d].status = "completed", ![d].key = FALSE, ![d].stale = FALSE]

\* ... and writes a pending recommendation,
Recommend(s) ==
  /\ At(s, "recommend")
  /\ dispatches' = Complete(slots[s].own)
  /\ advice' = advice \cup {[base |-> dispatches[slots[s].own].base, seen |-> slots[s].seen,
                               borrowed |-> slots[s].of # slots[s].own]}
  /\ End(s)
  /\ UNCHANGED <<run, queues, session, counters, faults>>

\* Mutant: the key is not given back.
SupersedeKeepsKey(s) ==
  /\ At(s, "supersede")
  /\ dispatches' = [dispatches EXCEPT ![slots[s].own].status = "completed",
                      ![slots[s].own].stale = FALSE]
  /\ slots' = [slots EXCEPT ![s].pc = "lookup", ![s].force = TRUE]
  /\ UNCHANGED <<run, queues, session, advice, counters, faults>>

\* or a superseded one, behind which requeueFromDispatch enqueues anew.
Supersede(s) ==
  /\ At(s, "supersede")
  /\ dispatches' = [dispatches EXCEPT ![slots[s].own].status = "completed",
                      ![slots[s].own].key = FALSE, ![slots[s].own].stale = FALSE]
  /\ slots' = [slots EXCEPT ![s].pc = "lookup", ![s].force = TRUE]
  /\ UNCHANGED <<run, queues, session, advice, counters, faults>>

\* markDispatchCompleted
MarkCompleted(s) ==
  /\ At(s, "complete")
  /\ dispatches' = Complete(slots[s].own)
  /\ End(s)
  /\ UNCHANGED <<run, queues, session, advice, counters, faults>>

\* markDispatchRetry, whatever has become of the dispatch.
MarkRetry(s) ==
  /\ At(s, "retry")
  /\ dispatches' = [dispatches EXCEPT ![slots[s].own].status = "pending",
                      ![slots[s].own].due = FALSE, ![slots[s].own].stale = FALSE]
  /\ Goto(s, "requeue")
  /\ UNCHANGED <<run, queues, session, advice, counters, faults>>

\* Mutant: the retry is left to the cron.
QueueRetryNever(s) ==
  /\ At(s, "requeue")
  /\ End(s)
  /\ UNCHANGED <<run, queues, dispatches, session, advice, counters, faults>>

\* queueAgentDispatch with nextAttemptAt.
QueueRetry(s) ==
  /\ At(s, "requeue")
  /\ messages' = messages \cup {Message(slots[s].own, TRUE)}
  /\ End(s)
  /\ UNCHANGED <<run, events, schedules, dispatches, session, advice, counters, faults>>

\* A statement fails.  What throws behind the claim is caught for a retry.
StatementFails(s) ==
  /\ slots[s].pc \in {"expire", "schedule", "lookup", "merge", "create", "raced", "queue",
                      "ask", "propose", "recommend", "supersede", "complete"}
  /\ Fault("error")
  /\ Thrown(s)
  /\ UNCHANGED <<run, queues, dispatches, session, advice, counters>>

\* The process is gone; the workflow's step has no retries.
ProcessDies(s) ==
  /\ ~ At(s, "free") /\ Fault("crash")
  /\ End(s)
  /\ UNCHANGED <<run, queues, dispatches, session, advice, counters>>

-----------------------------------------------------------------------------
(* Time and the cron                                                        *)

Holds(s, d) ==
  /\ slots[s].own = d
  /\ slots[s].pc \in {"claimed", "observe", "model", "ask", "propose", "recommend",
                      "supersede", "complete", "retry"}

\* The lock grows old: of a dead workflow, or of one that takes too long.
LockExpires(d) ==
  /\ dispatches[d].status = "running" /\ ~ dispatches[d].stale
  /\ \A s \in Slots : ~ Holds(s, d)
  /\ dispatches' = [dispatches EXCEPT ![d].stale = TRUE]
  /\ UNCHANGED <<run, queues, session, advice, slots, counters, faults>>

LockOutlived(d) ==
  /\ dispatches[d].status = "running" /\ ~ dispatches[d].stale
  /\ \E s \in Slots : Holds(s, d)
  /\ Fault("stall")
  /\ dispatches' = [dispatches EXCEPT ![d].stale = TRUE]
  /\ UNCHANGED <<run, queues, session, advice, slots, counters>>

BackoffEnds(d) ==
  /\ dispatches[d].status = "pending" /\ ~ dispatches[d].due
  /\ dispatches' = [dispatches EXCEPT ![d].due = TRUE]
  /\ UNCHANGED <<run, queues, session, advice, slots, counters, faults>>

\* Mutant: the dispatch is set back, and its first message was thought enough.
RecoverSilently(d) ==
  /\ dispatches[d].status = "running" /\ dispatches[d].stale
  /\ dispatches' = [dispatches EXCEPT ![d].status = "pending", ![d].due = TRUE,
                                      ![d].stale = FALSE]
  /\ UNCHANGED <<run, queues, session, advice, slots, counters, faults>>

\* recoverStaleDispatches, and then the message in a statement of its own.
Recover(d) ==
  /\ dispatches[d].status = "running" /\ dispatches[d].stale
  /\ dispatches' = [dispatches EXCEPT ![d].status = "pending", ![d].due = TRUE,
                                      ![d].stale = FALSE]
  /\ \/ messages' = messages \cup {Message(d, FALSE)} /\ UNCHANGED faults
     \/ UNCHANGED messages /\ Fault("crash")
  /\ UNCHANGED <<run, events, schedules, session, advice, slots, counters>>

-----------------------------------------------------------------------------
Enqueue(s) ==
  \/ Expire(s) \/ Schedule(s)
  \/ Lookup(s) \/ Merge(s) \/ Create(s) \/ Raced(s) \/ Queue(s)

Analyse(s) ==
  \/ Claim(s) \/ CheckRun(s) \/ Observe(s) \/ Respond(s) \/ MarkWaiting(s)
  \/ CheckVersion(s) \/ Recommend(s) \/ Supersede(s) \/ MarkCompleted(s)
  \/ MarkRetry(s) \/ QueueRetry(s)

Deliver ==
  \/ \E v \in events : HandleEvent(v)
  \/ \E v \in schedules : HandleSchedule(v)
  \/ \E m \in messages : HandleDispatch(m)

Time == \E d \in Ids : LockExpires(d) \/ BackoffEnds(d) \/ Recover(d)

Next ==
  \/ Command \/ CloseAdvice \/ RequestAnalysis \/ Deliver \/ Time
  \/ \E d \in Ids : AnswerQuestion(d) \/ LockOutlived(d)
  \/ \E s \in Slots : Enqueue(s) \/ Analyse(s) \/ StatementFails(s) \/ ProcessDies(s)

\* Processes go on, the outbox and the cron come back, and time passes.
\* Nobody has to answer, to decide or to command.
Fairness ==
  /\ \A s \in Slots : WF_vars(Enqueue(s) \/ Analyse(s))
  /\ \A d \in Ids : WF_vars(LockExpires(d) \/ BackoffEnds(d) \/ Recover(d))
  /\ \A d \in Ids, delayed \in BOOLEAN : SF_vars(HandleDispatch(Message(d, delayed)))

Spec == Init /\ [][Next]_vars /\ Fairness

-----------------------------------------------------------------------------
(* Properties                                                               *)

Pc ==
  {"free", "expire", "schedule", "lookup", "merge", "create", "raced", "queue", "begin", "claimed", "observe",
   "model", "ask", "propose", "recommend", "supersede", "complete", "retry", "requeue"}

Advice == [base : 0 .. MaxVersion, seen : 0 .. MaxVersion, borrowed : BOOLEAN]

\* Every variable has its type.
TypeOK ==
  /\ run \in [version : 0 .. MaxVersion, running : BOOLEAN]
  /\ events \subseteq 1 .. MaxVersion
  /\ schedules \subseteq 1 .. MaxVersion
  /\ messages \subseteq [dispatch : Ids, delayed : BOOLEAN]
  /\ dispatches \in [Ids ->
       [status : {"absent", "pending", "running", "waiting", "completed"},
        key : BOOLEAN, base : 0 .. MaxVersion, due : BOOLEAN,
        stale : BOOLEAN, open : BOOLEAN, answered : BOOLEAN]]
  /\ session \in [waiting : BOOLEAN, seen : 0 .. MaxVersion, of : 0 .. MaxDispatches]
  /\ advice \subseteq Advice
  /\ slots \in [Slots ->
       [pc : Pc, source : {"none", "event", "schedule", "user", "workflow"},
        trigger : 0 .. MaxVersion, force : BOOLEAN,
        own : 0 .. MaxDispatches, target : 0 .. MaxDispatches, pending : BOOLEAN,
        old : SUBSET Advice, answer : BOOLEAN,
        seen : 0 .. MaxVersion, of : 0 .. MaxDispatches]]
  /\ requests \in 0 .. MaxRequests
  /\ questions \in 0 .. MaxQuestions
  /\ faults \in 0 .. MaxFaults

\* However its dispatch was merged, retried, revived, recovered or answered, a
\* recommendation is offered only if the facts the model saw are those of the
\* version it is offered for; and the model has seen none that came later, even
\* if the answer went to the session of another dispatch, which had borrowed
\* the advisor's link.
AdviceRestsOnItsFacts ==
  \A x \in advice : IF x.borrowed THEN x.seen <= x.base ELSE x.seen = x.base

\* The advisor's key is with one dispatch at a time, and never with one that
\* is over: nothing would ever give it back.
KeyIsHeldByOneActive ==
  /\ Cardinality(KeyHolders) <= 1
  /\ \A d \in KeyHolders : Active(d)

\* Both together, as a run checks them: the keys of well-typed dispatches.
DispatchInv == TypeOK /\ KeyIsHeldByOneActive

\* "A repeated start is refused by claimDispatch, the model is never called
\* twice": as long as no workflow outlives its lock, a dispatch has one.
OneWorkflowPerDispatch ==
  \A s, t \in Slots, d \in Ids : Holds(s, d) /\ Holds(t, d) => s = t

\* What brings a dispatch to claimDispatch when its time has come: a message of
\* the outbox, or the process that took it or is about to write it.
CarriedLater(d) ==
  \/ Message(d, TRUE) \in messages
  \/ \E s \in Slots : slots[s].own = d /\ At(s, "requeue")
Carried(d) ==
  \/ CarriedLater(d) \/ Message(d, FALSE) \in messages
  \/ \E s \in Slots : slots[s].own = d /\ At(s, "begin")
  \/ \E s \in Slots : slots[s].target = d /\ At(s, "queue")

\* As long as no process dies and no statement fails, a dispatch that is pending
\* always has a claim ahead of it: recoverStaleDispatches looks at running ones
\* only, so that nothing else would come back to it.  While its backoff lasts
\* that has to be the delayed message, since a claim before its time ends
\* without a trace.
NoAnalysisIsForgotten ==
  \A d \in Ids : dispatches[d].status = "pending" =>
    IF dispatches[d].due THEN Carried(d) ELSE CarriedLater(d)

\* An analysis that is under way ends, or waits for an answer, in spite of
\* failed turns, failed statements, merges and repeated messages.
AnalysisEnds ==
  \A d \in Ids :
    dispatches[d].status \in {"pending", "running"}
      ~> dispatches[d].status \in {"waiting", "completed"}

\* "A restart of the process does not lose a waiting analysis."
PendingAnalysisIsClaimed ==
  \A d \in Ids : dispatches[d].status = "pending" ~> dispatches[d].status # "pending"
=============================================================================
