--------------------------- MODULE Recommendations ---------------------------
(***************************************************************************)
(* What becomes of the recommendations of a Run's advisors.  The incident  *)
(* commander adopts, rejects or defers one; meanwhile the run moves on,    *)
(* and the handlers of its events, and new analyses, supersede or expire   *)
(* what is no longer current.                                              *)
(*   src/apps/web/lib/agent-recommendation-service.ts                      *)
(*                                                                         *)
(* The transactions run at read committed and take no lock in advance:     *)
(* each is a step that reads and a step that writes, and most of the       *)
(* writes name a row by its id alone.  "adopt" stands for "modify" too,    *)
(* which has another action and the same way through the code.             *)
(***************************************************************************)
EXTENDS Naturals, FiniteSets

CONSTANTS
  Deciders,     \* requests of the route that decides, each for one decision
  Workers,      \* bound: handlers and requests of the other kinds at one time
  MaxRecs,      \* bound: recommendations
  MaxVersion,   \* bound: versions of the run
  MaxRequests,  \* bound: analyses that are enqueued
  Window,       \* virtual minutes a recommendation may be decided
  Deferral,     \* virtual minutes of a deferral
  MaxFaults     \* bound: faults

ASSUME RecommendationAssumption ==
  /\ MaxRecs \in Nat /\ MaxVersion \in Nat /\ MaxRequests \in Nat /\ MaxFaults \in Nat
  /\ Window \in Nat \ {0} /\ Deferral \in Nat \ {0}

VARIABLES
  run,        \* the simulation_runs row: version and virtual time
  events,     \* unpublished run.event messages
  recs,       \* the agent_recommendations rows
  deciders,   \* the requests that decide
  decisions,  \* the decisions row of each such request
  workers,    \* the other processes
  executed,   \* actions that the kernel accepted
  requests,   \* analyses enqueued so far
  faults      \* faults so far

vars == <<run, events, recs, deciders, decisions, workers, executed, requests, faults>>

Recs == 1 .. MaxRecs
Absent == [status |-> "absent", base |-> 0, expires |-> 0]
NoEvent == [version |-> 0, clock |-> FALSE]
Free == [pc |-> "free", event |-> NoEvent, list |-> {}, old |-> {}, base |-> 0, time |-> 0]
Asking == [pc |-> "asking", rec |-> 0, kind |-> "none", until |-> 0, result |-> "none"]

Init ==
  /\ run = [version |-> 0, time |-> 0]
  /\ events = {}
  /\ recs = [r \in Recs |-> Absent]
  /\ deciders = [d \in Deciders |-> Asking]
  /\ decisions = [d \in Deciders |-> "none"]
  /\ workers = [w \in Workers |-> Free]
  /\ executed = {}
  /\ requests = 0 /\ faults = 0

Open(r) == recs[r].status \in {"pending", "deferred"}
Due(r) == Open(r) /\ recs[r].expires <= run.time
Stale(r) == Open(r) /\ recs[r].base < run.version

\* update by id, whatever the row has become since it was read
Set(rs, status) == [r \in Recs |-> IF r \in rs THEN [recs[r] EXCEPT !.status = status] ELSE recs[r]]

Fault == faults < MaxFaults /\ faults' = faults + 1

WorkerAt(w, pc) == workers[w].pc = pc
Moves(w, worker) == workers' = [workers EXCEPT ![w] = worker]
Handles(e) == \E w \in Workers : workers[w].event = e

\* The free workers are interchangeable, so that one of them will do.
Enter(worker) ==
  LET free == {w \in Workers : WorkerAt(w, "free")}
  IN  free # {} /\ Moves(CHOOSE w \in free : TRUE, worker)

\* A command commits and its events are to be published.
Commits(clock) ==
  /\ run.version < MaxVersion
  /\ run' = [version |-> run.version + 1, time |-> IF clock THEN run.time + 1 ELSE run.time]
  /\ events' = events \cup {[version |-> run.version + 1, clock |-> clock]}

-----------------------------------------------------------------------------
(* The run and its advisors                                                 *)

\* Some other command: of the clock, of a person.
Command ==
  /\ \E clock \in BOOLEAN : Commits(clock)
  /\ UNCHANGED <<recs, deciders, decisions, workers, executed, requests, faults>>

\* createRecommendation compares the versions ...
StartOffer ==
  /\ \E r \in Recs : recs[r] = Absent
  /\ Enter([Free EXCEPT !.pc = "offer", !.base = run.version, !.time = run.time])
  /\ UNCHANGED <<run, events, recs, deciders, decisions, executed, requests, faults>>

\* ... and writes the row.
Offer(w) ==
  /\ WorkerAt(w, "offer")
  /\ \E r \in Recs :
       /\ recs[r] = Absent /\ \A x \in Recs : recs[x] = Absent => r <= x
       /\ recs' = [recs EXCEPT ![r] = [status |-> "pending", base |-> workers[w].base,
                                       expires |-> workers[w].time + Window]]
  /\ Moves(w, Free)
  /\ UNCHANGED <<run, events, deciders, decisions, executed, requests, faults>>

-----------------------------------------------------------------------------
(* The run.event handler                                                    *)

\* Mutant: a deferred recommendation is left to its time.
ReadStalePending(e) ==
  /\ e \in events /\ ~ Handles(e)
  /\ Enter([Free EXCEPT !.pc = "supersede", !.event = e,
                        !.list = {r \in Recs : Stale(r) /\ recs[r].status = "pending"}])
  /\ UNCHANGED <<run, events, recs, deciders, decisions, executed, requests, faults>>

\* supersedeStaleRecommendations: the list,
ReadStale(e) ==
  /\ e \in events /\ ~ Handles(e)
  /\ Enter([Free EXCEPT !.pc = "supersede", !.event = e, !.list = {r \in Recs : Stale(r)}])
  /\ UNCHANGED <<run, events, recs, deciders, decisions, executed, requests, faults>>

\* and the updates.
Supersede(w) ==
  /\ WorkerAt(w, "supersede")
  /\ recs' = Set(workers[w].list, "superseded")
  /\ IF workers[w].event.clock
     THEN Moves(w, [workers[w] EXCEPT !.pc = "look", !.list = {}]) /\ UNCHANGED events
     ELSE Moves(w, Free) /\ events' = events \ {workers[w].event}
  /\ UNCHANGED <<run, deciders, decisions, executed, requests, faults>>

\* When the clock has moved, expireDueRecommendations: the list,
ReadDue(w) ==
  /\ WorkerAt(w, "look")
  /\ Moves(w, [workers[w] EXCEPT !.pc = "expire", !.list = {r \in Recs : Due(r)}])
  /\ UNCHANGED <<run, events, recs, deciders, decisions, executed, requests, faults>>

\* and the updates.
Expire(w) ==
  /\ WorkerAt(w, "expire")
  /\ recs' = Set(workers[w].list, "expired")
  /\ Moves(w, Free) /\ events' = events \ {workers[w].event}
  /\ UNCHANGED <<run, deciders, decisions, executed, requests, faults>>

\* enqueueDispatch, too, expires what is due; and if the commander forces an
\* analysis, it supersedes the advisor's last recommendation.
StartEnqueue ==
  /\ requests < MaxRequests /\ requests' = requests + 1
  /\ \E old \in {{}} \cup {{r} : r \in {x \in Recs : Open(x) /\ ~ Due(x)}} :
       Enter([Free EXCEPT !.pc = "enqueue", !.list = {r \in Recs : Due(r)}, !.old = old])
  /\ UNCHANGED <<run, events, recs, deciders, decisions, executed, faults>>

Enqueue(w) ==
  /\ WorkerAt(w, "enqueue")
  /\ recs' = [r \in Recs |->
       IF r \in workers[w].old THEN [recs[r] EXCEPT !.status = "superseded"]
       ELSE Set(workers[w].list, "expired")[r]]
  /\ Moves(w, Free)
  /\ UNCHANGED <<run, events, deciders, decisions, executed, requests, faults>>

\* A statement fails or the process dies: the message stays.
WorkerFails(w) ==
  /\ ~ WorkerAt(w, "free") /\ Fault
  /\ Moves(w, Free)
  /\ UNCHANGED <<run, events, recs, deciders, decisions, executed, requests>>

-----------------------------------------------------------------------------
(* Decisions                                                                *)

DeciderAt(d, pc) == deciders[d].pc = pc
Ends(d, pc) ==
  deciders' = [deciders EXCEPT ![d] = [Asking EXCEPT !.pc = pc, !.rec = deciders[d].rec]]

Decidable(r) ==
  recs[r].status = "pending" /\ recs[r].base = run.version /\ recs[r].expires > run.time

\* requirePendingRecommendationTx.  What it writes for a recommendation that is
\* old or due is rolled back by the error it throws next.
Check(d) ==
  /\ DeciderAt(d, "asking")
  /\ \E r \in Recs, kind \in {"adopt", "reject", "defer"} :
       /\ recs[r] # Absent
       /\ IF Decidable(r)
          THEN deciders' = [deciders EXCEPT ![d] =
                 [Asking EXCEPT !.pc = IF kind = "adopt" THEN "reserve" ELSE "decide",
                    !.rec = r, !.kind = kind,
                    !.until = IF kind = "defer" THEN run.time + Deferral ELSE recs[r].expires]]
          ELSE Ends(d, "refused")
  /\ UNCHANGED <<run, events, recs, decisions, workers, executed, requests, faults>>

\* decideWithoutKernel updates the row whatever has become of it.
Decide(d) ==
  /\ DeciderAt(d, "decide")
  /\ LET x == deciders[d] IN
     /\ recs' = [recs EXCEPT
          ![x.rec].status = IF x.kind = "reject" THEN "rejected" ELSE "deferred",
          ![x.rec].expires = x.until]
     /\ decisions' = [decisions EXCEPT ![d] = "made"]
     /\ Ends(d, "done")
  /\ UNCHANGED <<run, events, workers, executed, requests, faults>>

\* Mutant: the reservation does not ask for the status either.
ReserveAlways(d) ==
  /\ DeciderAt(d, "reserve")
  /\ recs' = [recs EXCEPT ![deciders[d].rec].status = "adopted"]
  /\ decisions' = [decisions EXCEPT ![d] = "made"]
  /\ deciders' = [deciders EXCEPT ![d].pc = "execute"]
  /\ UNCHANGED <<run, events, workers, executed, requests, faults>>

\* decideWithKernel reserves: the status must still be pending, or the
\* decision is rolled back with the error.
Reserve(d) ==
  /\ DeciderAt(d, "reserve")
  /\ IF recs[deciders[d].rec].status = "pending"
     THEN /\ recs' = [recs EXCEPT ![deciders[d].rec].status = "adopted"]
          /\ decisions' = [decisions EXCEPT ![d] = "made"]
          /\ deciders' = [deciders EXCEPT ![d].pc = "execute"]
     ELSE /\ Ends(d, "refused")
          /\ UNCHANGED <<recs, decisions>>
  /\ UNCHANGED <<run, events, workers, executed, requests, faults>>

\* Mutant: the command expects the version the run has.
ExpectsAlways(d) == TRUE
Expects(d) == run.version = recs[deciders[d].rec].base

Executed(d, result) ==
  deciders' = [deciders EXCEPT ![d].result = result,
                               ![d].pc = IF result = "error" THEN "undo" ELSE "record"]

\* The kernel accepts the action, on the version the recommendation rests on
\* (and the answer may be lost);
Accept(d) ==
  /\ DeciderAt(d, "execute") /\ Expects(d)
  /\ Commits(FALSE)
  /\ executed' = executed \cup {[by |-> d, rec |-> deciders[d].rec, at |-> run.version]}
  /\ \/ Executed(d, "accepted") /\ UNCHANGED faults
     \/ Executed(d, "error") /\ Fault
  /\ UNCHANGED <<recs, decisions, workers, requests>>

\* refuses it, with an event or because of the version without one;
Refuse(d) ==
  /\ DeciderAt(d, "execute")
  /\ \/ Expects(d) /\ Commits(FALSE)
     \/ UNCHANGED <<run, events>>
  /\ Executed(d, "refused")
  /\ UNCHANGED <<recs, decisions, workers, executed, requests, faults>>

\* or the command throws, as it does when another one commits first.
Throw(d) ==
  /\ DeciderAt(d, "execute")
  /\ IF Expects(d) THEN Fault ELSE UNCHANGED faults
  /\ Executed(d, "error")
  /\ UNCHANGED <<run, events, recs, decisions, workers, executed, requests>>

Taken(d) == recs[deciders[d].rec].status = "adopted"
Withdrawn(d) ==
  IF Taken(d) THEN [recs EXCEPT ![deciders[d].rec].status = "superseded"] ELSE recs

\* Mutant: the refusal is noted and the recommendation stays adopted.
RecordOnly(d) ==
  /\ DeciderAt(d, "record")
  /\ decisions' = [decisions EXCEPT ![d] = "executed"]
  /\ Ends(d, "done")
  /\ UNCHANGED <<run, events, recs, workers, executed, requests, faults>>

\* The second transaction notes the execution; a refused action leaves no
\* adopted recommendation behind.
Record(d) ==
  /\ DeciderAt(d, "record")
  /\ recs' = IF deciders[d].result = "refused" THEN Withdrawn(d) ELSE recs
  /\ decisions' = [decisions EXCEPT ![d] = "executed"]
  /\ Ends(d, "done")
  /\ UNCHANGED <<run, events, workers, executed, requests, faults>>

\* It fails; what it throws is caught where the command's error is.
RecordFails(d) ==
  /\ DeciderAt(d, "record") /\ Fault
  /\ deciders' = [deciders EXCEPT ![d].pc = "undo"]
  /\ UNCHANGED <<run, events, recs, decisions, workers, executed, requests>>

\* The catch clause.
Undo(d) ==
  /\ DeciderAt(d, "undo")
  /\ recs' = Withdrawn(d)
  /\ Ends(d, "failed")
  /\ UNCHANGED <<run, events, decisions, workers, executed, requests, faults>>

\* The process dies between two transactions, or a transaction fails.
DeciderDies(d) ==
  /\ deciders[d].pc \in {"decide", "reserve", "execute", "record", "undo"} /\ Fault
  /\ Ends(d, "lost")
  /\ UNCHANGED <<run, events, recs, decisions, workers, executed, requests>>

-----------------------------------------------------------------------------
Work(w) ==
  Offer(w) \/ Supersede(w) \/ ReadDue(w) \/ Expire(w) \/ Enqueue(w)

DecideOn(d) ==
  \/ Check(d) \/ Decide(d) \/ Reserve(d) \/ Accept(d) \/ Refuse(d) \/ Throw(d)
  \/ Record(d) \/ RecordFails(d) \/ Undo(d) \/ DeciderDies(d)

Next ==
  \/ Command \/ StartOffer \/ StartEnqueue
  \/ \E e \in events : ReadStale(e)
  \/ \E w \in Workers : Work(w) \/ WorkerFails(w)
  \/ \E d \in Deciders : DecideOn(d)

\* Processes go on, and the outbox delivers the messages it has.
Fairness ==
  /\ WF_vars(\E w \in Workers : Work(w))
  /\ WF_vars(\E e \in events : ReadStale(e))

Spec == Init /\ [][Next]_vars /\ Fairness

-----------------------------------------------------------------------------
(* Properties                                                               *)

Events == [version : 0 .. MaxVersion, clock : BOOLEAN]
Times == 0 .. MaxVersion + Window + Deferral

\* Every variable has its type.
TypeOK ==
  /\ run \in [version : 0 .. MaxVersion, time : 0 .. MaxVersion]
  /\ events \subseteq Events
  /\ recs \in [Recs ->
       [status : {"absent", "pending", "deferred", "adopted", "rejected", "superseded", "expired"},
        base : 0 .. MaxVersion, expires : Times]]
  /\ deciders \in [Deciders ->
       [pc : {"asking", "refused", "decide", "reserve", "execute", "record", "undo", "done",
              "failed", "lost"},
        rec : 0 .. MaxRecs, kind : {"none", "adopt", "reject", "defer"}, until : Times,
        result : {"none", "accepted", "refused", "error"}]]
  /\ decisions \in [Deciders -> {"none", "made", "executed"}]
  /\ workers \in [Workers ->
       [pc : {"free", "offer", "supersede", "look", "expire", "enqueue"},
        event : Events, list : SUBSET Recs, old : SUBSET Recs,
        base : 0 .. MaxVersion, time : 0 .. MaxVersion]]
  /\ executed \subseteq [by : Deciders, rec : Recs, at : 0 .. MaxVersion]
  /\ requests \in 0 .. MaxRequests
  /\ faults \in 0 .. MaxFaults

\* Two commanders, a repeated click, and a handler that overwrites the
\* status: one decision at most takes a recommendation to the kernel, also
\* after that one was refused, failed or has been overwritten.
SubmittedOnce ==
  \A r \in Recs :
    Cardinality({d \in Deciders :
      /\ deciders[d].rec = r
      /\ \/ deciders[d].pc \in {"execute", "record", "undo", "failed"}
         \/ decisions[d] = "executed"}) <= 1

\* Both together, as a run checks them.
RecommendationInv == TypeOK /\ SubmittedOnce

\* The action of an adopted recommendation is executed only on the facts the
\* recommendation rests on, by a decision on record.
ExecutedOnItsFacts ==
  \A x \in executed : x.at = recs[x.rec].base /\ decisions[x.by] # "none"

\* When every request that took a recommendation is through, by whatever way
\* but a lost process, it is adopted only if its action was executed.
AdoptedMeansExecuted ==
  \A r \in Recs :
    (/\ recs[r].status = "adopted"
     /\ \A d \in Deciders : deciders[d].rec = r => deciders[d].pc \in {"refused", "done", "failed"})
    => \E x \in executed : x.rec = r

\* A deferral that was checked before the run moved on is still to be written,
\* over a recommendation that has been closed meanwhile.
ReopensLate(d, r) ==
  /\ DeciderAt(d, "decide") /\ deciders[d].rec = r /\ deciders[d].kind = "defer"
  /\ ~ Open(r) /\ recs[r].base < run.version

\* A recommendation that an undelivered event has made old is closed for good
\* in the end, in spite of failing handlers and whatever is decided meanwhile.
\* There is one way out: a late deferral, which names its row by the id alone,
\* opens again what the event has closed, and no event is left to close it.
StaleIsClosed ==
  \A r \in Recs :
    (Open(r) /\ \E e \in events : e.version > recs[r].base /\ ~ Handles(e))
      ~> ([]~ Open(r) \/ \E d \in Deciders : ReopensLate(d, r))
=============================================================================
