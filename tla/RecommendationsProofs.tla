------------------------ MODULE RecommendationsProofs ------------------------
(***************************************************************************)
(* What holds of the recommendations for any number of requests, workers,  *)
(* recommendations, versions and faults: the types, that a recommendation  *)
(* goes to the kernel once, that its action is executed on its facts, and  *)
(* that one left adopted has been executed.                                *)
(*                                                                         *)
(* The updates name a row by its id alone, so that no process can rely on  *)
(* the status it has read.  What the proofs rest on is that no update      *)
(* brings a row back to "pending", from which alone it is reserved, that   *)
(* only a reservation makes it "adopted", and that its base version stays. *)
(***************************************************************************)
EXTENDS Recommendations, FiniteSetTheorems, TLAPS

Statuses == {"absent", "pending", "deferred", "adopted", "rejected", "superseded", "expired"}
Row == [status : Statuses, base : 0 .. MaxVersion, expires : Times]
Worker ==
  [pc : {"free", "offer", "supersede", "look", "expire", "enqueue"},
   event : Events, list : SUBSET Recs, old : SUBSET Recs,
   base : 0 .. MaxVersion, time : 0 .. MaxVersion]
DeciderPc ==
  {"asking", "refused", "decide", "reserve", "execute", "record", "undo", "done", "failed", "lost"}
Decider ==
  [pc : DeciderPc, rec : 0 .. MaxRecs, kind : {"none", "adopt", "reject", "defer"},
   until : Times, result : {"none", "accepted", "refused", "error"}]

\* Virtual time moves with a version, so that it stays within the bound.
Timely == run.time <= run.version

\* A request that is past its check names a recommendation.
Chosen(d) ==
  /\ deciders[d].pc \in {"decide", "reserve", "execute", "record", "undo"}
       => deciders[d].rec \in Recs
  /\ deciders[d].pc = "record" => deciders[d].result \in {"accepted", "refused"}

\* A row that is past the reservation, and will be for ever.
Past(r) == recs[r].status \notin {"absent", "pending"}

Submitted(d) ==
  deciders[d].pc \in {"execute", "record", "undo", "failed"} \/ decisions[d] = "executed"

\* Whoever took a recommendation to the kernel has made it unfit for another.
SubmittedIsPast ==
  \A d \in Deciders : Submitted(d) => deciders[d].rec \in Recs /\ Past(deciders[d].rec)
SubmittedAlone ==
  \A d, e \in Deciders :
    Submitted(d) /\ Submitted(e) /\ deciders[d].rec = deciders[e].rec => d = e

\* An execution rests on the facts of a row past the reservation, and on a
\* decision that was written before it.
DecidedFirst(d) ==
  /\ deciders[d].pc = "asking" => decisions[d] = "none"
  /\ deciders[d].pc \in {"execute", "record", "undo"} => decisions[d] # "none"
ExecutedIsPast == \A x \in executed : Past(x.rec)

\* Someone is still at an adopted recommendation, was lost, or has executed it.
Holds(d) == deciders[d].pc \in {"execute", "record", "undo", "lost"}
WasExecuted(r) == \E x \in executed : x.rec = r
AdoptedIsHeld ==
  \A r \in Recs : recs[r].status = "adopted" =>
    (\E d \in Deciders : deciders[d].rec = r /\ Holds(d)) \/ WasExecuted(r)
AcceptedIsExecuted(d) ==
  deciders[d].pc = "record" /\ deciders[d].result = "accepted" => WasExecuted(deciders[d].rec)

IInv ==
  /\ TypeOK /\ Timely
  /\ SubmittedIsPast /\ SubmittedAlone
  /\ ExecutedIsPast /\ ExecutedOnItsFacts
  /\ AdoptedIsHeld
  /\ \A d \in Deciders : Chosen(d) /\ DecidedFirst(d) /\ AcceptedIsExecuted(d)

-----------------------------------------------------------------------------
(* Types                                                                    *)

LEMMA Typing ==
  TypeOK <=>
    /\ run \in [version : 0 .. MaxVersion, time : 0 .. MaxVersion]
    /\ events \subseteq Events
    /\ recs \in [Recs -> Row]
    /\ deciders \in [Deciders -> Decider]
    /\ decisions \in [Deciders -> {"none", "made", "executed"}]
    /\ workers \in [Workers -> Worker]
    /\ executed \subseteq [by : Deciders, rec : Recs, at : 0 .. MaxVersion]
    /\ requests \in 0 .. MaxRequests
    /\ faults \in 0 .. MaxFaults
BY DEF TypeOK, Row, Statuses, Worker, Decider, DeciderPc

\* The constants the records start from.
LEMMA Blank ==
  /\ 0 \in 0 .. MaxVersion /\ 0 \in 0 .. MaxRecs /\ 0 \in Times
  /\ Absent \in Row /\ NoEvent \in Events /\ Free \in Worker /\ Asking \in Decider
  <1>1. 0 \in 0 .. MaxVersion /\ 0 \in 0 .. MaxRecs /\ 0 \in Times
    BY RecommendationAssumption DEF Times
  <1>2. NoEvent \in Events
    BY <1>1 DEF NoEvent, Events
  <1> QED
    BY <1>1, <1>2 DEF Absent, Row, Statuses, Free, Worker, Asking, Decider, DeciderPc

\* A commit keeps the run within its bounds.
LEMMA CommitsType ==
  ASSUME TypeOK, Timely, NEW clock \in BOOLEAN, Commits(clock)
  PROVE  /\ run' \in [version : 0 .. MaxVersion, time : 0 .. MaxVersion]
         /\ events' \subseteq Events
         /\ Timely'
  <1>1. /\ run.version \in 0 .. MaxVersion /\ run.time \in 0 .. MaxVersion
        /\ run.version < MaxVersion /\ run.time <= run.version /\ MaxVersion \in Nat
    BY RecommendationAssumption DEF TypeOK, Commits, Timely
  <1>2. /\ run.version + 1 \in 0 .. MaxVersion /\ run.time + 1 \in 0 .. MaxVersion
        /\ run.time + 1 <= run.version + 1 /\ run.time <= run.version + 1
    BY <1>1
  <1>3. run' = [version |-> run.version + 1, time |-> IF clock THEN run.time + 1 ELSE run.time]
    BY DEF Commits
  <1>4. [version |-> run.version + 1, clock |-> clock] \in Events
    BY <1>2 DEF Events
  <1> QED
    BY <1>1, <1>2, <1>3, <1>4 DEF TypeOK, Timely, Commits

\* Setting the status of some rows.
LEMMA SetType ==
  ASSUME TypeOK, NEW rs, NEW status \in Statuses
  PROVE  Set(rs, status) \in [Recs -> Row]
BY Typing DEF Set, Row

\* A worker that enters.
LEMMA EnterType ==
  ASSUME TypeOK, NEW worker \in Worker, Enter(worker)
  PROVE  workers' \in [Workers -> Worker]
  <1> DEFINE free == {w \in Workers : WorkerAt(w, "free")}
  <1>1. (CHOOSE w \in free : TRUE) \in Workers
    BY DEF Enter
  <1> QED
    BY <1>1, Typing DEF Enter, Moves

\* What the steps of the run and of the workers do to the types.
LEMMA BackgroundType ==
  ASSUME IInv, Command \/ StartOffer \/ StartEnqueue \/ (\E e \in events : ReadStale(e))
  PROVE  TypeOK' /\ Timely'
  <1>1. CASE Command
    BY <1>1, CommitsType, Typing DEF Command, IInv, TypeOK
  <1>2. CASE StartOffer
    <2>1. [Free EXCEPT !.pc = "offer", !.base = run.version, !.time = run.time] \in Worker
      BY Blank DEF IInv, TypeOK, Worker
    <2> QED
      BY <1>2, <2>1, EnterType, Typing DEF StartOffer, IInv, TypeOK, Timely, Worker
  <1>3. CASE StartEnqueue
    <2>1. PICK old \in {{}} \cup {{r} : r \in {x \in Recs : Open(x) /\ ~ Due(x)}} :
            Enter([Free EXCEPT !.pc = "enqueue", !.list = {r \in Recs : Due(r)}, !.old = old])
      BY <1>3 DEF StartEnqueue
    <2>2. [Free EXCEPT !.pc = "enqueue", !.list = {r \in Recs : Due(r)}, !.old = old] \in Worker
      <3>1. old \in SUBSET Recs /\ {r \in Recs : Due(r)} \in SUBSET Recs
        OBVIOUS
      <3> QED
        BY <3>1, Blank DEF Worker
    <2>3. requests' \in 0 .. MaxRequests
      <3>1. requests \in 0 .. MaxRequests /\ MaxRequests \in Nat
        BY RecommendationAssumption DEF IInv, TypeOK
      <3>2. requests < MaxRequests /\ requests' = requests + 1
        BY <1>3 DEF StartEnqueue
      <3> QED
        BY <3>1, <3>2
    <2> QED
      BY <1>3, <2>1, <2>2, <2>3, EnterType, Typing DEF StartEnqueue, IInv, TypeOK, Timely, Worker
  <1>4. ASSUME NEW e \in events, ReadStale(e) PROVE TypeOK' /\ Timely'
    <2>1. [Free EXCEPT !.pc = "supersede", !.event = e, !.list = {r \in Recs : Stale(r)}] \in Worker
      BY Blank DEF IInv, TypeOK, Worker
    <2> QED
      BY <1>4, <2>1, EnterType, Typing DEF ReadStale, IInv, TypeOK, Timely, Worker
  <1> QED
    BY <1>1, <1>2, <1>3, <1>4

LEMMA WorkType ==
  ASSUME IInv, NEW w \in Workers, Work(w) \/ WorkerFails(w)
  PROVE  TypeOK' /\ Timely'
  <1>1. \A x \in Worker : Moves(w, x) => workers' \in [Workers -> Worker]
    BY Typing DEF Moves, IInv
  <1>2. /\ TypeOK /\ Timely /\ Free \in Worker /\ workers[w] \in Worker /\ recs \in [Recs -> Row]
    BY Blank, Typing DEF IInv
  <1>3. ASSUME NEW event, events' = events \ {event} PROVE events' \subseteq Events
    BY <1>3 DEF IInv, TypeOK
  <1>4. ASSUME recs' \in [Recs -> Row], workers' \in [Workers -> Worker], events' \subseteq Events,
               UNCHANGED <<run, deciders, decisions, executed, requests>>,
               faults' \in 0 .. MaxFaults
        PROVE  TypeOK' /\ Timely'
    BY <1>4, <1>2, Typing DEF TypeOK, Timely, Row, Statuses, Worker
  <1>5. events \subseteq Events /\ faults \in 0 .. MaxFaults
    BY <1>2 DEF TypeOK
  <1>6. CASE Offer(w)
    <2>1. workers[w].base \in 0 .. MaxVersion /\ workers[w].time + Window \in Times
      BY <1>2, RecommendationAssumption DEF Worker, Times
    <2>2. [status |-> "pending", base |-> workers[w].base,
           expires |-> workers[w].time + Window] \in Row
      BY <2>1 DEF Row, Statuses
    <2>3. recs' \in [Recs -> Row]
      BY <1>2, <1>6, <2>2 DEF Offer
    <2> QED
      BY <1>1, <1>2, <1>4, <1>5, <1>6, <2>3 DEF Offer
  <1>7. CASE Supersede(w)
    <2>1. recs' \in [Recs -> Row]
      BY <1>2, <1>7, SetType DEF Supersede, Statuses
    <2>2. [workers[w] EXCEPT !.pc = "look", !.list = {}] \in Worker
      BY <1>2 DEF Worker
    <2> QED
      BY <1>1, <1>2, <1>3, <1>4, <1>5, <1>7, <2>1, <2>2 DEF Supersede
  <1>8. CASE ReadDue(w)
    <2>1. [workers[w] EXCEPT !.pc = "expire", !.list = {r \in Recs : Due(r)}] \in Worker
      BY <1>2 DEF Worker
    <2> QED
      BY <1>1, <1>2, <1>4, <1>5, <1>8, <2>1 DEF ReadDue
  <1>9. CASE Expire(w)
    <2>1. recs' \in [Recs -> Row]
      BY <1>2, <1>9, SetType DEF Expire, Statuses
    <2> QED
      BY <1>1, <1>2, <1>3, <1>4, <1>5, <1>9, <2>1 DEF Expire
  <1>10. CASE Enqueue(w)
    <2>1. Set(workers[w].list, "expired") \in [Recs -> Row]
      BY <1>2, SetType DEF Statuses
    <2>2. recs' \in [Recs -> Row]
      BY <1>2, <1>10, <2>1 DEF Enqueue, Row, Statuses
    <2> QED
      BY <1>1, <1>2, <1>4, <1>5, <1>10, <2>2 DEF Enqueue
  <1>11. CASE WorkerFails(w)
    <2>1. faults' \in 0 .. MaxFaults
      BY <1>5, <1>11, RecommendationAssumption DEF WorkerFails, Fault
    <2> QED
      BY <1>1, <1>2, <1>4, <1>5, <1>11, <2>1 DEF WorkerFails
  <1> QED
    BY <1>6, <1>7, <1>8, <1>9, <1>10, <1>11 DEF Work

-----------------------------------------------------------------------------
(* Rows                                                                     *)

\* What every step but a reservation does to a row.
RowMoves(r) ==
  /\ Past(r) => Past(r)' /\ recs'[r].base = recs[r].base
  /\ recs'[r].status = "adopted" => recs[r].status = "adopted"

LEMMA RowStays == ASSUME NEW r \in Recs, UNCHANGED recs PROVE RowMoves(r)
BY DEF RowMoves, Past

\* A row whose status is set, to no matter what but the first two.
LEMMA RowIsSet ==
  ASSUME TypeOK, NEW r \in Recs, NEW status \in Statuses \ {"absent", "pending", "adopted"},
         recs'[r] = [recs[r] EXCEPT !.status = status]
  PROVE  RowMoves(r)
  <1>1. recs[r] \in Row
    BY Typing
  <1>2. recs'[r].status = status /\ recs'[r].base = recs[r].base
    BY <1>1 DEF Row
  <1> QED
    BY <1>2 DEF RowMoves, Past

LEMMA SetMoves ==
  ASSUME TypeOK, NEW rs, NEW status \in Statuses \ {"absent", "pending", "adopted"},
         recs' = Set(rs, status)
  PROVE  \A r \in Recs : RowMoves(r)
  <1>1. ASSUME NEW r \in Recs, r \in rs PROVE RowMoves(r)
    BY <1>1, RowIsSet DEF Set
  <1>2. ASSUME NEW r \in Recs, r \notin rs PROVE RowMoves(r)
    BY <1>2 DEF Set, RowMoves, Past
  <1> QED
    BY <1>1, <1>2

LEMMA BackgroundRows ==
  ASSUME IInv,
         \/ Command \/ StartOffer \/ StartEnqueue \/ \E e \in events : ReadStale(e)
         \/ \E w \in Workers : Work(w) \/ WorkerFails(w)
  PROVE  (\A r \in Recs : RowMoves(r)) /\ UNCHANGED <<deciders, decisions, executed>>
  <1>1. CASE Command \/ StartOffer \/ StartEnqueue \/ \E e \in events : ReadStale(e)
    BY <1>1, RowStays DEF Command, StartOffer, StartEnqueue, ReadStale
  <1>2. ASSUME NEW w \in Workers, Work(w) \/ WorkerFails(w)
        PROVE  (\A r \in Recs : RowMoves(r)) /\ UNCHANGED <<deciders, decisions, executed>>
    <2>1. TypeOK
      BY DEF IInv
    <2>2. CASE Offer(w)
      <3>1. PICK r \in Recs :
              /\ recs[r] = Absent
              /\ recs' = [recs EXCEPT ![r] = [status |-> "pending", base |-> workers[w].base,
                                             expires |-> workers[w].time + Window]]
        BY <2>2 DEF Offer
      <3>2. recs'[r].status = "pending" /\ recs[r].status = "absent"
        BY <2>1, <3>1, Typing DEF Absent
      <3>3. ASSUME NEW x \in Recs PROVE RowMoves(x)
        <4>1. CASE x = r
          BY <3>2, <4>1 DEF RowMoves, Past
        <4>2. CASE x # r
          BY <2>1, <3>1, <4>2, Typing DEF RowMoves, Past
        <4> QED
          BY <4>1, <4>2
      <3> QED
        BY <2>2, <3>3 DEF Offer
    <2>3. CASE Supersede(w)
      BY <2>1, <2>3, SetMoves DEF Supersede, Statuses
    <2>4. CASE ReadDue(w) \/ WorkerFails(w)
      BY <2>4, RowStays DEF ReadDue, WorkerFails
    <2>5. CASE Expire(w)
      BY <2>1, <2>5, SetMoves DEF Expire, Statuses
    <2>6. CASE Enqueue(w)
      <3>1. ASSUME NEW r \in Recs PROVE RowMoves(r)
        <4>1. CASE r \in workers[w].old \/ r \in workers[w].list
          BY <2>1, <2>6, <4>1, RowIsSet DEF Enqueue, Set, Statuses
        <4>2. CASE r \notin workers[w].old /\ r \notin workers[w].list
          BY <2>6, <4>2 DEF Enqueue, Set, RowMoves, Past
        <4> QED
          BY <4>1, <4>2
      <3> QED
        BY <2>6, <3>1 DEF Enqueue
    <2> QED
      BY <1>2, <2>2, <2>3, <2>4, <2>5, <2>6 DEF Work
  <1> QED
    BY <1>1, <1>2

\* Then everything that was said of the requests that decide still holds.
LEMMA BackgroundInv ==
  ASSUME IInv,
         \/ Command \/ StartOffer \/ StartEnqueue \/ \E e \in events : ReadStale(e)
         \/ \E w \in Workers : Work(w) \/ WorkerFails(w)
  PROVE  IInv'
  <1>1. TypeOK' /\ Timely'
    BY BackgroundType, WorkType
  <1>2. (\A r \in Recs : RowMoves(r)) /\ UNCHANGED <<deciders, decisions, executed>>
    BY BackgroundRows
  <1>3. \A d \in Deciders : Chosen(d)' /\ DecidedFirst(d)' /\ AcceptedIsExecuted(d)'
    BY <1>2 DEF IInv, Chosen, DecidedFirst, AcceptedIsExecuted, WasExecuted
  <1>4. SubmittedIsPast'
    BY <1>2 DEF IInv, SubmittedIsPast, Submitted, RowMoves
  <1>5. SubmittedAlone'
    BY <1>2 DEF IInv, SubmittedAlone, Submitted
  <1>6. \A x \in executed : x.rec \in Recs
    BY DEF IInv, TypeOK
  <1>7. ExecutedIsPast' /\ ExecutedOnItsFacts'
    BY <1>2, <1>6 DEF IInv, ExecutedIsPast, ExecutedOnItsFacts, RowMoves
  <1>8. AdoptedIsHeld'
    BY <1>2 DEF IInv, AdoptedIsHeld, Holds, WasExecuted, RowMoves
  <1> QED
    BY <1>1, <1>3, <1>4, <1>5, <1>7, <1>8 DEF IInv

-----------------------------------------------------------------------------
(* Requests that decide                                                     *)

LEMMA EndsType ==
  ASSUME TypeOK, NEW d \in Deciders, NEW pc \in DeciderPc, Ends(d, pc)
  PROVE  /\ deciders' \in [Deciders -> Decider]
         /\ deciders'[d].pc = pc /\ deciders'[d].rec = deciders[d].rec
         /\ \A e \in Deciders : e # d => deciders'[e] = deciders[e]
  <1>1. deciders \in [Deciders -> Decider] /\ Asking \in Decider /\ deciders[d] \in Decider
    BY Typing, Blank
  <1> DEFINE ended == [Asking EXCEPT !.pc = pc, !.rec = deciders[d].rec]
  <1>2. ended \in Decider /\ ended.pc = pc /\ ended.rec = deciders[d].rec
    BY <1>1 DEF Decider
  <1>3. deciders' = [deciders EXCEPT ![d] = ended]
    BY DEF Ends
  <1> HIDE DEF ended
  <1> QED
    BY <1>1, <1>2, <1>3

\* The rest of the invariant, when request d makes a step that takes no row
\* for the kernel: what the step has to show for d itself.
LEMMA DeciderMoves ==
  ASSUME IInv, NEW d \in Deciders, TypeOK', Timely',
         \A r \in Recs : RowMoves(r),
         \A e \in Deciders : e # d =>
            deciders'[e] = deciders[e] /\ decisions'[e] = decisions[e],
         decisions'[d] = "none" => decisions[d] = "none",
         Submitted(d)' => Submitted(d) /\ deciders'[d].rec = deciders[d].rec,
         Holds(d) => /\ deciders'[d].rec = deciders[d].rec
                     /\ \/ Holds(d)' \/ WasExecuted(deciders[d].rec)
                        \/ recs'[deciders[d].rec].status # "adopted",
         executed \subseteq executed',
         \A x \in executed' \ executed :
            Past(x.rec)' /\ x.at = recs'[x.rec].base /\ decisions'[x.by] # "none",
         Chosen(d)', DecidedFirst(d)', AcceptedIsExecuted(d)'
  PROVE  IInv'
  <1>1. ASSUME NEW e \in Deciders, Submitted(e)'
        PROVE  Submitted(e) /\ deciders'[e].rec = deciders[e].rec
    BY <1>1 DEF Submitted
  <1>2. SubmittedIsPast'
    BY <1>1 DEF IInv, SubmittedIsPast, RowMoves
  <1>3. SubmittedAlone'
    BY <1>1 DEF IInv, SubmittedAlone
  <1>4. ASSUME NEW x \in executed'
        PROVE  Past(x.rec)' /\ x.at = recs'[x.rec].base /\ decisions'[x.by] # "none"
    <2>1. CASE x \in executed
      <3>1. x.rec \in Recs /\ x.by \in Deciders
        BY <2>1 DEF IInv, TypeOK
      <3>2. Past(x.rec) /\ x.at = recs[x.rec].base /\ decisions[x.by] # "none"
        BY <2>1 DEF IInv, ExecutedIsPast, ExecutedOnItsFacts
      <3> QED
        BY <3>1, <3>2 DEF RowMoves
    <2> QED
      BY <1>4, <2>1
  <1>5. ExecutedIsPast' /\ ExecutedOnItsFacts'
    BY <1>4 DEF ExecutedIsPast, ExecutedOnItsFacts
  <1>6. \A r : WasExecuted(r) => WasExecuted(r)'
    BY DEF WasExecuted
  <1>7. ASSUME NEW e \in Deciders
        PROVE  Chosen(e)' /\ DecidedFirst(e)' /\ AcceptedIsExecuted(e)'
    BY <1>6 DEF IInv, Chosen, DecidedFirst, AcceptedIsExecuted
  <1>8. AdoptedIsHeld'
    <2> SUFFICES ASSUME NEW r \in Recs, recs'[r].status = "adopted"
                 PROVE  (\E e \in Deciders : deciders'[e].rec = r /\ Holds(e)') \/ WasExecuted(r)'
      BY DEF AdoptedIsHeld
    <2>1. (\E e \in Deciders : deciders[e].rec = r /\ Holds(e)) \/ WasExecuted(r)
      BY DEF IInv, AdoptedIsHeld, RowMoves
    <2>2. ASSUME NEW e \in Deciders, e # d, deciders[e].rec = r, Holds(e)
          PROVE  deciders'[e].rec = r /\ Holds(e)'
      BY <2>2 DEF Holds
    <2> QED
      BY <1>6, <2>1, <2>2
  <1> QED
    BY <1>2, <1>3, <1>5, <1>7, <1>8 DEF IInv

\* Every step of a request keeps the types.
LEMMA DeciderType ==
  ASSUME IInv, NEW d \in Deciders, DecideOn(d)
  PROVE  TypeOK' /\ Timely'
  <1>1. /\ TypeOK /\ Timely /\ recs \in [Recs -> Row] /\ deciders \in [Deciders -> Decider]
        /\ deciders[d] \in Decider /\ Asking \in Decider
        /\ decisions \in [Deciders -> {"none", "made", "executed"}]
        /\ faults \in 0 .. MaxFaults
    BY Typing, Blank DEF IInv
  <1>2. \A pc \in DeciderPc : Ends(d, pc) => deciders' \in [Deciders -> Decider]
    BY <1>1, EndsType
  <1>3. Fault => faults' \in 0 .. MaxFaults
    <2>1. faults \in Nat /\ MaxFaults \in Nat
      BY <1>1, RecommendationAssumption
    <2>2. Fault => faults < MaxFaults /\ faults' = faults + 1
      BY DEF Fault
    <2> QED
      BY <2>1, <2>2
  <1>4. \A status \in Statuses :
          [recs EXCEPT ![deciders[d].rec].status = status] \in [Recs -> Row]
    BY <1>1 DEF Row
  <1>5. Withdrawn(d) \in [Recs -> Row]
    BY <1>1, <1>4 DEF Withdrawn, Statuses
  <1>6. \A result \in {"accepted", "refused", "error"} :
          Executed(d, result) => deciders' \in [Deciders -> Decider]
    <2>1. ASSUME NEW result \in {"accepted", "refused", "error"}, NEW pc \in DeciderPc
          PROVE  [deciders EXCEPT ![d].result = result, ![d].pc = pc] \in [Deciders -> Decider]
      BY <1>1, <2>1 DEF Decider
    <2>2. "undo" \in DeciderPc /\ "record" \in DeciderPc
      BY DEF DeciderPc
    <2>3. ASSUME NEW result \in {"accepted", "refused", "error"}, Executed(d, result)
          PROVE  deciders' \in [Deciders -> Decider]
      <3>1. CASE result = "error"
        BY <2>1, <2>2, <2>3, <3>1 DEF Executed
      <3>2. CASE result # "error"
        BY <2>1, <2>2, <2>3, <3>2 DEF Executed
      <3> QED
        BY <3>1, <3>2
    <2> QED
      BY <2>3
  <1>7. ASSUME recs' \in [Recs -> Row], deciders' \in [Deciders -> Decider],
               decisions' \in [Deciders -> {"none", "made", "executed"}],
               faults' \in 0 .. MaxFaults,
               UNCHANGED <<run, events, workers, executed, requests>>
        PROVE  TypeOK' /\ Timely'
    BY <1>1, <1>7, Typing DEF TypeOK, Timely, Row, Statuses, Decider, DeciderPc
  <1>8. CASE Check(d)
    <2>1. PICK r \in Recs, kind \in {"adopt", "reject", "defer"} :
            IF Decidable(r)
            THEN deciders' = [deciders EXCEPT ![d] =
                   [Asking EXCEPT !.pc = IF kind = "adopt" THEN "reserve" ELSE "decide",
                      !.rec = r, !.kind = kind,
                      !.until = IF kind = "defer" THEN run.time + Deferral ELSE recs[r].expires]]
            ELSE Ends(d, "refused")
      BY <1>8 DEF Check
    <2>2. run.time + Deferral \in Times /\ recs[r].expires \in Times /\ r \in 0 .. MaxRecs
      BY <1>1, RecommendationAssumption DEF TypeOK, Times, Row, Recs
    <2>3. deciders' \in [Deciders -> Decider]
      <3>1. CASE Decidable(r)
        <4>1. [Asking EXCEPT !.pc = IF kind = "adopt" THEN "reserve" ELSE "decide",
                 !.rec = r, !.kind = kind,
                 !.until = IF kind = "defer" THEN run.time + Deferral ELSE recs[r].expires]
                \in Decider
          BY <1>1, <2>2 DEF Decider, DeciderPc
        <4> QED
          BY <1>1, <2>1, <3>1, <4>1
      <3>2. CASE ~ Decidable(r)
        BY <1>2, <2>1, <3>2 DEF DeciderPc
      <3> QED
        BY <3>1, <3>2
    <2> QED
      BY <1>1, <1>7, <1>8, <2>3 DEF Check
  <1>9. CASE Decide(d)
    <2>1. deciders[d].until \in Times
      BY <1>1 DEF Decider
    <2>2. recs' \in [Recs -> Row]
      <3>1. ASSUME NEW status \in Statuses, NEW until \in Times
            PROVE  [recs EXCEPT ![deciders[d].rec].status = status,
                                ![deciders[d].rec].expires = until] \in [Recs -> Row]
        BY <1>1, <3>1 DEF Row
      <3>2. "rejected" \in Statuses /\ "deferred" \in Statuses
        BY DEF Statuses
      <3>3. CASE deciders[d].kind = "reject"
        BY <1>9, <2>1, <3>1, <3>2, <3>3 DEF Decide
      <3>4. CASE deciders[d].kind # "reject"
        BY <1>9, <2>1, <3>1, <3>2, <3>4 DEF Decide
      <3> QED
        BY <3>3, <3>4
    <2> QED
      BY <1>1, <1>2, <1>7, <1>9, <2>2 DEF Decide, DeciderPc
  <1>10. CASE Reserve(d)
    <2>1. [deciders EXCEPT ![d].pc = "execute"] \in [Deciders -> Decider]
      BY <1>1 DEF Decider, DeciderPc
    <2> QED
      BY <1>1, <1>2, <1>4, <1>7, <1>10, <2>1 DEF Reserve, DeciderPc, Statuses
  <1>11. CASE Accept(d) \/ Refuse(d)
    <2>1. run' \in [version : 0 .. MaxVersion, time : 0 .. MaxVersion]
          /\ events' \subseteq Events /\ Timely'
      BY <1>1, <1>11, CommitsType DEF Accept, Refuse, TypeOK, Timely
    <2>2. executed' \subseteq [by : Deciders, rec : Recs, at : 0 .. MaxVersion]
      <3>1. executed \subseteq [by : Deciders, rec : Recs, at : 0 .. MaxVersion]
        BY <1>1 DEF TypeOK
      <3>2. ASSUME Accept(d)
            PROVE  [by |-> d, rec |-> deciders[d].rec, at |-> run.version]
                     \in [by : Deciders, rec : Recs, at : 0 .. MaxVersion]
        BY <3>2 DEF Accept, IInv, Chosen, DeciderAt, TypeOK
      <3>3. CASE Accept(d)
        BY <3>1, <3>2, <3>3 DEF Accept
      <3>4. CASE Refuse(d)
        BY <3>1, <3>4 DEF Refuse
      <3> QED
        BY <1>11, <3>3, <3>4
    <2>3. deciders' \in [Deciders -> Decider] /\ faults' \in 0 .. MaxFaults
      BY <1>1, <1>3, <1>6, <1>11 DEF Accept, Refuse
    <2> QED
      BY <1>1, <1>11, <2>1, <2>2, <2>3, Typing
         DEF Accept, Refuse, TypeOK, Row, Statuses, Decider, DeciderPc
  <1>12. CASE Throw(d)
    BY <1>1, <1>3, <1>6, <1>7, <1>12 DEF Throw
  <1>13. CASE Record(d) \/ Undo(d)
    BY <1>1, <1>2, <1>5, <1>7, <1>13 DEF Record, Undo, DeciderPc
  <1>14. CASE RecordFails(d)
    <2>1. [deciders EXCEPT ![d].pc = "undo"] \in [Deciders -> Decider]
      BY <1>1 DEF Decider, DeciderPc
    <2> QED
      BY <1>1, <1>3, <1>7, <1>14, <2>1 DEF RecordFails
  <1>15. CASE DeciderDies(d)
    BY <1>1, <1>2, <1>3, <1>7, <1>15 DEF DeciderDies, DeciderPc
  <1> QED
    BY <1>8, <1>9, <1>10, <1>11, <1>12, <1>13, <1>14, <1>15 DEF DecideOn

\* The row of request d gets another status, or none does.
LEMMA WithdrawnMoves ==
  ASSUME TypeOK, NEW d \in Deciders, recs' = Withdrawn(d)
  PROVE  /\ \A r \in Recs : RowMoves(r)
         /\ deciders[d].rec \in Recs => recs'[deciders[d].rec].status # "adopted"
  <1>1. recs \in [Recs -> Row]
    BY Typing
  <1>2. CASE Taken(d)
    <2>1. ASSUME NEW r \in Recs PROVE RowMoves(r)
      <3>1. CASE r = deciders[d].rec
        BY <1>1, <1>2, <3>1, RowIsSet DEF Withdrawn, Statuses
      <3>2. CASE r # deciders[d].rec
        BY <1>1, <1>2, <3>2 DEF Withdrawn, RowMoves, Past
      <3> QED
        BY <3>1, <3>2
    <2>2. deciders[d].rec \in Recs => recs'[deciders[d].rec].status = "superseded"
      BY <1>1, <1>2 DEF Withdrawn, Row
    <2> QED
      BY <2>1, <2>2
  <1>3. CASE ~ Taken(d)
    BY <1>3, RowStays DEF Withdrawn, Taken
  <1> QED
    BY <1>2, <1>3

\* A request that ends: refused, done, failed or lost.
LEMMA EndingInv ==
  ASSUME IInv, NEW d \in Deciders, TypeOK', Timely',
         \A r \in Recs : RowMoves(r), UNCHANGED executed,
         NEW pc \in {"refused", "done", "failed", "lost"}, Ends(d, pc),
         \A e \in Deciders : e # d => decisions'[e] = decisions[e],
         decisions'[d] = "none" => decisions[d] = "none",
         pc = "failed" \/ decisions'[d] = "executed" => Submitted(d),
         Holds(d) => \/ pc = "lost" \/ WasExecuted(deciders[d].rec)
                     \/ recs'[deciders[d].rec].status # "adopted"
  PROVE  IInv'
  <1>1. TypeOK /\ pc \in DeciderPc
    BY DEF IInv, DeciderPc
  <1>2. /\ deciders'[d].pc = pc /\ deciders'[d].rec = deciders[d].rec
        /\ \A e \in Deciders : e # d => deciders'[e] = deciders[e]
    BY <1>1, EndsType
  <1>3. Chosen(d)' /\ DecidedFirst(d)' /\ AcceptedIsExecuted(d)'
    BY <1>2 DEF Chosen, DecidedFirst, AcceptedIsExecuted
  <1>4. Submitted(d)' => Submitted(d)
    BY <1>2 DEF Submitted
  <1>5. pc = "lost" => Holds(d)'
    BY <1>2 DEF Holds
  <1>6. \A x \in executed' \ executed : FALSE
    OBVIOUS
  <1> QED
    BY <1>2, <1>3, <1>4, <1>5, <1>6, DeciderMoves

\* The steps that end a request.
LEMMA EndInv ==
  ASSUME IInv, NEW d \in Deciders, TypeOK', Timely',
         \/ (Check(d) \/ Reserve(d)) /\ Ends(d, "refused")
         \/ Decide(d) \/ Record(d) \/ Undo(d) \/ DeciderDies(d)
  PROVE  IInv'
  <1>1. /\ TypeOK /\ recs \in [Recs -> Row] /\ Chosen(d) /\ AcceptedIsExecuted(d)
        /\ deciders \in [Deciders -> Decider]
        /\ decisions \in [Deciders -> {"none", "made", "executed"}]
    BY Typing DEF IInv
  <1>2. CASE Check(d) /\ Ends(d, "refused")
    <2>1. UNCHANGED <<recs, decisions, executed>> /\ ~ Holds(d)
      BY <1>2 DEF Check, DeciderAt, Holds
    <2> QED
      BY <1>2, <2>1, RowStays, EndingInv DEF Submitted
  <1>3. CASE Decide(d)
    <2>1. Ends(d, "done") /\ UNCHANGED executed /\ ~ Holds(d) /\ deciders[d].rec \in Recs
      BY <1>1, <1>3 DEF Decide, DeciderAt, Holds, Chosen
    <2>2. decisions'[d] = "made" /\ \A e \in Deciders : e # d => decisions'[e] = decisions[e]
      BY <1>1, <1>3 DEF Decide
    <2>3. ASSUME NEW r \in Recs PROVE RowMoves(r)
      <3>1. CASE r = deciders[d].rec
        <4>1. /\ recs'[r].status \in {"rejected", "deferred"}
              /\ recs'[r].base = recs[r].base
          BY <1>1, <1>3, <3>1 DEF Decide, Row
        <4> QED
          BY <4>1 DEF RowMoves, Past
      <3>2. CASE r # deciders[d].rec
        <4>1. recs'[r] = recs[r]
          BY <1>1, <1>3, <3>2 DEF Decide
        <4> QED
          BY <4>1 DEF RowMoves, Past
      <3> QED
        BY <3>1, <3>2
    <2> QED
      BY <2>1, <2>2, <2>3, EndingInv
  <1>4. CASE Reserve(d) /\ Ends(d, "refused")
    <2>1. ~ Holds(d) /\ UNCHANGED <<recs, decisions, executed>>
      <3>1. deciders[d].pc = "reserve"
        BY <1>4 DEF Reserve, DeciderAt
      <3>2. deciders'[d].pc # "execute"
        BY <1>1, <1>4, EndsType DEF DeciderPc
      <3>3. [deciders EXCEPT ![d].pc = "execute"][d].pc = "execute"
        BY <1>1 DEF Decider
      <3> QED
        BY <1>4, <3>1, <3>2, <3>3 DEF Reserve, Holds
    <2> QED
      BY <1>4, <2>1, RowStays, EndingInv DEF Submitted
  <1>5. CASE Record(d)
    <2>1. /\ Ends(d, "done") /\ UNCHANGED executed
          /\ deciders[d].pc = "record" /\ deciders[d].rec \in Recs
          /\ deciders[d].result \in {"accepted", "refused"}
      BY <1>1, <1>5 DEF Record, DeciderAt, Chosen
    <2>2. decisions'[d] = "executed" /\ \A e \in Deciders : e # d => decisions'[e] = decisions[e]
      BY <1>1, <1>5 DEF Record
    <2>3. CASE deciders[d].result = "accepted"
      BY <1>1, <1>5, <2>1, <2>2, <2>3, RowStays, EndingInv
         DEF Record, AcceptedIsExecuted, Submitted
    <2>4. CASE deciders[d].result = "refused"
      <3>1. recs' = Withdrawn(d)
        BY <1>5, <2>4 DEF Record
      <3> QED
        BY <1>1, <2>1, <2>2, <3>1, WithdrawnMoves, EndingInv DEF Submitted
    <2> QED
      BY <2>1, <2>3, <2>4
  <1>6. CASE Undo(d)
    <2>1. /\ Ends(d, "failed") /\ UNCHANGED <<executed, decisions>>
          /\ deciders[d].pc = "undo" /\ deciders[d].rec \in Recs /\ recs' = Withdrawn(d)
      BY <1>1, <1>6 DEF Undo, DeciderAt, Chosen
    <2> QED
      BY <1>1, <2>1, WithdrawnMoves, EndingInv DEF Submitted
  <1>7. CASE DeciderDies(d)
    <2>1. Ends(d, "lost") /\ UNCHANGED <<recs, decisions, executed>>
      BY <1>7 DEF DeciderDies
    <2> QED
      BY <2>1, RowStays, EndingInv DEF Submitted
  <1> QED
    BY <1>2, <1>3, <1>4, <1>5, <1>6, <1>7

\* A check that finds the recommendation open chooses it.
LEMMA CheckInv ==
  ASSUME IInv, NEW d \in Deciders, TypeOK', Timely', Check(d), ~ Ends(d, "refused")
  PROVE  IInv'
  <1>1. deciders \in [Deciders -> Decider] /\ UNCHANGED <<recs, decisions, executed>>
        /\ deciders[d].pc = "asking" /\ \A r \in Recs : RowMoves(r)
    BY Typing, RowStays DEF IInv, Check, DeciderAt
  <1>2. PICK r \in Recs, kind \in {"adopt", "reject", "defer"} :
          deciders' = [deciders EXCEPT ![d] =
            [Asking EXCEPT !.pc = IF kind = "adopt" THEN "reserve" ELSE "decide",
               !.rec = r, !.kind = kind,
               !.until = IF kind = "defer" THEN run.time + Deferral ELSE recs[r].expires]]
    BY DEF Check
  <1>3. /\ deciders'[d].pc \in {"reserve", "decide"} /\ deciders'[d].rec = r
        /\ \A e \in Deciders : e # d => deciders'[e] = deciders[e]
    BY <1>1, <1>2 DEF Asking
  <1>4. Chosen(d)' /\ DecidedFirst(d)' /\ AcceptedIsExecuted(d)' /\ ~ Holds(d)
    BY <1>1, <1>3 DEF Chosen, DecidedFirst, AcceptedIsExecuted, Holds
  <1>5. decisions[d] = "none"
    BY <1>1 DEF IInv, DecidedFirst
  <1>6. ~ Submitted(d)'
    BY <1>1, <1>3, <1>5 DEF Submitted
  <1> QED
    BY <1>1, <1>3, <1>4, <1>6, DeciderMoves

\* A reservation takes the row; nobody else has, for the row was pending.
LEMMA ReserveInv ==
  ASSUME IInv, NEW d \in Deciders, TypeOK', Timely', Reserve(d), ~ Ends(d, "refused")
  PROVE  IInv'
  <1> DEFINE mine == deciders[d].rec
  <1>1. /\ deciders \in [Deciders -> Decider] /\ recs \in [Recs -> Row]
        /\ decisions \in [Deciders -> {"none", "made", "executed"}]
        /\ executed \subseteq [by : Deciders, rec : Recs, at : 0 .. MaxVersion]
        /\ deciders[d].pc = "reserve" /\ recs[mine].status = "pending"
        /\ recs' = [recs EXCEPT ![mine].status = "adopted"]
        /\ decisions' = [decisions EXCEPT ![d] = "made"]
        /\ deciders' = [deciders EXCEPT ![d].pc = "execute"]
        /\ UNCHANGED executed
    BY Typing DEF IInv, TypeOK, Reserve, DeciderAt
  <1>2. mine \in Recs
    BY <1>1 DEF IInv, Chosen
  <1>3. /\ deciders'[d].pc = "execute" /\ deciders'[d].rec = mine /\ decisions'[d] = "made"
        /\ \A e \in Deciders : e # d => deciders'[e] = deciders[e] /\ decisions'[e] = decisions[e]
    BY <1>1 DEF Decider
  <1>4. /\ recs'[mine].status = "adopted" /\ recs'[mine].base = recs[mine].base
        /\ \A r \in Recs : r # mine => recs'[r] = recs[r]
    BY <1>1, <1>2 DEF Row
  <1> HIDE DEF mine
  <1>5. ~ Past(mine) /\ \A r \in Recs : Past(r) => Past(r)' /\ recs'[r].base = recs[r].base
    BY <1>1, <1>4 DEF Past
  <1>6. \A e \in Deciders : e # d /\ Submitted(e)' => Submitted(e) /\ deciders'[e].rec # mine
    <2>1. ASSUME NEW e \in Deciders, e # d, Submitted(e)'
          PROVE  Submitted(e) /\ deciders'[e].rec # mine
      <3>1. Submitted(e) /\ deciders'[e].rec = deciders[e].rec
        BY <1>3, <2>1 DEF Submitted
      <3>2. Past(deciders[e].rec)
        BY <3>1 DEF IInv, SubmittedIsPast
      <3> QED
        BY <1>5, <3>1, <3>2
    <2> QED
      BY <2>1
  <1>7. SubmittedIsPast'
    <2>1. ASSUME NEW e \in Deciders, e # d, Submitted(e)'
          PROVE  deciders'[e].rec \in Recs
                 /\ recs'[deciders'[e].rec].status \notin {"absent", "pending"}
      <3>1. deciders[e].rec \in Recs /\ Past(deciders[e].rec)
        BY <1>6, <2>1 DEF IInv, SubmittedIsPast
      <3>2. deciders'[e].rec = deciders[e].rec
        BY <1>3, <2>1
      <3> QED
        BY <1>5, <3>1, <3>2 DEF Past
    <2>2. deciders'[d].rec \in Recs
          /\ recs'[deciders'[d].rec].status \notin {"absent", "pending"}
      BY <1>2, <1>3, <1>4
    <2> QED
      BY <2>1, <2>2 DEF SubmittedIsPast, Past
  <1>8. SubmittedAlone'
    BY <1>3, <1>6 DEF IInv, SubmittedAlone
  <1>9. ExecutedIsPast' /\ ExecutedOnItsFacts'
    BY <1>1, <1>3, <1>5 DEF IInv, ExecutedIsPast, ExecutedOnItsFacts
  <1>10. AdoptedIsHeld'
    <2>1. ASSUME NEW r \in Recs, r # mine, recs'[r].status = "adopted"
          PROVE  (\E e \in Deciders : deciders'[e].rec = r /\ Holds(e)') \/ WasExecuted(r)'
      <3>1. (\E e \in Deciders : deciders[e].rec = r /\ Holds(e)) \/ WasExecuted(r)
        BY <1>4, <2>1 DEF IInv, AdoptedIsHeld
      <3> QED
        BY <1>1, <1>3, <2>1, <3>1 DEF Holds, WasExecuted
    <2>2. deciders'[d].rec = mine /\ Holds(d)'
      BY <1>3 DEF Holds
    <2> QED
      BY <2>1, <2>2 DEF AdoptedIsHeld
  <1>11. ASSUME NEW e \in Deciders
         PROVE  Chosen(e)' /\ DecidedFirst(e)' /\ AcceptedIsExecuted(e)'
    <2>1. CASE e = d
      BY <1>2, <1>3, <2>1 DEF Chosen, DecidedFirst, AcceptedIsExecuted
    <2>2. CASE e # d
      BY <1>1, <1>3, <2>2 DEF IInv, Chosen, DecidedFirst, AcceptedIsExecuted, WasExecuted
    <2> QED
      BY <2>1, <2>2
  <1> QED
    BY <1>7, <1>8, <1>9, <1>10, <1>11 DEF IInv

\* The kernel's answer, or none, and a record that fails.
LEMMA KernelInv ==
  ASSUME IInv, NEW d \in Deciders, TypeOK', Timely',
         Accept(d) \/ Refuse(d) \/ Throw(d) \/ RecordFails(d)
  PROVE  IInv'
  <1>1. /\ deciders \in [Deciders -> Decider] /\ UNCHANGED <<recs, decisions>>
        /\ deciders[d].pc \in {"execute", "record"} /\ \A r \in Recs : RowMoves(r)
        /\ executed \subseteq executed'
    BY Typing, RowStays DEF IInv, Accept, Refuse, Throw, RecordFails, DeciderAt
  <1>2. /\ deciders'[d].pc \in {"record", "undo"} /\ deciders'[d].rec = deciders[d].rec
        /\ \A e \in Deciders : e # d => deciders'[e] = deciders[e]
        /\ deciders'[d].pc = "record" => deciders'[d].result \in {"accepted", "refused"}
        /\ deciders'[d].pc = "record" /\ deciders'[d].result = "accepted" => Accept(d)
    <2>1. ASSUME NEW result \in {"accepted", "refused", "error"}, Executed(d, result)
          PROVE  /\ deciders'[d].pc = IF result = "error" THEN "undo" ELSE "record"
                 /\ deciders'[d].rec = deciders[d].rec /\ deciders'[d].result = result
                 /\ \A e \in Deciders : e # d => deciders'[e] = deciders[e]
      BY <1>1, <2>1 DEF Executed, Decider
    <2>2. CASE Accept(d)
      BY <2>1, <2>2 DEF Accept
    <2>3. CASE Refuse(d)
      BY <2>1, <2>3 DEF Refuse
    <2>4. CASE Throw(d)
      BY <2>1, <2>4 DEF Throw
    <2>5. CASE RecordFails(d)
      BY <1>1, <2>5 DEF RecordFails, Decider
    <2> QED
      BY <2>2, <2>3, <2>4, <2>5
  <1>3. /\ Submitted(d) /\ deciders[d].rec \in Recs /\ Past(deciders[d].rec)
        /\ decisions[d] # "none"
    BY <1>1 DEF IInv, Submitted, SubmittedIsPast, DecidedFirst
  <1>4. Chosen(d)' /\ DecidedFirst(d)' /\ Holds(d)'
    BY <1>1, <1>2, <1>3 DEF Chosen, DecidedFirst, Holds
  <1>5. AcceptedIsExecuted(d)'
    <2>1. ASSUME Accept(d) PROVE \E x \in executed' : x.rec = deciders[d].rec
      <3>1. [by |-> d, rec |-> deciders[d].rec, at |-> run.version] \in executed'
        BY <2>1 DEF Accept
      <3> QED
        BY <3>1
    <2> QED
      BY <1>2, <2>1 DEF AcceptedIsExecuted, WasExecuted
  <1>6. ASSUME NEW x \in executed' \ executed
        PROVE  Past(x.rec)' /\ x.at = recs'[x.rec].base /\ decisions'[x.by] # "none"
    <2>1. x = [by |-> d, rec |-> deciders[d].rec, at |-> run.version]
          /\ run.version = recs[deciders[d].rec].base
      BY <1>6 DEF Accept, Refuse, Throw, RecordFails, Expects
    <2> QED
      BY <1>1, <1>3, <2>1 DEF Past
  <1> QED
    BY <1>1, <1>2, <1>3, <1>4, <1>5, <1>6, DeciderMoves

-----------------------------------------------------------------------------
(* The theorems                                                             *)

LEMMA InitInv == ASSUME Init PROVE IInv
  <1>1. TypeOK
    <2>1. run \in [version : 0 .. MaxVersion, time : 0 .. MaxVersion]
      BY Blank DEF Init
    <2>2. 0 \in 0 .. MaxRequests /\ 0 \in 0 .. MaxFaults
      BY RecommendationAssumption
    <2> QED
      BY <2>1, <2>2, Blank, Typing DEF Init
  <1>2. \A d \in Deciders : deciders[d].pc = "asking" /\ decisions[d] = "none"
    BY DEF Init, Asking
  <1>3. Timely /\ executed = {} /\ \A r \in Recs : recs[r].status = "absent"
    BY DEF Init, Timely, Absent
  <1> QED
    BY <1>1, <1>2, <1>3
       DEF IInv, SubmittedIsPast, SubmittedAlone, Submitted, ExecutedIsPast, ExecutedOnItsFacts,
           AdoptedIsHeld, Chosen, DecidedFirst, AcceptedIsExecuted

LEMMA NextInv == ASSUME IInv, [Next]_vars PROVE IInv'
  <1>1. CASE \/ Command \/ StartOffer \/ StartEnqueue \/ \E e \in events : ReadStale(e)
             \/ \E w \in Workers : Work(w) \/ WorkerFails(w)
    BY <1>1, BackgroundInv
  <1>2. ASSUME NEW d \in Deciders, DecideOn(d) PROVE IInv'
    <2>1. TypeOK' /\ Timely'
      BY <1>2, DeciderType
    <2>2. CASE Check(d)
      BY <2>1, <2>2, EndInv, CheckInv
    <2>3. CASE Reserve(d)
      BY <2>1, <2>3, EndInv, ReserveInv
    <2>4. CASE Decide(d) \/ Record(d) \/ Undo(d) \/ DeciderDies(d)
      BY <2>1, <2>4, EndInv
    <2>5. CASE Accept(d) \/ Refuse(d) \/ Throw(d) \/ RecordFails(d)
      BY <2>1, <2>5, KernelInv
    <2> QED
      BY <1>2, <2>2, <2>3, <2>4, <2>5 DEF DecideOn
  <1>3. CASE UNCHANGED vars
    BY <1>3
       DEF vars, IInv, TypeOK, Timely, SubmittedIsPast, SubmittedAlone, Submitted, Past,
           ExecutedIsPast, ExecutedOnItsFacts, AdoptedIsHeld, Holds, WasExecuted, Chosen,
           DecidedFirst, AcceptedIsExecuted
  <1> QED
    BY <1>1, <1>2, <1>3 DEF Next

\* The invariant holds of every state a Run's recommendations can reach.
THEOREM Invariant == Spec => []IInv
  <1> QED
    BY InitInv, NextInv, PTL DEF Spec

\* At most one decision takes a recommendation to the kernel: decideWithKernel
\* reserves only what is pending, and nothing ever is pending again.
THEOREM RecommendationIsSubmittedOnce == Spec => []RecommendationInv
  <1>1. ASSUME IInv, NEW r \in Recs
        PROVE  Cardinality({d \in Deciders :
                 /\ deciders[d].rec = r
                 /\ \/ deciders[d].pc \in {"execute", "record", "undo", "failed"}
                    \/ decisions[d] = "executed"}) <= 1
    <2> DEFINE takers == {d \in Deciders :
                 /\ deciders[d].rec = r
                 /\ \/ deciders[d].pc \in {"execute", "record", "undo", "failed"}
                    \/ decisions[d] = "executed"}
    <2>1. \A d, e \in takers : d = e
      BY <1>1 DEF IInv, SubmittedAlone, Submitted
    <2>2. takers = {} \/ \E d : takers = {d}
      BY <2>1
    <2> HIDE DEF takers
    <2>3. Cardinality(takers) <= 1
      <3>1. CASE takers = {}
        BY <3>1, FS_EmptySet
      <3>2. ASSUME NEW d, takers = {d} PROVE Cardinality(takers) <= 1
        <4>1. Cardinality({d}) = 1
          BY FS_Singleton
        <4> QED
          BY <3>2, <4>1
      <3> QED
        BY <2>2, <3>1, <3>2
    <2> QED
      BY <2>3 DEF takers
  <1>2. IInv => RecommendationInv
    BY <1>1 DEF IInv, RecommendationInv, SubmittedOnce
  <1> QED
    BY <1>2, Invariant, PTL

\* The action of a recommendation is executed at the version of its facts, by
\* a decision that was on record before.
THEOREM ExecutionsRestOnTheirFacts == Spec => []ExecutedOnItsFacts
  <1>1. IInv => ExecutedOnItsFacts
    BY DEF IInv
  <1> QED
    BY <1>1, Invariant, PTL

\* A recommendation that all requests have left adopted has been executed: a
\* refused or failed one is withdrawn by its request.
THEOREM AdoptedRecommendationsWereExecuted == Spec => []AdoptedMeansExecuted
  <1>1. IInv => AdoptedMeansExecuted
    <2> SUFFICES ASSUME IInv, NEW r \in Recs, recs[r].status = "adopted",
                        \A d \in Deciders :
                          deciders[d].rec = r => deciders[d].pc \in {"refused", "done", "failed"}
                 PROVE  \E x \in executed : x.rec = r
      BY DEF AdoptedMeansExecuted
    <2> QED
      BY DEF IInv, AdoptedIsHeld, Holds, WasExecuted
  <1> QED
    BY <1>1, Invariant, PTL
=============================================================================
