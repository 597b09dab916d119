------------------------- MODULE RunSchedulerProofs -------------------------
(***************************************************************************)
(* What holds of the tick scheduling for any number of workflow slots,     *)
(* commands and faults and any horizon: its types, that the minutes of the *)
(* run are its ticks, that a decision window is overtaken by one tick at   *)
(* most, that a late cancel message leaves the current lease alone, and    *)
(* that it implements TickClock.                                           *)
(*                                                                         *)
(* TicksAreMinutes is inductive together with TypeOK: only the two actions *)
(* that commit a tick touch minute, nextTick and ticks, and both are       *)
(* guarded by TickAllowed, which ties the index of the tick to nextTick.   *)
(* WindowInv adds why the tick that overtakes a window is the last: its    *)
(* workflow has the one lease, and nobody past the check gets it again.    *)
(***************************************************************************)
EXTENDS RunScheduler, TLAPS

\* A claim takes a slot of Flows.
LEMMA UnusedChoice ==
  ASSUME Unused # {}
  PROVE  (CHOOSE f \in Unused : TRUE) \in Flows
BY DEF Unused

\* What the two committing actions do to the run, its ticks and the outbox.
LEMMA AdvanceType ==
  ASSUME TypeOK, NEW f \in Flows, Advance(f)
  PROVE  /\ run' \in [status : {"created", "running", "paused", "completed"},
                      version : Nat, generation : Nat, nextTick : Nat, minute : Nat]
         /\ outbox' \subseteq [type : {Start, Cancel}, generation : Nat]
         /\ ticks' \subseteq Nat \X Nat
  <1>1. /\ flows[f].tick \in Nat /\ flows[f].generation \in Nat
        /\ run.version + 1 \in Nat /\ run.generation + 1 \in Nat /\ run.minute + 1 \in Nat
    BY DEF TypeOK
  <1>2. run' \in [status : {"created", "running", "paused", "completed"},
                  version : Nat, generation : Nat, nextTick : Nat, minute : Nat]
    BY <1>1 DEF TypeOK, Advance
  <1>3. outbox' \subseteq [type : {Start, Cancel}, generation : Nat]
    BY <1>1 DEF TypeOK, Advance, CancelMessage
  <1>4. ticks' \subseteq Nat \X Nat
    BY <1>1 DEF TypeOK, Advance
  <1> QED
    BY <1>2, <1>3, <1>4

\* A run before its first command.
LEMMA InitTypeOK == ASSUME Init PROVE TypeOK
  <1>1. 0 \in 0 .. MaxCommands /\ 0 \in 0 .. MaxFaults
    BY SchedulerAssumption
  <1>2. Free \in [pc : Pc, generation : Nat, tick : Nat, seen : Nat,
                  from : {"none", "outbox", "cron"}]
    BY DEF Free, Pc
  <1>3. NoLease \in [generation : Nat, holder : Flows \cup {"none"}, live : BOOLEAN]
    BY DEF NoLease
  <1>4. flows \in [Flows -> [pc : Pc, generation : Nat, tick : Nat, seen : Nat,
                            from : {"none", "outbox", "cron"}]]
    BY <1>2 DEF Init
  <1> QED
    BY <1>1, <1>3, <1>4 DEF Init, TypeOK

\* A user's command, the decision window and the expiry keep the types.
LEMMA UserTypeOK == ASSUME TypeOK, User PROVE TypeOK'
  <1>1. /\ run.version + 1 \in Nat /\ run.generation + 1 \in Nat /\ run.minute \in Nat
        /\ commands < MaxCommands => commands + 1 \in 0 .. MaxCommands
    BY SchedulerAssumption DEF TypeOK
  <1>2. ASSUME NEW status \in {"created", "running", "paused", "completed"},
               UserCommand,
               Commit(status, Start) \/ Commit(status, Cancel)
        PROVE  TypeOK'
    <2>1. run' \in [status : {"created", "running", "paused", "completed"},
                    version : Nat, generation : Nat, nextTick : Nat, minute : Nat]
      BY <1>1, <1>2 DEF TypeOK, Commit
    <2>2. outbox' \subseteq [type : {Start, Cancel}, generation : Nat]
      BY <1>1, <1>2 DEF TypeOK, Commit
    <2> QED
      BY <1>1, <1>2, <2>1, <2>2 DEF TypeOK, UserCommand
  <1>3. CASE StartRun \/ PauseRun \/ ResumeRun \/ FinishRun
    BY <1>2, <1>3 DEF StartRun, PauseRun, ResumeRun, FinishRun
  <1>4. CASE OtherCommand
    BY <1>1, <1>4 DEF TypeOK, OtherCommand, UserCommand
  <1>5. CASE OpenWindow
    BY <1>1, <1>5 DEF TypeOK, OpenWindow
  <1>6. CASE CloseWindow
    <2>1. blocked' \in BOOLEAN /\ opened' \in Nat
      BY <1>6 DEF CloseWindow
    <2> QED
      BY <1>6, <2>1 DEF TypeOK, CloseWindow
  <1>7. CASE Expire
    BY <1>7 DEF TypeOK, Expire
  <1> QED
    BY <1>3, <1>4, <1>5, <1>6, <1>7 DEF User

\* A claim puts a typed lease and a typed workflow in place.
LEMMA ClaimTypeOK ==
  ASSUME TypeOK, NEW g \in Nat, NEW source \in {"outbox", "cron"}, Claim(g, source)
  PROVE  /\ lease' \in [generation : Nat, holder : Flows \cup {"none"}, live : BOOLEAN]
         /\ flows' \in [Flows -> [pc : Pc, generation : Nat, tick : Nat, seen : Nat,
                                  from : {"none", "outbox", "cron"}]]
  <1> DEFINE f == CHOOSE f \in Unused : TRUE
  <1>1. f \in Flows
    BY UnusedChoice DEF Claim
  <1>2. run.nextTick + 1 \in Nat
    BY DEF TypeOK
  <1>3. /\ lease' = [generation |-> g, holder |-> f, live |-> TRUE]
        /\ flows' = [flows EXCEPT ![f] = [pc |-> "starting", generation |-> g,
                       tick |-> run.nextTick + 1, seen |-> 0, from |-> source]]
    BY DEF Claim
  <1> HIDE DEF f
  <1> QED
    BY <1>1, <1>2, <1>3 DEF TypeOK, Pc

\* Delivered messages and the cron keep the types.
LEMMA DeliveryTypeOK ==
  ASSUME TypeOK, (\E m \in outbox : Deliver(m)) \/ Reconcile
  PROVE  TypeOK'
  <1>1. ASSUME NEW m \in outbox, Deliver(m) PROVE TypeOK'
    <2>1. m.generation \in Nat
      BY <1>1 DEF TypeOK
    <2>2. CASE DeliverStart(m)
      BY <2>1, <2>2, ClaimTypeOK DEF TypeOK, DeliverStart
    <2>3. CASE DropStart(m)
      BY <2>3 DEF TypeOK, DropStart
    <2>4. CASE DeliverCancel(m)
      BY <2>4, SchedulerAssumption DEF TypeOK, DeliverCancel, Cancelled, NoLease, Fault
    <2> QED
      BY <1>1, <2>2, <2>3, <2>4 DEF Deliver
  <1>2. CASE Reconcile
    <2>1. run.generation \in Nat
      BY DEF TypeOK
    <2> QED
      BY <1>2, <2>1, ClaimTypeOK DEF TypeOK, Reconcile
  <1> QED
    BY <1>1, <1>2

\* A step of a workflow, or a fault in one.
LEMMA WorkflowTypeOK ==
  ASSUME TypeOK, NEW f \in Flows, WorkflowStep(f) \/ WorkflowFault(f)
  PROVE  TypeOK'
  <1> DEFINE Flow == [pc : Pc, generation : Nat, tick : Nat, seen : Nat,
                      from : {"none", "outbox", "cron"}]
  <1>1. /\ flows \in [Flows -> Flow] /\ Free \in Flow
        /\ run.version \in Nat /\ flows[f].tick + 1 \in Nat
    BY DEF TypeOK, Free, Pc
  <1>2. \A pc \in Pc : Goto(f, pc) => flows' \in [Flows -> Flow]
    BY <1>1 DEF Goto
  <1>3. End(f) => flows' \in [Flows -> Flow]
    BY <1>1 DEF End
  <1>4. NextTick(f) => flows' \in [Flows -> Flow]
    BY <1>1 DEF NextTick, Pc
  <1>5. \A pc \in Pc, k \in Nat :
          [flows EXCEPT ![f].pc = pc, ![f].seen = k] \in [Flows -> Flow]
    <2>1. TAKE pc \in Pc, k \in Nat
    <2>2. [flows EXCEPT ![f].pc = pc] \in [Flows -> Flow]
      BY <1>1
    <2> QED
      BY <2>2
  <1>6. Fault => faults' \in 0 .. MaxFaults
    BY SchedulerAssumption DEF TypeOK, Fault
  <1>7. AfterRelease(f) \in [generation : Nat, holder : Flows \cup {"none"}, live : BOOLEAN]
    BY DEF TypeOK, AfterRelease, NoLease
  <1> HIDE DEF Flow
  <1>8. ASSUME flows' \in [Flows -> Flow] PROVE
          flows' \in [Flows -> [pc : Pc, generation : Nat, tick : Nat, seen : Nat,
                                from : {"none", "outbox", "cron"}]]
    BY <1>8 DEF Flow
  <1>9. {"begin", "sleep", "tick", "check", "read", "release"} \subseteq Pc
    BY DEF Pc
  <1>10. CASE Launch(f)
    BY <1>2, <1>6, <1>8, <1>9, <1>10 DEF TypeOK, Launch
  <1>11. CASE FirstRenewal(f)
    BY <1>2, <1>3, <1>8, <1>9, <1>11 DEF TypeOK, FirstRenewal
  <1>12. CASE Wake(f)
    BY <1>2, <1>8, <1>9, <1>12 DEF TypeOK, Wake
  <1>13. CASE TickRenewal(f)
    BY <1>2, <1>8, <1>9, <1>13 DEF TypeOK, TickRenewal
  <1>14. CASE CheckBlocker(f)
    BY <1>2, <1>8, <1>9, <1>14 DEF TypeOK, CheckBlocker
  <1>15. CASE ReadRun(f)
    <2>1. [flows EXCEPT ![f].pc = "commit", ![f].seen = run.version] \in [Flows -> Flow]
      BY <1>1, <1>5 DEF Pc
    <2> QED
      BY <1>2, <1>8, <1>9, <1>15, <2>1 DEF TypeOK, ReadRun
  <1>16. CASE TickDuplicate(f)
    BY <1>2, <1>8, <1>9, <1>16 DEF TypeOK, TickDuplicate
  <1>17. CASE TickRejected(f)
    BY <1>4, <1>8, <1>17 DEF TypeOK, TickRejected
  <1>18. CASE TickCommits(f)
    BY <1>4, <1>8, <1>18, AdvanceType DEF TypeOK, TickCommits
  <1>19. CASE Release(f)
    BY <1>3, <1>7, <1>8, <1>19 DEF TypeOK, Release
  <1>20. CASE LaunchFails(f)
    BY <1>2, <1>3, <1>6, <1>7, <1>8, <1>9, <1>20 DEF TypeOK, LaunchFails
  <1>21. CASE LauncherDies(f)
    BY <1>3, <1>6, <1>8, <1>21 DEF TypeOK, LauncherDies
  <1>22. CASE CommitAnswerLost(f)
    BY <1>5, <1>6, <1>8, <1>9, <1>22, AdvanceType DEF TypeOK, CommitAnswerLost
  <1>23. CASE StepFails(f)
    <2>1. PICK pc \in {"tick", "release"} : flows' = [flows EXCEPT ![f].pc = pc, ![f].seen = 0]
      BY <1>23 DEF StepFails
    <2>2. flows' \in [Flows -> Flow]
      BY <1>5, <1>9, <2>1
    <2> QED
      BY <1>6, <1>8, <1>23, <2>2 DEF TypeOK, StepFails
  <1>24. CASE WorkflowDies(f)
    BY <1>3, <1>6, <1>8, <1>24 DEF TypeOK, WorkflowDies
  <1> QED
    BY <1>10, <1>11, <1>12, <1>13, <1>14, <1>15, <1>16, <1>17, <1>18, <1>19, <1>20,
       <1>21, <1>22, <1>23, <1>24 DEF WorkflowStep, WorkflowFault

\* A lease that runs out keeps its holder and its generation.
LEMMA LeaseTypeOK ==
  ASSUME TypeOK, AbandonedLeaseExpires \/ StalledLeaseExpires
  PROVE  TypeOK'
  <1>1. lease' \in [generation : Nat, holder : Flows \cup {"none"}, live : BOOLEAN]
    BY DEF TypeOK, AbandonedLeaseExpires, StalledLeaseExpires, LeaseRunsOut
  <1>2. faults' \in 0 .. MaxFaults
    BY SchedulerAssumption DEF TypeOK, AbandonedLeaseExpires, StalledLeaseExpires, Fault
  <1> QED
    BY <1>1, <1>2 DEF TypeOK, AbandonedLeaseExpires, StalledLeaseExpires, LeaseRunsOut

\* Every step keeps the types.
LEMMA NextTypeOK == ASSUME TypeOK, [Next]_vars PROVE TypeOK'
  <1>1. CASE Next
    BY <1>1, UserTypeOK, DeliveryTypeOK, WorkflowTypeOK, LeaseTypeOK DEF Next
  <1>2. CASE UNCHANGED vars
    BY <1>2 DEF vars, TypeOK
  <1> QED
    BY <1>1, <1>2

\* Every variable of the scheduling has its type in every reachable state.
THEOREM TypeCorrect == Spec => []TypeOK
  <1> QED
    BY InitTypeOK, NextTypeOK, PTL DEF Spec

-----------------------------------------------------------------------------
(* The minutes of the run are its ticks                                     *)

\* Committing a tick adds the one minute, index and tick that come next.
LEMMA AdvanceTicks ==
  ASSUME TypeOK, TicksAreMinutes, NEW f \in Flows, TickAllowed(f), Advance(f)
  PROVE  TicksAreMinutes'
  <1> DEFINE n == run.nextTick
             t == <<flows[f].generation, flows[f].tick>>
  <1>1. /\ n \in Nat /\ run.minute = n /\ flows[f].tick = n + 1
        /\ run'.minute = n + 1 /\ run'.nextTick = n + 1
    BY DEF TypeOK, TicksAreMinutes, TickAllowed, Advance
  <1>2. ticks' = ticks \cup {t} /\ t[2] = n + 1
    BY <1>1 DEF Advance
  <1>3. \A s \in ticks : s[2] \in 1 .. n
    BY DEF TicksAreMinutes
  <1>4. {s[2] : s \in ticks'} = 1 .. n + 1
    <2>1. {s[2] : s \in ticks'} = (1 .. n) \cup {n + 1}
      BY <1>2 DEF TicksAreMinutes
    <2> QED
      BY <1>1, <2>1
  <1>5. \A s \in ticks : s[2] # t[2]
    BY <1>1, <1>2, <1>3
  <1>6. \A r, s \in ticks' : r[2] = s[2] => r = s
    BY <1>2, <1>5 DEF TicksAreMinutes
  <1> QED
    BY <1>1, <1>4, <1>6 DEF TicksAreMinutes

\* Nothing else touches what TicksAreMinutes speaks of.
LEMMA OthersKeepTicks ==
  ASSUME TypeOK, [Next]_vars,
         ~ \E f \in Flows : TickCommits(f) \/ CommitAnswerLost(f)
  PROVE  run'.minute = run.minute /\ run'.nextTick = run.nextTick /\ ticks' = ticks
  <1>1. CASE StartRun \/ PauseRun \/ ResumeRun \/ FinishRun \/ OtherCommand
    BY <1>1 DEF TypeOK, StartRun, PauseRun, ResumeRun, FinishRun, OtherCommand,
                UserCommand, Commit
  <1>2. CASE OpenWindow \/ CloseWindow \/ Expire
    BY <1>2 DEF OpenWindow, CloseWindow, Expire
  <1>3. CASE (\E m \in outbox : Deliver(m)) \/ Reconcile
    BY <1>3 DEF Deliver, DeliverStart, DropStart, DeliverCancel, Reconcile
  <1>4. CASE \E f \in Flows : WorkflowStep(f)
    BY <1>4 DEF WorkflowStep, Launch, FirstRenewal, Wake, TickRenewal, CheckBlocker,
                ReadRun, TickDuplicate, TickRejected, Release
  <1>5. CASE \E f \in Flows : WorkflowFault(f)
    BY <1>5 DEF WorkflowFault, LaunchFails, LauncherDies, StepFails, WorkflowDies
  <1>6. CASE AbandonedLeaseExpires \/ StalledLeaseExpires \/ UNCHANGED vars
    BY <1>6 DEF AbandonedLeaseExpires, StalledLeaseExpires, LeaseRunsOut, vars
  <1> QED
    BY <1>1, <1>2, <1>3, <1>4, <1>5, <1>6 DEF Next, User

\* Every minute of the run's virtual time was made by exactly one tick, and
\* the ticks are numbered without a gap, whatever is retried or superseded.
THEOREM MinutesAreTicks == Spec => []TickInv
  <1>1. ASSUME Init PROVE TicksAreMinutes
    BY <1>1 DEF Init, TicksAreMinutes
  <1>2. ASSUME TypeOK, TicksAreMinutes, [Next]_vars PROVE TicksAreMinutes'
    <2>1. CASE \E f \in Flows : TickCommits(f) \/ CommitAnswerLost(f)
      BY <1>2, <2>1, AdvanceTicks DEF TickCommits, CommitAnswerLost
    <2>2. CASE ~ \E f \in Flows : TickCommits(f) \/ CommitAnswerLost(f)
      BY <1>2, <2>2, OthersKeepTicks DEF TicksAreMinutes
    <2> QED
      BY <2>1, <2>2
  <1> QED
    BY <1>1, <1>2, TypeCorrect, PTL DEF Spec, TickInv

-----------------------------------------------------------------------------
(* The decision window                                                      *)

\* A workflow that holds the lease and has not met the window: its tick may
\* still be committed.
PastTheCheck(f) == flows[f].pc \in {"read", "commit"} /\ HoldsLease(f)

\* The window has seen one tick at most, and once it has, no other can follow.
WindowInv ==
  blocked =>
    /\ opened <= run.minute /\ run.minute <= opened + 1
    /\ run.minute = opened + 1 => \A f \in Flows : ~ PastTheCheck(f)

\* Who has not held the lease does not come to hold it: a claim goes to a new
\* holder id, and a lease that ran out is not renewed.
LEMMA HoldersStay ==
  ASSUME TypeOK, [Next]_vars, NEW f \in Flows, flows[f].pc \in {"read", "commit"},
         HoldsLease(f)', flows'[f].generation = flows[f].generation
  PROVE  HoldsLease(f)
  <1>1. CASE lease' = lease
    BY <1>1 DEF HoldsLease
  <1>2. CASE lease' = NoLease \/ ~ lease'.live
    BY <1>2 DEF HoldsLease, NoLease
  <1>3. ASSUME NEW g, NEW source, Claim(g, source) PROVE FALSE
    <2> DEFINE h == CHOOSE h \in Unused : TRUE
    <2>1. h \in Unused /\ lease' = [generation |-> g, holder |-> h, live |-> TRUE]
      BY <1>3 DEF Claim
    <2>2. h = f
      BY <2>1 DEF HoldsLease
    <2> QED
      BY <2>1, <2>2 DEF Unused
  <1>4. \/ lease' = lease \/ lease' = NoLease \/ ~ lease'.live
        \/ \E g, source : Claim(g, source)
    <2>1. CASE User \/ UNCHANGED vars
      BY <2>1 DEF User, StartRun, PauseRun, ResumeRun, FinishRun, OtherCommand, UserCommand,
                  OpenWindow, CloseWindow, Expire, vars
    <2>2. CASE (\E m \in outbox : Deliver(m)) \/ Reconcile
      BY <2>2 DEF Deliver, DeliverStart, DropStart, DeliverCancel, Cancelled, Reconcile
    <2>3. CASE \E g \in Flows : WorkflowStep(g)
      BY <2>3 DEF WorkflowStep, Launch, FirstRenewal, Wake, TickRenewal, CheckBlocker,
                  ReadRun, TickDuplicate, TickRejected, TickCommits, Release, AfterRelease
    <2>4. CASE \E g \in Flows : WorkflowFault(g)
      BY <2>4 DEF WorkflowFault, LaunchFails, LauncherDies, CommitAnswerLost, StepFails,
                  WorkflowDies, AfterRelease
    <2>5. CASE AbandonedLeaseExpires \/ StalledLeaseExpires
      BY <2>5 DEF TypeOK, AbandonedLeaseExpires, StalledLeaseExpires, LeaseRunsOut
    <2> QED
      BY <2>1, <2>2, <2>3, <2>4, <2>5 DEF Next
  <1> QED
    BY <1>1, <1>2, <1>3, <1>4

\* While the window is open nobody gets past the check.
LEMMA NobodyPasses ==
  ASSUME TypeOK, [Next]_vars, blocked, NEW f \in Flows, flows'[f].pc \in {"read", "commit"}
  PROVE  flows[f].pc \in {"read", "commit"} /\ flows'[f].generation = flows[f].generation
  <1>1. flows \in [Flows -> [pc : Pc, generation : Nat, tick : Nat, seen : Nat,
                            from : {"none", "outbox", "cron"}]]
    BY DEF TypeOK
  <1>2. CASE flows' = flows
    BY <1>2
  <1>3. ASSUME NEW g, NEW source, Claim(g, source)
        PROVE  flows'[f] = flows[f]
    <2> DEFINE h == CHOOSE h \in Unused : TRUE
               new == [pc |-> "starting", generation |-> g, tick |-> run.nextTick + 1,
                       seen |-> 0, from |-> source]
    <2>1. h \in Flows /\ flows' = [flows EXCEPT ![h] = new]
      BY <1>3, UnusedChoice DEF Claim
    <2>2. new.pc = "starting"
      OBVIOUS
    <2> HIDE DEF h, new
    <2>3. h # f
      BY <1>1, <2>1, <2>2
    <2> QED
      BY <1>1, <2>1, <2>3
  <1> DEFINE Waits == flows[f].pc \in {"read", "commit"}
                      /\ flows'[f].generation = flows[f].generation
  <1>4. ASSUME NEW g \in Flows, WorkflowStep(g) PROVE Waits
    <2>1. CASE Launch(g)
      BY <1>1, <2>1 DEF Launch, Goto, End, NextTick, Free
    <2>2. CASE FirstRenewal(g)
      BY <1>1, <2>2 DEF FirstRenewal, Goto, End, NextTick, Free
    <2>3. CASE Wake(g)
      BY <1>1, <2>3 DEF Wake, Goto, End, NextTick, Free
    <2>4. CASE TickRenewal(g)
      BY <1>1, <2>4 DEF TickRenewal, Goto, End, NextTick, Free
    <2>5. CASE CheckBlocker(g)
      BY <1>1, <2>5 DEF CheckBlocker, Goto, End, NextTick, Free
    <2>6. CASE ReadRun(g)
      BY <1>1, <2>6 DEF ReadRun, Goto, End, NextTick, Free
    <2>7. CASE TickDuplicate(g)
      BY <1>1, <2>7 DEF TickDuplicate, Goto, End, NextTick, Free
    <2>8. CASE TickRejected(g)
      BY <1>1, <2>8 DEF TickRejected, Goto, End, NextTick, Free
    <2>9. CASE TickCommits(g)
      BY <1>1, <2>9 DEF TickCommits, Goto, End, NextTick, Free
    <2>10. CASE Release(g)
      BY <1>1, <2>10 DEF Release, Goto, End, NextTick, Free
    <2> QED
      BY <1>4, <2>1, <2>2, <2>3, <2>4, <2>5, <2>6, <2>7, <2>8, <2>9, <2>10 DEF WorkflowStep
  <1>5. ASSUME NEW g \in Flows, WorkflowFault(g) PROVE Waits
    <2>1. CASE LaunchFails(g)
      BY <1>1, <2>1 DEF LaunchFails, Goto, End, NextTick, Free
    <2>2. CASE LauncherDies(g)
      BY <1>1, <2>2 DEF LauncherDies, Goto, End, NextTick, Free
    <2>3. CASE CommitAnswerLost(g)
      BY <1>1, <2>3 DEF CommitAnswerLost, Goto, End, NextTick, Free
    <2>4. CASE StepFails(g)
      BY <1>1, <2>4 DEF StepFails, Goto, End, NextTick, Free
    <2>5. CASE WorkflowDies(g)
      BY <1>1, <2>5 DEF WorkflowDies, Goto, End, NextTick, Free
    <2> QED
      BY <1>5, <2>1, <2>2, <2>3, <2>4, <2>5 DEF WorkflowFault
  <1>6. CASE User \/ UNCHANGED vars \/ AbandonedLeaseExpires \/ StalledLeaseExpires
    BY <1>2, <1>6 DEF User, StartRun, PauseRun, ResumeRun, FinishRun, OtherCommand, UserCommand,
         OpenWindow, CloseWindow, Expire, vars, AbandonedLeaseExpires, StalledLeaseExpires,
         LeaseRunsOut
  <1>7. CASE (\E m \in outbox : Deliver(m)) \/ Reconcile
    BY <1>2, <1>3, <1>7 DEF Deliver, DeliverStart, DropStart, DeliverCancel, Reconcile
  <1> QED
    BY <1>2, <1>4, <1>5, <1>6, <1>7 DEF Next

\* The one tick that was past the check: its workflow meets the window at its
\* next tick, and the lease was its own.
LEMMA LastTickPasses ==
  ASSUME TypeOK, WindowInv, NEW f \in Flows, TickCommits(f) \/ CommitAnswerLost(f)
  PROVE  WindowInv'
  <1>1. /\ flows[f].pc = "commit" /\ TickAllowed(f) /\ Advance(f)
        /\ UNCHANGED <<blocked, opened, lease>>
        /\ \A g \in Flows : g # f => flows'[g] = flows[g]
        /\ flows'[f].pc \in {"sleep", "tick"}
    BY DEF TypeOK, TickCommits, CommitAnswerLost, NextTick
  <1>2. run'.minute = run.minute + 1 /\ run.minute \in Nat /\ opened \in Nat
    BY <1>1 DEF TypeOK, Advance
  <1>3. PastTheCheck(f)
    BY <1>1 DEF PastTheCheck, TickAllowed
  <1>4. \A g \in Flows : ~ PastTheCheck(g)'
    <2> SUFFICES ASSUME NEW g \in Flows, PastTheCheck(g)'
                 PROVE  FALSE
      OBVIOUS
    <2>1. g # f
      BY <1>1 DEF PastTheCheck
    <2> QED
      BY <1>1, <1>3, <2>1 DEF PastTheCheck, HoldsLease
  <1> QED
    BY <1>1, <1>2, <1>3, <1>4 DEF WindowInv

\* A decision window that opens between the query of a tick and its transaction
\* is overtaken by that one tick; no other workflow and no later tick of this
\* one gets past the query, since there is one lease and it is not held again.
THEOREM WindowHoldsTheClock == Spec => []OneTickPastTheWindow
  <1>1. ASSUME Init PROVE WindowInv
    BY <1>1 DEF Init, WindowInv
  <1>2. ASSUME TypeOK, WindowInv, [Next]_vars PROVE WindowInv'
    <2>1. CASE \E f \in Flows : TickCommits(f) \/ CommitAnswerLost(f)
      BY <1>2, <2>1, LastTickPasses
    <2>2. CASE OpenWindow
      BY <1>2, <2>2 DEF TypeOK, OpenWindow, WindowInv
    <2>3. CASE CloseWindow
      BY <2>3 DEF CloseWindow, WindowInv
    <2>4. CASE /\ ~ \E f \in Flows : TickCommits(f) \/ CommitAnswerLost(f)
               /\ ~ OpenWindow /\ ~ CloseWindow
      <3>1. run'.minute = run.minute
        BY <1>2, <2>4, OthersKeepTicks
      <3>2. UNCHANGED <<blocked, opened>>
        BY <1>2, <2>4
           DEF Next, User, StartRun, PauseRun, ResumeRun, FinishRun, OtherCommand, UserCommand,
               Expire, Deliver, DeliverStart, DropStart, DeliverCancel, Reconcile, WorkflowStep,
               Launch, FirstRenewal, Wake, TickRenewal, CheckBlocker, ReadRun, TickDuplicate,
               TickRejected, Release, WorkflowFault, LaunchFails, LauncherDies, StepFails,
               WorkflowDies, AbandonedLeaseExpires, StalledLeaseExpires, LeaseRunsOut, vars
      <3>3. blocked => \A f \in Flows : PastTheCheck(f)' => PastTheCheck(f)
        BY <1>2, NobodyPasses, HoldersStay DEF PastTheCheck
      <3> QED
        BY <1>2, <3>1, <3>2, <3>3 DEF WindowInv
    <2> QED
      BY <2>1, <2>2, <2>3, <2>4
  <1>3. WindowInv => OneTickPastTheWindow
    BY DEF WindowInv, OneTickPastTheWindow
  <1> QED
    BY <1>1, <1>2, <1>3, TypeCorrect, PTL DEF Spec

-----------------------------------------------------------------------------
(* Late cancel messages                                                     *)

\* A message is written with the generation it speaks of.
MessagesAreOfThePast == \A m \in outbox : m.generation <= run.generation

LEMMA MessagesStay ==
  ASSUME TypeOK, MessagesAreOfThePast, [Next]_vars
  PROVE  MessagesAreOfThePast'
  <1>1. /\ run.generation \in Nat /\ \A m \in outbox : m.generation \in Nat
        /\ run \in [status : {"created", "running", "paused", "completed"},
                   version : Nat, generation : Nat, nextTick : Nat, minute : Nat]
    BY DEF TypeOK
  <1>2. ASSUME outbox' \subseteq outbox, run'.generation = run.generation
        PROVE  MessagesAreOfThePast'
    BY <1>2 DEF MessagesAreOfThePast
  <1>3. ASSUME NEW type,
               outbox' \subseteq outbox \cup {[type |-> type, generation |-> run.generation + 1]},
               run'.generation = run.generation + 1
        PROVE  MessagesAreOfThePast'
    BY <1>1, <1>3 DEF MessagesAreOfThePast
  <1>4. CASE StartRun \/ PauseRun \/ ResumeRun \/ FinishRun
    <2>1. \E status \in {"running", "paused", "completed"}, message \in {Start, Cancel} :
            Commit(status, message)
      BY <1>4 DEF StartRun, PauseRun, ResumeRun, FinishRun
    <2> QED
      BY <1>1, <1>3, <2>1 DEF Commit
  <1>5. CASE OtherCommand \/ OpenWindow \/ CloseWindow \/ Expire
    BY <1>1, <1>2, <1>5 DEF OtherCommand, UserCommand, OpenWindow, CloseWindow, Expire
  <1>6. CASE (\E m \in outbox : Deliver(m)) \/ Reconcile
    BY <1>2, <1>6 DEF Deliver, DeliverStart, DropStart, DeliverCancel, Reconcile
  <1>7. ASSUME NEW f \in Flows, Advance(f) PROVE MessagesAreOfThePast'
    <2>1. CASE run.minute + 1 = Horizon
      BY <1>1, <1>3, <1>7, <2>1 DEF Advance, CancelMessage
    <2>2. CASE run.minute + 1 # Horizon
      BY <1>1, <1>2, <1>7, <2>2 DEF Advance
    <2> QED
      BY <2>1, <2>2
  <1>8. ASSUME NEW f \in Flows, WorkflowStep(f) \/ WorkflowFault(f)
        PROVE  MessagesAreOfThePast'
    <2>1. CASE TickCommits(f) \/ CommitAnswerLost(f)
      BY <1>7, <2>1 DEF TickCommits, CommitAnswerLost
    <2>2. CASE Launch(f)
      BY <1>2, <2>2 DEF Launch
    <2>3. CASE ~ Launch(f) /\ ~ TickCommits(f) /\ ~ CommitAnswerLost(f)
      BY <1>2, <1>8, <2>3
         DEF WorkflowStep, FirstRenewal, Wake, TickRenewal, CheckBlocker, ReadRun,
             TickDuplicate, TickRejected, Release, WorkflowFault, LaunchFails, LauncherDies,
             StepFails, WorkflowDies
    <2> QED
      BY <2>1, <2>2, <2>3
  <1>9. CASE AbandonedLeaseExpires \/ StalledLeaseExpires \/ UNCHANGED vars
    BY <1>2, <1>9 DEF AbandonedLeaseExpires, StalledLeaseExpires, LeaseRunsOut, vars
  <1> QED
    BY <1>4, <1>5, <1>6, <1>8, <1>9 DEF Next, User

\* A cancel message that is delivered late, or once more, leaves the lease of
\* the current generation alone: it drops only what is older than itself.
THEOREM CancelsAreHarmless == Spec => CurrentLeaseSurvivesCancel
  <1>1. ASSUME Init PROVE MessagesAreOfThePast
    BY <1>1 DEF Init, MessagesAreOfThePast
  <1>2. ASSUME TypeOK, MessagesAreOfThePast, NEW m \in outbox, DeliverCancel(m),
               lease.generation = run.generation
        PROVE  lease' = lease
    <2>1. m.generation \in Nat /\ run.generation \in Nat /\ m.generation <= run.generation
      BY <1>2 DEF TypeOK, MessagesAreOfThePast
    <2>2. ~ (lease.generation < m.generation)
      BY <1>2, <2>1
    <2> QED
      BY <1>2, <2>2 DEF DeliverCancel, Cancelled
  <1>3. TypeOK /\ MessagesAreOfThePast /\ [Next]_vars =>
          [(\E m \in outbox : DeliverCancel(m)) =>
             (lease.generation = run.generation => lease' = lease)]_vars
    BY <1>2
  <1> QED
    BY <1>1, <1>3, MessagesStay, TypeCorrect, PTL DEF Spec, CurrentLeaseSurvivesCancel

-----------------------------------------------------------------------------
(* The scheduling implements TickClock                                      *)

\* A user's command starts, pauses, resumes or completes the clock's run.
LEMMA UserRefines == ASSUME TypeOK, User PROVE [Clock!Next]_<<run.status, run.minute, expired>>
  <1>1. ASSUME NEW status \in {"running", "paused", "completed"},
               Commit(status, Start) \/ Commit(status, Cancel)
        PROVE  run'.status = status /\ run'.minute = run.minute
    BY <1>1 DEF TypeOK, Commit
  <1>2. CASE StartRun
    BY <1>1, <1>2 DEF StartRun, UserCommand, Clock!Next, Clock!Start, Clock!Complete
  <1>3. CASE PauseRun
    BY <1>1, <1>3 DEF PauseRun, UserCommand, Clock!Next, Clock!Pause
  <1>4. CASE ResumeRun
    BY <1>1, <1>4 DEF ResumeRun, UserCommand, Clock!Next, Clock!Resume
  <1>5. CASE FinishRun
    BY <1>1, <1>5 DEF FinishRun, UserCommand, Clock!Next, Clock!Complete
  <1>6. CASE OtherCommand
    BY <1>6 DEF TypeOK, OtherCommand, UserCommand
  <1>7. CASE OpenWindow \/ CloseWindow
    BY <1>7 DEF OpenWindow, CloseWindow
  <1>8. CASE Expire
    BY <1>8 DEF Expire, Clock!Next, Clock!Expire
  <1> QED
    BY <1>2, <1>3, <1>4, <1>5, <1>6, <1>7, <1>8 DEF User

\* A committed tick is a tick of the clock.
LEMMA AdvanceRefines ==
  ASSUME TypeOK, NEW f \in Flows, TickAllowed(f), Advance(f), UNCHANGED expired
  PROVE  Clock!Next
  <1>1. /\ run.status = "running" /\ ~ expired
        /\ run'.minute = run.minute + 1
        /\ run'.status = IF run.minute + 1 = Horizon THEN "completed" ELSE "running"
    BY DEF TypeOK, TickAllowed, Advance
  <1> QED
    BY <1>1 DEF Clock!Next, Clock!Tick

\* Virtual time moves one minute at a time and only while the run is running
\* and not expired, and it stands still for good once the run is completed,
\* whatever the workflows, the outbox and the cron do in which order.
THEOREM SchedulingImplementsClock == Spec => ImplementsTickClock
  <1>1. ASSUME Init PROVE Clock!Init
    BY <1>1 DEF Init, Clock!Init
  <1>2. ASSUME TypeOK, [Next]_vars
        PROVE  [Clock!Next]_<<run.status, run.minute, expired>>
    <2>1. CASE User
      BY <1>2, <2>1, UserRefines
    <2>2. CASE \E f \in Flows : TickCommits(f) \/ CommitAnswerLost(f)
      BY <1>2, <2>2, AdvanceRefines DEF TickCommits, CommitAnswerLost
    <2>3. CASE (\E m \in outbox : Deliver(m)) \/ Reconcile
      BY <2>3 DEF Deliver, DeliverStart, DropStart, DeliverCancel, Reconcile
    <2>4. CASE \E f \in Flows : WorkflowStep(f) /\ ~ TickCommits(f)
      BY <2>4 DEF WorkflowStep, Launch, FirstRenewal, Wake, TickRenewal, CheckBlocker,
                  ReadRun, TickDuplicate, TickRejected, Release
    <2>5. CASE \E f \in Flows : WorkflowFault(f) /\ ~ CommitAnswerLost(f)
      BY <2>5 DEF WorkflowFault, LaunchFails, LauncherDies, StepFails, WorkflowDies
    <2>6. CASE AbandonedLeaseExpires \/ StalledLeaseExpires \/ UNCHANGED vars
      BY <2>6 DEF AbandonedLeaseExpires, StalledLeaseExpires, LeaseRunsOut, vars
    <2> QED
      BY <1>2, <2>1, <2>2, <2>3, <2>4, <2>5, <2>6 DEF Next
  <1> QED
    BY <1>1, <1>2, TypeCorrect, PTL DEF Spec, ImplementsTickClock, Clock!Spec, Clock!clockVars
=============================================================================
