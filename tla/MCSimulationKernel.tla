------------------------- MODULE MCSimulationKernel -------------------------
(***************************************************************************)
(* A scenario for the kernel in the shape of the repository's own packs: a *)
(* condition schedules a second inject, the second one takes a participant *)
(* out, an approval stands between a proposal and its execution, a state   *)
(* threshold completes the run and an effect is left behind it.  A first   *)
(* mitigation makes two injects eligible at once, as many as the bound.    *)
(***************************************************************************)
EXTENDS KernelReplay, TLC

CONSTANTS alice, bob, mitigate, failover, alarm, outage, recovery,
          health, clock

MCParticipants == {alice, bob}
MCActions == {mitigate, failover}
MCInjects == {alarm, outage, recovery}
MCPaths == {health, clock}
MCMinutes == {-1, 1}
MCCanPerform == alice :> {mitigate} @@ bob :> {mitigate, failover}

MCActionDef ==
  mitigate :> [approval |-> FALSE,
               precondition |-> <<[kind |-> "state-equals", path |-> health, value |-> 2],
                                  [kind |-> "not", of |-> 1]>>,
               effects |-> <<[kind |-> "increment-state", path |-> health, amount |-> 2]>>]
  @@
  failover :> [approval |-> TRUE, precondition |-> <<>>,
               effects |-> <<[kind |-> "set-state", path |-> health, value |-> 3],
                             [kind |-> "record-metric"]>>]

MCInjectDef ==
  alarm :> [trigger |-> <<[kind |-> "elapsed-minutes-gte", minutes |-> 1],
                          [kind |-> "participant-action-count-gte",
                           participant |-> alice, action |-> mitigate, count |-> 1],
                          [kind |-> "any", of |-> {1, 2}]>>,
            effects |-> <<[kind |-> "schedule-inject", inject |-> outage, delay |-> 1],
                          [kind |-> "emit-signal"]>>]
  @@
  outage :> [trigger |-> <<>>,
             effects |-> <<[kind |-> "change-participant-status", participant |-> bob,
                            status |-> "inactive"],
                           [kind |-> "increment-state", path |-> health, amount |-> -1]>>]
  @@
  recovery :> [trigger |-> <<[kind |-> "state-number-gte", path |-> health, value |-> 3],
                             [kind |-> "event-occurred", type |-> "action.executed"],
                             [kind |-> "all", of |-> {1, 2}]>>,
               effects |-> <<[kind |-> "complete-run"],
                             [kind |-> "set-state", path |-> health, value |-> 0]>>]

MCInjectOrder == <<alarm, outage, recovery>>
MCInitialStatus == [p \in MCParticipants |-> "active"]
MCInitialWorld == health :> 1 @@ clock :> 0
\* One outage too many takes health below the schema's minimum.
MCPathRange == health :> (1 .. 4) @@ clock :> (0 .. 9)

\* A parent paused after the alarm with its outage scheduled.
MCInherited ==
  {[status |-> "paused", version |-> 3, latestSequence |-> 7, time |-> 1,
    appliedCommandIds |-> {}, appliedKeys |-> {},
    world |-> health :> 2 @@ clock :> 1, worldStatus |-> "paused",
    participants |-> MCInitialStatus,
    scheduled |-> {[id |-> <<outage, 4>>, inject |-> outage, due |-> 2]},
    triggered |-> {alarm},
    pending |-> {},
    actionCounts |-> [x \in MCParticipants \X MCActions |-> 0],
    occurred |-> {"run.created", "run.started", "clock.advanced",
                  "inject.triggered", "inject.scheduled"}]}
=============================================================================
