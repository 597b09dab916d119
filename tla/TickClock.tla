------------------------------ MODULE TickClock ------------------------------
(***************************************************************************)
(* What the durable tick scheduling promises to the rest of the system:    *)
(* virtual time of a Run moves one minute at a time, only while the Run is *)
(* running and has not expired, and stops for good at its completion       *)
(* (src/plan.md, section 10.4).                                            *)
(***************************************************************************)
EXTENDS Naturals

CONSTANT Horizon     \* the minute at which the scenario completes the run

VARIABLES status, minute, expired

clockVars == <<status, minute, expired>>

Init == status = "created" /\ minute = 0 /\ expired = FALSE

Start == status = "created" /\ status' = "running" /\ UNCHANGED <<minute, expired>>
Pause == status = "running" /\ status' = "paused" /\ UNCHANGED <<minute, expired>>
Resume == status = "paused" /\ status' = "running" /\ UNCHANGED <<minute, expired>>
Complete ==
  status # "completed" /\ status' = "completed" /\ UNCHANGED <<minute, expired>>
Expire == ~ expired /\ expired' = TRUE /\ UNCHANGED <<status, minute>>

Tick ==
  /\ status = "running" /\ ~ expired
  /\ minute' = minute + 1
  /\ status' = IF minute' = Horizon THEN "completed" ELSE "running"
  /\ UNCHANGED expired

Next == Start \/ Pause \/ Resume \/ Complete \/ Expire \/ Tick

Spec == Init /\ [][Next]_clockVars
=============================================================================
