----------------------------- MODULE KernelReplay ---------------------------
(***************************************************************************)
(* SimulationKernel.replay: the event stream alone restores the aggregate  *)
(* (src/packages/simulation-kernel/src/index.ts).                          *)
(***************************************************************************)
EXTENDS SimulationKernel

Replay(from, events) ==
  LET after[n \in 0 .. Len(events)] ==
        IF n = 0 THEN from ELSE ApplyEvent(after[n - 1], events[n])
  IN  after[Len(events)]

\* Replaying the persisted stream from nothing gives the state the commands
\* left, also after a command that threw half-way and was undone.
ReplayRestoresState == Idle => Replay(EmptyState, log) = state
=============================================================================
