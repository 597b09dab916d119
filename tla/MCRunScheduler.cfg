SPECIFICATION Spec
CONSTANTS
  f1 = f1
  f2 = f2
  Flows <- MCFlows
  Horizon = 2
  MaxCommands = 3
  MaxFaults = 1
INVARIANTS
  TickInv
  OneTickPastTheWindow
PROPERTIES
  CurrentLeaseSurvivesCancel
  ImplementsTickClock
  ClockAdvances
  CompletionQuiesces
CHECK_DEADLOCK FALSE
