SPECIFICATION Spec
CONSTANTS
  MaxTurns = 4
  MaxEvents = 2
  Started = 4
INVARIANTS
  EveryTurnIsCharged
CHECK_DEADLOCK FALSE
