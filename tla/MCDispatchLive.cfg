SPECIFICATION Spec
CONSTANTS
  s1 = s1
  s2 = s2
  Slots <- MCSlots
  MaxDispatches = 4
  MaxVersion = 1
  MaxRequests = 1
  MaxQuestions = 0
  Faults = {"redelivery", "turn", "stall"}
  MaxFaults = 1
INVARIANTS
  NoAnalysisIsForgotten
PROPERTIES
  AnalysisEnds
CHECK_DEADLOCK FALSE
