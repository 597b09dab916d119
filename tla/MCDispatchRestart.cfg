SPECIFICATION Spec
CONSTANTS
  s1 = s1
  s2 = s2
  Slots <- MCSlots
  MaxDispatches = 2
  MaxVersion = 0
  MaxRequests = 1
  MaxQuestions = 1
  Faults = {"crash"}
  MaxFaults = 1
PROPERTIES
  PendingAnalysisIsClaimed
CHECK_DEADLOCK FALSE
