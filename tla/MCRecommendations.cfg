SPECIFICATION Spec
CONSTANTS
  d1 = d1
  d2 = d2
  w1 = w1
  Deciders <- MCDeciders
  Workers <- MCWorkers
  MaxRecs = 1
  MaxVersion = 2
  MaxRequests = 1
  Window = 1
  Deferral = 1
  MaxFaults = 2
INVARIANTS
  RecommendationInv
  ExecutedOnItsFacts
  AdoptedMeansExecuted
PROPERTIES
  StaleIsClosed
CHECK_DEADLOCK FALSE
