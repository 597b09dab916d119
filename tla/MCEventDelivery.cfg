SPECIFICATION Spec
CONSTANTS
  p1 = p1
  p2 = p2
  s1 = s1
  s2 = s2
  NoSource = NoSource
  Processes <- MCProcesses
  Sources <- MCSources
  MaxEvents = 2
  BatchSize = 2
  MaxFaults = 3
  MaxPageFaults = 1
  StreamPage = 1
  RecoveryPage = 1
INVARIANTS
  DeliveryInv
  ToldStreamDelivers
PROPERTIES
  RecoveryCatchesUp
  EveryRowIsPublished
CHECK_DEADLOCK FALSE
