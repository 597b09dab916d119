SPECIFICATION Spec
CONSTANTS
  q1 = q1
  q2 = q2
  q3 = q3
  k1 = k1
  k2 = k2
  Requests <- MCRequests
  Keys <- MCKeys
  Kinds = {"studio", "plain", "branch"}
  SnapshotInterval = 2
  MaxRuns = 3
  MaxCommands = 1
INVARIANTS
  CreationInv
  LoadsItsHistory
  StartedOnce
  StartsUnlessOvertaken
PROPERTIES
  ImplementsRunTree
SYMMETRY MCSymmetry
CHECK_DEADLOCK FALSE
