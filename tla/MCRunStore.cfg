SPECIFICATION Spec
CONSTANTS
  q1 = q1
  q2 = q2
  q3 = q3
  Requests <- MCRequests
  SnapshotInterval = 3
  Kinds = {"submit-action", "resolve-approval", "trigger-inject", "finish-run", "advance-clock"}
  MaxFaults = 1
INVARIANTS
  StoreInv
  AnswersAreTrue
  ApprovalsFollowStream
PROPERTIES
  ImplementsCommandLog
  ConflictTakesTwoCommits
CHECK_DEADLOCK FALSE
