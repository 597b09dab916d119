SPECIFICATION Spec
CONSTANTS
  Packs <- MCPacks
  Drafts <- MCDrafts
  Rehearsed <- MCRehearsed
  Key <- MCKey
  DueOrder <- MCDueOrder
  Directable <- MCDirectable
  MaxDirected = 1
  MaxPending = 1
INVARIANTS
  EveryDraftRuns
  EveryCommandApplies
  ClosingEarnsFullMarks
  ClosesWithItsCast
CHECK_DEADLOCK FALSE
