SPECIFICATION Spec
CONSTANTS
  Packs <- MCPacks
  Drafts <- MCStored
  Rehearsed <- MCStored
  Key <- MCKey
  DueOrder <- MCDueOrder
  Directable <- MCDirectable
  MaxDirected = 1
  MaxPending = 1
INVARIANTS
  EveryCommandApplies
CHECK_DEADLOCK FALSE
