SPECIFICATION Spec
CONSTANTS
  s1 = s1
  s2 = s2
  Slots <- MCSlots
  MaxDispatches = 3
  MaxVersion = 1
  MaxRequests = 1
  MaxQuestions = 2
  Faults = {"redelivery", "turn", "error", "crash"}
  MaxFaults = 2
INVARIANTS
  DispatchInv
  AdviceRestsOnItsFacts
  OneWorkflowPerDispatch
CHECK_DEADLOCK FALSE
