SPECIFICATION Spec
CONSTANTS
  alice = alice
  bob = bob
  mitigate = mitigate
  failover = failover
  alarm = alarm
  outage = outage
  recovery = recovery
  health = health
  clock = clock
  Participants <- MCParticipants
  Actions <- MCActions
  Injects <- MCInjects
  Paths <- MCPaths
  CommandIds = {c1, c2, c3, c4}
  Keys = {k1, k2, k3, k4}
  Minutes <- MCMinutes
  CanPerform <- MCCanPerform
  ActionDef <- MCActionDef
  InjectDef <- MCInjectDef
  InjectOrder <- MCInjectOrder
  InitialStatus <- MCInitialStatus
  InitialWorld <- MCInitialWorld
  PathRange <- MCPathRange
  ElapsedPath = clock
  MaxTriggerIterations = 2
  Inherited <- MCInherited
INVARIANTS
  TypedStream
  ReplayRestoresState
  InjectsFireOnce
  SilentAfterCompletion
  ApprovalsGateActions
  ClockRunsOnlyWhileRunning
  CascadesEnd
CHECK_DEADLOCK FALSE
