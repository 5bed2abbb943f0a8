SPECIFICATION LifecycleFairSpec
CONSTANTS
  x1 = x1
  x2 = x2
  x3 = x3
  y1 = y1
  NoCall = NoCall
  Calls <- MCPair
  IdOf <- MCIdOf
  KindOf <- MCKindOf
  ModeOf <- MCModeOf
  ProductionLimit = 1
  EvaluationLimit <- MCUnlimited
  ExecutionsMode = "regular"
  MaxWaits = 1
  MayTimeOut = FALSE
  ResumeOverlaps = FALSE
  MayRemove = FALSE
  MayShutDown = FALSE
CHECK_DEADLOCK FALSE
INVARIANTS
  RunningIsListed
  WorkflowsWithinLimit
PROPERTIES
  CapacityComesBack
  AdmittedConcludes
