SPECIFICATION RestartSpec
CONSTANTS
  x1 = x1
  x2 = x2
  x3 = x3
  xr = xr
  NoCall = NoCall
  Calls <- MCCalls
  IdOf <- MCIdOf
  KindOf <- MCKindOf
  ModeOf <- MCModeOf
  ProductionLimit = 1
  EvaluationLimit <- MCUnlimited
  ExecutionsMode = "regular"
  MaxWaits = 1
  MayTimeOut = TRUE
  ResumeOverlaps = FALSE
  MayRemove = TRUE
  MayShutDown = FALSE
  RecoveryModes = {"extensive", "simple"}
  ServesWhileBooting = FALSE
CHECK_DEADLOCK FALSE
INVARIANTS
  FinishedStaysFinished
  WaitingSurvives
  CutOffIsCrashed
