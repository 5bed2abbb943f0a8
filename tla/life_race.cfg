SPECIFICATION LifecycleSpec
CONSTANTS
  x1 = x1
  x2 = x2
  x3 = x3
  y1 = y1
  NoCall = NoCall
  Calls <- MCRace
  IdOf <- MCIdOf
  KindOf <- MCKindOf
  ModeOf <- MCModeOf
  ProductionLimit = 1
  EvaluationLimit <- MCUnlimited
  ExecutionsMode = "regular"
  MaxWaits = 1
  MayTimeOut = TRUE
  ResumeOverlaps = TRUE
  MayRemove = TRUE
  MayShutDown = TRUE
CHECK_DEADLOCK FALSE
INVARIANTS
  SingleRunner
  RunningRowIsOwned
PROPERTY ReservationProtocol
