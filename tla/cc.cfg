SPECIFICATION CCFairSpec
CONSTANTS
  a1 = a1
  a2 = a2
  b = b
  c = c
  e = e
  m = m
  Calls <- MCCalls
  IdOf <- MCIdOf
  ModeOf <- MCModeOf
  ProductionLimit = 1
  EvaluationLimit <- MCUnlimited
  ExecutionsMode = "regular"
  MayRemove = TRUE
  MayShutDown = TRUE
CHECK_DEADLOCK FALSE
INVARIANTS
  QueuedOnce
  CapacityAccounting
  NoIdleCapacity
  OverrunOnlyByRemoval
PROPERTIES
  FrozenAfterDisable
  AdmissionSpec
  QueuedGetsThrough
