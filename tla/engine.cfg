SPECIFICATION EngineSpec
CONSTANTS
  Flows <- MCFlows
  Nobody = "none"
  MaxRuns = 3
  MaxUpsets = 3
CHECK_DEADLOCK FALSE
INVARIANTS
  EngineTypeOK
  EachInOnePlace
  NobodyLeftWaiting
