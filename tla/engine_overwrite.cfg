SPECIFICATION EngineSpec
CONSTANTS
  Flows <- MCOneFlow
  Nobody = "none"
  MaxRuns = 3
  MaxUpsets = 2
CHECK_DEADLOCK FALSE
INVARIANT
  NothingLost
