SPECIFICATION TaskFairSpec
CONSTANTS
  Requests = {r1}
  Runners = {w1}
  Launchers = {l1}
  TypeOf <- MCTypeOf
  MaxConcurrency = 2
  MaxOffers = 3
  MayExpire = TRUE
  Mode = "external"
CHECK_DEADLOCK FALSE
PROPERTIES
  StartTaskReturns
  SlotComesBack
