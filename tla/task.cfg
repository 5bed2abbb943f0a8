SPECIFICATION TaskSpec
CONSTANTS
  Requests = {r1, r2}
  Runners = {w1}
  Launchers = {l1}
  TypeOf <- MCTypeOf
  MaxConcurrency = 2
  MaxOffers = 3
  MayExpire = TRUE
  Mode = "external"
CHECK_DEADLOCK FALSE
INVARIANTS
  OneTaskPerRequest
  AwaitedTaskIsTimed
  SettingsAreExpected
  OffersFitConcurrency
