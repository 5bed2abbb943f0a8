SPECIFICATION QueueFairSpec
CONSTANTS
  m1 = m1
  Executions = {e1}
  Mains = {m1, m2}
  Workers = {w1, w2}
  Nobody = Nobody
  HomeOf <- MCHomeOf
  Concurrency = 1
  BatchSize = 1
  Chains = {k1, k2}
  MaxUpsets = 2
CHECK_DEADLOCK FALSE
INVARIANTS
  RecoveryFollowsLeadership
PROPERTIES
  TakenOnce
  SuccessStands
  ProgressEnds
