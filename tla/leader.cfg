SPECIFICATION FairTrackingSpec
CONSTANTS
  Mains = {m1, m2}
  Waits = {x1}
  HostIds = {"kept", "new"}
  ChecksWhileBooting = TRUE
  MaxUpsets = 2
INVARIANTS
  OneLeader
  TracksAsLeader
PROPERTIES
  LeaderEmerges
  WaitIsResumedInPeace
