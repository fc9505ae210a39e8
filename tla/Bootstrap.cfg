SPECIFICATION BootFairSpec
CONSTANTS
  Node = {1, 2, 3}
  Seeds <- MCSeeds
INVARIANT BootTypeOK
PROPERTY FailedJoinIsRetried
CHECK_DEADLOCK FALSE
