SPECIFICATION BootFairSpec
CONSTANTS
  Node = {1, 2, 3}
  Seeds <- MCSeeds

PROPERTY FailedDiscoveryIsRetried
CHECK_DEADLOCK FALSE
