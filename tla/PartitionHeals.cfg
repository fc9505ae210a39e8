SPECIFICATION SyncSpec
CONSTANTS
  Key <- MCTwoKeys
  Value <- MCValue
  Origin <- MCTwo
  Absent = Absent
  Conn = {c1}
  Rank <- MCRank
  Setups <- HealSetups
PROPERTIES AntiEntropyConverges EveryCommandEnds
CHECK_DEADLOCK FALSE
