SPECIFICATION SyncSpec
CONSTANTS
  Key <- MCKey
  Value <- MCValue
  Origin <- MCThree
  Absent = Absent
  Conn = {c1}
  Rank <- MCRank
  Setups <- SyncSetups
PROPERTY AntiEntropyConverges
CHECK_DEADLOCK FALSE
