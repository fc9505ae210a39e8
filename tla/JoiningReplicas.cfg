SPECIFICATION Spec
CONSTANTS
  Key <- MCKey
  Value <- MCValue
  Origin <- MCThree
  Absent = Absent
  Conn = {c1}
  Rank <- MCRank
  Setups <- JoinSetups
INVARIANT AckedByReplicas
CHECK_DEADLOCK FALSE
