SPECIFICATION Spec
CONSTANTS
  Key <- MCTwoKeys
  Value <- MCValue
  Origin <- MCThree
  Absent = Absent
  Conn = {c1, c2}
  Rank <- MCRank
  Setups <- FaultSetups
SYMMETRY ConnSymmetry
INVARIANTS TypeOK AckedWritesAreHeld NextOwnerHoldsAckedWrite StampsAreUnique
PROPERTY ImplementsReplicatedMap
CHECK_DEADLOCK FALSE
