SPECIFICATION Spec
CONSTANTS
  Key <- MCKey
  Value <- MCValue
  Origin <- MCOrigin
  Absent = Absent
  Bits = 3
  NumLeaves <- SomeLeaves
  DefaultNumLeaves = 8
  MaxCalls = 3
INVARIANTS LeavesArePowerOfTwo LeavesPartitionStore DiffIsExact
CHECK_DEADLOCK FALSE
