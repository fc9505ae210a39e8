SPECIFICATION Spec
CONSTANTS
  Node = {n1, n2, n3}
  NoID = n1
  Address <- MCAddress
  VirtualNodes = 2
  DefaultReplicas = 1
  LabelHash <- MCLabelHash
  KeyHash <- MCKeyHash
  NumSlots = 4
  SlotHash <- MCSlotHash
SYMMETRY NodeSymmetry
INVARIANT KeySlotRoutesToOwner
