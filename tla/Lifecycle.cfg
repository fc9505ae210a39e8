SPECIFICATION Spec
CONSTANTS
  Client = {c1, c2}
  Stream = {s1, s2}
  Request = {r1}
INVARIANTS TypeOK AtMostOneLateConnection NoStreamLeaks NoRequestAfterLeave
PROPERTIES ReadyMeansServing ProcessEnds TakenStreamSettles
CHECK_DEADLOCK FALSE
