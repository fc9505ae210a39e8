SPECIFICATION LogFairSpec
CONSTANTS
  Capacity = 3
  ChanCapacity = 2
  Subscriber = {0, 1}
  MaxEvents = 5
INVARIANTS LogTypeOK RecentIsNewest StreamInOrder StreamIsComplete
PROPERTY EventReachesStream
CHECK_DEADLOCK FALSE
