SPECIFICATION SessionSpec
CONSTANTS
  Key = {"a", "b"}
  Value <- MCValue
  Origin <- MCOrigin
  Absent = Absent
  Self = 1
  Remote <- MCRemote
  DelArgs <- MCDelArgs
  MaxCalls = 4
  MaxBulk = 3
  MaxArray = 4
  MaxLine = 7
  MaxDepth = 3
  BufSize = 4
  Read <- ReadValue
  Write <- Encode
  Scenarios <- MCScenarios
  NodeName <- MCNodeName
  ValueText <- MCValueText
  Visits <- MCVisits
  MaxOthers = 1
INVARIANTS LengthCountsLive ClockDominates HoldsNewestOffered SessionTypeOK FramesSurviveSplits RepliesReadBack
PROPERTIES NeverRegresses NothingBeforeAuth GetAnswersNewest EveryFrameAnswered
CHECK_DEADLOCK FALSE
