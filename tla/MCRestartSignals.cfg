SPECIFICATION FairSignals
CONSTANTS
  session = session
  t1 = t1
  Lanes <- MCLanes
  Tasks <- OneTask
  LaneOf <- MCLaneOf
  MaxGeneration = 1
  RespawnModes <- InProcess
  MaxSignals = 6
  MaxMissing = 1
  Scenarios <- IdleOrBusy
CHECK_DEADLOCK FALSE
INVARIANT NothingForgotten
PROPERTIES RequestHonoured ConfigTakesEffect
