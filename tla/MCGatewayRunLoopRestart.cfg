SPECIFICATION FairSpec
CONSTANTS
  session = session
  t1 = t1
  t2 = t2
  Lanes <- MCLanes
  Tasks <- MCTasks
  LaneOf <- MCLaneOf
  MaxGeneration = 2
  RespawnModes <- NoRespawn
  MaxSignals = 2
CHECK_DEADLOCK FALSE
PROPERTY EveryRestartCompletes
