SPECIFICATION FairSpec
CONSTANTS
  session = session
  t1 = t1
  t2 = t2
  Lanes <- MCLanes
  Tasks <- MCTasks
  LaneOf <- MCLaneOf
  MaxGeneration = 2
  RespawnModes <- AllModes
  MaxSignals = 3
CHECK_DEADLOCK FALSE
PROPERTIES QueueSpec ServingRestartCompletes StopCompletes
