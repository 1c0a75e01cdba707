SPECIFICATION FairSpec
CONSTANTS
  main = main
  session = session
  t1 = t1
  t2 = t2
  t3 = t3
  Lanes <- MCLanes
  Tasks <- MCTasks
  LaneOf <- MCLaneOf
  Requests <- MCRequests
  MaxGeneration = 2
CHECK_DEADLOCK FALSE
INVARIANTS
  SlotsAccounted
  QueuesInStep
  NoIdleCapacity
  FifoPerLane
PROPERTIES
  StartsWithinLimit
  EveryEntrySettles
