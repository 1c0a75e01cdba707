SPECIFICATION FairSpec
CONSTANTS
  Targets <- BothTargets
  Agents <- TwoAgents
  Wishes <- SomeWishes
  Coalesce = 0
  Retry = 1
  Interval = 1
  MaxRunners = 2
  MaxAsks = 1
  MaxEvents = 1
INVARIANTS SingleFlight
PROPERTIES NeverTooEarly EveryWakeServed HeartbeatsKeepComing
