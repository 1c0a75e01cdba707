SPECIFICATION Spec
CONSTANTS
  Jobs <- TwoJobs
  Kind <- Kinds
  Initial <- OneOrBoth
  Deleted = {"remind"}
  Every = 1
  At = 1
  Backoff = 2
  Stuck = 1
  Clamp = 1
  MaxServices = 2
  MaxEvents = 1
  Horizon = 2
INVARIANTS NoOverlap OneShotOnce MarkersAreHeld SchedulerAlive
PROPERTIES OnlyRecomputeSkips
