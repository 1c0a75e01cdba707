SPECIFICATION FairSpec
CONSTANTS
  t1 = t1
  c1 = c1
  c2 = c2
  None = None
  Tasks <- OneTask
  Calls <- TwoCalls
  Chains <- TwoChains
  MaxRequests = 2
  MaxFailures = 2
  MaxReassign = 2
  Scenarios <- MCScenarios
INVARIANTS NothingVanishes RequestsBounded
PROPERTIES LockedWritesAreFresh AbandonedTasksEnd
CHECK_DEADLOCK FALSE
