SPECIFICATION FairJobs
CONSTANTS
  j1 = j1
  j2 = j2
  Jobs <- TwoJobs
  MaxCrashing = 4
  MaxRestarting = 2
INVARIANTS OneFlowPerJob RecordFollowsFlow
PROPERTIES FinishedStaysFinished EveryJobFinishes
