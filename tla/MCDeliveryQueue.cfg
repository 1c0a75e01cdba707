SPECIFICATION FairSpec
CONSTANTS
  d1 = d1
  r1 = r1
  r2 = r2
  Deliveries <- First
  BestEffort <- First
  Watched <- First
  Abortable <- First
  SelfAborting <- First
  Recoveries <- TwoRecoveries
  MaxRetries = 2
  MayCrash = TRUE
  DiskFails = TRUE
INVARIANTS NoMessageLost PutAsideForCause
PROPERTIES EveryEntryLeaves
