SPECIFICATION FairSpec
CONSTANTS
  s1 = s1
  s2 = s2
  turn1 = turn1
  turn2 = turn2
  compaction = compaction
  other = other
  main = main
  none = none
  Runs <- MCRuns
  Compactions <- MCCompactions
  Sessions <- MCSessions
  SessionOf <- MCSessionOf
  GlobalOf <- InMain
  NoRun = none
  Wishes <- OneOrTwoSessions
  Cleaned <- First
  MaxAttempts = 2
  MaxGeneration = 1
CHECK_DEADLOCK FALSE
INVARIANTS OneRunPerSession RegistryTruthful AbortedStaysDown
PROPERTY EveryRunSettles
