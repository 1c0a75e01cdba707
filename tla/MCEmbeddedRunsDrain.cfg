SPECIFICATION FairSpec
CONSTANTS
  s1 = s1
  s2 = s2
  turn1 = turn1
  turn2 = turn2
  compaction = compaction
  other = other
  main = main
  none = none
  Runs <- TwoTurns
  Compactions <- None
  Sessions <- OneSession
  SessionOf <- AllInS1
  GlobalOf <- InMain
  NoRun = none
  Wishes <- BothTurns
  Cleaned <- None
  MaxAttempts = 1
  MaxGeneration = 1
CHECK_DEADLOCK FALSE
INVARIANT AcceptedRunsSurvive
