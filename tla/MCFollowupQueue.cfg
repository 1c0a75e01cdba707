SPECIFICATION FairSpec
CONSTANTS
  m1 = m1
  m2 = m2
  m3 = m3
  m4 = m4
  idA = idA
  idB = idB
  none = none
  here = here
  there = there
  nowhere = nowhere
  Msgs <- MCMsgs
  NoId = none
  NoRoute = nowhere
  MessageId <- MCMessageId
  Route <- MCRoute
  CrossRoutes <- Cross
  Settings <- EachPolicy
  Objects <- Two
  MayClear = TRUE
  RepliesThrow = TRUE
CHECK_DEADLOCK FALSE
INVARIANTS
  NothingLost
  NoMixedTurn
PROPERTIES
  RunsOnceInOrder
  DrainSettles
