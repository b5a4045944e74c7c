SPECIFICATION FairSpec
CONSTANTS
  c1 = c1
  Conns = {c1}
  EnableSSL = TRUE
  NSubs = 2
  MaxMsg = 2
INVARIANT FeedReady
INVARIANT MessageWhole
INVARIANT EndedClean
PROPERTY StopRunsOut
PROPERTY ImplementsFeed
PROPERTY StopEnds
PROPERTY Recovers
CHECK_DEADLOCK FALSE
