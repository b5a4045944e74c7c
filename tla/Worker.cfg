SPECIFICATION FairSpec
CONSTANT MaxStarts = 3
INVARIANT NoOrphan
PROPERTIES StopRunsOut JoinReturns
CHECK_DEADLOCK FALSE
