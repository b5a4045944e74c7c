SPECIFICATION ParasitiferFairSpec
CONSTANTS
  s1 = s1
  s2 = s2
  t1 = t1
  Sessions = {s1, s2}
  Topics = {t1}
  Threads = 1
  Resolved <- MCResolved
  ConnLimit = 2
  MaxRuns = 2
INVARIANT OwnsItsSessions
INVARIANT ConnectsIfItCan
PROPERTY CloseStopsAll
PROPERTY TurnComes
PROPERTY CloseEnds
CHECK_DEADLOCK FALSE
