SPECIFICATION ParasitiferFairSpec
CONSTANTS
  Conns <- MCConns
  Resolved <- MCResolved
  EnableSSL = FALSE
  NSubs = 1
  MaxMsg = 0
  ConnLimit = 2
INVARIANT OwnsItsSessions
INVARIANT CloseStopsAll
PROPERTY TailOutOfReach
PROPERTY CloseEnds
CHECK_DEADLOCK FALSE
