SPECIFICATION LifetimeSpec
CONSTANTS
  c1 = c1
  Conns = {c1}
  EnableSSL = TRUE
  NSubs = 1
  MaxMsg = 0
INVARIANT StreamAlive
INVARIANT EntryAlive
INVARIANT DeletedOnce
INVARIANT NeverBoth
CHECK_DEADLOCK FALSE
