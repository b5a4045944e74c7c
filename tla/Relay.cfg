SPECIFICATION FairSpec
CONSTANTS
  r1 = r1
  r2 = r2
  Relays = {r1, r2}
  Udps = 1
  Producers = 1
  Flushing = {2}
  QueueLimit = 1
  Threads = 2
  MaxMsg = 2
INVARIANT EveryReceiverTried
INVARIANT InOrder
PROPERTY SendReturns
PROPERTY NoRelayAfterStop
CHECK_DEADLOCK FALSE
