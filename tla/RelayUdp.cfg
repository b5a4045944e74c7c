SPECIFICATION SystemFairSpec
CONSTANTS
  r1 = r1
  r2 = r2
  Relays = {r1, r2}
  Udps = 1
  Producers = 1
  Flushing = {}
  QueueLimit = 1
  Threads = 1
  MaxMsg = 1
  SocketLimit = 1
INVARIANT OneOrder
INVARIANT BufferStable
INVARIANT NothingLost
PROPERTY Served
CHECK_DEADLOCK FALSE
