SPECIFICATION FairSpec
CONSTANTS
  None = None
  w1 = w1
  w2 = w2
  c1 = c1
  c2 = c2
  c3 = c3
  c4 = c4
  Workers = {w1, w2}
  Conns = {c1, c2, c3, c4}
INVARIANT CallbackAlive
INVARIANT OwnedOnce
INVARIANT FreedOnOwnThread
PROPERTY DrainShrinks
PROPERTY DrainEnds
CHECK_DEADLOCK FALSE
