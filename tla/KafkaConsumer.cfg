SPECIFICATION Spec
CONSTANTS
  s1 = s1
  s2 = s2
  t1 = t1
  t2 = t2
  Sessions = {s1, s2}
  Topics = {t1, t2}
  Threads = 2
SYMMETRY Alike
INVARIANT OffsetsHonoured
PROPERTY ImplementsFeed
CHECK_DEADLOCK FALSE
