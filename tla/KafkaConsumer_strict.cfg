SPECIFICATION Spec
CONSTANTS
  s1 = s1
  t1 = t1
  t2 = t2
  Sessions = {s1}
  Topics = {t1, t2}
  Threads = 1
INVARIANT SmallestIsStrict
CHECK_DEADLOCK FALSE
