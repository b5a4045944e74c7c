SPECIFICATION Spec
CONSTANTS
  Draws = {0, 9, 100}
  FailTimes = {0, 16000, 30000}
  LiveTimes = {1000, 19999, 20000}
  Jumps <- MCJumps
  Modulus = 1073741824
  MaxCount = 52
INVARIANT RateLimit
INVARIANT NeverForgets
CHECK_DEADLOCK FALSE
