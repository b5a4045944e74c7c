SPECIFICATION Spec
CONSTANTS
  Draws = {0}
  FailTimes = {0, 16000, 30000}
  LiveTimes = {1000}
  Jumps = {}
  Modulus = 1073741824
  MaxCount = 52
PROPERTY ResetAsDocumented
CHECK_DEADLOCK FALSE
