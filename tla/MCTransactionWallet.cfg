\* the code's own delays and timeout; epochs short enough for the transaction to expire
SPECIFICATION Spec
CONSTANTS
  Interval = 1
  Multiplier = 2
  MaxDelay = 5
  Timeout = 60
  Latency = 2
  EpochLength = 25
  MaxTime = 66
INVARIANTS
  OutcomesHold
  SeenInTime
CHECK_DEADLOCK FALSE
