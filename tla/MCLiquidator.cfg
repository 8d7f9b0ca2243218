\* two containers; two deaths or visibility timeouts
SPECIFICATION LiquidatorFairSpec
CONSTANTS
  Messages = {1, 2, 3}
  BodyOf <- MCBodyOf
  Containers = {1, 2}
  BatchSize = 2
  MaxFaults = 2
INVARIANT LeavesProcessed
PROPERTY HealthyLeave
