SPECIFICATION FairSpec
CONSTANTS
  Count = 7
  CdpPerBatch = 2
  Poison = {1}
  Undecodable = {3}
  MaxVersion = 2
  MaxFaults = 2
INVARIANTS
  TypeOK
  Accounted
  BlameIsolated
  ProgressCounts
PROPERTY Returns
CHECK_DEADLOCK FALSE
