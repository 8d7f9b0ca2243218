\* two runs, in which SQS may reject entries as sender faults
SPECIFICATION FairSpec
CONSTANTS
  MaxCdps = 5
  PageSize = 3
  MaxMoves = 2
  IndexerBatchSize = 2
  BatchLimit = 2
  SenderFaultsOccur = TRUE
  MaxRuns = 2
INVARIANTS
  TypeOK
  NothingForgotten
  NoneBurnedBefore
  NeverSentTwice
  ChunksPartition
  NoGaps
PROPERTY RunEnds
CHECK_DEADLOCK FALSE
