SPECIFICATION FairSpec
CONSTANTS
  Stream <- Streams2
  Direct <- Caller
  Pages <- Weights
  Capacity = 2
  MaxConcurrent = 2
  MaxBatch = 2
  MaxOutput = 2
  MaxCalls = 1
PROPERTIES EveryCallReturns
CHECK_DEADLOCK FALSE
