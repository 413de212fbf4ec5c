SPECIFICATION FairSpec
CONSTANTS
  Stream <- StreamsHeavy
  Direct <- Caller
  Pages <- Weights
  Capacity = 2
  MaxConcurrent = 3
  MaxBatch = 2
  MaxOutput = 2
  MaxCalls = 1
PROPERTIES FittingStreamsEnd CallsReturnUnlessAsleep
CHECK_DEADLOCK FALSE
