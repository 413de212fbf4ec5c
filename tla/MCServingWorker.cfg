SPECIFICATION Spec
CONSTANTS
  Stream <- Streams3
  Direct <- Callers
  Pages <- Weights
  Capacity = 2
  MaxConcurrent = 2
  MaxBatch = 2
  MaxOutput = 2
  MaxCalls = 1
INVARIANTS WithinLimits NoStreamIsForgotten NothingLeaks
PROPERTIES GoneStreamsEnd
CHECK_DEADLOCK FALSE
