SPECIFICATION Spec
CONSTANTS
  MinDrafts = 1
  MaxDrafts = 3
  ProbeInterval = 2
  ProbeMaxInterval = 3
  ProbeSuccesses = 2
  MinPrompt = 2
  MaxPrompt = 3
  MaxBudget = 8
  MaxContext = 10
  Headroom = 2
  ChunkTokens = 1
  FrontierTokens = 7
  None = None
INVARIANTS LedgersAgree ProcessedIsCommitted OnlyOwnRowsVisible NeverRefused DraftsSeeWholePrefix FrontiersFollowLedger
CHECK_DEADLOCK FALSE
