SPECIFICATION Spec
CONSTANTS
  Request = {r1, r2, r3, r4}
  None = None
  MaxTokens = 12
  PageTokens = 2
  MaxActive = 3
INVARIANTS SlotsPartitioned FreeListIsMerged
PROPERTIES ImplementsBitmap
CHECK_DEADLOCK FALSE
