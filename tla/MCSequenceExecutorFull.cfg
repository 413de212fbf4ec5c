SPECIFICATION FairExecSpec
CONSTANTS
  Token = {1, 2}
  Texts <- TextsShort
  Page = {p1, p2, p3}
  Request = {r1, r2}
  None = None
  PageTokens = 2
  MaxActive = 1
  Plain = {r2}
  Lanes = 1
  MaxContext = 4
  Headroom = 0
  Budgets = {2}
  MaxDrafts = 1
  Window = 2
  DraftPage = 2
  TailRows = 3
  PromptTails = TRUE
INVARIANTS
  ShortageHasACause
PROPERTIES
  UsesRadix
  OpeningsEnd
