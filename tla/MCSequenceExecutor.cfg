SPECIFICATION ExecSpec
CONSTANTS
  Token = {1, 2}
  Texts <- TextsLong
  Page = {p1, p2, p3}
  Request = {r1, r2}
  None = None
  PageTokens = 3
  MaxActive = 2
  Plain = {}
  Lanes = 2
  MaxContext = 7
  Headroom = 0
  Budgets = {3}
  MaxDrafts = 1
  Window = 2
  DraftPage = 2
  TailRows = 2
  PromptTails = TRUE
SYMMETRY Symmetry
INVARIANTS
  ExecTypeOK
  AlignedMatchIsExact
  TailsAreExact
  DraftMeetsTarget
  PublishNeverFails
  PublishedFrontierIsNear
  NothingOutlivesItsRequest
