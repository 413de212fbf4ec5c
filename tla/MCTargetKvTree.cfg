SPECIFICATION Spec
CONSTANTS
  Token = {1, 2}
  Texts <- TextsBent
  Page = {p1, p2, p3}
  Request = {r1, r2}
  None = None
  PageTokens = 2
  MaxActive = 2
  Asked = {2, 4}
SYMMETRY Symmetry
INVARIANTS
  NodesFormATree
  PagesAddUp
  TiesLieOnOnePath
PROPERTIES
  ImplementsRadix
