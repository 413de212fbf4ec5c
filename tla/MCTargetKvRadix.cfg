SPECIFICATION Spec
CONSTANTS
  Token = {1, 2}
  Texts <- TextsLong
  Page = {p1, p2, p3, p4}
  Request = {r1, r2}
  None = None
  PageTokens = 2
  MaxActive = 2
SYMMETRY Symmetry
INVARIANTS
  TypeOK
  PagePartition
  LocksCountReservations
  SharedPagesStayCached
  TablesOwnedByPath
  CreditsWithinPool
  GuaranteedCapacity
  IdlePoolAdmits
