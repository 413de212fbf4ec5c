SPECIFICATION FairSpec
CONSTANTS
  Host <- Hosts2
  Width = 2
  Late = FALSE
  None = None
  MaxIds = 4
  MaxDrops = 1
INVARIANTS TurnIsHeld NoCrossedTurns
PROPERTIES CollectivesComplete
CHECK_DEADLOCK FALSE
