CONSTANTS
  None = None
  MaxPublished = 2
  MaxParts = 2
  MaxHerd = 2
  SeqSpan = 2
  Mirror = Mirror
  Guests = {billy}
  Evenings <- MCEvenings
  WorldEvery = 1
SPECIFICATION ServerSpec
CHECK_DEADLOCK FALSE
INVARIANTS NewestIsShown PortalCountsThePlayers
PROPERTIES OnlyWholeWorlds 
