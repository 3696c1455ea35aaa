SPECIFICATION LiveMeadowSpec
CONSTANTS
  c1 = c1  c2 = c2  m1 = m1  m2 = m2  t1 = t1
  Clients <- Two
  Early <- OneEarly
  Cells <- Ground
  Tufts <- Grass
  Laid <- Field
  Ring <- Rings
  Reach <- Reaches
  Under <- Covers
  Leftovers <- Clean
  Dedicated = FALSE
  ChainDepth = 1
  Budget = 2
  MaxAir = 1
  MaxBangs = 1
  MaxTurns = 1
CHECK_DEADLOCK FALSE
INVARIANTS NobodyFeelsItTwice
PROPERTIES TuftsComeBackOnWord EveryBangIsFelt GroundSettles
