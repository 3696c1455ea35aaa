SPECIFICATION RelaySpec
CONSTANTS
  Burst = 2
  Window = 3
  MaxTime = 7
  MaxCount = 4
  Poses <- SomePoses
  Worlds <- SomeWorlds
  Sizes <- SomeSizes
INVARIANTS AtMostTwoBursts ShownAsMeant
PROPERTIES RefusalsAreEarned
CHECK_DEADLOCK FALSE
