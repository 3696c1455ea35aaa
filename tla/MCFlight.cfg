SPECIFICATION FlightSpec
CONSTANTS
  Tunings <- MCTunings
  FrameTimes <- MCFrameTimes
  Terrain <- MCTerrain
  Stats <- MCStats
  Blasts <- MCBlasts
  RunSpeed = 6000
  BlastFloor = 1000
  FlingGravity <- MCGravity
  Linger = 1000
  MaxJolts <- MCJolts
INVARIANTS EnvelopeHolds
 
