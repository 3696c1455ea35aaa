SPECIFICATION LiveSpec
CONSTANTS
  a = a  m = m  herding = herding
  Nodes <- Two
  Roots <- One
  Author <- ByA
  Size <- Small
  Budget = 1
  Every = 1
  TTL = 3
  Backlog = 1
  MaxDelay = 0
  MaxOps = 3
  MaxLost = 1
  Forwards = FALSE
CHECK_DEADLOCK FALSE
INVARIANTS EntriesAreVouched PinnedIsServed
PROPERTIES UnstatedIsForgotten
