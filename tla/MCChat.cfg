SPECIFICATION LiveChatSpec
CONSTANTS
  c1 = c1
  c2 = c2
  goat = goat
  kid = kid
  Conns = {c1, c2}
  Heads = {goat, kid}
  TagRoom = 1
  Requests <- Kids
  Addressees <- KidOrGoat
  Host = Host
  HostName <- Goat
  All = All
  StreamLimit = 2
  MaxLines = 2
  MaxLost = 1
CHECK_DEADLOCK FALSE
PROPERTIES RoutedAtOnce 
