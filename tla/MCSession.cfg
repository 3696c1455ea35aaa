CONSTANTS
  c1 = c1
  c2 = c2
  goat = goat
  Heads = {goat}
  TagRoom = 1
  Nobody = Nobody
  Conns <- Pair
  Requests <- TwoNames
  Kinds = {"fit", "unfit", "bad"}
  HostName <- Plain
  StreamLimit = 2
  SharedNode = FALSE
  HostMayClose = TRUE
  MaxLost = 1
SPECIFICATION LiveHistorySpec
CHECK_DEADLOCK FALSE
INVARIANTS NamesAreUnique SerialSessionsAgree
PROPERTIES SeatsAreKept LostPlayersLeave EndsAreHeard
