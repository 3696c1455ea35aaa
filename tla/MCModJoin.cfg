SPECIFICATION LiveJoinSpec
CONSTANTS
  a = a  b = b
  Ids <- Two
  None = None  Client = Client
  Versions <- TwoVersions
  HostSets <- BothOrOne
  Registry <- HasB
  OwnFirst <- BFirst
  MaxFaults = 2
  MaxEdits = 1
INVARIANTS MembersRunTheHostsMods PullIsEnough
PROPERTIES PullsReplaceNothing JoinsEnd
