SPECIFICATION LiveSpec
CONSTANTS
  host = host  guest = guest  t1 = t1  hs = hs  gs = gs
  Nodes <- HostAndGuest
  Subs <- OneEach
  Owner <- OwnerOf
  Tickets <- OneTicket
  Home <- AtHost
  Every = 1
  TTL = 3
  Backlog = 1
  MaxHosts = 1
  Lan = TRUE
  MaxPeers = 1
  MaxLost = 1
CHECK_DEADLOCK FALSE
INVARIANTS NoDeadPortals
PROPERTIES HostsAreFound
