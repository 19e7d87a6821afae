\* Any two packets, a cache with one slot that expires after one sweep.
SPECIFICATION FairSpec
CONSTANTS
  a = a
  b = b
  r = r
  x = x
  NoRoute = NoRoute
  IP <- Addresses
  Own = {r}
  NextHop <- Routes
  IfaceIp <- Interfaces
  Misread = a
  Neighbour = {a, b}
  Traffic <- AllTraffic
  MaxPackets = 2
  SR_ARPCACHE_SZ = 1
  SR_ARPCACHE_TO = 1
INVARIANTS
  TypeOK
  PacketAccounted
  NeverMisdelivered
  WalkFollowsList
PROPERTIES
  EveryPacketSettled
