\* A packet that waits for a next hop that answers late.
SPECIFICATION FairSpec
CONSTANTS
  a = a
  b = b
  r = r
  x = x
  NoRoute = NoRoute
  IP <- Addresses
  Own = {r}
  NextHop <- Routes
  IfaceIp <- Interfaces
  Misread = a
  Neighbour = {a, b}
  Traffic <- Plain
  MaxPackets = 1
  SR_ARPCACHE_SZ = 1
  SR_ARPCACHE_TO = 1
PROPERTIES
  LateReplyServed
