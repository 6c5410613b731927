SPECIFICATION FairSpec
CONSTANTS
  self = self  a = a  b = b  c = c
  Addr = {self, a, b, c}
  Self = self
  Seeds <- MCSeeds
  Priority <- MCPriority
  ConnectionsCount = 1
  WhitePercent = 70
  WhiteLimit = 1
  GrayLimit = 3
  IndexLimit = 2
  TryLimit = 2
  Gossip <- MCGossip
  Dialers = {b, c}
  Hidden = {c}
  FirstTime = 1
  MaxTime = 2
  MaxEvents = 2
CHECK_DEADLOCK FALSE
INVARIANTS ListsSound 
PROPERTIES OutLimit Reconnects
