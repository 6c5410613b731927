SPECIFICATION FairSpec
CONSTANTS
  g = g  a1 = a1  a2 = a2  a3 = a3  a4 = a4  b1 = b1  b2 = b2  b3 = b3
  p1 = p1  p2 = p2
  Peer = {p1, p2}
  Block = {g, a1, a2, a3, a4, b1, b2, b3}
  Genesis = g
  Path <- MCPath
  Work <- MCWork
  Bad = {b3}
  Start <- MCStart
  IdsCount = 4
  SyncSize = 2
  IpFails = 1
  MaxEvents = 2
CHECK_DEADLOCK FALSE
INVARIANTS OneRequest NormalIsCaughtUp
PROPERTIES HonestNotBlamed EventuallyCaughtUp
