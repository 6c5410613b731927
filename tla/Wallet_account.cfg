SPECIFICATION Spec
CONSTANTS
  p = p
  s = s
  r = r
  x = x
  o1 = o1
  o2 = o2
  o3 = o3
  o4 = o4
  Tx = {p, x}
  Out = {o1, o3, o4}
  Own = {x}
  Spends <- MCSpends
  Pays <- MCPays
  Account <- MCAccount
  Dense = 1
  MaxCount = 3
  MaxHashes = 4
  Prepended = 1
  MaxTries = 1
  Bounds <- MCBounds
INVARIANT StaysAlive
