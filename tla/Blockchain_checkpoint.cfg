SPECIFICATION Spec
CONSTANTS
  g = g
  a1 = a1
  a2 = a2
  a3 = a3
  b1 = b1
  b2 = b2
  b3 = b3
  c2 = c2
  c3 = c3
  t1 = t1
  t2 = t2
  t3 = t3
  x1 = x1
  k1 = k1
  k2 = k2
  NoAlias = NoAlias
  Block = {g, a1, a2, a3, b1, b2, b3, c2, c3}
  Genesis = g
  Tx = {t1, t2, t3}
  Path <- MCPath
  Work <- MCWorkCheckpoint
  TxsOf <- MCTxsOfCheckpoint
  Images <- MCImages
  Deps <- MCDeps
  AliasOf <- MCAliasOf
  Version <- MCVersionFork
  VersionAt <- MCVersionAtFork
  BadHeader = {c3}
  BadMiner = {a3}
  Checkpoints = {b3}
  MaxCrashes = 2
INVARIANTS OneRole
PROPERTIES CheckpointStays
