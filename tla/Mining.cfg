SPECIFICATION FairSpec
CONSTANTS
  t = t
  u = u
  v = v
  x = x
  none = none
  c1 = c1
  c2 = c2
  Tx <- MCTx
  FeeOrder <- MCFeeOrder
  Images <- MCImages
  Deps <- MCDeps
  AliasOf <- MCAliasOf
  NoAlias = none
  Bodies <- MCBodies
  Capacity = 2
  Worker = {w1, w2}
  Caller = {c1, c2}
  Net = net
  Idle = idle
  Bounds <- MCBounds
CHECK_DEADLOCK FALSE
INVARIANTS PausersExact
PROPERTIES NoOverlap MinedVerifies WorkerCatchesUp StopReturns
