CONSTANTS
  t1 = t1
  t2 = t2
  t3 = t3
  Thread = {t1, t2, t3}
  NoThread = NoThread
  Conflicts <- MCConflicts
  WordSize <- MCWordSize
  MaxHeight = 4
  MaxResizes = 2
SPECIFICATION FairSpec
CHECK_DEADLOCK FALSE
INVARIANTS  BatchLeftByRollback Durable HeightReadable
PROPERTIES GateReopens
