SPECIFICATION Spec
CONSTANTS
  t1 = t1
  t2 = t2
  t3 = t3
  k1 = k1
  k2 = k2
  k3 = k3
  a1 = a1
  NoAlias = NoAlias
  Tx = {t1, t2, t3}
  Image = {k1, k2, k3}
  Alias = {a1}
  Images <- MCImages
  AliasOf <- MCAliasOf
  Deps <- MCDeps
  Bodies <- MCBodies
  TooBig = {}
  Refused = {}
  MaxHeight = 2
  MaxRestarts = 0
INVARIANTS NoPhantomImages OneSpenderNotKept IndexedUnlessError
PROPERTIES NoTxLost TimedOutOnlyWithBlock
