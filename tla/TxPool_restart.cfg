SPECIFICATION Spec
CONSTANTS
  t1 = t1
  t2 = t2
  t3 = t3
  k1 = k1
  k2 = k2
  k3 = k3
  a1 = a1
  NoAlias = NoAlias
  Tx = {t1, t2}
  Image = {k1, k2}
  Alias = {a1}
  Images <- MCImages
  AliasOf <- MCAliasOf
  Deps <- MCDeps
  Bodies <- MCBodiesRestart
  TooBig = {t2}
  Refused = {}
  MaxHeight = 1
  MaxRestarts = 2
INVARIANTS SortedHaveDetails IndexedUnlessError
