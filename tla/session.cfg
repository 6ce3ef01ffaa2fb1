SPECIFICATION Spec
CONSTANTS
  Editor = {e1, e2}
  Rotator = {rot}
  Initializer = {i}
  Reader = {r1, r2}
  Casts <- LockersOrInit
  Key = {k1, k2}
  NoFile = NoFile
  Torn = Torn
  Nobody = Nobody
  MaxFaults = 2
SYMMETRY Symmetry
INVARIANTS
  TypeOK
  VaultIsWhole
  ReaderIsCurrent
  ReadersFailOnlyDuringRekey
PROPERTIES
  ImplementsUpdateTable
CHECK_DEADLOCK FALSE
