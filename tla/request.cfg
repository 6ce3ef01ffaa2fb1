SPECIFICATION Spec
CONSTANTS
  Ref = {r1, r2}
  NoRef = NoRef
  Hash = {h1, h2}
  Missing = Missing
  Unpinned = Unpinned
  Code = {0, 1, 106}
SYMMETRY Symmetry
INVARIANTS
  TypeOK
  PinnedBytesRan
  SecretOnlyToSpawn
  ReportsAgree
CHECK_DEADLOCK FALSE
