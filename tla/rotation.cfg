SPECIFICATION Spec
CONSTANTS
  Key = {k1, k2, k3}
  Db = {d1, d2}
  NoFile = NoFile
  Torn = Torn
  MaxFaults = 3
INVARIANTS
  TypeOK
  SingleFaultRecoverable
  HonestVerdicts
PROPERTIES
  ImplementsAtomicRekey
CHECK_DEADLOCK FALSE
