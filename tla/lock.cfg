SPECIFICATION LockFairSpec
CONSTANTS
  Proc = {p1, p2}
  Pid = {n1, n2, n3}
  NoPid = NoPid
  NoLock = NoLock
  Unparsable = Unparsable
  Outsiders = TRUE
  MaxLockFaults = 2
INVARIANTS
  LockTypeOK
  ExclusiveUnlessDisturbed
PROPERTIES
  OnlyReusedPidWedges
