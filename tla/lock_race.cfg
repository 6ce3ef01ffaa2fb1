SPECIFICATION LockSpec
CONSTANTS
  Proc = {p1, p2}
  Pid = {n1, n2}
  NoPid = NoPid
  NoLock = NoLock
  Unparsable = Unparsable
  Outsiders = FALSE
  MaxLockFaults = 0
INVARIANTS
  MutualExclusion
