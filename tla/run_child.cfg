SPECIFICATION FairSpec
CONSTANTS
  Child = child
  Kin = {kin1}
  ChildMay = {"dies", "handles", "hangs"}
  KinMay = {"dies", "hangs"}
  CanDetach = TRUE
  PidReuse = TRUE
  PipeCap = 1
  Limit = 1
  MaxOut = 2
INVARIANTS
  TypeOK
  CaptureIsComplete
  NoSurvivor
PROPERTIES
  OnlySparedProcessesDelay
CHECK_DEADLOCK FALSE
