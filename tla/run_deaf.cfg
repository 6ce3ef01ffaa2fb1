SPECIFICATION FairSpec
CONSTANTS
  Child = child
  Kin = {kin1}
  ChildMay = {"dies"}
  KinMay = {"hangs"}
  CanDetach = FALSE
  PidReuse = FALSE
  PipeCap = 1
  Limit = 1
  MaxOut = 0
PROPERTIES
  TimeoutEnds
CHECK_DEADLOCK FALSE
