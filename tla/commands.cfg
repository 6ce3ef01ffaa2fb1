SPECIFICATION FairSpec
CONSTANTS
  Command = {c1, c2}
  Keep = 2
  Cap = 1
  NoFile = NoFile
  Closed = Closed
  Gone = Gone
  MaxWarnings = 1
  MaxFaults = 1
INVARIANTS
  ActsOnlyWithApproval
  SizeBounded
PROPERTIES
  OldestGoesFirst
  OnlyHandlersMayHang
