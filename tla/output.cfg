SPECIFICATION Spec
CONSTANTS
  Byte <- MCByte
  Stream = {"stdout", "stderr"}
  Secrets <- MCSecrets
  Codes <- MCCodes
  Marker <- MCMarker
  Notice <- MCNotice
  Lead = {"c"}
  Trail = {"u"}
  Replacement = "r"
  Caps <- MCCaps
  MaxPasses = 4
  MaxWords = 4
INVARIANTS
  CaptureIsInvisible
  NoFormShown
  SuppressedForCause
CHECK_DEADLOCK FALSE
