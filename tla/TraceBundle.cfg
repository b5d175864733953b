SPECIFICATION MCSpec
CONSTANTS
  NoCapture = NoCapture
  Nothing = Nothing
  Sizes = {0, 1, 6}
  Labels = {0, 6, 7}
  Screens <- MCScreens
  Captures <- MCCaptures
  Foreign <- MCForeign
  MaxNow = 2
  MaxLines = 3
  MaxLineBytes = 8
  MaxEventsBytes = 15
  MaxEventCount = 3
  MaxDecodedPayloadBytes = 5
  MaxTerminalCells = 6
  MaxDimension = 4
  MaxManifestBytes = 4
  MaxNetworkCaptureBytes = 8
  MaxArchiveEntries = 4
  MaxUint64 = 31
INVARIANTS
  ClosedIsReadable
  ForeignIsSafe
PROPERTIES
  TargetStaysWhole
CHECK_DEADLOCK FALSE
