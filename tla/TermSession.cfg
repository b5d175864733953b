SPECIFICATION Spec
CONSTANTS
  Callers = {c1, c2}
  PumpThread = PumpThread
  NoOne = NoOne
  WholeSession = FALSE
  ReapTimesOut = TRUE
  MaxChunks = 2
  MaxOps = 3
  InputCap = 1
SYMMETRY Symmetry
INVARIANTS
  RecordingUnbroken
  RepaintAfterResize
  ClosedTraceWhole
  NothingOpenWhenFinal
  RecorderInv
PROPERTIES
  ClosedTraceFrozen
  ImplementsRecorder
