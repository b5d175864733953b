SPECIFICATION FairSpec
CONSTANTS
  Callers = {c1, c2}
  PumpThread = PumpThread
  NoOne = NoOne
  WholeSession = TRUE
  ReapTimesOut = TRUE
  MaxChunks = 1
  MaxOps = 3
  InputCap = 1
INVARIANTS
  WholeSessionComplete
PROPERTIES
  SessionEnds
