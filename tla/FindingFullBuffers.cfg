CONSTANTS
  InCap = 1
  OutCap = 1
  QueueCap = 1
  Sessions <- MCEcho
SPECIFICATION Spec
INVARIANT BuffersNeverAllFull
