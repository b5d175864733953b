CONSTANTS
  InCap = 1
  OutCap = 1
  QueueCap = 1
  Sessions <- MCSessions
SPECIFICATION Spec
INVARIANTS
  RecordingsAreTrue
  ScreenCatchesUp
PROPERTIES
  QuitEnds
