CONSTANTS
  Shows <- MCShows
  MaxIdle = 6
  Second = 4
  Glow = 2
  QueueCap = 2
SPECIFICATION Spec
INVARIANTS
  PlaybackIsReplay
  TerminalIsCurrent
PROPERTIES
  PlaybackReturns
