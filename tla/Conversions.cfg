SPECIFICATION Spec
CONSTANTS
  Typed <- MCTyped
  CastTraces <- MCCastTraces
  FrameTraces <- MCFrameTraces
  Durations <- MCDurations
  Positions <- MCPositions
  Gestures <- MCGestures
  Finds <- MCFinds
  MouseScreens <- MCMouseScreens
  Rects <- MCRects
  ViewScreens <- MCViewScreens
  ChildRows = 1
  Overlay = TRUE
  MaxIdle = 5
  Window = 2
  TrailingCap = 4
  Ticks = {1, 2}
  MaxModeTransitions = 2
  MaxSlice = 4
  MaxChanges = 3
  MaxScrollTicks = 3
  LegacyMax = 3
  MaxModes = 3
  MaxTurns = 1
  Cap = 4
  Chunks = {1, 3, 4, 6}
  MaxFed = 11
  IntMax = 7
  Modes = {"any", "all"}
INVARIANTS
  TypedIsUnderstood
  CastIsFaithful
  FramesAreFaithful
  PlayerIsConsistent
  ModesAreExact
  GesturesAreWhole
  ViewsAgree
CHECK_DEADLOCK FALSE
