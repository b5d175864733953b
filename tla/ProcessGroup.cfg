SPECIFICATION GroupSpec
CONSTANTS
  Callers = {c1, c2}
  Closer = closer
  Watcher = watcher
  Waiter = waiter
  Descendants = {d1, d2}
  None = None
  WaitMayFail = TRUE
INVARIANTS
  NoForeignSignal
  NoLateWinch
  NobodySurvivesClose
PROPERTIES
  GroupEnds
