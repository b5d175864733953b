SPECIFICATION FairSpec
CONSTANTS
  Starts = {s1, s2}
  Clients = {c1}
  None = None
  Attempts = 5
  MaxCrashes = 1
  WaitTimesOut = TRUE
INVARIANTS
  EndLeavesNoFiles
PROPERTIES
  ExitReleasesName
