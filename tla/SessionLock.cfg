SPECIFICATION Spec
CONSTANTS
  Starts = {s1, s2, s3}
  Clients = {}
  None = None
  Attempts = 2
  MaxCrashes = 1
  WaitTimesOut = TRUE
SYMMETRY Symmetry
INVARIANTS
  NameIsExclusive
  OwnerKeepsFiles
  TombstoneIsLatest
