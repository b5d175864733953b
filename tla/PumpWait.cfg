SPECIFICATION FairWaitSpec
CONSTANTS
  w1 = w1
  w2 = w2
  Kinds <- MCKinds
  Waiters = {w1, w2}
  None = None
  WithContext = {w1}
  Quiets = {1}
  Timeouts = {2}
  Reverts = FALSE
  MaxChanges = 2
  MaxNow = 0
PROPERTIES
  StableMeansQuiet
  NoSuccessMissed
  WaitsAreServed
