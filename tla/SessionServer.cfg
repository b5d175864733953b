\* The server of a session, its end, and pairs of clients.
CONSTANTS
  c1 = c1
  c2 = c2
  Clients = {c1, c2}
  Plans <- MCPlans
SPECIFICATION Spec
INVARIANTS
  EndIsDurable
  EndIsOwned

  
CHECK_DEADLOCK FALSE
