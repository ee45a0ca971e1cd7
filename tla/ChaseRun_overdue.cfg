SPECIFICATION Spec
CONSTANTS
  b1 = b1
  Clients = {1}
  Businesses = {b1}
  PageSize = 1
  FirstDay = 216
  LastDay = 217
  Faults = FALSE
INVARIANTS OverdueChased
CHECK_DEADLOCK FALSE
