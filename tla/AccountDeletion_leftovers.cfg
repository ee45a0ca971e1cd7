SPECIFICATION Spec
CONSTANTS
  cl1 = cl1
  r1 = r1
  Requests = {r1}
  Clients = {cl1}
  MaxDeletions = 1
  Faults = FALSE
INVARIANTS NothingLeft
CHECK_DEADLOCK FALSE
