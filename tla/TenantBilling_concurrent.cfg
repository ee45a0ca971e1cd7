\* Two requests at once, failures, events again and out of order.
SPECIFICATION Spec
CONSTANTS
  Requests = {r1, r2}
  MaxSessions = 2
  MaxCustomers = 2
  MaxNews = 2
  OwnersLeave = FALSE
  Faults = TRUE
SYMMETRY Symmetry
INVARIANTS
  TypeOK
  StatusEarned
  PairMatches
