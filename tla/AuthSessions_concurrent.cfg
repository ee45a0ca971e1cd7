\* Two requests at once, none of which fails.
SPECIFICATION Spec
CONSTANTS
  Requests = {r1, r2}
  Tokens = {t1, t2, t3}
  NoToken = NoToken
  Links = {}
  NoLink = NoLink
  MaxLogins = 2
  MaxTime = 1
  Faults = FALSE
SYMMETRY Symmetry
INVARIANTS
  TypeOK
  MfaEarned
PROPERTIES
  EndedStaysEnded
