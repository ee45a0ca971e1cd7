\* One request at a time, and it may die.
SPECIFICATION Spec
CONSTANTS
  Requests = {r1}
  Tokens = {t1, t2, t3}
  NoToken = NoToken
  Links = {l1, l2}
  NoLink = NoLink
  MaxLogins = 1
  MaxTime = 2
  Faults = TRUE
SYMMETRY Symmetry
INVARIANTS
  RotatedOnce
  ResetTakes
  ForcedOut
  InactiveFirmSilent
  ReloginButForChallenges
