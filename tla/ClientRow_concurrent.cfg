\* Two requests at once, over one quarter.
SPECIFICATION Spec
CONSTANTS
  Requests = {r1, r2}
  Invitations = {i1}
  NoInvitation = NoInvitation
  LastQuarter = 0
  Faults = FALSE
SYMMETRY Symmetry
INVARIANTS
  TypeOK
  StagesEarned
  AuditClimbs
  CallsConfirmed
