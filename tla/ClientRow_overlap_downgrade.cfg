SPECIFICATION Spec
CONSTANTS
  Requests = {r1,r2}
  Invitations = {i1}
  NoInvitation = NoInvitation
  LastQuarter = 0
  Faults = FALSE
PROPERTY SystemNeverDowngrades
