\* One request at a time, with failures, over two quarters.
SPECIFICATION Spec
CONSTANTS
  Requests = {r1}
  Invitations = {i1, i2}
  NoInvitation = NoInvitation
  LastQuarter = 1
  Faults = TRUE
PROPERTIES
  ClimbsLadder
