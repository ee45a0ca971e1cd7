\* One request at a time and no failure: what the row and HMRC agree on.
SPECIFICATION FairSpec
CONSTANTS
  Requests = {r1}
  Invitations = {i1, i2}
  NoInvitation = NoInvitation
  LastQuarter = 0
  Faults = FALSE
INVARIANTS
  HistoryComplete
  InvitationTracked
PROPERTIES
  AuthorisedLeavesPending
  AcceptanceArrives
