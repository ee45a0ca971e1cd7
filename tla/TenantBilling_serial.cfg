\* One request at a time, events once and in order, no failures.
SPECIFICATION FairSpec
CONSTANTS
  Requests = {r1}
  MaxSessions = 2
  MaxCustomers = 1
  MaxNews = 3
  OwnersLeave = TRUE
  Faults = FALSE
INVARIANTS
  FollowsStripe
PROPERTIES
  ToldOnce
  TrialRunsOut
  SubscriberLetIn
