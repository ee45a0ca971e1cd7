SPECIFICATION OfficeFairSpec
CONSTANTS
  a1 = a1
  a2 = a2
  cl1 = cl1
  company = company
  cl2 = cl2
  e1 = e1
  f1 = f1
  f2 = f2
  r1 = r1
  Requests = {r1}
  Faults = FALSE
  Kinds = {"hmrc", "mail"}
  Mailboxes = {"gmail", "outlook"}
  MaxAnswers = 2
  MaxMails = 1
  Clients = {cl1, cl2}
  PortalOnly = {cl2}
  Addresses = {a1}
  MaxLinks = 3
  PageSize = 2
  MaxMessages = 1
  MaxFiles = 1
  StaffFirms = {f1, f2}
  StaffEmails = {e1}
  MaxInvites = 3
  MaxUsers = 2
  MaxDeletions = 2
  Domains = {company}
  Public = {}
  Names = {a1, a2}
  MaxFirms = 3
  ChasedClients = {1}
  ChasePage = 1
  FirstDay = 90
  LastDay = 97
  None = None
  Ops = {"se read", "se put", "uk read", "uk put", "uk figures", "legacy uk figures",
         "summary",
         "figures", "legacy figures", "obligations", "crystallisation",
         "balance", "payments", "charges", "penalties", "codes read",
         "codes put", "codes delete", "status", "opt", "itsa status", "businesses",
         "details", "sources", "portal obligations", "portal status",
         "portal submissions", "portal liabilities"}
  Amounts = {1, 99}
  Huge = 99
  Sandbox = FALSE
  MaxRetries = 1
  MaxWrites = 2
  HmrcFails = TRUE
INVARIANTS RevokedStaysOut NewestKept MailedOnce RemovedStaysOut DeletedAsAsked LockHasFirm ChaseSpaced AnswersTrue
PROPERTIES DueIsRefreshed DeletionCarriedOut ChaseArrives
CHECK_DEADLOCK FALSE
