SPECIFICATION OfficeSpec
CONSTANTS
  a1 = a1
  company = company
  cl2 = cl2
  e1 = e1
  f1 = f1
  gmail = gmail
  r1 = r1
  r2 = r2
  Requests = {r1, r2}
  Faults = TRUE
  Kinds = {"hmrc", "mail"}
  Mailboxes = {"gmail"}
  MaxAnswers = 2
  MaxMails = 1
  Clients = {cl2}
  PortalOnly = {cl2}
  Addresses = {a1}
  MaxLinks = 2
  PageSize = 2
  MaxMessages = 2
  MaxFiles = 2
  StaffFirms = {f1}
  StaffEmails = {e1}
  MaxInvites = 2
  MaxUsers = 1
  MaxDeletions = 2
  Domains = {company, gmail}
  Public = {gmail}
  Names = {a1}
  MaxFirms = 2
  ChasedClients = {1, 2}
  ChasePage = 1
  FirstDay = 90
  LastDay = 91
  None = None
  Ops = {"uk read", "uk put", "summary"}
  Amounts = {0, 1}
  Huge = 99
  Sandbox = TRUE
  MaxRetries = 1
  MaxWrites = 1
  HmrcFails = TRUE
INVARIANTS AllTypesOK ViewedWasListed ExpiredIsDead OneTrialADomain
PROPERTIES SpentStaysSpent
CHECK_DEADLOCK FALSE
