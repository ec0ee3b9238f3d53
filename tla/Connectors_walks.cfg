SPECIFICATION MCSpec
CONSTANTS
  None = None
  Vendors = {"github", "cursor", "openai", "anthropic", "issues"}
  MaxWalks = 2
  MaxChanges = 2
  GhUsers = {1, 2}
  GhCents = {0, 2}
  GhMonths = 2
  GhDays = 3
  GhReportDays = 2
  GhChunks = 2
  GhPRs <- ThreePRs
  GhPage = 1
  GhCap = 2
  CuEmails = {"ann", "bob", "ci"}
  CuService = {"ci"}
  CuMembers <- Team
  CuChunks = 2
  CuEvents <- PastEvents
  CuTimes = {21, 22}
  CuPage = 1
  CuLimits = {50, 100}
  OaIds = {1, 2}
  OaDays = 2
  OaUsage <- OaRows
  OaItems <- OaBills
  LineModel <- Lines
  Undated <- Dates
  OaRates <- Rates
  OaPinned = {"gpt"}
  OaOwner <- Owners
  OaTokens = 2
  AnUsers = {1, 2}
  AnEmail <- Emails
  AnKeys = {1, 2}
  AnName <- KeyNames
  LowerCase <- Lowered
  AnCreator <- Creators
  AnDays = 2
  AnUsage <- AnRows
  AnPriced = {"opus"}
  AnCharges <- AnCosted
  AnRecords <- Records
  AnPage = 1
  IbIssues = {1, 2}
  IbHistory = 2
  IbScripts <- Scripts
  IbToday = 10
  IbMoves = 4
  IbPeople = {"ann"}
  IbAgents = {"devin"}
  IbSubmitted = None
  IbFail = None
INVARIANTS VendorLedgers IssueTimelines
PROPERTY WalksEnd
CHECK_DEADLOCK FALSE
