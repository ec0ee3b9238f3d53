SPECIFICATION Spec
CONSTANTS
  Staff = {"ann"}
  Watched = {"openai"}
  Ticks = {1, 2}
  LastDay = 2
  MonthOf <- Months
  Thresholds <- Pcts
  Limits = {4,5}
  Amounts = {4, 5}
  SilentAfter = 1
  TrailingDays = 1
  Multiplier = 2
  MinDay = 5
  Mailed <- Mails
  MaxSpends = 1
  MaxEdits = 1
  MaxLinks = 1
  MaxCrashes = 1
  NoTick = NoTick
  PRs = {1, 2, 3}
  MergedAt <- MergeInstants
  Patch <- Diffs
  NoPatch = NoPatch
  Gone = Gone
  NoRow = NoRow
  NoPass = NoPass
  NoLook = NoLook
  Horizons = {1, 2}
  BatchPrs = 2
  MaxFiles = 2
  Trees <- Texts
  Refused = {1}
  LastInstant = 4
  MaxHitches = 1
  FactRows <- LedgerFacts
  OutcomeRows <- LedgerOutcomes
  Metrics <- LedgerMetrics
  Seats <- LedgerSeats
  Key <- LedgerKeys
  Rate <- Rates
  Days = {1, 2}
  Products = {"app", "Coding"}
  People = {"ann", "old"}
  MergedInto <- Merges
  TagSettings <- Settings
  None = None
  MaxChanges = 2
  OutcomeKind <- Kinds
  DefaultValue <- Defaults
  SurvivalChecks <- Checks
  MonthRange <- MonthDays
  BatchSize = 1
  Calls <- Shapes
  Call <- CallOf
  Script <- ScriptOf
  Absent = Absent
  Logins = {1, 2}
  Members = {"ann"}
  Requests = {"r1", "r2"}
  Licensed = TRUE
  MaxStarts = 5
  NoOne = NoOne
  NoUser = NoUser
  Free = Free
  Keys = {"a", "b", "c"}
  WindowLength = 2
  MaxAttempts = 1
  MaxTracked = 2
  LastTick = 4
  MaxForgets = 0
  Fetchers = {f1, f2}
  Feeds <- Published
  SyncInterval = 2
  RetryAfter = 1
  MaxBad = 2
  MaxRestarts = 1
  NoRun = NoRun
  NoFetch = NoFetch
  Bodies <- Patches
  SETTING_DEFAULTS <- Shipped
  Malformed <- Turned
  Forged = {"forged"}
  MaxPatches = 2
  MaxRefusals = 1
  Rounds = {r1, r2}
  Lists <- Books
  Bounces = {"gone"}
  LastMonth = 2
  MaxListings = 1
  MaxMailFails = 1
  MaxReboots = 1
  NoRound = NoRound
  Boots = {"old", "new", "odd"}
  FilesOf <- Images
  Broken = {4}
  MaxKills = 2
  NoBoot = NoBoot
  Handlers = {h1, h2}
  DemoPeople = {"p"}
  DemoProducts = {"q"}
  LinkedVendors = {"github"}
  RealKinds <- Hooks
  MaxRequests = 3
  MaxDeaths = 1
  Resting = Resting
INVARIANTS MessagesHold NumbersAgree SignInsHold InstanceHolds
PROPERTIES StepsAreFinal WorkGetsDone
CHECK_DEADLOCK FALSE
