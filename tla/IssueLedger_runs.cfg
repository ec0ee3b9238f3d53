SPECIFICATION MCSpec
CONSTANTS
  Issues = {i1, i2}
  i1 = i1
  i2 = i2
  Statuses = {todo, doing, done}
  todo = todo
  doing = doing
  done = done
  SubmitStatuses = {doing}
  FailStatuses = {todo}
  DoneStatuses = {done}
  NoStatus = NoStatus
  NoRow = NoRow
  NoWindow = NoWindow
  WindowLength = 2
  TicksPerDay = 2
  RepullDays = 0
  HistoryLimit = 3
  LastTime = 4
  MaxTouches = 3
  MaxFaults = 1
  EarlyTouches = 2
  EarlyTime = 2
INVARIANT CountsMatchTracking
PROPERTIES VerdictsAreEarned CleanRunsPromoteRightly LedgerCatchesUp
