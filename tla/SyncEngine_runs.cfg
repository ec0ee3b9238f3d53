SPECIFICATION MCSpec
CONSTANTS
  Callers = {c1, c2}
  c1 = c1
  c2 = c2
  NoOne = NoOne
  NoWindow = NoWindow
  NoRun = NoRun
  HistoryLimit = 2
  RepullDays = 1
  LastDay = 5
  MaxVersion = 1
  MaxFaults = 1
  MaxConnects = 1
INVARIANTS OneRun WindowsCover
PROPERTIES StoredNeverRegresses PullsIncrementally CatchesUp
