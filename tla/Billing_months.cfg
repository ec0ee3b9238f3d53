SPECIFICATION FairBilling
CONSTANTS
  j1 = j1
  j2 = j2
  Jobs = {j1, j2}
  Months <- ThreeMonths
  Restated = {2}
  Alien = {1}
  Uploads <- CSVs
  Plans <- Forms
  FirstNow = 2
  Seats = {1, 2}
  None = None
  Idle = Idle
  MaxCalls = 3
  Scheduled = TRUE
INVARIANTS DriftIsAdjustment SeatsBill
PROPERTY CallsEnd
CHECK_DEADLOCK FALSE
