SPECIFICATION FairSpec
CONSTANTS
  Callers = {c1, c2}
  Raw <- MCRaw
  DayOf <- MCDayOf
  TableOf <- MCTableOf
  IdentityOf <- MCIdentityOf
  NoRate <- MCNoRate
  People = {ada}
  ada = ada
  bob = bob
  i1 = i1
  i2 = i2
  Nobody = Nobody
  Idle = Idle
  MaxChanges = 3
  MaxFaults = 0
  LastCutoff = 2
INVARIANTS
  UndercountIsOwed
  CountedOnceApart
CHECK_DEADLOCK FALSE
PROPERTIES
  RecomputesEnd
