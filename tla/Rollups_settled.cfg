SPECIFICATION Spec
CONSTANTS
  Callers = {c1, c2}
  Raw <- MCRaw
  DayOf <- MCDayOf
  TableOf <- MCTableOf
  IdentityOf <- MCIdentityOf
  NoRate = {}
  People = {ada, bob}
  ada = ada
  bob = bob
  i1 = i1
  i2 = i2
  Nobody = Nobody
  Idle = Idle
  MaxChanges = 3
  MaxFaults = 1
  LastCutoff = 1
INVARIANTS
  SettledDaysExact
CHECK_DEADLOCK FALSE
