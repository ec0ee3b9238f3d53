SPECIFICATION OffboardFairSpec
CONSTANTS
  Persons = {ada, bob}
  Identities = {key, late}
  ada = ada
  bob = bob
  key = key
  seat = seat
  late = late
  Jobs = {j1, j2}
  OwnerOf <- MCOwnerOf
  Granted = {key}
  Forgiving = {}
  Nobody = Nobody
  NoJob = NoJob
  MaxSweeps = 2
  MaxFaults = 1
  MaxStops = 1
INVARIANTS
  RemovedIsGone
PROPERTIES
  OnlyOverlapsUndo
  LeaversLoseAccess
CHECK_DEADLOCK FALSE
