SPECIFICATION Spec
CONSTANTS
  People = {ada, gus}
  Hired = {ada, gus}
  GoogleUsers = {gus}
  ada = ada
  gus = gus
  Pages <- MCPages
  LogLimit = 2
  Ticks = {t1, t2}
  t1 = t1
  t2 = t2
  Idle = Idle
  MaxEvents = 2
  MaxFaults = 1
INVARIANTS
  NoEventSkipped
  InvitedOnce
  LeaversAreOut
CHECK_DEADLOCK FALSE
SYMMETRY Symmetry
