SPECIFICATION FairSpec
CONSTANTS
  c1 = c1
  c2 = c2
  b1 = b1
  b2 = b2
  r1 = r1
  ann = ann
  ben = ben
  s1 = s1
  s2 = s2
  Clients = {c1, c2}
  Slots = {s1, s2}
  Buckets = {b1, b2}
  Refs = {r1}
  Employees = {ann, ben}
  BucketOf <- EmployeeCalls
  RefOf <- NoOutcomes
  OwnerOf <- AnnAndBen
  Nobody = Nobody
  NoSlot = NoSlot
  NoEvent = NoEvent
  Free = Free
  MaxBuffer = 2
  FlushBatch = 2
  MaxEvents = 2
  MaxFaults = 1
CHECK_DEADLOCK FALSE
INVARIANTS
  EmployeeFactsExact
  AckedIsIngested
PROPERTIES
  BuffersDrain
