SPECIFICATION Spec
CONSTANTS
  c1 = c1
  c2 = c2
  b1 = b1
  b2 = b2
  r1 = r1
  ann = ann
  ben = ben
  s1 = s1
  s2 = s2
  Clients = {c1}
  Slots = {s1, s2}
  Buckets = {b1, b2}
  Refs = {r1}
  Employees = {ann}
  BucketOf <- NoCalls
  RefOf <- Restatements
  OwnerOf <- NobodysBuckets
  Nobody = Nobody
  NoSlot = NoSlot
  NoEvent = NoEvent
  Free = Free
  MaxBuffer = 3
  FlushBatch = 2
  MaxEvents = 5
  MaxFaults = 4
SYMMETRY Symmetry
CHECK_DEADLOCK FALSE
INVARIANTS BufferSound OutcomesNewest
PROPERTY ImplementsClient
