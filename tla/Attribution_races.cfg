SPECIFICATION FairSpec
CONSTANTS
  Sessions = {s1, s2}
  s1 = s1
  s2 = s2
  ann = ann
  bob = bob
  k1 = k1
  k2 = k2
  Emails = {ann, bob}
  Ids = {k1}
  Imported = {bob}
  VendorEmail <- AnnsKeys
  Tags = {t1}
  t1 = t1
  Products = {roi}
  coding = coding
  OutcomeRoi = coding
  roi = roi
  None = None
  Idle = Idle
  MaxChanges = 2
  MaxFaults = 1
  MaxRows = 1
CHECK_DEADLOCK FALSE
INVARIANTS
  FactsMirror
  ConfirmedStays
PROPERTIES
  SyncsCatchUp
