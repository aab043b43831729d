SPECIFICATION Spec
CONSTANTS
  MaxScans = 1
  Drains = {periodic, oneShot}
  Recorder = Recorder
  BatchSize = 2
  Stuck = {}
INVARIANTS
  TypeOK
  CountedOnce
  NoScanLost
PROPERTIES
  LiveRowRemovedOnlyWhenCounted
  DeliverySpec
