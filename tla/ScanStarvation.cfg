SPECIFICATION LiveSpec
CONSTANTS
  MaxScans = 2
  Drains = {periodic}
  Recorder = Recorder
  BatchSize = 2
  Stuck = {1}
PROPERTIES
  HealthyRowsSettle
