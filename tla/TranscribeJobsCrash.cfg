SPECIFICATION Spec
CONSTANTS
  Paths = {f1}
  MaxJobs = 2
  MaxLaunches = 2
  MaxFaults = 1
  MaxRows = 2
  MaxRetries = 1
INVARIANTS
  EveryIngestKept
CHECK_DEADLOCK FALSE
