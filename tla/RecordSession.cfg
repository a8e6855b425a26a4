SPECIFICATION RecordSpec
CONSTANTS
  MaxEpoch = 4
  MaxSessions = 2
  CancelCap = 1
INVARIANTS
  TranscribedExactlyOnce
  KeptNeverDisowned
  ClosedWhenSilent
PROPERTIES
  KeepsThePromise
  CancelNeverReachesBack
CHECK_DEADLOCK FALSE
