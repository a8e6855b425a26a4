SPECIFICATION PartsSpec
CONSTANTS
  MaxEpoch = 3
  MaxSessions = 2
  MaxClips = 1
  MaxFrames = 3
  MaxAudio = 3
  MaxUtter = 3
INVARIANTS NothingLostSilently AudioConserved ClipIsItsUtterance
PROPERTIES DiscardedSavesNoMore CancelIsHeeded StartReturnsTheLock SessionCloses
CHECK_DEADLOCK FALSE
