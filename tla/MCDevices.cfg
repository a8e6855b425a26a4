SPECIFICATION PartsSpec
CONSTANTS
  Keys = {"ctrl", "shift", "space"}
  Mods = {"ctrl", "shift"}
  Chords <- Family
  MaxPresses = 3
  MaxGen = 2
  MaxLosses = 1
  AllKeys = {1, 2, 3}
  MaxChords = 3
  Stream = stream
  Record = record
  Outputs = {app}
  MaxGuards = 3
INVARIANTS HoldMeansHeld OneChordWins GateNeverWedges ChordTextDiverted MuteFollowsTheSessions
PROPERTIES UpgradeOutlivesTheKeys HoldEnds
CHECK_DEADLOCK FALSE
