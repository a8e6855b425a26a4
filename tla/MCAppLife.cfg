SPECIFICATION Spec
CONSTANTS
  Budgets <- MCBudgets
  MaxWrites = 1
  f = f
  old = old
  d = d
  Files = {f}
  Dictations = {old, d}
  OldRecords = {f, old}
  Aged = {old}
INVARIANTS SettlesOnDisk HistorySettles DeletedStaysDeleted
PROPERTIES ResetIsHarmless MirrorNeverReverts BacklogSurvives QuitLosesNothing
CHECK_DEADLOCK FALSE
