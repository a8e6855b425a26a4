SPECIFICATION FairSpec
CONSTANTS
  Budgets <- MCBudgets
  MaxSessions = 2
  MaxTriggers = 2
INVARIANTS ChipMatchesTheMic ReleasedChordStops
PROPERTIES FinalizeEnds
CHECK_DEADLOCK FALSE
