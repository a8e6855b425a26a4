SPECIFICATION Spec
CONSTANTS
  Budgets <- LateCancel
  MaxSessions = 2
  MaxTriggers = 2
PROPERTIES RetireSparesSuccessors
CHECK_DEADLOCK FALSE
