SPECIFICATION Spec
CONSTANTS
  Servers = {"a", "b"}
  Cats = {"plain", "backends"}
  Guarded = "backends"
  MaxEdits = 0
  Budgets <- ThreeSwitches
INVARIANT
  NoBaseOfAnotherServer
CHECK_DEADLOCK FALSE
