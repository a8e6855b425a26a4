SPECIFICATION FairSpec
CONSTANTS
  Servers = {"a", "b"}
  Cats = {"plain", "backends"}
  Guarded = "backends"
  MaxEdits = 2
  Budgets <- MCBudgets
PROPERTIES
  EditsSurviveLivePrompts
  PushesBuildOnTheServer
  ConsentFirst
  EventuallyAgrees
CHECK_DEADLOCK FALSE
