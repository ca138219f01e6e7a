SPECIFICATION AppFairSpec
CONSTANTS
  MaxStarts = 3
  Actors = {"main"}
  Faults = {"engine", "attach", "create", "deny", "noproxy", "kill"}
  Typed = {8080}
  MaxIntents = 2
INVARIANTS
  AppTypeOK
  ServedWhenRunning
PROPERTIES
  StopReturns
  StartServed
  ScreenAnswers
CHECK_DEADLOCK FALSE
