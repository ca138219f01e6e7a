SPECIFICATION AppSpec
CONSTANTS
  MaxStarts = 2
  Actors = {"main", "binder"}
  Faults = {"engine", "attach", "create", "deny", "noproxy", "kill"}
  Typed = {8080}
  MaxIntents = 2
INVARIANTS
  OneEngine
  TunOpenInLoop
  ClearAlone
  StopIsComplete
  LastCommandWins
  RunningIsRemembered
CHECK_DEADLOCK FALSE
