SPECIFICATION Spec
CONSTANTS
  Depth = 1
  Careless = {}
  Editors = {1}
  StepCount = 1
  Remote = {"search"}
  Local = {"sandbox"}
  Unknown = {"other"}
  MaxRounds = 1
  MaxCalls = 1
INVARIANTS
  EditsReachProviders
CHECK_DEADLOCK FALSE
