SPECIFICATION Spec
CONSTANTS
  Depth = 1
  Careless = {}
  Editors = {}
  StepCount = 3
  Remote = {"search"}
  Local = {"sandbox"}
  Unknown = {"other"}
  MaxRounds = 1
  MaxCalls = 1
INVARIANTS
  PoliciesAsDocumented
CHECK_DEADLOCK FALSE
