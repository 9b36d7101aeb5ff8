SPECIFICATION Spec
CONSTANTS
  Depth = 2
  Careless = {1}
  Editors = {2}
  StepCount = 3
  Remote = {"search"}
  Local = {"sandbox"}
  Unknown = {"other"}
  MaxRounds = 2
  MaxCalls = 2
INVARIANTS
  TypeOK
  OnionOrder
  ErrorNamesCulprit
  StepsSeeTheirPast
  ChainKeepsPolicies
  CallsHaveResults
PROPERTIES
  CompositionEnds
CHECK_DEADLOCK FALSE
