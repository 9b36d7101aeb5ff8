SPECIFICATION Spec
CONSTANTS
  Request = {r1}
  Routes = {"provider"}
  Formats <- MCFormats
  Backends = {"sqlite"}
  ClientIds = {}
  EarlyAnswers = {429}
  Failures = {}
INVARIANTS
  FallbackUnderstood
CHECK_DEADLOCK FALSE
