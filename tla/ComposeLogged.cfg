SPECIFICATION Spec
CONSTANTS
  Request = {r1}
  Routes = {"compose"}
  Formats <- MCFormats
  Backends = {"sqlite"}
  ClientIds = {}
  EarlyAnswers = {429}
  Failures = {}
INVARIANTS
  LoggedAsSent
CHECK_DEADLOCK FALSE
