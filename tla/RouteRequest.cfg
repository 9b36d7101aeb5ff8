SPECIFICATION Spec
CONSTANTS
  Request = {r1, r2}
  Routes = {"provider", "stream", "compose", "tools", "function"}
  Formats <- MCFormats
  Backends = {"memory", "sqlite"}
  ClientIds = {r1}
  EarlyAnswers = {429}
  Failures = {}
INVARIANTS
  TypeOK
  RowsTellOutcome
  AuditComplete
  UsageHasRow
  StatsMatchLog
  RouteRowKept
PROPERTIES
  CallsAreAnswered
CHECK_DEADLOCK FALSE
