SPECIFICATION Spec
CONSTANTS
  Request = {r1, r2}
  Nobody = Nobody
  ProviderCount = 2
  MaxRetries = 1
  BaseBackoff = 1
  Budget = 2
  UseBreakers = TRUE
  Statuses = {400, 401, 404, 418, 429, 500, 503}
  Faults = {"network", "malformed", "no_body"}
  FailureThreshold = 2
  ResetTimeout = 1
  HalfOpenRequests = 1
  MaxClock = 4
INVARIANTS
  TypeOK
  BreakersSound
  SlotsAccounted
  NoProviderLeftUntried
PROPERTIES
  BreakerTransitions
  ChainsEnd
  ImplementsFailover
CHECK_DEADLOCK FALSE
