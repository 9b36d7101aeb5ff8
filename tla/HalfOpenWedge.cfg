SPECIFICATION Spec
CONSTANTS
  Request = {r1, r2}
  Nobody = Nobody
  ProviderCount = 1
  MaxRetries = 2
  BaseBackoff = 1
  Budget = 3
  UseBreakers = TRUE
  Statuses = {401, 503}
  Faults = {"network"}
  FailureThreshold = 2
  ResetTimeout = 2
  HalfOpenRequests = 1
  MaxClock = 6
INVARIANTS
  HalfOpenAdmits
CHECK_DEADLOCK FALSE
