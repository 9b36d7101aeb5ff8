SPECIFICATION Spec
CONSTANTS
  web = web
  api = api
  Proxy <- MCProxy
  Task = {1, 2, 3}
  Calls <- MCCalls
  Hooked <- MCHooked
  Faults = TRUE
  NoServer = NoServer
  MaxRequests = 1
INVARIANTS TypeOK ListenerOwned ServingHasStore
PROPERTIES DrainedBeforeClose CallsMeanIt CallsSettle
CHECK_DEADLOCK FALSE
