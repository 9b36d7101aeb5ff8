SPECIFICATION Spec
CONSTANTS
  web = web
  api = api
  Proxy <- MCProxy
  Task = {1, 2, 3}
  Calls <- MCCalls
  Hooked <- MCHooked
  Faults = FALSE
  NoServer = NoServer
  MaxRequests = 1
INVARIANT ReloadServes
CHECK_DEADLOCK FALSE
