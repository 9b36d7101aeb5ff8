SPECIFICATION ServicesSpec
CONSTANTS
  a = a
  Check = {c1, c2, c3}
  Listener = {a}
  Rpm <- OneListener
  Minute = 3
  Second = 2
  Ttl = 3
  NoEntry = NoEntry
  MaxClock = 4
  Tenant = {t1, t2}
  Key = {k1, k2}
  JwtTokens = {j1}
  Request = {r1}
  MaxListed = 2
  MaxCost = 1
  Ips <- MCIps
  Weight <- MCWeight
  Allowed <- MCAllowed
  Strategies = {"round-robin", "weighted-round-robin"}
  MaxTime = 1
  MaxChoices = 6
  Entry = {e1, e2, e3, e4}
  QueueLimit = 2
  Setting = {"old", "new"}
  MaxEdits = 3
INVARIANTS
  TypeOK
  GrantsBounded
  ResetAtTrue
  KeysResolve
  FairShare
  EachEntryOnce
PROPERTIES
  RetryAfterEnough
  EntriesSettle
  SettlesOnFile
CHECK_DEADLOCK FALSE
