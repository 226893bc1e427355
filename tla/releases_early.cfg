CONSTANTS
  Requests = {r1, r2}
  CacheTime = 3
  RetryTime = 2
  FetchTimeout = 1
  Waits = {5}
  MaxTime = 14
  None = None
  Error = Error
SPECIFICATION Spec
PROPERTY NotAskedEarly
CHECK_DEADLOCK FALSE
