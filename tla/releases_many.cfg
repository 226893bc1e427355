CONSTANTS
  Requests = {r1, r2}
  CacheTime = 3
  RetryTime = 2
  FetchTimeout = 1
  Waits = {1, 5}
  MaxTime = 9
  None = None
  Error = Error
SPECIFICATION Spec
PROPERTIES AsksSpaced ServedFresh
CHECK_DEADLOCK FALSE
