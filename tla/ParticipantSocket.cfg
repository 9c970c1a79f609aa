SPECIFICATION Spec
CONSTANTS
  Window = 3
  RateLimit = 2
  Interval = 2
  Timeout = 3
  MaxClock = 6
  MaxFaults = 1
INVARIANTS
  NoInternalError
  RateLimited
  SilentIsClosed
CHECK_DEADLOCK FALSE
