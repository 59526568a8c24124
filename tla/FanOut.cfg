SPECIFICATION FairFanSpec
CONSTANTS
  N = 3
  Limit = 2
  Clients = {1, 2, s}
  OtherKinds = {"submit"}
  Capacity = 1
  Interval = 2
  MaxStep = 1
  MaxClockSteps = 1
  ReadAttempts = 2
  RateLimitRetries = 1
  BackoffMs = 1
  MaxRetryAfterMs = 2
  RetryAfters = {2, 3}
INVARIANTS WithinBudget SendsWithinBudget ResolvedIsComplete
PROPERTIES NothingStartsAfterAbort HonorsRetryAfter BatchSettles
