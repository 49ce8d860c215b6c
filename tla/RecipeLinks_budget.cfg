CONSTANTS
  Requests = {r1, r2}
  TTL = 1
  Budget = 4
  Timeout = 2
  Backoff = 1
  MaxRetries = 2
SPECIFICATION Spec
INVARIANTS WithinBudget ServedFresh FailureNotCached
PROPERTIES Answered
