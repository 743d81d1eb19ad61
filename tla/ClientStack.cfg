SPECIFICATION FairSpec
CONSTANTS
  Request = {r1, r2}
  NoRequest = NoRequest
  Timeout = 2
  Stacks <- MCStacks
  Delay = 1
  MaxDelay = 1
  Budget = 2
  RetryAfter = {2}
INVARIANTS
  Safety
  ExecutedOnce
PROPERTIES
  CallEnds
CHECK_DEADLOCK FALSE
