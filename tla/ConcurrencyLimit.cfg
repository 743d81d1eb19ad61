SPECIFICATION FairSpec
CONSTANTS
  Request = {r1, r2, r3, r4}
  Key = {k1, k2}
  MaxConcurrent = 1
  MaxQueue = 2
INVARIANTS
  Safety
PROPERTIES
  NoOvertaking
  EveryWaiterServed
  ImplementsSemaphore
