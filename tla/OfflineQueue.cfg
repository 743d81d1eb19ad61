SPECIFICATION FairSpec
CONSTANTS
  MaxOp = 3
  Tab = {t1, t2}
  Urgent = {3}
  Options <- MCOptions
  UniqueIds = TRUE
  Locked = TRUE
  MaxSends = 1
  MaxCrashes = 1
INVARIANTS
  Safety
  ReplayedInOrder
PROPERTIES
  EventuallyReplayed
