SPECIFICATION FairSpec
CONSTANTS
  Process = {p1, p2}
  Last = 3
  NoMigration = NoMigration
  Pooled = FALSE
  PoolSize = 1
  Roller = {p1}
  MaxFailures = 2
INVARIANTS
  Safety
PROPERTIES
  CallEnds
