SPECIFICATION Spec
CONSTANTS
  Process = {p1}
  Last = 1
  NoMigration = NoMigration
  Pooled = TRUE
  PoolSize = 2
  Roller = {}
  MaxFailures = 1
INVARIANTS
  AtomicAtRest
