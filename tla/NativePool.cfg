SPECIFICATION FairSpec
CONSTANTS
  Task = {t1, t2, t3, t4}
  NoTask = NoTask
  Driver = {d1, d2, d3}
  NoDriver = NoDriver
  MaxSize = 2
  AllowNested = TRUE
  Listener = {t1, t2}
  AllowEnd = TRUE
  MaxRepeats = 1
INVARIANTS
  Safety
PROPERTIES
  ImplementsSemaphore
  EveryTaskServed
