SPECIFICATION FairSpec
CONSTANTS
  Request = {r1, r2}
  Key = {k1}
  Entry = {e1, e2, e3}
  NoEntry = NoEntry
  FailureThreshold = 1
  SuccessThreshold = 1
  Cooldown = 1
  MaxEntries = 1
  EntryTtl = 2
  AllowReset = TRUE
  MaxClock = 2
INVARIANTS
  Safety
PROPERTIES
  CooldownKept
  ProbesAndRunsEnd
