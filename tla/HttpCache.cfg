SPECIFICATION Spec
CONSTANTS
  Request = {r1, r2}
  Key = {k1, k2}
  Ttl = 1
  StaleIfError = 1
  MaxEntries = 1
  Validators = TRUE
  OwnValidator = FALSE
  MaxLatency = 1
  MaxVersion = 2
  MaxClock = 5
SYMMETRY Symmetry
INVARIANTS
  Safety
PROPERTIES
  EtagMatched
