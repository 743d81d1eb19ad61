SPECIFICATION FairSpec
CONSTANTS
  Dialects = {"pg", "mysql"}
  Uses <- MCUses
  MaxStatements = 7
  MaxRows = 1
INVARIANTS
  Safety
  OutcomeTold
PROPERTIES
  CallEnds
CHECK_DEADLOCK FALSE
