\* One operator approves a pending call while its source is provisioned again.
SPECIFICATION Spec
CONSTANTS
  r1 = r1
  r2 = r2
  Start = start
  Resumers = {r1}
  Nobody = nobody
  MaxGeneration = 2
  MaxCrashes = 0
INVARIANTS
  SpentOnApprovedCatalog
CHECK_DEADLOCK FALSE
