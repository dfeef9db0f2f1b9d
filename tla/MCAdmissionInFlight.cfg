\* A client asks for a provision and leaves; the daemon is told to stop.
SPECIFICATION Spec
CONSTANTS
  Connections = {c1}
  Executes = {}
  Resumes = {}
  Provisions = {p1}
  Stops = {}
  Nobody = nobody
  Cap = 1
  Capacity = 1
INVARIANTS
  DrainWaitsForInFlight
CHECK_DEADLOCK FALSE
