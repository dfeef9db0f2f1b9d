\* A client works, an operator stops the daemon, and nobody is obliged to
\* finish: only the daemon's own timers are fair.
SPECIFICATION FairSpec
CONSTANTS
  Connections = {c1, c2}
  Executes = {x1}
  Resumes = {}
  Provisions = {p1}
  Stops = {s1}
  Nobody = nobody
  Cap = 1
  Capacity = 1
PROPERTIES
  DrainEnds
  StopIsPrompt
CHECK_DEADLOCK FALSE
