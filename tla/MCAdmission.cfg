\* One slot, two places to wait: three executions and a resume compete for them while two
\* clients come and go and the daemon is told to stop.
SPECIFICATION Spec
CONSTANTS
  Connections = {c1, c2}
  Executes = {x1, x2, x3}
  Resumes = {y1}
  Provisions = {}
  Stops = {}
  Nobody = nobody
  Cap = 1
  Capacity = 2
SYMMETRY Symmetry
INVARIANTS
  TypeOK
  QueueIsSound
  StartsAreRightful
  DrainIsPatient
CHECK_DEADLOCK FALSE
