\* A script with a gate, and one that overflows, two operators and a crash.
SPECIFICATION Spec
CONSTANTS
  e1 = e1
  e2 = e2
  open = open
  gated = gated
  other = other
  look = look
  barred = barred
  branches = branches
  repeats = repeats
  overflows = overflows
  Executions = {e1, e2}
  Resumers = {r1, r2}
  Requests = {open, gated, other, look, barred}
  Lookups = {look}
  Gated = {gated, other}
  Blocked = {barred}
  Scripts <- MCScripts
  Does <- MCDoes
  MaxCalls = 2
  MaxCrashes = 1
  Nothing = nothing
INVARIANTS
  TypeOK
  PerformedOnce
  OneApprovalOneCall
  NothingStranded
  LostCallIsTold
  UnappliedIsNotRun
  OneVictim
PROPERTIES
  CallsKeepPromise
SYMMETRY ResumerSymmetry
CHECK_DEADLOCK FALSE
