\* One script whose next call depends on the text of an error, one operator.
SPECIFICATION Spec
CONSTANTS
  e1 = e1
  e2 = e2
  open = open
  gated = gated
  other = other
  look = look
  barred = barred
  branches = branches
  repeats = repeats
  overflows = overflows
  Executions = {e1}
  Resumers = {r1}
  Requests = {open, gated, other, look, barred}
  Lookups = {look}
  Gated = {gated, other}
  Blocked = {barred}
  Scripts <- MCScripts
  Does <- MCDoes
  MaxCalls = 2
  MaxCrashes = 0
  Nothing = nothing
INVARIANTS
  DeterministicScriptsReplay
CHECK_DEADLOCK FALSE
