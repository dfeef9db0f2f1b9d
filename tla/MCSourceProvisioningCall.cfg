\* A provision that brings a credential to a new url, and a tool call that reads
\* the namespace's rows around it.
SPECIFICATION Spec
CONSTANTS
  n1 = n1
  n2 = n2
  u1 = u1
  u2 = u2
  p1 = p1
  p2 = p2
  MaxRequests = 3
  Calls = {c1}
  Namespaces = {n1, n2}
  Urls = {u1, u2}
  Prefixes = {p1, p2}
  Asks <- MCAsks
  Nothing = nothing
  Partial = partial
  MaxCrashes = 1
INVARIANTS
  CallPairIsSupplied
CHECK_DEADLOCK FALSE
