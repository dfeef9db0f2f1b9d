\* Three source requests at two namespaces that want one prefix, a tool call
\* and a crash.
SPECIFICATION FairSpec
CONSTANTS
  n1 = n1
  n2 = n2
  u1 = u1
  u2 = u2
  p1 = p1
  p2 = p2
  MaxRequests = 3
  Calls = {c1}
  Namespaces = {n1, n2}
  Urls = {u1, u2}
  Prefixes = {p1, p2}
  Asks <- MCAsks
  Nothing = nothing
  Partial = partial
  MaxCrashes = 1
INVARIANTS
  TypeOK
  OneHolder
  PairsAreSupplied
  AnswersAreTrue
  CatalogFollowsStore
PROPERTIES
  RequestsAreAnswered
CHECK_DEADLOCK FALSE
