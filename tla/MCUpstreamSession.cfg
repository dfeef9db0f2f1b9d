\* Two operations, each a call to any of three bindings or an onboarding fetch.
SPECIFICATION FairSpec
CONSTANTS
  b1 = b1
  b2 = b2
  b3 = b3
  u1 = u1
  Authorization = Authorization
  authorization = authorization
  secret1 = secret1
  secret2 = secret2
  Operations = {o1, o2}
  Bindings = {b1, b2, b3}
  Url <- MCUrl
  Headers <- MCHeaders
  Lower <- MCLower
  Nobody = nobody
INVARIANTS
  TypeOK
  CellIsTrue
  SessionsAreAccountedFor
PROPERTIES
  CallsSettle
CHECK_DEADLOCK FALSE
