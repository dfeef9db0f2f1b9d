\* A daemon started by a client, one started by hand and a key rotation, any
\* of them killed once.
SPECIFICATION Spec
CONSTANTS
  Daemons = {d1, d2}
  ByHand = {d2}
  Askers = {a1}
  Stoppers = {}
  Rotators = {r1}
  Patient = {}
  MaxKills = 1
  Nobody = nobody
INVARIANTS
  TypeOK
  DatabaseIsOwned
  OrphansAreSettled
  UnavailableNeverRan
  KeysAreSafe
PROPERTIES
  RowsLiveOnce
CHECK_DEADLOCK FALSE
