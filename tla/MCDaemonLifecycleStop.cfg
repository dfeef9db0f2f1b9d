\* One client that may spawn a daemon while another is started by hand, and an
\* operator who stops what serves; work, and whoever runs it, may hang.
SPECIFICATION FairSpec
CONSTANTS
  Daemons = {d1, d2}
  ByHand = {d2}
  Askers = {a1}
  Stoppers = {s1}
  Rotators = {}
  Patient = {a1}
  MaxKills = 0
  Nobody = nobody
PROPERTIES
  StopReportIsTrue
  StopEnds
  AskersConverge
CHECK_DEADLOCK FALSE
