\* Two operators answer one pending call while the catalog, the grant and the
\* process change under them, and stores, resolvers and upstreams may never
\* answer at all.
SPECIFICATION FairSpec
CONSTANTS
  r1 = r1
  r2 = r2
  Start = start
  Resumers = {r1, r2}
  Nobody = nobody
  MaxGeneration = 2
  MaxCrashes = 1
CONSTRAINT FirstIsR1
INVARIANTS
  TypeOK
  OnlyApprovedCallsSent
  AuthorityIsRevalidated
  NotAppliedNeverSent
  RowDecides
PROPERTIES
  KeepsPromise
  AnswersResolve
CHECK_DEADLOCK FALSE
