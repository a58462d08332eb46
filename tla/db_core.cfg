SPECIFICATION FairSpec
CONSTANTS
  t1 = t1
  t2 = t2
  Threads = {t1, t2}
  AllocFails = TRUE
  ServerFails = TRUE
INVARIANT TypeOK
INVARIANT HandlesAccounted
INVARIANT StatementOutcome
INVARIANT ThreadEnded
PROPERTY StatementReturns
