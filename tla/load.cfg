SPECIFICATION FairSpec
CONSTANTS
  c1 = c1
  c2 = c2
  Clients = {c1, c2}
  Methods = {"POST", "GET", "DELETE"}
  K = 2
  ServerFails = TRUE
  MaxRequests = 4
INVARIANT ReportAddsUp
INVARIANT SuccessNeedsFailure
INVARIANT IdsNotRepeated
PROPERTY Finishes
CHECK_DEADLOCK FALSE
