SPECIFICATION Spec
CONSTANTS
  t1 = t1
  Threads = {t1}
  AllocFails = FALSE
  ServerFails = TRUE
INVARIANT Graceful
