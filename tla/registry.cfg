SPECIFICATION FairSpec
CONSTANTS
  w1 = w1
  w2 = w2
  c1 = c1
  c2 = c2
  u1 = u1
  Workers = {w1, w2}
  Callers = {c1, c2}
  Uris = {u1}
  Callbacks = {"h1", "h2"}
INVARIANT StableInUse
 
 
