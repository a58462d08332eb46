SPECIFICATION Spec
CONSTANTS
  w1 = w1
  w2 = w2
  k1 = k1
  k2 = k2
  v1 = v1
  NoValue = NoValue
  BadId = BadId
  Workers = {w1, w2}
  Keys = {k1, k2}
  Values = {v1}
  Capacity = 1
  Outcomes = {"ok"}
  ExternalReset = FALSE
INVARIANT ListIsJson
