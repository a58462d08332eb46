SPECIFICATION Spec
CONSTANTS
  t1 = t1
  t2 = t2
  a1 = a1
  a2 = a2
  a3 = a3
  v1 = v1
  v2 = v2
  Nil = Nil
  NoValue = NoValue
  Keys = {1, 2, 3}
  Values = {v1, v2}
  Capacity = 2
  Threads = {t1, t2}
  Addrs = {a1, a2, a3}
  Buckets = {0, 1}
  Hash <- MCHash
INVARIANT HeapSound
PROPERTY ImplementsCache
PROPERTY LockReleased
SYMMETRY MCSymmetry
