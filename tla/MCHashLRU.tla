----------------------------- MODULE MCHashLRU ------------------------------
(* HashLRU on a small instance in which keys collide. *)
EXTENDS HashLRU

MCHash == [k \in Keys |-> k % Cardinality(Buckets)]

MCSymmetry == Permutations(Threads) \cup Permutations(Addrs) \cup Permutations(Values)
=============================================================================
