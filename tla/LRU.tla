--------------------------------- MODULE LRU ---------------------------------
(***************************************************************************)
(* The contents of a cache_t (cache.c) and what each operation of its API  *)
(* does to them.  Every operation runs from its first to its last          *)
(* statement under c->lock, so its callers see it as one step; these are   *)
(* the operators that step applies.                                        *)
(*                                                                         *)
(* A cache_t keeps every node in two structures: the hash table, which     *)
(* finds a node by its key, and the doubly-linked list, which orders the   *)
(* nodes by recency.  They are the two fields of the record:               *)
(*   entry  what the hash table finds for a key, NoValue when the search   *)
(*          ends at NULL;                                                  *)
(*   lru    the keys of the list from c->head to c->tail.                  *)
(* c->size is Len(lru).  Chains, pointers and heap nodes are left to the   *)
(* module that refines this one; allocation is taken to succeed.           *)
(***************************************************************************)
EXTENDS Integers, Sequences, SequencesExt

CONSTANTS Keys,      \* the key strings
          Values,    \* the value strings
          NoValue,   \* NULL: no node, no row
          Capacity   \* c->cap, 64 in main()

ASSUME NoValueAssumption == NoValue \notin Values
ASSUME CapacityAssumption == Capacity \in Nat

Optional == Values \cup {NoValue}

CacheStates == [entry : [Keys -> Optional], lru : Seq(Keys)]

cache_create == [entry |-> [k \in Keys |-> NoValue], lru |-> <<>>]

\* The key is found in its bucket's chain.
Cached(c, k) == c.entry[k] # NoValue

\* The place of k's node in the list.
Place(s, k) == CHOOSE i \in DOMAIN s : s[i] = k

detach(s, k) == RemoveAt(s, Place(s, k))

attach_head(s, k) == Cons(k, s)

ToHead(s, k) == attach_head(detach(s, k), k)

\* cache_get moves a hit to the head; what it returns is c.entry[k].
cache_get(c, k) ==
  IF Cached(c, k) THEN [c EXCEPT !.lru = ToHead(@, k)] ELSE c

\* c->size > c->cap: the tail leaves the list and the hash table.
EvictTail(c) ==
  [entry |-> [c.entry EXCEPT ![Last(c.lru)] = NoValue], lru |-> Front(c.lru)]

\* Mutant: a full cache reuses the tail's node under the tail's key.
cache_put_KeepsTailKey(c, k, v) ==
  IF ~Cached(c, k) /\ Len(c.lru) = Capacity
  THEN [entry |-> [c.entry EXCEPT ![Last(c.lru)] = v], lru |-> ToHead(c.lru, Last(c.lru))]
  ELSE [entry |-> [c.entry EXCEPT ![k] = v],
        lru   |-> IF Cached(c, k) THEN ToHead(c.lru, k) ELSE attach_head(c.lru, k)]

cache_put(c, k, v) ==
  LET stored  == [c EXCEPT !.entry[k] = v]
      entered == [stored EXCEPT !.lru = attach_head(@, k)]
  IN  IF Cached(c, k)                     THEN [stored EXCEPT !.lru = ToHead(@, k)]
      ELSE IF Len(entered.lru) > Capacity THEN EvictTail(entered)
      ELSE entered

\* Mutant: the search compares the wrong key and finds nothing.
cache_delete_FindsNothing(c, k) == c

\* Mutant: the node leaves its bucket's chain and stays in the list.
cache_delete_NoDetach(c, k) ==
  IF Cached(c, k) THEN [c EXCEPT !.entry[k] = NoValue] ELSE c

cache_delete(c, k) ==
  IF Cached(c, k)
  THEN [entry |-> [c.entry EXCEPT ![k] = NoValue], lru |-> detach(c.lru, k)]
  ELSE c

-----------------------------------------------------------------------------
(***************************************************************************)
(* The two structures hold the same nodes, each node once, and no more of  *)
(* them than the capacity: what every operation must find and must leave.  *)
(***************************************************************************)
ListMatchesTable(c) ==
  /\ \A i \in DOMAIN c.lru : Cached(c, c.lru[i])
  /\ \A k \in Keys : Cached(c, k) => \E i \in DOMAIN c.lru : c.lru[i] = k

ListedOnce(c) == \A i, j \in DOMAIN c.lru : c.lru[i] = c.lru[j] => i = j

WellFormed(c) ==
  /\ ListMatchesTable(c)
  /\ ListedOnce(c)
  /\ Len(c.lru) <= Capacity
=============================================================================
