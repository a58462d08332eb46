------------------------------ MODULE HashLRU -------------------------------
(***************************************************************************)
(* cache.c: the nodes, the chains of the hash table, the doubly-linked     *)
(* list and the mutex, under concurrent calls.  Taking the lock, each      *)
(* iteration of a search loop, the change it leads to and the unlocking    *)
(* are steps of their own.  strdup and calloc are taken to succeed, as the *)
(* code takes them to.                                                     *)
(***************************************************************************)
EXTENDS Integers, Sequences, SequencesExt, FiniteSets

CONSTANTS Keys, Values, NoValue, Capacity,
          Threads,
          Addrs,     \* the addresses calloc may return for a node
          Nil,       \* the NULL pointer, and the mutex's owner when unlocked
          Buckets,   \* 0 .. c->hsize - 1
          Hash       \* hash_str(key) % c->hsize

ASSUME HashAssumption == Hash \in [Keys -> Buckets]
ASSUME NilAssumption == Nil \notin Addrs \cup Threads \cup Keys
ASSUME AddrsAssumption == IsFiniteSet(Addrs)
ASSUME NoValueAssumption == NoValue \notin Values
ASSUME CapacityAssumption == Capacity \in Nat

VARIABLES
  heap,     \* what c points to, one of Heaps
  lock,     \* the owner of c->lock
  pc,       \* where each thread is
  call,     \* the call it executes
  cur,      \* its cur, or *pp
  out,      \* what the call returns
  contents  \* history: what heap stood for when the lock was last released

vars == <<heap, lock, pc, call, cur, out, contents>>

NoCall == [op |-> "none"]

Calls ==
       [op : {"get", "delete"}, key : Keys]
  \cup [op : {"put"}, key : Keys, val : Values]

Pointers == Addrs \cup {Nil}

\* The fields of node_t by the node's address, then those of cache_t.
Heaps ==
  [key : [Addrs -> Keys \cup {Nil}], val : [Addrs -> Values \cup {NoValue}],
   prev : [Addrs -> Pointers], next : [Addrs -> Pointers], hnext : [Addrs -> Pointers],
   head : Pointers, tail : Pointers, htable : [Buckets -> Pointers], size : Int]

\* A node has no key before calloc and after free.
Allocated(h) == {a \in Addrs : h.key[a] # Nil}

-----------------------------------------------------------------------------
(* What the functions do to the pointers. *)

\* The node's neighbours are linked to each other, at the ends by head, tail.
detach(h, n) ==
  LET p == h.prev[n]
      x == h.next[n]
  IN  [h EXCEPT !.next = [a \in Addrs |-> IF a = n THEN Nil ELSE IF a = p THEN x ELSE @[a]],
                !.prev = [a \in Addrs |-> IF a = n THEN Nil ELSE IF a = x THEN p ELSE @[a]],
                !.head = IF p = Nil THEN x ELSE @,
                !.tail = IF x = Nil THEN p ELSE @]

attach_head(h, n) ==
  [h EXCEPT !.next = [@ EXCEPT ![n] = h.head],
            !.prev = [a \in Addrs |-> IF a = n THEN Nil ELSE IF a = h.head THEN n ELSE @[a]],
            !.head = n,
            !.tail = IF @ = Nil THEN n ELSE @]

\* The link of the chain that points to n points past it.
Unchain(h, n) ==
  LET b == Hash[h.key[n]]
      pred == CHOOSE a \in Allocated(h) : h.hnext[a] = n
  IN  IF h.htable[b] = n THEN [h EXCEPT !.htable = [@ EXCEPT ![b] = h.hnext[n]]]
                         ELSE [h EXCEPT !.hnext = [@ EXCEPT ![pred] = h.hnext[n]]]

Release(h, n) ==
  [h EXCEPT !.key = [@ EXCEPT ![n] = Nil], !.val = [@ EXCEPT ![n] = NoValue],
            !.hnext = [@ EXCEPT ![n] = Nil], !.size = @ - 1]

ToHead(h, n) == attach_head(detach(h, n), n)

Store(h, n, v) == [h EXCEPT !.val = [@ EXCEPT ![n] = v]]

\* Beyond the capacity the tail leaves the list, its chain and the heap.
Shrink(h) ==
  IF h.size > Capacity THEN Release(Unchain(detach(h, h.tail), h.tail), h.tail) ELSE h

\* A node at the front of its key's chain.
Enter(h, n, k, v) ==
  LET b == Hash[k]
  IN  [h EXCEPT !.key = [@ EXCEPT ![n] = k], !.val = [@ EXCEPT ![n] = v],
                !.hnext = [@ EXCEPT ![n] = h.htable[b]],
                !.htable = [@ EXCEPT ![b] = n],
                !.size = @ + 1]

-----------------------------------------------------------------------------
(* The contents the structure stands for. *)

\* The i-th node of a path; NULL is before its first and after its last.
Stop(s, i) == IF i \in DOMAIN s THEN s[i] ELSE Nil

\* The paths from a pointer that visit no node twice.
Walks ==
  [p \in Pointers |-> {s \in SeqOf(Addrs, Cardinality(Addrs)) : IsInjective(s) /\ Stop(s, 1) = p}]

\* One kind of link leads along the path to NULL.
Leads(link, s) == \A i \in DOMAIN s : link[s[i]] = Stop(s, i + 1)

Along(link, p) ==
  IF \E s \in Walks[p] : Leads(link, s) THEN CHOOSE s \in Walks[p] : Leads(link, s) ELSE <<>>

Found(h, k) == {a \in Range(Along(h.hnext, h.htable[Hash[k]])) : h.key[a] = k}

Contents(h) ==
  LET list == Along(h.next, h.head)
  IN  [entry |-> [k \in Keys |-> LET nodes == Found(h, k)
                                 IN  IF nodes = {} THEN NoValue
                                     ELSE h.val[CHOOSE a \in nodes : TRUE]],
       lru   |-> [i \in DOMAIN list |-> h.key[list[i]]]]

-----------------------------------------------------------------------------
Goto(t, label) == pc' = [pc EXCEPT ![t] = label]

Invoke(t, c) ==
  /\ pc[t] = "idle"
  /\ call' = [call EXCEPT ![t] = c]
  /\ Goto(t, "lock")
  /\ UNCHANGED <<heap, lock, cur, out, contents>>

\* Mutant: the lock is taken whoever holds it.
Lock_NoWait(t) ==
  /\ pc[t] = "lock"
  /\ lock' = t
  /\ cur' = [cur EXCEPT ![t] = heap.htable[Hash[call[t].key]]]
  /\ Goto(t, "search")
  /\ UNCHANGED <<heap, call, out, contents>>

\* pthread_mutex_lock, and the head of the key's chain.
Lock(t) ==
  /\ pc[t] = "lock" /\ lock = Nil
  /\ lock' = t
  /\ cur' = [cur EXCEPT ![t] = heap.htable[Hash[call[t].key]]]
  /\ Goto(t, "search")
  /\ UNCHANGED <<heap, call, out, contents>>

\* The next node of the chain.
Advance(t) ==
  /\ pc[t] = "search" /\ cur[t] # Nil
  /\ heap.key[cur[t]] # call[t].key
  /\ cur' = [cur EXCEPT ![t] = heap.hnext[cur[t]]]
  /\ UNCHANGED <<heap, lock, pc, call, out, contents>>

Hit(t, op) ==
  /\ pc[t] = "search" /\ call[t].op = op /\ cur[t] # Nil
  /\ heap.key[cur[t]] = call[t].key

Miss(t, op) == pc[t] = "search" /\ call[t].op = op /\ cur[t] = Nil

\* The value is copied while the lock is held.
GetHit(t) ==
  /\ Hit(t, "get")
  /\ heap' = ToHead(heap, cur[t])
  /\ out' = [out EXCEPT ![t] = heap.val[cur[t]]]
  /\ Goto(t, "unlock")
  /\ UNCHANGED <<lock, call, cur, contents>>

PutUpdate(t) ==
  /\ Hit(t, "put")
  /\ heap' = ToHead(Store(heap, cur[t], call[t].val), cur[t])
  /\ Goto(t, "unlock")
  /\ UNCHANGED <<lock, call, cur, out, contents>>

\* Mutant: the node is freed and left in its chain.
DeleteHit_KeepsChain(t) ==
  /\ Hit(t, "delete")
  /\ heap' = Release(detach(heap, cur[t]), cur[t])
  /\ Goto(t, "unlock")
  /\ UNCHANGED <<lock, call, cur, out, contents>>

DeleteHit(t) ==
  /\ Hit(t, "delete")
  /\ heap' = Release(detach(Unchain(heap, cur[t]), cur[t]), cur[t])
  /\ Goto(t, "unlock")
  /\ UNCHANGED <<lock, call, cur, out, contents>>

Absent(t) ==
  /\ Miss(t, "get") \/ Miss(t, "delete")
  /\ Goto(t, "unlock")
  /\ UNCHANGED <<heap, lock, call, cur, out, contents>>

PutNew(t) ==
  /\ Miss(t, "put")
  /\ \E n \in Addrs \ Allocated(heap) :
       heap' = Shrink(attach_head(Enter(heap, n, call[t].key, call[t].val), n))
  /\ Goto(t, "unlock")
  /\ UNCHANGED <<lock, call, cur, out, contents>>

\* Mutant: one return path forgets the mutex.
Unlock_NotOnMiss(t) ==
  /\ pc[t] = "unlock"
  /\ lock' = IF cur[t] = Nil /\ call[t].op = "get" THEN lock ELSE Nil
  /\ contents' = IF lock' = Nil THEN Contents(heap) ELSE contents
  /\ Goto(t, "return")
  /\ UNCHANGED <<heap, call, cur, out>>

Unlock(t) ==
  /\ pc[t] = "unlock"
  /\ lock' = Nil
  /\ contents' = Contents(heap)
  /\ Goto(t, "return")
  /\ UNCHANGED <<heap, call, cur, out>>

Return(t) ==
  /\ pc[t] = "return"
  /\ call' = [call EXCEPT ![t] = NoCall]
  /\ cur' = [cur EXCEPT ![t] = Nil]
  /\ out' = [out EXCEPT ![t] = NoValue]
  /\ Goto(t, "idle")
  /\ UNCHANGED <<heap, lock, contents>>

-----------------------------------------------------------------------------
Init ==
  /\ heap = [key |-> [a \in Addrs |-> Nil], val |-> [a \in Addrs |-> NoValue],
             prev |-> [a \in Addrs |-> Nil], next |-> [a \in Addrs |-> Nil],
             hnext |-> [a \in Addrs |-> Nil],
             head |-> Nil, tail |-> Nil, htable |-> [b \in Buckets |-> Nil], size |-> 0]
  /\ lock = Nil
  /\ contents = [entry |-> [k \in Keys |-> NoValue], lru |-> <<>>]
  /\ pc = [t \in Threads |-> "idle"] /\ call = [t \in Threads |-> NoCall]
  /\ cur = [t \in Threads |-> Nil] /\ out = [t \in Threads |-> NoValue]

Critical(t) ==
  \/ Advance(t) \/ GetHit(t) \/ PutUpdate(t) \/ PutNew(t) \/ DeleteHit(t) \/ Absent(t)
  \/ Unlock(t)

Next ==
  \E t \in Threads : Critical(t) \/ Lock(t) \/ Return(t) \/ \E c \in Calls : Invoke(t, c)

Spec == Init /\ [][Next]_vars

-----------------------------------------------------------------------------
(* The node, the link and the counter that cache.c keeps in three places   *)
(* agree whenever the lock is free: one path is the list read from either  *)
(* end and holds every node (none leaked, none freed but linked), each     *)
(* bucket's chain holds the nodes whose keys hash to it, no key has two    *)
(* nodes, c->size counts them and does not exceed c->cap.  Nobody has      *)
(* changed the contents since the lock was released, and no search reads a *)
(* node that has been freed.                                               *)
HeapSound ==
  /\ lock = Nil =>
       /\ \E s \in Walks[heap.head] :
            /\ Leads(heap.next, s)
            /\ Reverse(s) \in Walks[heap.tail] /\ Leads(heap.prev, Reverse(s))
            /\ Range(s) = Allocated(heap)
            /\ heap.size = Len(s) /\ heap.size <= Capacity
       /\ \A b \in Buckets :
            \E s \in Walks[heap.htable[b]] :
              /\ Leads(heap.hnext, s)
              /\ Range(s) = {a \in Allocated(heap) : Hash[heap.key[a]] = b}
       /\ \A a, c \in Allocated(heap) : heap.key[a] = heap.key[c] => a = c
       /\ contents = Contents(heap)
  /\ \A t \in Threads : pc[t] = "search" => cur[t] \in Allocated(heap) \cup {Nil}

\* The steps to the unlocking: the rest of the chain, the change, the unlock.
StepsHeld(t) ==
  CASE lock # t           -> 0
    [] pc[t] = "search"   -> Len(Along(heap.hnext, cur[t])) + 2
    [] OTHER              -> 1

(* The lock is released on every path: of the six unlocks of cache.c three *)
(* stand before a return within a search loop (73, 119, 143), the others   *)
(* at the functions' ends (103, 126, 148).  Each step of the holder brings *)
(* the release nearer, no chain is walked in a circle, and nobody else's   *)
(* step takes it further away.                                             *)
LockReleased ==
  [][\A t \in Threads : lock = t =>
       IF Critical(t) THEN StepsHeld(t)' < StepsHeld(t) ELSE StepsHeld(t)' = StepsHeld(t)]_vars

(* Under the lock the pointers implement the cache as its callers see it:  *)
(* each call takes effect at once, with the entries, the recency order and *)
(* the eviction of LRU, when it releases the lock.                         *)
Abstract ==
  INSTANCE LRUCache
    WITH cache <- contents,
         reply <- [t \in Threads |-> IF pc[t] = "return" THEN <<out[t]>> ELSE <<>>]

ImplementsCache == Abstract!CacheSpec
=============================================================================
