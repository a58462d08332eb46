---------------------------- MODULE HashLRUProofs ----------------------------
(***************************************************************************)
(* The pointers of cache.c, for every set of addresses and keys, every     *)
(* hash function, every capacity and any number of threads: the heap stays *)
(* sound, the lock is released on every path, and the calls have the       *)
(* effects that LRUCache promises.                                         *)
(***************************************************************************)
EXTENDS HashLRU, FiniteSetTheorems, SequenceTheorems, WellFoundedInduction, TLAPS

-----------------------------------------------------------------------------
(* Paths. *)

Path(s) == s \in Seq(Addrs) /\ IsInjective(s)

\* A path with a node before its first, and without its p-th node.
Push(n, s) == [i \in 1 .. Len(s) + 1 |-> IF i = 1 THEN n ELSE s[i - 1]]

Drop(s, p) == [i \in 1 .. Len(s) - 1 |-> IF i < p THEN s[i] ELSE s[i + 1]]

\* The places of a path.
LEMMA PathPlaces ==
  ASSUME NEW s, Path(s)
  PROVE  /\ Len(s) \in Nat /\ DOMAIN s = 1..Len(s) /\ Range(s) \subseteq Addrs
         /\ s = [i \in 1..Len(s) |-> s[i]]
         /\ \A i \in 1..Len(s) : s[i] \in Addrs /\ s[i] # Nil
         /\ \A i, j \in 1..Len(s) : s[i] = s[j] => i = j
<1>1. /\ Len(s) \in Nat /\ DOMAIN s = 1..Len(s)
      /\ s = [i \in 1..Len(s) |-> s[i]]
      /\ \A i \in 1..Len(s) : s[i] \in Addrs
  BY LenProperties, ElementOfSeq DEF Path
<1>2. \A i, j \in 1..Len(s) : s[i] = s[j] => i = j
  BY <1>1 DEF Path, IsInjective
<1>3. Range(s) \subseteq Addrs
  BY <1>1 DEF Range
<1> QED
  BY <1>1, <1>2, <1>3, NilAssumption

\* What is before, on and after the places of a path.
LEMMA StopIs ==
  ASSUME NEW s, Path(s), NEW i \in Int
  PROVE  /\ i \in 1..Len(s) => Stop(s, i) = s[i]
         /\ i \notin 1..Len(s) => Stop(s, i) = Nil
         /\ Stop(s, i) \in Pointers
  BY PathPlaces DEF Stop, Pointers

\* A function from the places that names no address twice is a path.
LEMMA PathMade ==
  ASSUME NEW n \in Nat, NEW s, s = [i \in 1..n |-> s[i]],
         \A i \in 1..n : s[i] \in Addrs,
         \A i, j \in 1..n : s[i] = s[j] => i = j
  PROVE  Path(s) /\ Len(s) = n /\ DOMAIN s = 1..n
<1>1. s \in Seq(Addrs) /\ Len(s) = n /\ DOMAIN s = 1..n
  <2>1. s \in [1..n -> Addrs]
    OBVIOUS
  <2> QED
    BY <2>1, IsASeq, LenProperties
<1> QED
  BY <1>1 DEF Path, IsInjective

\* A node that is not on the path yet.
LEMMA PushPath ==
  ASSUME NEW s, Path(s), NEW n \in Addrs \ Range(s)
  PROVE  /\ Path(Push(n, s)) /\ Len(Push(n, s)) = Len(s) + 1
         /\ Range(Push(n, s)) = Range(s) \cup {n}
         /\ Push(n, s)[1] = n
         /\ \A i \in 1..Len(s) : Push(n, s)[i + 1] = s[i]
<1> DEFINE u == Push(n, s)
           m == Len(s) + 1
<1>1. /\ Len(s) \in Nat /\ DOMAIN s = 1..Len(s)
      /\ \A i \in 1..Len(s) : s[i] \in Addrs /\ s[i] # n
      /\ \A i, j \in 1..Len(s) : s[i] = s[j] => i = j
  BY PathPlaces DEF Range
<1>2. /\ m \in Nat /\ u = [i \in 1..m |-> u[i]]
      /\ u[1] = n
      /\ \A i \in 1..m : i # 1 => i - 1 \in 1..Len(s) /\ u[i] = s[i - 1]
  BY <1>1 DEF Push
<1> HIDE DEF u
<1>3. \A i \in 1..m : u[i] \in Addrs
  BY <1>1, <1>2
<1>4. \A i, j \in 1..m : u[i] = u[j] => i = j
  BY <1>1, <1>2
<1>5. Path(u) /\ Len(u) = m /\ DOMAIN u = 1..m
  <2> HIDE DEF m
  <2> QED
    BY <1>2, <1>3, <1>4, PathMade
<1>6. \A i \in 1..Len(s) : i + 1 \in 1..m /\ u[i + 1] = s[i]
  <2> TAKE i \in 1..Len(s)
  <2>1. i + 1 \in 1..m /\ i + 1 # 1 /\ (i + 1) - 1 = i
    BY <1>1
  <2> QED
    BY <1>2, <2>1
<1>7. Range(u) = Range(s) \cup {n}
  <2>1. \A i \in 1..m : u[i] \in Range(s) \cup {n}
    BY <1>1, <1>2 DEF Range
  <2>2. n \in Range(u)
    <3>1. 1 \in 1..m
      BY <1>1
    <3> QED
      BY <1>2, <1>5, <3>1 DEF Range
  <2>3. \A i \in 1..Len(s) : s[i] \in Range(u)
    BY <1>5, <1>6 DEF Range
  <2> QED
    BY <1>1, <1>5, <2>1, <2>2, <2>3 DEF Range
<1> QED
  BY <1>2, <1>5, <1>6, <1>7 DEF u

\* A node less on the path.
LEMMA DropPath ==
  ASSUME NEW s, Path(s), NEW p \in 1..Len(s)
  PROVE  /\ Path(Drop(s, p)) /\ Len(Drop(s, p)) = Len(s) - 1
         /\ Range(Drop(s, p)) = Range(s) \ {s[p]}
         /\ \A i \in 1..(Len(s) - 1) : Drop(s, p)[i] = IF i < p THEN s[i] ELSE s[i + 1]
<1> DEFINE u == Drop(s, p)
           m == Len(s) - 1
<1>1. /\ Len(s) \in Nat /\ DOMAIN s = 1..Len(s) /\ p \in Int /\ 1 <= p /\ p <= Len(s)
      /\ \A i \in 1..Len(s) : s[i] \in Addrs
      /\ \A i, j \in 1..Len(s) : s[i] = s[j] => i = j
  BY PathPlaces
<1>2. /\ m \in Nat /\ u = [i \in 1..m |-> u[i]]
      /\ \A i \in 1..m : /\ i \in 1..Len(s) /\ i + 1 \in 1..Len(s)
                         /\ u[i] = IF i < p THEN s[i] ELSE s[i + 1]
  BY <1>1 DEF Drop
<1> HIDE DEF u
<1>3. \A i \in 1..m : u[i] \in Addrs /\ u[i] # s[p]
  BY <1>1, <1>2
<1>4. \A i, j \in 1..m : u[i] = u[j] => i = j
  <2> SUFFICES ASSUME NEW i \in 1..m, NEW j \in 1..m, u[i] = u[j]
               PROVE  i = j
    OBVIOUS
  <2> DEFINE x == IF i < p THEN i ELSE i + 1
             y == IF j < p THEN j ELSE j + 1
  <2>1. x \in 1..Len(s) /\ y \in 1..Len(s) /\ u[i] = s[x] /\ u[j] = s[y]
    BY <1>2
  <2>2. x = y
    BY <1>1, <2>1
  <2> QED
    BY <1>1, <2>2
<1>5. Path(u) /\ Len(u) = m /\ DOMAIN u = 1..m
  <2> HIDE DEF m
  <2> QED
    BY <1>2, <1>3, <1>4, PathMade
<1>6. Range(u) = Range(s) \ {s[p]}
  <2>1. \A i \in 1..m : u[i] \in Range(s) \ {s[p]}
    BY <1>1, <1>2, <1>3 DEF Range
  <2>2. \A i \in 1..Len(s) : i # p => s[i] \in Range(u)
    <3> SUFFICES ASSUME NEW i \in 1..Len(s), i # p PROVE \E j \in 1..m : u[j] = s[i]
      BY <1>5 DEF Range
    <3>1. CASE i < p
      <4>1. i \in 1..m
        BY <1>1, <3>1
      <4> QED
        BY <1>2, <3>1, <4>1
    <3>2. CASE ~(i < p)
      <4>1. i - 1 \in 1..m /\ ~(i - 1 < p) /\ (i - 1) + 1 = i
        BY <1>1, <3>2
      <4> QED
        BY <1>2, <4>1
    <3> QED
      BY <3>1, <3>2
  <2> QED
    BY <1>1, <1>5, <2>1, <2>2 DEF Range
<1> QED
  BY <1>2, <1>5, <1>6 DEF u

-----------------------------------------------------------------------------
(* The path a link leads along from a pointer is the only one. *)

\* The walks from a pointer are the paths that begin there.
LEMMA WalksArePaths ==
  ASSUME NEW p \in Pointers
  PROVE  \A s : s \in Walks[p] <=> Path(s) /\ Stop(s, 1) = p
<1> DEFINE c == Cardinality(Addrs)
<1>1. c \in Nat
  BY AddrsAssumption, FS_CardinalityType
<1>2. Walks[p] = {s \in SeqOf(Addrs, c) : IsInjective(s) /\ Stop(s, 1) = p}
  BY DEF Walks
<1>3. \A s : s \in SeqOf(Addrs, c) <=> \E m \in 0..c : s \in [1..m -> Addrs]
  BY DEF SeqOf
<1> HIDE DEF c
<1>4. ASSUME NEW s, s \in SeqOf(Addrs, c), IsInjective(s)
      PROVE  Path(s)
  <2>1. PICK m \in 0..c : s \in [1..m -> Addrs]
    BY <1>3, <1>4
  <2>2. m \in Nat
    BY <1>1
  <2>3. s \in Seq(Addrs)
    BY <2>1, <2>2, IsASeq
  <2> QED
    BY <1>4, <2>3 DEF Path
<1>5. ASSUME NEW s, Path(s)
      PROVE  s \in SeqOf(Addrs, c)
  <2> DEFINE m == Len(s)
  <2>1. m \in Nat /\ s = [i \in 1..m |-> s[i]] /\ \A i \in 1..m : s[i] \in Addrs
    BY <1>5, PathPlaces
  <2> HIDE DEF m
  <2>2. s \in [1..m -> Addrs]
    BY <2>1
  <2>3. s \in Injection(1..m, Addrs)
    BY <1>5, <2>2 DEF Injection, Path
  <2>4. Cardinality(1..m) <= c
    BY <2>3, AddrsAssumption, FS_Injection DEF c
  <2>5. Cardinality(1..m) = m
    BY <2>1, FS_Interval
  <2>6. m \in 0..c
    BY <1>1, <2>1, <2>4, <2>5
  <2> QED
    BY <1>3, <2>2, <2>6
<1> QED
  BY <1>2, <1>4, <1>5 DEF Path

\* A set of numbers that is not empty has a least one.
LEMMA LeastOf ==
  ASSUME NEW T \in SUBSET Nat, T # {}
  PROVE  \E n \in T : \A k \in T : ~(k < n)
<1> DEFINE R == OpToRel(<, Nat)
<1>1. IsWellFoundedOn(R, Nat)
  BY NatLessThanWellFounded
<1>2. \A x, y \in Nat : x < y => <<x, y>> \in R
  BY DEF R, OpToRel
<1> HIDE DEF R
<1>3. PICK n \in T : \A k \in T : ~(<<k, n>> \in R)
  BY <1>1, WFMin
<1> QED
  BY <1>2, <1>3

\* Of two paths from a pointer along one link, each is as long as the other.
LEMMA SamePrefix ==
  ASSUME NEW link, NEW s, NEW u, Path(s), Path(u), Leads(link, s), Leads(link, u),
         Stop(s, 1) = Stop(u, 1)
  PROVE  \A i \in 1..Len(s) : i \in 1..Len(u) /\ s[i] = u[i]
<1> DEFINE T == {i \in 1..Len(s) : ~(i \in 1..Len(u) /\ s[i] = u[i])}
<1>1. /\ Len(s) \in Nat /\ Len(u) \in Nat
      /\ DOMAIN s = 1..Len(s) /\ DOMAIN u = 1..Len(u)
      /\ \A i \in 1..Len(s) : s[i] # Nil
  BY PathPlaces
<1>2. SUFFICES ASSUME T # {} PROVE FALSE
  OBVIOUS
<1>3. T \in SUBSET Nat
  BY <1>1
<1>4. PICK n \in T : \A k \in T : ~(k < n)
  <2> HIDE DEF T
  <2> QED
    BY <1>2, <1>3, LeastOf
<1>5. n \in 1..Len(s) /\ Stop(s, n) = s[n] /\ s[n] # Nil
  BY <1>1 DEF Stop
<1>6. Stop(u, n) = Stop(s, n)
  <2>1. CASE n = 1
    BY <2>1
  <2>2. CASE n # 1
    <3>1. n - 1 \in 1..Len(s) /\ n - 1 < n /\ (n - 1) + 1 = n
      BY <1>1, <1>5, <2>2
    <3>2. n - 1 \notin T
      BY <1>4, <3>1
    <3>3. n - 1 \in 1..Len(u) /\ s[n - 1] = u[n - 1]
      BY <3>1, <3>2
    <3>4. link[s[n - 1]] = Stop(s, n) /\ link[u[n - 1]] = Stop(u, n)
      BY <1>1, <3>1, <3>3 DEF Leads
    <3> QED
      BY <3>3, <3>4
  <2> QED
    BY <2>1, <2>2
<1>7. n \in 1..Len(u) /\ u[n] = s[n]
  BY <1>1, <1>5, <1>6 DEF Stop
<1> QED
  BY <1>5, <1>7

\* The path a link leads along is what Along finds.
LEMMA AlongIs ==
  ASSUME NEW link, NEW p \in Pointers, NEW s, Path(s), Stop(s, 1) = p, Leads(link, s)
  PROVE  Along(link, p) = s
<1>1. \A u : u \in Walks[p] <=> Path(u) /\ Stop(u, 1) = p
  BY WalksArePaths
<1>2. ASSUME NEW u, Path(u), Stop(u, 1) = p, Leads(link, u)
      PROVE  u = s
  <2>1. \A i \in 1..Len(s) : i \in 1..Len(u) /\ s[i] = u[i]
    BY <1>2, SamePrefix
  <2>2. \A i \in 1..Len(u) : i \in 1..Len(s) /\ u[i] = s[i]
    BY <1>2, SamePrefix
  <2>3. Len(s) \in Nat /\ Len(u) \in Nat
    BY <1>2, PathPlaces
  <2>4. Len(s) = Len(u)
    BY <2>1, <2>2, <2>3
  <2>5. s \in Seq(Addrs) /\ u \in Seq(Addrs)
    BY <1>2 DEF Path
  <2> QED
    BY <2>1, <2>4, <2>5, SeqEqual
<1>3. s \in Walks[p]
  BY <1>1
<1>4. \A u \in Walks[p] : Leads(link, u) => u = s
  BY <1>1, <1>2
<1> QED
  BY <1>3, <1>4 DEF Along

-----------------------------------------------------------------------------
(* The list and the chains, under each change of the pointers. *)

\* s is the list, from c->head by next and from c->tail by prev.
ListOf(h, s) ==
  /\ Path(s) /\ Leads(h.next, s)
  /\ h.head = Stop(s, 1) /\ h.tail = Stop(s, Len(s))
  /\ \A i \in DOMAIN s : h.prev[s[i]] = Stop(s, i - 1)

\* ch[b] is the chain of bucket b.
ChainsOf(h, ch) ==
  \A b \in Buckets : Path(ch[b]) /\ Leads(h.hnext, ch[b]) /\ h.htable[b] = Stop(ch[b], 1)

\* The chain of a bucket holds the nodes among ns whose keys hash to it.
Filed(h, ch, ns) == \A b \in Buckets : Range(ch[b]) = {a \in ns : Hash[h.key[a]] = b}

\* The fields that detach and attach_head leave alone.
SameNodes(g, h) ==
  g.key = h.key /\ g.val = h.val /\ g.hnext = h.hnext /\ g.htable = h.htable /\ g.size = h.size

\* The fields that Unchain leaves alone.
SameList(g, h) ==
  /\ g.key = h.key /\ g.val = h.val /\ g.size = h.size
  /\ g.next = h.next /\ g.prev = h.prev /\ g.head = h.head /\ g.tail = h.tail

\* detach takes a node out of the list.
LEMMA DetachList ==
  ASSUME NEW h \in Heaps, NEW s, ListOf(h, s), NEW p \in 1..Len(s)
  PROVE  /\ detach(h, s[p]) \in Heaps /\ SameNodes(detach(h, s[p]), h)
         /\ ListOf(detach(h, s[p]), Drop(s, p))
<1> DEFINE n == s[p]
           g == detach(h, n)
           u == Drop(s, p)
           b == Stop(s, p - 1)
           x == Stop(s, p + 1)
<1>0. Path(s)
  BY DEF ListOf
<1>1. /\ Len(s) \in Nat /\ DOMAIN s = 1..Len(s) /\ p \in Int /\ 1 <= p /\ p <= Len(s)
      /\ \A i \in 1..Len(s) : s[i] \in Addrs /\ s[i] # Nil
      /\ \A i, j \in 1..Len(s) : s[i] = s[j] => i = j
  BY <1>0, PathPlaces
<1>2. /\ Path(u) /\ Len(u) = Len(s) - 1
      /\ \A i \in 1..(Len(s) - 1) : u[i] = IF i < p THEN s[i] ELSE s[i + 1]
  BY <1>0, DropPath
<1>3. h.prev[n] = b /\ h.next[n] = x /\ b \in Pointers /\ x \in Pointers /\ n \in Addrs
  BY <1>0, <1>1, StopIs DEF ListOf, Leads
<1>4. /\ g \in Heaps /\ SameNodes(g, h)
      /\ g.next = [a \in Addrs |-> IF a = n THEN Nil ELSE IF a = b THEN x ELSE h.next[a]]
      /\ g.prev = [a \in Addrs |-> IF a = n THEN Nil ELSE IF a = x THEN b ELSE h.prev[a]]
      /\ g.head = IF b = Nil THEN x ELSE h.head
      /\ g.tail = IF x = Nil THEN b ELSE h.tail
  <2> HIDE DEF b, x, n
  <2> QED
    BY <1>3 DEF detach, Heaps, Pointers, SameNodes
<1> HIDE DEF g, u
<1>5. \A i \in 1..Len(s) : h.next[s[i]] = Stop(s, i + 1) /\ h.prev[s[i]] = Stop(s, i - 1)
  BY <1>1 DEF ListOf, Leads
<1>6. \A i \in Int : /\ i \in 1..Len(s) => Stop(s, i) = s[i]
                     /\ i \notin 1..Len(s) => Stop(s, i) = Nil
  BY <1>0, StopIs
<1>7. \A i \in Int : i >= 0 => Stop(u, i) = IF i < p THEN Stop(s, i) ELSE Stop(s, i + 1)
  <2> SUFFICES ASSUME NEW i \in Int, i >= 0
               PROVE  Stop(u, i) = IF i < p THEN Stop(s, i) ELSE Stop(s, i + 1)
    OBVIOUS
  <2>1. /\ i \in 1..(Len(s) - 1) => Stop(u, i) = u[i]
        /\ i \notin 1..(Len(s) - 1) => Stop(u, i) = Nil
    BY <1>2, StopIs
  <2> QED
    BY <1>1, <1>2, <1>6, <2>1
<1>8. ASSUME NEW i \in 1..(Len(s) - 1)
      PROVE  g.next[u[i]] = Stop(u, i + 1) /\ g.prev[u[i]] = Stop(u, i - 1)
  <2> DEFINE j == IF i < p THEN i ELSE i + 1
  <2>1. j \in 1..Len(s) /\ j # p /\ u[i] = s[j] /\ s[j] # n /\ s[j] \in Addrs
    BY <1>1, <1>2
  <2>2. s[j] = b <=> j = p - 1
    BY <1>1, <1>6, <2>1
  <2>3. s[j] = x <=> j = p + 1
    BY <1>1, <1>6, <2>1
  <2>4. g.next[s[j]] = IF j = p - 1 THEN Stop(s, p + 1) ELSE Stop(s, j + 1)
    BY <1>4, <1>5, <2>1, <2>2
  <2>5. g.prev[s[j]] = IF j = p + 1 THEN Stop(s, p - 1) ELSE Stop(s, j - 1)
    BY <1>4, <1>5, <2>1, <2>3
  <2>6. Stop(u, i + 1) = IF i + 1 < p THEN Stop(s, i + 1) ELSE Stop(s, (i + 1) + 1)
    BY <1>7
  <2>7. Stop(u, i - 1) = IF i - 1 < p THEN Stop(s, i - 1) ELSE Stop(s, (i - 1) + 1)
    BY <1>7
  <2>8. g.next[u[i]] = Stop(u, i + 1)
    <3>1. CASE j = p - 1
      <4>1. i + 1 = p /\ ~(i + 1 < p)
        BY <1>1, <2>1, <3>1
      <4> QED
        BY <2>1, <2>4, <2>6, <3>1, <4>1
    <3>2. CASE j # p - 1
      <4>1. IF i + 1 < p THEN j = i ELSE j = i + 1
        BY <1>1, <2>1, <3>2
      <4> QED
        BY <2>1, <2>4, <2>6, <3>2, <4>1
    <3> QED
      BY <3>1, <3>2
  <2>9. g.prev[u[i]] = Stop(u, i - 1)
    BY <1>1, <2>1, <2>5, <2>7
  <2> QED
    BY <2>8, <2>9
<1>9. g.head = Stop(u, 1)
  <2>1. h.head = Stop(s, 1)
    BY DEF ListOf
  <2>2. Stop(u, 1) = IF 1 < p THEN Stop(s, 1) ELSE Stop(s, 2)
    BY <1>7
  <2>3. b = Nil <=> p = 1
    BY <1>1, <1>6
  <2> QED
    BY <1>1, <1>4, <2>1, <2>2, <2>3
<1>10. g.tail = Stop(u, Len(u))
  <2>1. h.tail = Stop(s, Len(s))
    BY DEF ListOf
  <2>2. Stop(u, Len(s) - 1) = IF Len(s) - 1 < p THEN Stop(s, Len(s) - 1)
                                                ELSE Stop(s, (Len(s) - 1) + 1)
    <3> DEFINE m == Len(s) - 1
    <3>1. m \in Int /\ m >= 0
      BY <1>1
    <3> HIDE DEF m
    <3>2. Stop(u, m) = IF m < p THEN Stop(s, m) ELSE Stop(s, m + 1)
      BY <1>7, <3>1
    <3> QED
      BY <3>2 DEF m
  <2>3. CASE p = Len(s)
    <3>1. x = Nil
      BY <1>1, <1>6, <2>3
    <3>2. b = Stop(s, Len(s) - 1) /\ Len(s) - 1 < p
      BY <1>1, <2>3
    <3> QED
      BY <1>2, <1>4, <2>2, <3>1, <3>2
  <2>4. CASE p # Len(s)
    <3> DEFINE l == Len(s)
    <3>1. l \in Nat /\ p \in Int /\ 1 <= p /\ p <= l /\ p # l
      BY <1>1, <2>4
    <3> HIDE DEF l
    <3>2. l \in Nat /\ p \in Int /\ 1 <= p /\ p < l
      BY <3>1
    <3>3. Len(s) \in Nat /\ p \in Int /\ 1 <= p /\ p < Len(s)
      BY <3>2 DEF l
    <3>4. p + 1 \in 1..Len(s) /\ ~(Len(s) - 1 < p) /\ (Len(s) - 1) + 1 = Len(s)
      BY <3>3
    <3>5. x # Nil
      BY <1>1, <1>6, <3>4
    <3> QED
      BY <1>2, <1>4, <2>1, <2>2, <3>4, <3>5
  <2> QED
    BY <2>3, <2>4
<1>11. DOMAIN u = 1..(Len(s) - 1)
  BY <1>2, PathPlaces
<1> QED
  BY <1>2, <1>4, <1>8, <1>9, <1>10, <1>11 DEF ListOf, Leads, g, u

\* attach_head puts a node that is not in the list before the others.
LEMMA AttachList ==
  ASSUME NEW h \in Heaps, NEW s, ListOf(h, s), NEW n \in Addrs \ Range(s)
  PROVE  /\ attach_head(h, n) \in Heaps /\ SameNodes(attach_head(h, n), h)
         /\ ListOf(attach_head(h, n), Push(n, s))
<1> DEFINE g == attach_head(h, n)
           u == Push(n, s)
<1>0. Path(s)
  BY DEF ListOf
<1>1. /\ Len(s) \in Nat /\ DOMAIN s = 1..Len(s)
      /\ \A i \in 1..Len(s) : s[i] \in Addrs /\ s[i] # Nil /\ s[i] # n
      /\ \A i, j \in 1..Len(s) : s[i] = s[j] => i = j
  BY <1>0, PathPlaces DEF Range
<1>2. /\ Path(u) /\ Len(u) = Len(s) + 1 /\ u[1] = n
      /\ \A i \in 1..Len(s) : u[i + 1] = s[i]
  BY <1>0, PushPath
<1>3. /\ g \in Heaps /\ SameNodes(g, h)
      /\ g.next = [h.next EXCEPT ![n] = h.head]
      /\ g.prev = [a \in Addrs |-> IF a = n THEN Nil ELSE IF a = h.head THEN n ELSE h.prev[a]]
      /\ g.head = n
      /\ g.tail = IF h.tail = Nil THEN n ELSE h.tail
  BY DEF attach_head, Heaps, Pointers, SameNodes
<1>4. h.next \in [Addrs -> Pointers] /\ n \in Addrs /\ n # Nil
  BY NilAssumption DEF Heaps
<1> HIDE DEF g, u
<1>5. \A i \in 1..Len(s) : h.next[s[i]] = Stop(s, i + 1) /\ h.prev[s[i]] = Stop(s, i - 1)
  BY <1>1 DEF ListOf, Leads
<1>6. \A i \in Int : /\ i \in 1..Len(s) => Stop(s, i) = s[i]
                     /\ i \notin 1..Len(s) => Stop(s, i) = Nil
  BY <1>0, StopIs
<1>7. Stop(u, 1) = n /\ Stop(u, 0) = Nil /\ \A i \in Int : i >= 1 => Stop(u, i + 1) = Stop(s, i)
  <2>1. \A i \in Int : /\ i \in 1..(Len(s) + 1) => Stop(u, i) = u[i]
                       /\ i \notin 1..(Len(s) + 1) => Stop(u, i) = Nil
    BY <1>2, StopIs
  <2>2. ASSUME NEW i \in Int, i >= 1 PROVE Stop(u, i + 1) = Stop(s, i)
    BY <1>1, <1>2, <1>6, <2>1, <2>2
  <2>3. 1 \in 1..(Len(s) + 1) /\ 0 \notin 1..(Len(s) + 1)
    BY <1>1
  <2> QED
    BY <1>2, <2>1, <2>2, <2>3
<1>8. h.head = Stop(s, 1) /\ h.tail = Stop(s, Len(s))
  BY DEF ListOf
<1>9. ASSUME NEW i \in 1..Len(s)
      PROVE  /\ g.next[s[i]] = Stop(u, (i + 1) + 1)
             /\ g.prev[s[i]] = Stop(u, i)
  <2>1. g.next[s[i]] = Stop(s, i + 1)
    BY <1>1, <1>3, <1>4, <1>5
  <2>2. s[i] = h.head <=> i = 1
    BY <1>1, <1>6, <1>8
  <2>3. g.prev[s[i]] = IF i = 1 THEN n ELSE Stop(s, i - 1)
    BY <1>1, <1>3, <1>5, <2>2
  <2>4. i # 1 => i - 1 \in Int /\ i - 1 >= 1 /\ (i - 1) + 1 = i
    BY <1>1
  <2> QED
    BY <1>1, <1>7, <2>1, <2>3, <2>4
<1>10. g.next[n] = Stop(u, 2) /\ g.prev[n] = Nil
  <2>1. Stop(u, 1 + 1) = Stop(s, 1)
    BY <1>7
  <2> QED
    BY <1>3, <1>4, <1>8, <2>1
<1>11. \A j \in 1..(Len(s) + 1) : g.next[u[j]] = Stop(u, j + 1) /\ g.prev[u[j]] = Stop(u, j - 1)
  <2> TAKE j \in 1..(Len(s) + 1)
  <2>1. CASE j = 1
    BY <1>2, <1>7, <1>10, <2>1
  <2>2. CASE j # 1
    <3>1. j - 1 \in 1..Len(s) /\ (j - 1) + 1 = j
      BY <1>1, <2>2
    <3> QED
      BY <1>2, <1>9, <3>1
  <2> QED
    BY <2>1, <2>2
<1>12. g.tail = Stop(u, Len(u))
  <2>1. CASE Len(s) = 0
    BY <1>1, <1>2, <1>3, <1>6, <1>7, <1>8, <2>1
  <2>2. CASE Len(s) # 0
    BY <1>1, <1>2, <1>3, <1>6, <1>7, <1>8, <2>2
  <2> QED
    BY <2>1, <2>2
<1>13. DOMAIN u = 1..(Len(s) + 1)
  BY <1>2, PathPlaces
<1> QED
  BY <1>2, <1>3, <1>7, <1>11, <1>12, <1>13 DEF ListOf, Leads, g, u

\* Unchain takes a node out of its chain.
LEMMA UnchainChains ==
  ASSUME NEW h \in Heaps, NEW ch \in [Buckets -> Seq(Addrs)], ChainsOf(h, ch),
         Filed(h, ch, Allocated(h)), NEW n \in Allocated(h)
  PROVE  LET b == Hash[h.key[n]]
         IN  /\ Unchain(h, n) \in Heaps /\ SameList(Unchain(h, n), h)
             /\ b \in Buckets
             /\ \E q \in 1..Len(ch[b]) :
                  /\ ch[b][q] = n
                  /\ ChainsOf(Unchain(h, n), [ch EXCEPT ![b] = Drop(ch[b], q)])
<1> DEFINE b == Hash[h.key[n]]
           g == Unchain(h, n)
           c == ch[b]
           x == h.hnext[n]
<1>1. n \in Addrs /\ h.key[n] \in Keys /\ b \in Buckets
  BY HashAssumption DEF Allocated, Heaps
<1>2. Path(c) /\ n \in Range(c)
  BY <1>1 DEF ChainsOf, Filed
<1> HIDE DEF b
<1>3. /\ Len(c) \in Nat /\ DOMAIN c = 1..Len(c)
      /\ \A i \in 1..Len(c) : c[i] \in Addrs /\ c[i] # Nil
      /\ \A i, j \in 1..Len(c) : c[i] = c[j] => i = j
  BY <1>2, PathPlaces
<1>4. PICK q \in 1..Len(c) : c[q] = n
  BY <1>2, <1>3 DEF Range
<1> DEFINE u == Drop(c, q)
<1>5. /\ Path(u) /\ Len(u) = Len(c) - 1 /\ Range(u) = Range(c) \ {n}
      /\ \A i \in 1..(Len(c) - 1) : u[i] = IF i < q THEN c[i] ELSE c[i + 1]
  BY <1>2, <1>4, DropPath
<1>6. /\ \A i \in Int : /\ i \in 1..Len(c) => Stop(c, i) = c[i]
                        /\ i \notin 1..Len(c) => Stop(c, i) = Nil
      /\ \A i \in Int : /\ i \in 1..(Len(c) - 1) => Stop(u, i) = u[i]
                        /\ i \notin 1..(Len(c) - 1) => Stop(u, i) = Nil
  BY <1>2, <1>5, StopIs
<1>7. /\ h.htable[b] = Stop(c, 1)
      /\ \A i \in 1..Len(c) : h.hnext[c[i]] = Stop(c, i + 1)
      /\ x = Stop(c, q + 1) /\ x \in Pointers
  BY <1>1, <1>3, <1>4 DEF ChainsOf, Leads, Heaps
<1>8. \A i \in Int : i >= 1 => Stop(u, i) = IF i < q THEN Stop(c, i) ELSE Stop(c, i + 1)
  BY <1>3, <1>5, <1>6
<1>9. /\ h.htable \in [Buckets -> Pointers] /\ h.hnext \in [Addrs -> Pointers]
      /\ \A d \in Buckets : /\ Path(ch[d]) /\ h.htable[d] = Stop(ch[d], 1)
                            /\ Leads(h.hnext, ch[d]) /\ Range(ch[d]) \subseteq Addrs
  BY PathPlaces DEF Heaps, ChainsOf
<1>10. \A d \in Buckets \ {b} : Range(ch[d]) \cap Range(c) = {}
  BY <1>1 DEF Filed
<1> DEFINE ch2 == [ch EXCEPT ![b] = u]
<1>11. ch2[b] = u /\ \A d \in Buckets \ {b} : ch2[d] = ch[d]
  BY <1>1
<1>12. CASE q = 1
  <2>1. h.htable[b] = n
    BY <1>3, <1>4, <1>6, <1>7, <1>12
  <2>2. /\ g \in Heaps /\ SameList(g, h) /\ g.hnext = h.hnext
        /\ g.htable = [h.htable EXCEPT ![b] = x]
    BY <1>1, <1>7, <2>1 DEF Unchain, Heaps, SameList, b
  <2>3. g.htable[b] = Stop(u, 1)
    BY <1>1, <1>7, <1>8, <1>9, <1>12, <2>2
  <2>4. Leads(g.hnext, u)
    <3>1. DOMAIN u = 1..(Len(c) - 1)
      BY <1>5, PathPlaces
    <3> SUFFICES ASSUME NEW i \in 1..(Len(c) - 1) PROVE h.hnext[u[i]] = Stop(u, i + 1)
      BY <2>2, <3>1 DEF Leads
    <3>2. i + 1 \in 1..Len(c) /\ i + 1 \in Int /\ i + 1 >= 1 /\ ~(i < q) /\ ~(i + 1 < q)
      BY <1>3, <1>12
    <3>3. u[i] = c[i + 1]
      BY <1>5, <3>2
    <3>4. Stop(u, i + 1) = Stop(c, (i + 1) + 1)
      BY <1>8, <3>2
    <3> QED
      BY <1>7, <3>2, <3>3, <3>4
  <2>5. ChainsOf(g, ch2)
    <3> SUFFICES ASSUME NEW d \in Buckets
                 PROVE  Path(ch2[d]) /\ Leads(g.hnext, ch2[d]) /\ g.htable[d] = Stop(ch2[d], 1)
      BY DEF ChainsOf
    <3>1. CASE d = b
      BY <1>5, <1>11, <2>3, <2>4, <3>1
    <3>2. CASE d # b
      <4>1. ch2[d] = ch[d] /\ g.htable[d] = h.htable[d]
        BY <1>9, <1>11, <2>2, <3>2
      <4> QED
        BY <1>9, <2>2, <4>1
    <3> QED
      BY <3>1, <3>2
  <2> QED
    BY <1>1, <1>4, <2>2, <2>5 DEF b
<1>13. CASE q # 1
  <2> DEFINE p == c[q - 1]
             pred == CHOOSE a \in Allocated(h) : h.hnext[a] = n
  <2>1. q - 1 \in 1..Len(c) /\ (q - 1) + 1 = q /\ q \in Int
    BY <1>3, <1>13
  <2>2. p \in Addrs /\ h.hnext[p] = n /\ p \in Allocated(h)
    <3>1. h.hnext[p] = n
      BY <1>4, <1>6, <1>7, <2>1
    <3>2. p \in Range(c)
      BY <1>3, <2>1 DEF Range
    <3> QED
      BY <1>1, <1>3, <2>1, <3>1, <3>2 DEF Filed
  <2>3. ASSUME NEW a \in Allocated(h), h.hnext[a] = n
        PROVE  a = p
    <3> DEFINE d == Hash[h.key[a]]
    <3>1. d \in Buckets /\ a \in Range(ch[d])
      <4>1. h.key[a] \in Keys
        BY DEF Allocated, Heaps
      <4> QED
        BY <4>1, HashAssumption DEF Filed
    <3> HIDE DEF d
    <3>2. Path(ch[d]) /\ Leads(h.hnext, ch[d])
      BY <1>9, <3>1
    <3>3. Len(ch[d]) \in Nat /\ DOMAIN ch[d] = 1..Len(ch[d])
      BY <3>2, PathPlaces
    <3>4. PICK i \in 1..Len(ch[d]) : ch[d][i] = a
      BY <3>1, <3>3 DEF Range
    <3>5. Stop(ch[d], i + 1) = n
      BY <2>3, <3>2, <3>3, <3>4 DEF Leads
    <3>6. i + 1 \in DOMAIN ch[d] /\ ch[d][i + 1] = n
      BY <1>1, <3>5, NilAssumption DEF Stop
    <3>7. d = b
      <4>1. n \in Range(ch[d])
        BY <3>6 DEF Range
      <4> QED
        BY <1>2, <1>10, <3>1, <4>1
    <3>8. i + 1 = q
      BY <1>3, <1>4, <3>3, <3>4, <3>6, <3>7
    <3> QED
      BY <3>3, <3>4, <3>7, <3>8
  <2>4. pred = p
    <3> HIDE DEF p
    <3> QED
      BY <2>2, <2>3
  <2>5. h.htable[b] # n
    BY <1>3, <1>4, <1>6, <1>7, <1>13
  <2> HIDE DEF pred, p
  <2>6. /\ g \in Heaps /\ SameList(g, h) /\ g.htable = h.htable
        /\ g.hnext = [h.hnext EXCEPT ![p] = x]
    <3>1. g = [h EXCEPT !.hnext = [h.hnext EXCEPT ![p] = x]]
      BY <2>4, <2>5 DEF Unchain, b, pred
    <3>2. x \in Pointers /\ p \in Addrs
      BY <1>7, <2>2
    <3> HIDE DEF g, x
    <3> QED
      BY <3>1, <3>2 DEF Heaps, SameList
  <2> HIDE DEF g
  <2>7. g.htable[b] = Stop(u, 1)
    BY <1>3, <1>7, <1>8, <1>13, <2>6
  <2>8. Leads(g.hnext, u)
    <3>1. DOMAIN u = 1..(Len(c) - 1)
      BY <1>5, PathPlaces
    <3> SUFFICES ASSUME NEW i \in 1..(Len(c) - 1) PROVE g.hnext[u[i]] = Stop(u, i + 1)
      BY <3>1 DEF Leads
    <3>2. Stop(u, i + 1) = IF i + 1 < q THEN Stop(c, i + 1) ELSE Stop(c, (i + 1) + 1)
      BY <1>8
    <3>3. CASE i = q - 1
      <4>1. u[i] = p
        BY <1>5, <2>1, <3>3 DEF p
      <4> QED
        BY <1>7, <1>9, <2>1, <2>2, <2>6, <3>2, <3>3, <4>1
    <3>4. CASE i # q - 1
      <4> DEFINE j == IF i < q THEN i ELSE i + 1
      <4>1. j \in 1..Len(c) /\ j # q - 1 /\ u[i] = c[j] /\ c[j] # p
        BY <1>3, <1>5, <2>1, <3>4 DEF p
      <4>2. g.hnext[c[j]] = Stop(c, j + 1)
        BY <1>3, <1>7, <1>9, <2>6, <4>1
      <4> QED
        BY <1>3, <2>1, <3>2, <3>4, <4>1, <4>2
    <3> QED
      BY <3>3, <3>4
  <2>9. ChainsOf(g, ch2)
    <3> SUFFICES ASSUME NEW d \in Buckets
                 PROVE  Path(ch2[d]) /\ Leads(g.hnext, ch2[d]) /\ g.htable[d] = Stop(ch2[d], 1)
      BY DEF ChainsOf
    <3>1. CASE d = b
      BY <1>5, <1>11, <2>7, <2>8, <3>1
    <3>2. CASE d # b
      <4>1. ch2[d] = ch[d]
        BY <1>11, <3>2
      <4>2. p \notin Range(ch[d])
        <5>1. p \in Range(c)
          BY <1>3, <2>1 DEF p, Range
        <5> QED
          BY <1>10, <3>2, <5>1
      <4>3. \A i \in DOMAIN ch[d] : g.hnext[ch[d][i]] = h.hnext[ch[d][i]]
        <5> TAKE i \in DOMAIN ch[d]
        <5>1. ch[d][i] \in Addrs /\ ch[d][i] # p
          BY <1>9, <4>2 DEF Range
        <5> QED
          BY <1>9, <2>6, <5>1
      <4> QED
        BY <1>9, <2>6, <4>1, <4>3 DEF Leads
    <3> QED
      BY <3>1, <3>2
  <2> QED
    BY <1>1, <1>4, <2>6, <2>9 DEF b, g
<1> QED
  BY <1>12, <1>13

\* Enter puts a node before the others of its key's chain.
LEMMA EnterChains ==
  ASSUME NEW h \in Heaps, NEW ch \in [Buckets -> Seq(Addrs)], ChainsOf(h, ch),
         Filed(h, ch, Allocated(h)), NEW n \in Addrs \ Allocated(h),
         NEW k \in Keys, NEW v \in Values
  PROVE  LET b == Hash[k]
             g == Enter(h, n, k, v)
         IN  /\ g \in Heaps /\ b \in Buckets
             /\ g.key = [h.key EXCEPT ![n] = k] /\ g.val = [h.val EXCEPT ![n] = v]
             /\ g.size = h.size + 1
             /\ g.next = h.next /\ g.prev = h.prev /\ g.head = h.head /\ g.tail = h.tail
             /\ ChainsOf(g, [ch EXCEPT ![b] = Push(n, ch[b])])
             /\ Filed(g, [ch EXCEPT ![b] = Push(n, ch[b])], Allocated(h) \cup {n})
<1> DEFINE b == Hash[k]
           g == Enter(h, n, k, v)
           c == ch[b]
           u == Push(n, c)
           ch2 == [ch EXCEPT ![b] = u]
<1>1. b \in Buckets /\ n \in Addrs /\ h.htable[b] \in Pointers
  BY HashAssumption DEF Heaps
<1>2. /\ g \in Heaps
      /\ g.key = [h.key EXCEPT ![n] = k] /\ g.val = [h.val EXCEPT ![n] = v]
      /\ g.size = h.size + 1
      /\ g.next = h.next /\ g.prev = h.prev /\ g.head = h.head /\ g.tail = h.tail
      /\ g.hnext = [h.hnext EXCEPT ![n] = h.htable[b]]
      /\ g.htable = [h.htable EXCEPT ![b] = n]
  <2> DEFINE key == [h.key EXCEPT ![n] = k]
             val == [h.val EXCEPT ![n] = v]
             hnext == [h.hnext EXCEPT ![n] = h.htable[b]]
             htable == [h.htable EXCEPT ![b] = n]
             size == h.size + 1
  <2>1. g = [h EXCEPT !.key = key, !.val = val, !.hnext = hnext, !.htable = htable, !.size = size]
    BY DEF Enter
  <2>2. /\ key \in [Addrs -> Keys \cup {Nil}] /\ val \in [Addrs -> Values \cup {NoValue}]
        /\ hnext \in [Addrs -> Pointers] /\ htable \in [Buckets -> Pointers] /\ size \in Int
    BY <1>1 DEF Heaps, Pointers
  <2> HIDE DEF g, key, val, hnext, htable, size
  <2>3. /\ g \in Heaps /\ g.key = key /\ g.val = val /\ g.size = size
        /\ g.next = h.next /\ g.prev = h.prev /\ g.head = h.head /\ g.tail = h.tail
        /\ g.hnext = hnext /\ g.htable = htable
    BY <2>1, <2>2 DEF Heaps
  <2> QED
    BY <2>3 DEF key, val, hnext, htable, size
<1> HIDE DEF b, g
<1>3. \A d \in Buckets : /\ Path(ch[d]) /\ Leads(h.hnext, ch[d]) /\ h.htable[d] = Stop(ch[d], 1)
                         /\ Range(ch[d]) = {a \in Allocated(h) : Hash[h.key[a]] = d}
  BY DEF ChainsOf, Filed
<1>4. Path(c) /\ n \notin Range(c)
  BY <1>1, <1>3
<1>5. /\ Path(u) /\ Len(u) = Len(c) + 1 /\ Range(u) = Range(c) \cup {n} /\ u[1] = n
      /\ \A i \in 1..Len(c) : u[i + 1] = c[i]
  BY <1>1, <1>4, PushPath
<1> HIDE DEF u
<1>6. ch2[b] = u /\ \A d \in Buckets \ {b} : ch2[d] = ch[d]
  BY <1>1
<1>7. h.htable \in [Buckets -> Pointers] /\ h.hnext \in [Addrs -> Pointers]
      /\ h.key \in [Addrs -> Keys \cup {Nil}]
  BY DEF Heaps
<1>8. \A d \in Buckets : \A i \in DOMAIN ch[d] : g.hnext[ch[d][i]] = h.hnext[ch[d][i]]
  <2> SUFFICES ASSUME NEW d \in Buckets, NEW i \in DOMAIN ch[d]
               PROVE  g.hnext[ch[d][i]] = h.hnext[ch[d][i]]
    OBVIOUS
  <2>1. ch[d][i] \in Allocated(h)
    BY <1>3 DEF Range
  <2>2. ch[d][i] # n /\ ch[d][i] \in Addrs
    BY <2>1 DEF Allocated
  <2> QED
    BY <1>2, <1>7, <2>2
<1>9. Leads(g.hnext, u)
  <2>1. Len(c) \in Nat /\ DOMAIN c = 1..Len(c) /\ DOMAIN u = 1..(Len(c) + 1)
    BY <1>4, <1>5, PathPlaces
  <2>2. /\ \A i \in Int : /\ i \in 1..Len(c) => Stop(c, i) = c[i]
                          /\ i \notin 1..Len(c) => Stop(c, i) = Nil
        /\ \A i \in Int : /\ i \in 1..(Len(c) + 1) => Stop(u, i) = u[i]
                          /\ i \notin 1..(Len(c) + 1) => Stop(u, i) = Nil
    BY <1>4, <1>5, StopIs
  <2>3. \A i \in Int : i >= 1 => Stop(u, i + 1) = Stop(c, i)
    BY <1>5, <2>1, <2>2
  <2>4. g.hnext[n] = Stop(c, 1)
    BY <1>1, <1>2, <1>3, <1>7
  <2> SUFFICES ASSUME NEW j \in 1..(Len(c) + 1) PROVE g.hnext[u[j]] = Stop(u, j + 1)
    BY <2>1 DEF Leads
  <2>5. CASE j = 1
    <3>1. Stop(u, 1 + 1) = Stop(c, 1)
      BY <2>3
    <3> QED
      BY <1>5, <2>4, <2>5, <3>1
  <2>6. CASE j # 1
    <3>1. j - 1 \in 1..Len(c) /\ (j - 1) + 1 = j
      BY <2>1, <2>6
    <3>2. u[j] = c[j - 1] /\ Stop(u, j + 1) = Stop(c, j)
      <4>1. u[(j - 1) + 1] = c[j - 1]
        BY <1>5, <3>1
      <4>2. j \in Int /\ j >= 1
        BY <2>1
      <4> HIDE DEF c
      <4> QED
        BY <2>3, <3>1, <4>1, <4>2
    <3>3. h.hnext[c[j - 1]] = Stop(c, (j - 1) + 1)
      BY <1>1, <1>3, <2>1, <3>1 DEF Leads
    <3> QED
      BY <1>1, <1>8, <2>1, <3>1, <3>2, <3>3
  <2> QED
    BY <2>5, <2>6
<1>10. ChainsOf(g, ch2)
  <2> SUFFICES ASSUME NEW d \in Buckets
               PROVE  Path(ch2[d]) /\ Leads(g.hnext, ch2[d]) /\ g.htable[d] = Stop(ch2[d], 1)
    BY DEF ChainsOf
  <2>1. CASE d = b
    <3>1. Stop(u, 1) = n
      <4>1. 1 \in 1..Len(u)
        BY <1>4, <1>5, PathPlaces
      <4> QED
        BY <1>5, <4>1, StopIs
    <3> QED
      BY <1>1, <1>2, <1>5, <1>6, <1>7, <1>9, <2>1, <3>1
  <2>2. CASE d # b
    BY <1>2, <1>3, <1>6, <1>7, <1>8, <2>2 DEF Leads
  <2> QED
    BY <2>1, <2>2
<1>11. Filed(g, ch2, Allocated(h) \cup {n})
  <2>1. g.key[n] = k /\ \A a \in Allocated(h) : g.key[a] = h.key[a]
    BY <1>1, <1>2, <1>7 DEF Allocated
  <2> SUFFICES ASSUME NEW d \in Buckets
               PROVE  Range(ch2[d]) = {a \in Allocated(h) \cup {n} : Hash[g.key[a]] = d}
    BY DEF Filed
  <2>2. CASE d = b
    BY <1>1, <1>3, <1>5, <1>6, <2>1, <2>2 DEF b
  <2>3. CASE d # b
    BY <1>1, <1>3, <1>6, <2>1, <2>3 DEF b
  <2> QED
    BY <2>2, <2>3
<1> QED
  BY <1>1, <1>2, <1>10, <1>11 DEF b, g, u

-----------------------------------------------------------------------------
(***************************************************************************)
(* A sound heap: its list s and its chains ch hold its nodes, a node for a *)
(* key, with a value, and c->size counts them.                             *)
(***************************************************************************)
Sound(h, s, ch) ==
  /\ h \in Heaps /\ ch \in [Buckets -> Seq(Addrs)]
  /\ ListOf(h, s) /\ Range(s) = Allocated(h)
  /\ ChainsOf(h, ch) /\ Filed(h, ch, Allocated(h))
  /\ \A a, c \in Allocated(h) : h.key[a] = h.key[c] => a = c
  /\ \A a \in Allocated(h) : h.val[a] \in Values
  /\ h.size = Len(s)

\* A hit or a new node comes to the head.
LEMMA ToHeadSound ==
  ASSUME NEW h, NEW s, NEW ch, Sound(h, s, ch), NEW p \in 1..Len(s)
  PROVE  LET g == ToHead(h, s[p])
         IN  /\ Sound(g, Push(s[p], Drop(s, p)), ch)
             /\ g.key = h.key /\ g.val = h.val /\ g.size = h.size
<1> DEFINE n == s[p]
           d == detach(h, n)
           g == attach_head(d, n)
           u == Drop(s, p)
           w == Push(n, u)
<1>1. h \in Heaps /\ ListOf(h, s) /\ Path(s)
  BY DEF Sound, ListOf
<1>2. d \in Heaps /\ SameNodes(d, h) /\ ListOf(d, u)
  BY <1>1, DetachList
<1>3. n \in Range(s) /\ n \in Addrs /\ Len(s) \in Nat
  BY <1>1, PathPlaces DEF Range
<1>4. Path(u) /\ Len(u) = Len(s) - 1 /\ Range(u) = Range(s) \ {n}
  BY <1>1, DropPath
<1>5. n \in Addrs \ Range(u)
  BY <1>3, <1>4
<1> HIDE DEF n, d, u
<1>6. g \in Heaps /\ SameNodes(g, d) /\ ListOf(g, w)
  BY <1>2, <1>5, AttachList
<1>7. Len(w) = Len(u) + 1 /\ Range(w) = Range(u) \cup {n}
  BY <1>4, <1>5, PushPath
<1> HIDE DEF g, w
<1>8. SameNodes(g, h) /\ Allocated(g) = Allocated(h)
  BY <1>2, <1>6 DEF SameNodes, Allocated
<1>9. Range(w) = Allocated(h) /\ Len(w) = Len(s)
  BY <1>3, <1>4, <1>7 DEF Sound
<1>10. Sound(g, w, ch)
  BY <1>6, <1>8, <1>9 DEF Sound, SameNodes, ChainsOf, Filed
<1> QED
  BY <1>8, <1>10 DEF SameNodes, ToHead, g, w, n, u, d

\* A new value under a node's key.
LEMMA StoreSound ==
  ASSUME NEW h, NEW s, NEW ch, Sound(h, s, ch), NEW n \in Allocated(h), NEW v \in Values
  PROVE  LET g == Store(h, n, v)
         IN  /\ Sound(g, s, ch)
             /\ g.key = h.key /\ g.val = [h.val EXCEPT ![n] = v]
<1> DEFINE g == Store(h, n, v)
<1>1. h \in Heaps /\ n \in Addrs
  BY DEF Sound, Allocated
<1>2. /\ g \in Heaps /\ g.key = h.key /\ g.val = [h.val EXCEPT ![n] = v] /\ g.size = h.size
      /\ g.next = h.next /\ g.prev = h.prev /\ g.head = h.head /\ g.tail = h.tail
      /\ g.hnext = h.hnext /\ g.htable = h.htable
  BY <1>1 DEF Store, Heaps
<1> HIDE DEF g
<1>3. Allocated(g) = Allocated(h)
  BY <1>2 DEF Allocated
<1>4. \A a \in Allocated(h) : g.val[a] \in Values
  BY <1>1, <1>2 DEF Sound, Heaps, Allocated
<1>5. Sound(g, s, ch)
  BY <1>2, <1>3, <1>4 DEF Sound, ListOf, ChainsOf, Filed
<1> QED
  BY <1>2, <1>5 DEF g

\* A node that list and chains have let go of is freed.
LEMMA ReleaseSound ==
  ASSUME NEW h \in Heaps, NEW s, NEW ch \in [Buckets -> Seq(Addrs)], NEW n \in Allocated(h),
         ListOf(h, s), Range(s) = Allocated(h) \ {n},
         ChainsOf(h, ch), Filed(h, ch, Allocated(h) \ {n}),
         \A a, c \in Allocated(h) : h.key[a] = h.key[c] => a = c,
         \A a \in Allocated(h) : h.val[a] \in Values,
         h.size = Len(s) + 1
  PROVE  LET g == Release(h, n)
         IN  /\ Sound(g, s, ch) /\ Allocated(g) = Allocated(h) \ {n}
             /\ g.key = [h.key EXCEPT ![n] = Nil] /\ g.val = [h.val EXCEPT ![n] = NoValue]
<1> DEFINE g == Release(h, n)
<1>1. n \in Addrs
  BY DEF Allocated
<1>2. /\ g \in Heaps /\ g.size = h.size - 1
      /\ g.key = [h.key EXCEPT ![n] = Nil] /\ g.val = [h.val EXCEPT ![n] = NoValue]
      /\ g.next = h.next /\ g.prev = h.prev /\ g.head = h.head /\ g.tail = h.tail
      /\ g.hnext = [h.hnext EXCEPT ![n] = Nil] /\ g.htable = h.htable
  <2> DEFINE key == [h.key EXCEPT ![n] = Nil]
             val == [h.val EXCEPT ![n] = NoValue]
             hnext == [h.hnext EXCEPT ![n] = Nil]
             size == h.size - 1
  <2>1. g = [h EXCEPT !.key = key, !.val = val, !.hnext = hnext, !.size = size]
    BY DEF Release
  <2>2. /\ key \in [Addrs -> Keys \cup {Nil}] /\ val \in [Addrs -> Values \cup {NoValue}]
        /\ hnext \in [Addrs -> Pointers] /\ size \in Int
    BY <1>1 DEF Heaps, Pointers
  <2> HIDE DEF g, key, val, hnext, size
  <2>3. /\ g \in Heaps /\ g.key = key /\ g.val = val /\ g.size = size
        /\ g.next = h.next /\ g.prev = h.prev /\ g.head = h.head /\ g.tail = h.tail
        /\ g.hnext = hnext /\ g.htable = h.htable
    BY <2>1, <2>2 DEF Heaps
  <2> QED
    BY <2>3 DEF key, val, hnext, size
<1> HIDE DEF g
<1>3. /\ h.key \in [Addrs -> Keys \cup {Nil}] /\ h.val \in [Addrs -> Values \cup {NoValue}]
      /\ h.hnext \in [Addrs -> Pointers]
  BY DEF Heaps
<1>4. Allocated(g) = Allocated(h) \ {n}
  BY <1>1, <1>2, <1>3 DEF Allocated
<1>5. \A a \in Allocated(g) : g.key[a] = h.key[a] /\ g.val[a] = h.val[a] /\ a \in Allocated(h)
  BY <1>1, <1>2, <1>3, <1>4 DEF Allocated
<1>6. ChainsOf(g, ch)
  <2> SUFFICES ASSUME NEW d \in Buckets PROVE Leads(g.hnext, ch[d])
    BY <1>2 DEF ChainsOf
  <2>1. n \notin Range(ch[d]) /\ Leads(h.hnext, ch[d]) /\ Range(ch[d]) \subseteq Addrs
    BY PathPlaces DEF ChainsOf, Filed
  <2>2. \A i \in DOMAIN ch[d] : g.hnext[ch[d][i]] = h.hnext[ch[d][i]]
    <3> TAKE i \in DOMAIN ch[d]
    <3>1. ch[d][i] \in Addrs /\ ch[d][i] # n
      BY <2>1 DEF Range
    <3> QED
      BY <1>2, <1>3, <3>1
  <2> QED
    BY <2>1, <2>2 DEF Leads
<1>7. Filed(g, ch, Allocated(g))
  BY <1>4, <1>5 DEF Filed
<1>8. ListOf(g, s)
  BY <1>2 DEF ListOf
<1>9. g.size = Len(s)
  <2>1. Len(s) \in Nat
    BY PathPlaces DEF ListOf
  <2> QED
    BY <1>2, <2>1
<1>10. /\ \A a, c \in Allocated(g) : g.key[a] = g.key[c] => a = c
       /\ \A a \in Allocated(g) : g.val[a] \in Values
  BY <1>5
<1>11. Range(s) = Allocated(g)
  BY <1>4
<1> QED
  BY <1>2, <1>4, <1>6, <1>7, <1>8, <1>9, <1>10, <1>11 DEF Sound, g

\* The chains without the node hold the others.
LEMMA UnchainFiled ==
  ASSUME NEW h \in Heaps, NEW ch \in [Buckets -> Seq(Addrs)], ChainsOf(h, ch),
         Filed(h, ch, Allocated(h)), NEW n \in Allocated(h)
  PROVE  /\ Unchain(h, n) \in Heaps /\ SameList(Unchain(h, n), h)
         /\ \E ch2 \in [Buckets -> Seq(Addrs)] :
              ChainsOf(Unchain(h, n), ch2) /\ Filed(h, ch2, Allocated(h) \ {n})
<1> DEFINE b == Hash[h.key[n]]
           g == Unchain(h, n)
<1>1. /\ g \in Heaps /\ SameList(g, h) /\ b \in Buckets
      /\ \E q \in 1..Len(ch[b]) : /\ ch[b][q] = n
                                  /\ ChainsOf(g, [ch EXCEPT ![b] = Drop(ch[b], q)])
  BY UnchainChains
<1> HIDE DEF g
<1>2. PICK q \in 1..Len(ch[b]) : /\ ch[b][q] = n
                                 /\ ChainsOf(g, [ch EXCEPT ![b] = Drop(ch[b], q)])
  BY <1>1
<1> DEFINE u == Drop(ch[b], q)
           ch2 == [ch EXCEPT ![b] = u]
<1>3. Path(ch[b])
  BY <1>1 DEF ChainsOf
<1>4. Path(u) /\ Range(u) = Range(ch[b]) \ {n}
  BY <1>2, <1>3, DropPath
<1> HIDE DEF u
<1>5. ch2 \in [Buckets -> Seq(Addrs)]
  BY <1>4 DEF Path
<1>6. Filed(h, ch2, Allocated(h) \ {n})
  <2> SUFFICES ASSUME NEW d \in Buckets
               PROVE  Range(ch2[d]) = {a \in Allocated(h) \ {n} : Hash[h.key[a]] = d}
    BY DEF Filed
  <2>1. CASE d = b
    <3>1. ch2[d] = u
      BY <1>1, <2>1
    <3> QED
      BY <1>4, <2>1, <3>1 DEF Filed
  <2>2. CASE d # b
    <3>1. ch2[d] = ch[d]
      BY <1>1, <2>2
    <3> QED
      BY <2>2, <3>1 DEF Filed
  <2> QED
    BY <2>1, <2>2
<1> QED
  BY <1>1, <1>2, <1>5, <1>6 DEF g, u

(* A node leaves the heap: cache_delete unchains it and then detaches it,  *)
(* the eviction in cache_put the other way round.                          *)
Removed(h, n, g) ==
  \/ g = Release(detach(Unchain(h, n), n), n)
  \/ g = Release(Unchain(detach(h, n), n), n)

\* Either way the heap stays sound, without the node.
LEMMA RemoveSound ==
  ASSUME NEW h, NEW s, NEW ch, Sound(h, s, ch), NEW p \in 1..Len(s), NEW g,
         Removed(h, s[p], g)
  PROVE  /\ \E ch2 : Sound(g, Drop(s, p), ch2)
         /\ Allocated(g) = Allocated(h) \ {s[p]}
         /\ \A a \in Addrs \ {s[p]} : g.key[a] = h.key[a] /\ g.val[a] = h.val[a]
<1> DEFINE n == s[p]
           u == Drop(s, p)
<1>1. /\ h \in Heaps /\ ch \in [Buckets -> Seq(Addrs)] /\ ListOf(h, s) /\ Path(s)
      /\ Range(s) = Allocated(h) /\ ChainsOf(h, ch) /\ Filed(h, ch, Allocated(h))
  BY DEF Sound, ListOf
<1>2. n \in Allocated(h) /\ Len(s) \in Nat
  BY <1>1, PathPlaces DEF Range
<1>3. Len(u) = Len(s) - 1 /\ Range(u) = Allocated(h) \ {n}
  BY <1>1, DropPath
<1>4. \E d, ch2 : /\ g = Release(d, n)
                  /\ d \in Heaps /\ ch2 \in [Buckets -> Seq(Addrs)] /\ ListOf(d, u)
                  /\ ChainsOf(d, ch2) /\ Filed(h, ch2, Allocated(h) \ {n})
                  /\ d.key = h.key /\ d.val = h.val /\ d.size = h.size
  <2>1. CASE g = Release(detach(Unchain(h, n), n), n)
    <3> DEFINE x == Unchain(h, n)
               d == detach(x, n)
    <3>1. PICK ch2 \in [Buckets -> Seq(Addrs)] :
            /\ x \in Heaps /\ SameList(x, h)
            /\ ChainsOf(x, ch2) /\ Filed(h, ch2, Allocated(h) \ {n})
      BY <1>1, <1>2, UnchainFiled
    <3> HIDE DEF x
    <3>2. ListOf(x, s)
      BY <1>1, <3>1 DEF ListOf, SameList
    <3>3. d \in Heaps /\ SameNodes(d, x) /\ ListOf(d, u)
      BY <3>1, <3>2, DetachList
    <3> HIDE DEF d
    <3>4. ChainsOf(d, ch2)
      BY <3>1, <3>3 DEF ChainsOf, SameNodes
    <3>5. d.key = h.key /\ d.val = h.val /\ d.size = h.size
      BY <3>1, <3>3 DEF SameList, SameNodes
    <3>6. g = Release(d, n)
      BY <2>1 DEF d, x
    <3> QED
      BY <3>1, <3>3, <3>4, <3>5, <3>6
  <2>2. CASE g = Release(Unchain(detach(h, n), n), n)
    <3> DEFINE x == detach(h, n)
               d == Unchain(x, n)
    <3>1. x \in Heaps /\ SameNodes(x, h) /\ ListOf(x, u)
      BY <1>1, DetachList
    <3> HIDE DEF x
    <3>2. ChainsOf(x, ch) /\ Allocated(x) = Allocated(h)
      BY <1>1, <3>1 DEF ChainsOf, SameNodes, Allocated
    <3>3. Filed(x, ch, Allocated(x)) /\ n \in Allocated(x)
      BY <1>1, <1>2, <3>1, <3>2 DEF Filed, SameNodes
    <3>4. PICK ch2 \in [Buckets -> Seq(Addrs)] :
            /\ d \in Heaps /\ SameList(d, x)
            /\ ChainsOf(d, ch2) /\ Filed(x, ch2, Allocated(x) \ {n})
      BY <1>1, <3>1, <3>2, <3>3, UnchainFiled
    <3> HIDE DEF d
    <3>5. ListOf(d, u)
      BY <3>1, <3>4 DEF ListOf, SameList
    <3>6. d.key = h.key /\ d.val = h.val /\ d.size = h.size
      BY <3>1, <3>4 DEF SameList, SameNodes
    <3>7. Filed(h, ch2, Allocated(h) \ {n})
      BY <3>1, <3>2, <3>4 DEF Filed, SameNodes
    <3>8. g = Release(d, n)
      BY <2>2 DEF d, x
    <3> QED
      BY <3>4, <3>5, <3>6, <3>7, <3>8
  <2> QED
    BY <2>1, <2>2 DEF Removed
<1>5. PICK d, ch2 : /\ g = Release(d, n)
                    /\ d \in Heaps /\ ch2 \in [Buckets -> Seq(Addrs)] /\ ListOf(d, u)
                    /\ ChainsOf(d, ch2) /\ Filed(h, ch2, Allocated(h) \ {n})
                    /\ d.key = h.key /\ d.val = h.val /\ d.size = h.size
  BY <1>4
<1> HIDE DEF u, n
<1>6. Allocated(d) = Allocated(h)
  BY <1>5 DEF Allocated
<1>7. /\ n \in Allocated(d) /\ Range(u) = Allocated(d) \ {n}
      /\ Filed(d, ch2, Allocated(d) \ {n})
  BY <1>2, <1>3, <1>5, <1>6 DEF Filed
<1>8. /\ \A a, c \in Allocated(d) : d.key[a] = d.key[c] => a = c
      /\ \A a \in Allocated(d) : d.val[a] \in Values
  BY <1>5, <1>6 DEF Sound
<1>9. d.size = Len(u) + 1
  BY <1>2, <1>3, <1>5 DEF Sound
<1>10. /\ Sound(Release(d, n), u, ch2) /\ Allocated(Release(d, n)) = Allocated(d) \ {n}
       /\ Release(d, n).key = [d.key EXCEPT ![n] = Nil]
       /\ Release(d, n).val = [d.val EXCEPT ![n] = NoValue]
  <2>1. d \in Heaps /\ ch2 \in [Buckets -> Seq(Addrs)] /\ ListOf(d, u) /\ ChainsOf(d, ch2)
    BY <1>5
  <2> QED
    BY <2>1, <1>7, <1>8, <1>9, ReleaseSound
<1>11. \A a \in Addrs \ {n} : g.key[a] = h.key[a] /\ g.val[a] = h.val[a]
  BY <1>2, <1>5, <1>10 DEF Heaps
<1>12. (\E ch3 : Sound(g, u, ch3)) /\ Allocated(g) = Allocated(h) \ {n}
  BY <1>5, <1>6, <1>10
<1> QED
  BY <1>11, <1>12 DEF u, n

\* A new node enters the heap, its key's chain and the list.
LEMMA EnterSound ==
  ASSUME NEW h, NEW s, NEW ch, Sound(h, s, ch), NEW n \in Addrs \ Allocated(h),
         NEW k \in Keys, NEW v \in Values, \A a \in Allocated(h) : h.key[a] # k
  PROVE  LET g == attach_head(Enter(h, n, k, v), n)
         IN  /\ \E ch2 : Sound(g, Push(n, s), ch2)
             /\ Allocated(g) = Allocated(h) \cup {n}
             /\ g.key[n] = k /\ g.val[n] = v
             /\ \A a \in Addrs \ {n} : g.key[a] = h.key[a] /\ g.val[a] = h.val[a]
<1> DEFINE d == Enter(h, n, k, v)
           g == attach_head(d, n)
           u == Push(n, s)
           b == Hash[k]
           ch2 == [ch EXCEPT ![b] = Push(n, ch[b])]
<1>1. /\ h \in Heaps /\ ch \in [Buckets -> Seq(Addrs)] /\ ListOf(h, s) /\ Path(s)
      /\ Range(s) = Allocated(h) /\ ChainsOf(h, ch) /\ Filed(h, ch, Allocated(h))
      /\ n \in Addrs
  BY DEF Sound, ListOf
<1>2. /\ d \in Heaps /\ b \in Buckets
      /\ d.key = [h.key EXCEPT ![n] = k] /\ d.val = [h.val EXCEPT ![n] = v]
      /\ d.size = h.size + 1
      /\ d.next = h.next /\ d.prev = h.prev /\ d.head = h.head /\ d.tail = h.tail
      /\ ChainsOf(d, ch2) /\ Filed(d, ch2, Allocated(h) \cup {n})
  BY <1>1, EnterChains
<1>3. ch2 \in [Buckets -> Seq(Addrs)]
  <2>1. Path(ch[b]) /\ n \notin Range(ch[b])
    BY <1>1, <1>2 DEF ChainsOf, Filed
  <2>2. Push(n, ch[b]) \in Seq(Addrs)
    BY <1>1, <2>1, PushPath DEF Path
  <2> QED
    BY <1>1, <2>2
<1> HIDE DEF d, b, ch2
<1>4. ListOf(d, s) /\ n \notin Range(s)
  BY <1>1, <1>2 DEF ListOf
<1>5. g \in Heaps /\ SameNodes(g, d) /\ ListOf(g, u)
  BY <1>1, <1>2, <1>4, AttachList
<1>6. Len(u) = Len(s) + 1 /\ Range(u) = Allocated(h) \cup {n}
  BY <1>1, <1>4, PushPath
<1> HIDE DEF g, u
<1>7. g.key = d.key /\ g.val = d.val /\ g.size = d.size
  BY <1>5 DEF SameNodes
<1>8. /\ h.key \in [Addrs -> Keys \cup {Nil}] /\ h.val \in [Addrs -> Values \cup {NoValue}]
      /\ k # Nil
  BY <1>1, NilAssumption DEF Heaps
<1>9. /\ g.key[n] = k /\ g.val[n] = v
      /\ \A a \in Addrs \ {n} : g.key[a] = h.key[a] /\ g.val[a] = h.val[a]
  BY <1>1, <1>2, <1>7, <1>8
<1>10. Allocated(g) = Allocated(h) \cup {n}
  BY <1>1, <1>8, <1>9 DEF Allocated
<1>11. \A a, c \in Allocated(g) : g.key[a] = g.key[c] => a = c
  BY <1>9, <1>10 DEF Sound, Allocated
<1>12. \A a \in Allocated(g) : g.val[a] \in Values
  BY <1>9, <1>10 DEF Sound, Allocated
<1>13. ChainsOf(g, ch2) /\ Filed(g, ch2, Allocated(g))
  BY <1>2, <1>5, <1>10 DEF SameNodes, ChainsOf, Filed
<1>14. g.size = Len(u)
  BY <1>2, <1>6, <1>7 DEF Sound
<1>15. Sound(g, u, ch2)
  BY <1>3, <1>5, <1>6, <1>10, <1>11, <1>12, <1>13, <1>14 DEF Sound
<1> QED
  BY <1>9, <1>10, <1>15 DEF g, u, d

-----------------------------------------------------------------------------
(* The contents of a sound heap. *)

\* What the field key may hold.
Labels == Keys \cup {Nil}

\* What f says of the nodes of a path, one after the other.
Read(f, s) == [i \in 1..Len(s) |-> f[s[i]]]

\* Without a node, what was read of the others stays in its order.
LEMMA ReadDrop ==
  ASSUME NEW f \in [Addrs -> Labels], NEW s, Path(s), NEW p \in 1..Len(s)
  PROVE  /\ Read(f, s) \in Seq(Labels) /\ Len(Read(f, s)) = Len(s)
         /\ RemoveAt(Read(f, s), p) = Read(f, Drop(s, p))
<1> DEFINE r == Read(f, s)
           a == SubSeq(r, 1, p - 1)
           b == SubSeq(r, p + 1, Len(r))
           m == Len(s) - 1
<1>1. /\ Len(s) \in Nat /\ p \in Int /\ 1 <= p /\ p <= Len(s)
      /\ \A i \in 1..Len(s) : s[i] \in Addrs
  BY PathPlaces
<1>2. /\ Path(Drop(s, p)) /\ Len(Drop(s, p)) = m
      /\ \A i \in 1..m : Drop(s, p)[i] = IF i < p THEN s[i] ELSE s[i + 1]
  BY DropPath
<1>3. r \in Seq(Labels) /\ Len(r) = Len(s) /\ \A i \in 1..Len(s) : r[i] = f[s[i]] /\ r[i] \in Labels
  BY <1>1 DEF Read
<1> HIDE DEF r
<1>4. /\ a \in Seq(Labels) /\ Len(a) = p - 1
      /\ \A i \in 1..(p - 1) : a[i] = r[i]
  BY <1>1, <1>3
<1>5. /\ b \in Seq(Labels) /\ Len(b) = Len(s) - p
      /\ \A i \in 1..(Len(s) - p) : b[i] = r[p + i]
  BY <1>1, <1>3
<1>6. RemoveAt(r, p) = a \o b
  BY DEF RemoveAt
<1> HIDE DEF a, b
<1>7. /\ a \o b \in Seq(Labels) /\ Len(a \o b) = m
      /\ \A i \in 1..m : (a \o b)[i] = IF i <= p - 1 THEN a[i] ELSE b[i - (p - 1)]
  <2>1. /\ a \o b \in Seq(Labels)
        /\ Len(a \o b) = Len(a) + Len(b)
        /\ \A i \in 1..(Len(a) + Len(b)) :
             (a \o b)[i] = IF i <= Len(a) THEN a[i] ELSE b[i - Len(a)]
    BY <1>4, <1>5, ConcatProperties
  <2> QED
    BY <1>1, <1>4, <1>5, <2>1
<1>8. ASSUME NEW i \in 1..m PROVE (a \o b)[i] = f[Drop(s, p)[i]]
  <2>1. (a \o b)[i] = IF i <= p - 1 THEN a[i] ELSE b[i - (p - 1)]
    BY <1>7
  <2>2. Drop(s, p)[i] = IF i < p THEN s[i] ELSE s[i + 1]
    BY <1>2
  <2>3. CASE i < p
    <3>1. i <= p - 1 /\ i \in 1..(p - 1) /\ i \in 1..Len(s)
      BY <1>1, <2>3
    <3>2. a[i] = r[i] /\ r[i] = f[s[i]]
      BY <1>3, <1>4, <3>1
    <3> QED
      BY <2>1, <2>2, <2>3, <3>1, <3>2
  <2>4. CASE ~(i < p)
    <3>1. /\ ~(i <= p - 1) /\ i - (p - 1) \in 1..(Len(s) - p) /\ i + 1 \in 1..Len(s)
          /\ p + (i - (p - 1)) = i + 1
      BY <1>1, <2>4
    <3>2. b[i - (p - 1)] = r[i + 1] /\ r[i + 1] = f[s[i + 1]]
      BY <1>3, <1>5, <3>1
    <3> QED
      BY <2>1, <2>2, <2>4, <3>1, <3>2
  <2> QED
    BY <2>3, <2>4
<1>9. a \o b = Read(f, Drop(s, p))
  <2> DEFINE w == Read(f, Drop(s, p))
             c == a \o b
  <2>1. w = [i \in 1..m |-> f[Drop(s, p)[i]]]
    BY <1>2 DEF Read
  <2>2. w \in Seq(Labels) /\ Len(w) = m /\ \A i \in 1..m : w[i] = f[Drop(s, p)[i]]
    <3>1. \A i \in 1..m : Drop(s, p)[i] \in Addrs
      BY <1>1, <1>2
    <3>2. m \in Nat
      BY <1>1
    <3> QED
      BY <2>1, <3>1, <3>2
  <2>3. c \in Seq(Labels) /\ Len(c) = m
    BY <1>7
  <2>4. \A i \in 1..m : c[i] = f[Drop(s, p)[i]]
    BY <1>8
  <2> HIDE DEF w, c, m
  <2>5. Len(c) = Len(w) /\ \A i \in 1..Len(c) : c[i] = w[i]
    BY <2>2, <2>3, <2>4
  <2>6. c = w
    BY <2>2, <2>3, <2>5, SeqEqual
  <2> QED
    BY <2>6 DEF c, w
<1> QED
  BY <1>3, <1>6, <1>9 DEF r

\* The last of a path read, and the others.
LEMMA ReadFront ==
  ASSUME NEW f \in [Addrs -> Labels], NEW s, Path(s), Len(s) # 0
  PROVE  /\ Front(Read(f, s)) = Read(f, Drop(s, Len(s)))
         /\ Last(Read(f, s)) = f[s[Len(s)]]
<1> DEFINE r == Read(f, s)
           m == Len(s) - 1
           u == Drop(s, Len(s))
<1>1. Len(s) \in Nat /\ Len(s) \in 1..Len(s) /\ \A i \in 1..Len(s) : s[i] \in Addrs
  BY PathPlaces
<1>2. /\ Path(u) /\ Len(u) = m /\ m \in Nat
      /\ \A i \in 1..m : u[i] = s[i]
  BY <1>1, DropPath
<1>3. r \in Seq(Labels) /\ Len(r) = Len(s) /\ \A i \in 1..Len(s) : r[i] = f[s[i]] /\ r[i] \in Labels
  BY <1>1 DEF Read
<1> HIDE DEF r, u
<1>4. SubSeq(r, 1, m) = [i \in 1..m |-> r[i]]
  <2>1. m \in Nat /\ \A i \in 1..m : i \in 1..Len(r)
    BY <1>1, <1>2, <1>3
  <2> HIDE DEF m
  <2>2. /\ SubSeq(r, 1, m) \in Seq(Labels) /\ Len(SubSeq(r, 1, m)) = m
        /\ \A i \in 1..m : SubSeq(r, 1, m)[i] = r[i]
    BY <1>3, <2>1
  <2> QED
    BY <2>1, <2>2, LenProperties
<1>5. Read(f, u) = [i \in 1..m |-> r[i]]
  BY <1>1, <1>2, <1>3 DEF Read
<1>6. Front(r) = Read(f, u)
  BY <1>3, <1>4, <1>5 DEF Front
<1>7. Last(r) = f[s[Len(s)]]
  BY <1>1, <1>3 DEF Last
<1> QED
  BY <1>6, <1>7 DEF r, u

\* A node before the others is read first.
LEMMA ReadPush ==
  ASSUME NEW f \in [Addrs -> Labels], NEW s, Path(s), NEW n \in Addrs \ Range(s)
  PROVE  Cons(f[n], Read(f, s)) = Read(f, Push(n, s))
<1> DEFINE r == Read(f, s)
           w == Read(f, Push(n, s))
           l == Len(s)
<1>1. l \in Nat /\ \A i \in 1..l : s[i] \in Addrs
  BY PathPlaces
<1>2. /\ Len(Push(n, s)) = l + 1 /\ Push(n, s)[1] = n
      /\ \A i \in 1..l : Push(n, s)[i + 1] = s[i]
  BY PushPath
<1>3. r \in Seq(Labels) /\ Len(r) = l /\ \A i \in 1..l : r[i] = f[s[i]]
  BY <1>1 DEF Read
<1>4. w = [i \in 1..(l + 1) |-> f[Push(n, s)[i]]]
  BY <1>2 DEF Read
<1> HIDE DEF r, w, l
<1>5. \A i \in 1..(l + 1) : w[i] = IF i = 1 THEN f[n] ELSE r[i - 1]
  <2> TAKE i \in 1..(l + 1)
  <2>1. CASE i = 1
    BY <1>2, <1>4, <2>1
  <2>2. CASE i # 1
    <3>1. i - 1 \in 1..l /\ (i - 1) + 1 = i
      BY <1>1, <2>2
    <3>2. Push(n, s)[(i - 1) + 1] = s[i - 1] /\ r[i - 1] = f[s[i - 1]]
      BY <1>2, <1>3, <3>1
    <3> QED
      BY <1>4, <2>2, <3>1, <3>2
  <2> QED
    BY <2>1, <2>2
<1>6. w \in Seq(Labels) /\ Len(w) = l + 1
  <2>1. \A i \in 1..(l + 1) : Push(n, s)[i] \in Addrs
    BY <1>2, PushPath, PathPlaces
  <2>2. l + 1 \in Nat
    BY <1>1
  <2> QED
    BY <1>4, <2>1, <2>2
<1>7. <<f[n]>> \in Seq(Labels) /\ Len(<<f[n]>>) = 1 /\ <<f[n]>>[1] = f[n]
  OBVIOUS
<1>8. /\ <<f[n]>> \o r \in Seq(Labels) /\ Len(<<f[n]>> \o r) = 1 + l
      /\ \A i \in 1..(1 + l) : (<<f[n]>> \o r)[i] = IF i <= 1 THEN <<f[n]>>[i] ELSE r[i - 1]
  BY <1>3, <1>7, ConcatProperties
<1>9. /\ Len(<<f[n]>> \o r) = Len(w)
      /\ \A i \in 1..Len(<<f[n]>> \o r) : (<<f[n]>> \o r)[i] = w[i]
  BY <1>1, <1>5, <1>6, <1>7, <1>8
<1>10. <<f[n]>> \o r = w
  BY <1>6, <1>8, <1>9, SeqEqual
<1> QED
  BY <1>10 DEF Cons, r, w

\* The nodes of a key in its chain are the key's nodes.
LEMMA FoundIs ==
  ASSUME NEW h, NEW s, NEW ch, Sound(h, s, ch), NEW k \in Keys
  PROVE  Found(h, k) = {a \in Allocated(h) : h.key[a] = k}
<1> DEFINE b == Hash[k]
<1>1. b \in Buckets
  BY HashAssumption
<1>2. /\ Path(ch[b]) /\ Leads(h.hnext, ch[b]) /\ h.htable[b] = Stop(ch[b], 1)
      /\ Range(ch[b]) = {a \in Allocated(h) : Hash[h.key[a]] = b}
      /\ h.htable[b] \in Pointers
  BY <1>1 DEF Sound, ChainsOf, Filed, Heaps
<1>3. Along(h.hnext, h.htable[b]) = ch[b]
  BY <1>2, AlongIs
<1> QED
  BY <1>2, <1>3 DEF Found

\* A sound heap stands for its nodes' values and for the list's keys.
LEMMA ContentsOf ==
  ASSUME NEW h, NEW s, NEW ch, Sound(h, s, ch)
  PROVE  /\ Contents(h) = [entry |-> Contents(h).entry, lru |-> Read(h.key, s)]
         /\ Contents(h).entry \in [Keys -> Values \cup {NoValue}]
         /\ \A a \in Allocated(h) : h.key[a] \in Keys /\ Contents(h).entry[h.key[a]] = h.val[a]
         /\ \A k \in Keys : (\A a \in Allocated(h) : h.key[a] # k) => Contents(h).entry[k] = NoValue
<1> DEFINE e == [k \in Keys |-> LET nodes == Found(h, k)
                                IN  IF nodes = {} THEN NoValue
                                    ELSE h.val[CHOOSE a \in nodes : TRUE]]
<1>1. Path(s) /\ Stop(s, 1) = h.head /\ Leads(h.next, s) /\ h.head \in Pointers
  BY DEF Sound, ListOf, Heaps
<1>2. Along(h.next, h.head) = s
  BY <1>1, AlongIs
<1>3. [i \in DOMAIN s |-> h.key[s[i]]] = Read(h.key, s)
  BY <1>1, PathPlaces DEF Read
<1>4. Contents(h) = [entry |-> e, lru |-> Read(h.key, s)]
  BY <1>2, <1>3 DEF Contents
<1>5. \A k \in Keys : Found(h, k) = {a \in Allocated(h) : h.key[a] = k}
  BY FoundIs
<1>6. ASSUME NEW a \in Allocated(h) PROVE h.key[a] \in Keys /\ e[h.key[a]] = h.val[a]
  <2>1. h.key[a] \in Keys
    BY DEF Sound, Heaps, Allocated
  <2>2. Found(h, h.key[a]) = {a}
    BY <1>5, <2>1 DEF Sound
  <2> QED
    BY <2>1, <2>2
<1>7. ASSUME NEW k \in Keys, \A a \in Allocated(h) : h.key[a] # k PROVE e[k] = NoValue
  BY <1>5, <1>7
<1>8. \A k \in Keys : e[k] \in Values \cup {NoValue}
  <2> TAKE k \in Keys
  <2>1. CASE \E a \in Allocated(h) : h.key[a] = k
    <3>1. PICK a \in Allocated(h) : h.key[a] = k
      BY <2>1
    <3>2. h.val[a] \in Values
      BY DEF Sound
    <3> QED
      BY <1>6, <3>1, <3>2
  <2>2. CASE \A a \in Allocated(h) : h.key[a] # k
    BY <1>7, <2>2
  <2> QED
    BY <2>1, <2>2
<1>9. e \in [Keys -> Values \cup {NoValue}]
  BY <1>8
<1> HIDE DEF e
<1> QED
  BY <1>4, <1>6, <1>7, <1>9

\* Nothing else than these entries and this order is what it stands for.
LEMMA ContentsAre ==
  ASSUME NEW h, NEW s, NEW ch, Sound(h, s, ch), NEW e \in [Keys -> Values \cup {NoValue}],
         \A a \in Allocated(h) : e[h.key[a]] = h.val[a],
         \A k \in Keys : (\A a \in Allocated(h) : h.key[a] # k) => e[k] = NoValue
  PROVE  Contents(h) = [entry |-> e, lru |-> Read(h.key, s)]
<1> DEFINE f == Contents(h).entry
<1>1. /\ Contents(h) = [entry |-> f, lru |-> Read(h.key, s)]
      /\ f \in [Keys -> Values \cup {NoValue}]
      /\ \A a \in Allocated(h) : h.key[a] \in Keys /\ f[h.key[a]] = h.val[a]
      /\ \A k \in Keys : (\A a \in Allocated(h) : h.key[a] # k) => f[k] = NoValue
  BY ContentsOf
<1> HIDE DEF f
<1>2. \A k \in Keys : e[k] = f[k]
  BY <1>1
<1> QED
  BY <1>1, <1>2

-----------------------------------------------------------------------------
(* What the changes of the pointers do to the contents, as LRU says. *)

\* A node's key is cached, and stands in the order where the node stands.
LEMMA PlaceIs ==
  ASSUME NEW h, NEW s, NEW ch, Sound(h, s, ch), NEW p \in 1..Len(s)
  PROVE  LET k == h.key[s[p]]
             r == Read(h.key, s)
         IN  /\ s[p] \in Allocated(h) /\ k \in Keys
             /\ h.val[s[p]] \in Values /\ Contents(h).entry[k] = h.val[s[p]]
             /\ Abstract!Cached(Contents(h), k)
             /\ Abstract!detach(r, k) = Read(h.key, Drop(s, p))
             /\ Abstract!ToHead(r, k) = Read(h.key, Push(s[p], Drop(s, p)))
<1> DEFINE n == s[p]
           k == h.key[n]
           r == Read(h.key, s)
<1>1. /\ Path(s) /\ Range(s) = Allocated(h) /\ h.key \in [Addrs -> Keys \cup {Nil}]
      /\ \A a, c \in Allocated(h) : h.key[a] = h.key[c] => a = c
  BY DEF Sound, ListOf, Heaps
<1>2. /\ DOMAIN s = 1..Len(s) /\ \A i \in 1..Len(s) : s[i] \in Allocated(h) /\ s[i] \in Addrs
      /\ \A i, j \in 1..Len(s) : s[i] = s[j] => i = j
  BY <1>1, PathPlaces DEF Range
<1>3. n \in Allocated(h) /\ k \in Keys /\ Contents(h).entry[k] = h.val[n] /\ h.val[n] \in Values
  BY <1>2, ContentsOf DEF Sound
<1>4. Abstract!Cached(Contents(h), k)
  BY <1>3, NoValueAssumption DEF Abstract!Cached
<1>5. DOMAIN r = 1..Len(s) /\ \A i \in 1..Len(s) : r[i] = h.key[s[i]]
  BY DEF Read
<1>6. Abstract!Place(r, k) = p
  <2>1. \A i \in DOMAIN r : r[i] = k <=> i = p
    BY <1>1, <1>2, <1>5
  <2> HIDE DEF r, k
  <2> QED
    BY <1>5, <2>1 DEF Abstract!Place
<1>7. RemoveAt(r, p) = Read(h.key, Drop(s, p))
  <2> DEFINE f == h.key
  <2>1. f \in [Addrs -> Labels] /\ Path(s) /\ p \in 1..Len(s)
    BY <1>1 DEF Labels
  <2> HIDE DEF f
  <2>2. RemoveAt(Read(f, s), p) = Read(f, Drop(s, p))
    BY <2>1, ReadDrop
  <2> QED
    BY <2>2 DEF f
<1>8. Abstract!detach(r, k) = RemoveAt(r, p)
  <2> HIDE DEF r, k
  <2> QED
    BY <1>6 DEF Abstract!detach, Abstract!RemoveAt, RemoveAt
<1>9. Cons(k, Read(h.key, Drop(s, p))) = Read(h.key, Push(n, Drop(s, p)))
  <2> DEFINE f == h.key
             u == Drop(s, p)
  <2>1. f \in [Addrs -> Labels] /\ k = f[n]
    BY <1>1 DEF Labels
  <2>2. Path(u) /\ n \in Addrs \ Range(u)
    BY <1>1, <1>2, DropPath
  <2> HIDE DEF f, u, n
  <2>3. Cons(f[n], Read(f, u)) = Read(f, Push(n, u))
    BY <2>1, <2>2, ReadPush
  <2> QED
    BY <2>1, <2>3 DEF f, u
<1>10. Abstract!ToHead(r, k) = Cons(k, Abstract!detach(r, k))
  <2> HIDE DEF r, k
  <2> QED
    BY DEF Abstract!ToHead, Abstract!attach_head, Abstract!Cons, Cons
<1> QED
  BY <1>3, <1>4, <1>7, <1>8, <1>9, <1>10

\* A key without a node is not cached.
LEMMA NotCached ==
  ASSUME NEW h, NEW s, NEW ch, Sound(h, s, ch), NEW k \in Keys,
         \A a \in Allocated(h) : h.key[a] # k
  PROVE  /\ ~Abstract!Cached(Contents(h), k) /\ Contents(h).entry[k] = NoValue
         /\ Abstract!cache_get(Contents(h), k) = Contents(h)
         /\ Abstract!cache_delete(Contents(h), k) = Contents(h)
<1>1. Contents(h).entry[k] = NoValue
  BY ContentsOf
<1>2. ~Abstract!Cached(Contents(h), k)
  BY <1>1 DEF Abstract!Cached
<1> QED
  BY <1>1, <1>2 DEF Abstract!cache_get, Abstract!cache_delete

\* Of a heap on the way to the unlocking: sound, within the capacity, standing for c.
StandsFor(h, c) ==
  /\ \E s, ch : Sound(h, s, ch) /\ Len(s) <= Capacity
  /\ Contents(h) = c

\* A get that finds its node.
LEMMA GetsNode ==
  ASSUME NEW h, NEW s, NEW ch, Sound(h, s, ch), Len(s) <= Capacity, NEW p \in 1..Len(s)
  PROVE  StandsFor(ToHead(h, s[p]), Abstract!cache_get(Contents(h), h.key[s[p]]))
<1> DEFINE n == s[p]
           k == h.key[n]
           g == ToHead(h, n)
           u == Push(n, Drop(s, p))
           e == Contents(h).entry
<1>1. Sound(g, u, ch) /\ g.key = h.key /\ g.val = h.val
  BY ToHeadSound
<1>2. /\ n \in Allocated(h) /\ Abstract!Cached(Contents(h), k)
      /\ Abstract!ToHead(Read(h.key, s), k) = Read(h.key, u)
  BY PlaceIs
<1>3. /\ Contents(h) = [entry |-> e, lru |-> Read(h.key, s)]
      /\ e \in [Keys -> Values \cup {NoValue}]
      /\ \A a \in Allocated(h) : h.key[a] \in Keys /\ e[h.key[a]] = h.val[a]
      /\ \A x \in Keys : (\A a \in Allocated(h) : h.key[a] # x) => e[x] = NoValue
  BY ContentsOf
<1>4. Len(u) = Len(s)
  <2>1. Path(s) /\ Len(s) \in Nat /\ n \in Addrs
    BY PathPlaces DEF Sound, ListOf
  <2>2. Path(Drop(s, p)) /\ Len(Drop(s, p)) = Len(s) - 1 /\ n \notin Range(Drop(s, p))
    BY <2>1, DropPath
  <2>3. Len(u) = Len(Drop(s, p)) + 1
    BY <2>1, <2>2, PushPath
  <2> QED
    BY <2>1, <2>2, <2>3
<1> HIDE DEF e, g, u, k, n
<1>5. Allocated(g) = Allocated(h)
  BY <1>1 DEF Allocated
<1>6. Contents(g) = [entry |-> e, lru |-> Read(g.key, u)]
  <2>1. \A a \in Allocated(g) : e[g.key[a]] = g.val[a]
    BY <1>1, <1>3, <1>5
  <2>2. \A x \in Keys : (\A a \in Allocated(g) : g.key[a] # x) => e[x] = NoValue
    BY <1>1, <1>3, <1>5
  <2> QED
    BY <1>1, <1>3, <2>1, <2>2, ContentsAre
<1>7. Abstract!cache_get(Contents(h), k) = [entry |-> e, lru |-> Read(h.key, u)]
  <2>1. Abstract!cache_get(Contents(h), k)
          = [Contents(h) EXCEPT !.lru = Abstract!ToHead(Contents(h).lru, k)]
    BY <1>2 DEF Abstract!cache_get
  <2>2. Contents(h).lru = Read(h.key, s)
    BY <1>3
  <2> QED
    BY <1>2, <1>3, <2>1, <2>2
<1>8. Contents(g) = Abstract!cache_get(Contents(h), k)
  BY <1>1, <1>6, <1>7
<1>9. Len(u) <= Capacity
  BY <1>4
<1> QED
  BY <1>1, <1>8, <1>9 DEF StandsFor, g, k, n

\* A put that finds its node.
LEMMA PutsNode ==
  ASSUME NEW h, NEW s, NEW ch, Sound(h, s, ch), Len(s) <= Capacity, NEW p \in 1..Len(s),
         NEW v \in Values
  PROVE  StandsFor(ToHead(Store(h, s[p], v), s[p]),
                   Abstract!cache_put(Contents(h), h.key[s[p]], v))
<1> DEFINE n == s[p]
           k == h.key[n]
           d == Store(h, n, v)
           g == ToHead(d, n)
           u == Push(n, Drop(s, p))
           e == Contents(h).entry
           e2 == [e EXCEPT ![k] = v]
<1>1. /\ n \in Allocated(h) /\ k \in Keys /\ Abstract!Cached(Contents(h), k)
      /\ Abstract!ToHead(Read(h.key, s), k) = Read(h.key, u)
  BY PlaceIs
<1>2. Sound(d, s, ch) /\ d.key = h.key /\ d.val = [h.val EXCEPT ![n] = v]
  BY <1>1, StoreSound
<1>3. Sound(g, u, ch) /\ g.key = d.key /\ g.val = d.val
  BY <1>2, ToHeadSound
<1>4. StandsFor(g, Abstract!cache_get(Contents(d), d.key[n]))
  BY <1>2, GetsNode
<1>5. /\ Contents(h) = [entry |-> e, lru |-> Read(h.key, s)]
      /\ e \in [Keys -> Values \cup {NoValue}]
      /\ \A a \in Allocated(h) : h.key[a] \in Keys /\ e[h.key[a]] = h.val[a]
      /\ \A x \in Keys : (\A a \in Allocated(h) : h.key[a] # x) => e[x] = NoValue
  BY ContentsOf
<1>6. /\ h.val \in [Addrs -> Values \cup {NoValue}] /\ Allocated(h) \subseteq Addrs
      /\ \A a, c \in Allocated(h) : h.key[a] = h.key[c] => a = c
  BY DEF Sound, Heaps, Allocated
<1>7. k = h.key[n]
  OBVIOUS
<1> HIDE DEF e, g, u, d, k, n
<1>8. Allocated(g) = Allocated(h)
  BY <1>2, <1>3 DEF Allocated
<1>9. e2 \in [Keys -> Values \cup {NoValue}]
  BY <1>5
<1>10. \A a \in Allocated(g) : e2[g.key[a]] = g.val[a]
  <2> TAKE a \in Allocated(g)
  <2>1. a \in Allocated(h) /\ g.key[a] = h.key[a] /\ g.val[a] = IF a = n THEN v ELSE h.val[a]
    BY <1>1, <1>2, <1>3, <1>6, <1>8
  <2>2. h.key[a] = k <=> a = n
    BY <1>1, <1>6, <1>7, <2>1
  <2> QED
    BY <1>5, <2>1, <2>2
<1>11. \A x \in Keys : (\A a \in Allocated(g) : g.key[a] # x) => e2[x] = NoValue
  BY <1>1, <1>2, <1>3, <1>5, <1>7, <1>8
<1>12. Contents(g) = [entry |-> e2, lru |-> Read(g.key, u)]
  <2> HIDE DEF e2
  <2> QED
    BY <1>3, <1>9, <1>10, <1>11, ContentsAre
<1>13. Abstract!cache_put(Contents(h), k, v) = [entry |-> e2, lru |-> Read(h.key, u)]
  <2> DEFINE c == Contents(h)
             stored == [c EXCEPT !.entry[k] = v]
  <2>1. stored = [entry |-> e2, lru |-> Read(h.key, s)]
    BY <1>5
  <2>2. Abstract!cache_put(c, k, v) = [stored EXCEPT !.lru = Abstract!ToHead(@, k)]
    BY <1>1 DEF Abstract!cache_put
  <2> HIDE DEF e2, stored
  <2>3. [stored EXCEPT !.lru = Abstract!ToHead(@, k)]
          = [entry |-> e2, lru |-> Abstract!ToHead(Read(h.key, s), k)]
    BY <2>1
  <2> QED
    BY <1>1, <2>2, <2>3
<1>14. Contents(g) = Abstract!cache_put(Contents(h), k, v)
  BY <1>2, <1>3, <1>12, <1>13
<1> QED
  BY <1>4, <1>14 DEF StandsFor, g, d, k, n

\* Without a node: its entry and its place in the order are gone.
LEMMA RemoveContents ==
  ASSUME NEW h, NEW s, NEW ch, Sound(h, s, ch), NEW p \in 1..Len(s), NEW g,
         Removed(h, s[p], g)
  PROVE  /\ \E ch2 : Sound(g, Drop(s, p), ch2)
         /\ Contents(g) = [entry |-> [Contents(h).entry EXCEPT ![h.key[s[p]]] = NoValue],
                           lru   |-> Read(h.key, Drop(s, p))]
<1> DEFINE n == s[p]
           k == h.key[n]
           u == Drop(s, p)
           e == Contents(h).entry
           e2 == [e EXCEPT ![k] = NoValue]
<1>1. n \in Allocated(h) /\ k \in Keys
  BY PlaceIs
<1>2. /\ \E ch2 : Sound(g, u, ch2)
      /\ Allocated(g) = Allocated(h) \ {n}
      /\ \A a \in Addrs \ {n} : g.key[a] = h.key[a] /\ g.val[a] = h.val[a]
  BY RemoveSound
<1>3. Path(s) /\ Path(u) /\ Range(u) = Range(s) \ {n}
  BY DropPath DEF Sound, ListOf
<1>5. /\ Contents(h) = [entry |-> e, lru |-> Read(h.key, s)]
      /\ e \in [Keys -> Values \cup {NoValue}]
      /\ \A a \in Allocated(h) : h.key[a] \in Keys /\ e[h.key[a]] = h.val[a]
      /\ \A x \in Keys : (\A a \in Allocated(h) : h.key[a] # x) => e[x] = NoValue
  BY ContentsOf
<1>6. /\ h.val \in [Addrs -> Values \cup {NoValue}] /\ h.key \in [Addrs -> Keys \cup {Nil}]
      /\ Allocated(h) \subseteq Addrs /\ Range(s) = Allocated(h)
      /\ \A a, c \in Allocated(h) : h.key[a] = h.key[c] => a = c
  BY DEF Sound, Heaps, Allocated
<1>7. k = h.key[n]
  OBVIOUS
<1>8. Read(g.key, u) = Read(h.key, u)
  <2>1. \A i \in 1..Len(u) : u[i] \in Addrs /\ u[i] # n
    BY <1>3, PathPlaces DEF Range
  <2> HIDE DEF u, n
  <2>2. \A i \in 1..Len(u) : g.key[u[i]] = h.key[u[i]]
    BY <1>2, <1>6, <2>1
  <2> QED
    BY <2>2 DEF Read
<1> HIDE DEF e, u, k, n
<1>9. e2 \in [Keys -> Values \cup {NoValue}]
  BY <1>5
<1>10. \A a \in Allocated(g) : e2[g.key[a]] = g.val[a]
  <2> TAKE a \in Allocated(g)
  <2>1. a \in Allocated(h) /\ a # n /\ g.key[a] = h.key[a] /\ g.val[a] = h.val[a]
    BY <1>1, <1>2, <1>6
  <2>2. h.key[a] # k
    BY <1>1, <1>6, <1>7, <2>1
  <2> QED
    BY <1>5, <2>1, <2>2
<1>11. \A x \in Keys : (\A a \in Allocated(g) : g.key[a] # x) => e2[x] = NoValue
  <2> SUFFICES ASSUME NEW x \in Keys, \A a \in Allocated(g) : g.key[a] # x, x # k
               PROVE  e2[x] = NoValue
    BY <1>5
  <2>1. \A a \in Allocated(h) : h.key[a] # x
    BY <1>2, <1>6, <1>7
  <2> QED
    BY <1>5, <2>1
<1>12. Contents(g) = [entry |-> e2, lru |-> Read(g.key, u)]
  <2>1. PICK ch2 : Sound(g, u, ch2)
    BY <1>2
  <2> HIDE DEF e2
  <2> QED
    BY <1>9, <1>10, <1>11, <2>1, ContentsAre
<1> QED
  BY <1>2, <1>8, <1>12 DEF e, k, n, u

\* A delete that finds its node.
LEMMA DeletesNode ==
  ASSUME NEW h, NEW s, NEW ch, Sound(h, s, ch), Len(s) <= Capacity, NEW p \in 1..Len(s)
  PROVE  StandsFor(Release(detach(Unchain(h, s[p]), s[p]), s[p]),
                   Abstract!cache_delete(Contents(h), h.key[s[p]]))
<1> DEFINE n == s[p]
           k == h.key[n]
           g == Release(detach(Unchain(h, n), n), n)
           u == Drop(s, p)
           e == Contents(h).entry
           e2 == [e EXCEPT ![k] = NoValue]
<1>1. /\ Abstract!Cached(Contents(h), k)
      /\ Abstract!detach(Read(h.key, s), k) = Read(h.key, u)
  BY PlaceIs
<1>2. (\E ch2 : Sound(g, u, ch2)) /\ Contents(g) = [entry |-> e2, lru |-> Read(h.key, u)]
  <2>1. Removed(h, n, g)
    BY DEF Removed
  <2> HIDE DEF g
  <2> QED
    BY <2>1, RemoveContents
<1>3. Len(u) <= Capacity
  <2>1. Path(s) /\ Len(u) = Len(s) - 1 /\ Len(s) \in Nat
    BY PathPlaces, DropPath DEF Sound, ListOf
  <2> QED
    BY <2>1, CapacityAssumption
<1>4. Contents(h).entry = e /\ Contents(h).lru = Read(h.key, s)
  BY ContentsOf
<1> HIDE DEF e, g, u, k, n
<1>5. Abstract!cache_delete(Contents(h), k) = [entry |-> e2, lru |-> Read(h.key, u)]
  BY <1>1, <1>4 DEF Abstract!cache_delete
<1>6. Contents(g) = Abstract!cache_delete(Contents(h), k)
  BY <1>2, <1>5
<1> QED
  BY <1>2, <1>3, <1>6 DEF StandsFor, g, k, n

\* With a new node: its entry, and its key at the head of the order.
LEMMA EnterContents ==
  ASSUME NEW h, NEW s, NEW ch, Sound(h, s, ch), NEW n \in Addrs \ Allocated(h),
         NEW k \in Keys, NEW v \in Values, \A a \in Allocated(h) : h.key[a] # k
  PROVE  LET g == attach_head(Enter(h, n, k, v), n)
         IN  /\ \E ch2 : Sound(g, Push(n, s), ch2)
             /\ Contents(g) = [entry |-> [Contents(h).entry EXCEPT ![k] = v],
                               lru   |-> Cons(k, Read(h.key, s))]
<1> DEFINE g == attach_head(Enter(h, n, k, v), n)
           u == Push(n, s)
           e == Contents(h).entry
           e2 == [e EXCEPT ![k] = v]
           f == h.key
<1>1. /\ \E ch2 : Sound(g, u, ch2)
      /\ Allocated(g) = Allocated(h) \cup {n}
      /\ g.key[n] = k /\ g.val[n] = v
      /\ \A a \in Addrs \ {n} : g.key[a] = h.key[a] /\ g.val[a] = h.val[a]
  BY EnterSound
<1>2. /\ Path(s) /\ Range(s) = Allocated(h) /\ f \in [Addrs -> Labels] /\ Allocated(h) \subseteq Addrs
      /\ Len(s) \in Nat
  BY PathPlaces DEF Sound, ListOf, Heaps, Labels, Allocated
<1>3. /\ e \in [Keys -> Values \cup {NoValue}]
      /\ \A a \in Allocated(h) : h.key[a] \in Keys /\ e[h.key[a]] = h.val[a]
      /\ \A x \in Keys : (\A a \in Allocated(h) : h.key[a] # x) => e[x] = NoValue
  BY ContentsOf
<1>4. /\ Len(u) = Len(s) + 1 /\ u[1] = n
      /\ \A i \in 1..Len(s) : u[i + 1] = s[i]
      /\ Path(u)
  BY <1>2, PushPath
<1> HIDE DEF g, e
<1>5. Read(g.key, u) = Cons(k, Read(f, s))
  <2> DEFINE f2 == [f EXCEPT ![n] = k]
  <2>1. f2 \in [Addrs -> Labels] /\ f2[n] = k /\ \A a \in Addrs : f2[a] = g.key[a]
    BY <1>1, <1>2 DEF Labels
  <2>2. n \in Addrs \ Range(s)
    BY <1>2
  <2>3. \A i \in 1..Len(u) : u[i] \in Addrs
    BY <1>4, PathPlaces
  <2>4. \A i \in 1..Len(s) : s[i] \in Addrs /\ s[i] # n
    BY <1>2, <2>2, PathPlaces DEF Range
  <2>5. \A i \in 1..Len(s) : f2[s[i]] = f[s[i]]
    BY <1>2, <2>4
  <2> HIDE DEF f2, u, f
  <2>6. Read(f2, u) = Read(g.key, u)
    BY <2>1, <2>3 DEF Read
  <2>7. Read(f2, s) = Read(f, s)
    BY <2>5 DEF Read
  <2>8. Cons(f2[n], Read(f2, s)) = Read(f2, Push(n, s))
    BY <1>2, <2>1, <2>2, ReadPush
  <2> QED
    BY <2>1, <2>6, <2>7, <2>8 DEF u
<1> HIDE DEF u
<1>6. e2 \in [Keys -> Values \cup {NoValue}]
  BY <1>3
<1>7. \A a \in Allocated(g) : e2[g.key[a]] = g.val[a]
  <2> TAKE a \in Allocated(g)
  <2>1. CASE a = n
    BY <1>1, <1>3, <2>1
  <2>2. CASE a # n
    <3>1. a \in Allocated(h) /\ a \in Addrs \ {n}
      BY <1>1, <1>2, <2>2
    <3>2. h.key[a] # k /\ g.key[a] = h.key[a] /\ g.val[a] = h.val[a]
      BY <1>1, <3>1
    <3> QED
      BY <1>3, <3>1, <3>2
  <2> QED
    BY <2>1, <2>2
<1>8. \A x \in Keys : (\A a \in Allocated(g) : g.key[a] # x) => e2[x] = NoValue
  <2> SUFFICES ASSUME NEW x \in Keys, \A a \in Allocated(g) : g.key[a] # x
               PROVE  e2[x] = NoValue
    OBVIOUS
  <2>1. x # k
    BY <1>1
  <2>2. \A a \in Allocated(h) : h.key[a] # x
    BY <1>1, <1>2
  <2> QED
    BY <1>3, <2>1, <2>2
<1>9. Contents(g) = [entry |-> e2, lru |-> Read(g.key, u)]
  <2>1. PICK ch2 : Sound(g, u, ch2)
    BY <1>1
  <2> HIDE DEF e2
  <2> QED
    BY <1>6, <1>7, <1>8, <2>1, ContentsAre
<1> QED
  BY <1>1, <1>5, <1>9 DEF e, g, u

\* Without the tail, as the eviction leaves it.
LEMMA EvictsTail ==
  ASSUME NEW h, NEW s, NEW ch, Sound(h, s, ch), Len(s) # 0
  PROVE  LET g == Release(Unchain(detach(h, h.tail), h.tail), h.tail)
         IN  /\ \E ch2 : Sound(g, Drop(s, Len(s)), ch2)
             /\ Contents(g) = Abstract!EvictTail(Contents(h))
<1> DEFINE p == Len(s)
           n == s[p]
           g == Release(Unchain(detach(h, n), n), n)
           e == Contents(h).entry
           f == h.key
<1>1. Path(s) /\ h.tail = Stop(s, p) /\ f \in [Addrs -> Labels]
  BY DEF Sound, ListOf, Heaps, Labels
<1>2. p \in 1..Len(s) /\ p \in Int
  BY <1>1, PathPlaces
<1>3. h.tail = n
  BY <1>1, <1>2, StopIs
<1>4. /\ \E ch2 : Sound(g, Drop(s, p), ch2)
      /\ Contents(g) = [entry |-> [e EXCEPT ![f[n]] = NoValue], lru |-> Read(f, Drop(s, p))]
  <2>1. Removed(h, n, g)
    BY DEF Removed
  <2> HIDE DEF g
  <2> QED
    BY <1>2, <2>1, RemoveContents
<1>5. Contents(h).lru = Read(f, s)
  BY ContentsOf
<1> HIDE DEF f, g, e
<1>6. Front(Read(f, s)) = Read(f, Drop(s, p)) /\ Last(Read(f, s)) = f[n]
  BY <1>1, ReadFront
<1>7. Abstract!EvictTail(Contents(h))
        = [entry |-> [e EXCEPT ![f[n]] = NoValue], lru |-> Read(f, Drop(s, p))]
  BY <1>5, <1>6 DEF Abstract!EvictTail, Abstract!Last, Abstract!Front, Last, Front, e
<1> QED
  BY <1>3, <1>4, <1>7 DEF g

\* A put that finds no node.
LEMMA PutsNew ==
  ASSUME NEW h, NEW s, NEW ch, Sound(h, s, ch), Len(s) <= Capacity,
         NEW n \in Addrs \ Allocated(h),
         NEW k \in Keys, NEW v \in Values, \A a \in Allocated(h) : h.key[a] # k
  PROVE  StandsFor(Shrink(attach_head(Enter(h, n, k, v), n)),
                   Abstract!cache_put(Contents(h), k, v))
<1> DEFINE g == attach_head(Enter(h, n, k, v), n)
           u == Push(n, s)
           c == Contents(h)
           r == Read(h.key, s)
           e2 == [c.entry EXCEPT ![k] = v]
           entered == [entry |-> e2, lru |-> Cons(k, r)]
<1>1. (\E ch2 : Sound(g, u, ch2)) /\ Contents(g) = entered
  BY EnterContents
<1>2. Path(s) /\ Path(u) /\ Len(u) = Len(s) + 1 /\ Len(s) \in Nat
  <2>1. Path(s) /\ n \in Addrs \ Range(s)
    BY DEF Sound, ListOf
  <2> QED
    BY <2>1, PathPlaces, PushPath
<1>3. g.size = Len(u)
  BY <1>1 DEF Sound
<1>4. ~Abstract!Cached(c, k)
  BY NotCached
<1>5. c = [entry |-> c.entry, lru |-> r] /\ c.entry \in [Keys -> Values \cup {NoValue}]
  BY ContentsOf
<1>6. Len(Cons(k, r)) = Len(s) + 1
  <2>1. r \in Seq(Labels) /\ Len(r) = Len(s)
    <3> DEFINE f == h.key
    <3>1. f \in [Addrs -> Labels]
      BY DEF Sound, Heaps, Labels
    <3>2. \A i \in 1..Len(s) : f[s[i]] \in Labels
      BY <1>2, <3>1, PathPlaces
    <3> HIDE DEF f
    <3>3. Read(f, s) \in Seq(Labels) /\ Len(Read(f, s)) = Len(s)
      BY <1>2, <3>2 DEF Read
    <3> QED
      BY <3>3 DEF f
  <2> HIDE DEF r
  <2>2. <<k>> \in Seq(Labels) /\ Len(<<k>>) = 1
    BY DEF Labels
  <2>3. Len(<<k>> \o r) = 1 + Len(s)
    BY <2>1, <2>2, ConcatProperties
  <2> QED
    BY <1>2, <2>3 DEF Cons
<1>7. Abstract!cache_put(c, k, v) = IF Len(Cons(k, r)) > Capacity THEN Abstract!EvictTail(entered)
                                    ELSE entered
  <2> DEFINE stored == [c EXCEPT !.entry[k] = v]
             new == [stored EXCEPT !.lru = Abstract!attach_head(@, k)]
  <2>1. stored = [entry |-> e2, lru |-> r]
    BY <1>5
  <2>2. Abstract!cache_put(c, k, v)
          = IF Len(new.lru) > Capacity THEN Abstract!EvictTail(new) ELSE new
    BY <1>4 DEF Abstract!cache_put
  <2> HIDE DEF stored, c, e2, r
  <2>3. Abstract!attach_head(r, k) = Cons(k, r)
    BY DEF Abstract!attach_head, Abstract!Cons, Cons
  <2>4. new = [entry |-> e2, lru |-> Abstract!attach_head(r, k)]
    BY <2>1
  <2>5. new = entered /\ entered.lru = Cons(k, r)
    BY <2>3, <2>4
  <2> HIDE DEF new, entered
  <2> QED
    BY <2>2, <2>5
<1> HIDE DEF g, u, c, entered, r
<1>8. CASE Len(u) > Capacity
  <2> DEFINE x == Release(Unchain(detach(g, g.tail), g.tail), g.tail)
  <2>1. PICK ch2 : Sound(g, u, ch2)
    BY <1>1
  <2>2. (\E ch3 : Sound(x, Drop(u, Len(u)), ch3)) /\ Contents(x) = Abstract!EvictTail(Contents(g))
    BY <1>2, <2>1, EvictsTail
  <2>3. Shrink(g) = x
    BY <1>3, <1>8 DEF Shrink
  <2>4. Len(Drop(u, Len(u))) = Len(u) - 1
    <3>1. Len(u) \in 1..Len(u)
      BY <1>2
    <3> QED
      BY <1>2, <3>1, DropPath
  <2>5. Len(Drop(u, Len(u))) <= Capacity
    BY <1>2, <2>4, CapacityAssumption
  <2>6. Contents(x) = Abstract!cache_put(c, k, v)
    BY <1>1, <1>2, <1>6, <1>7, <1>8, <2>2
  <2> HIDE DEF x
  <2>7. StandsFor(x, Abstract!cache_put(c, k, v))
    BY <2>2, <2>5, <2>6 DEF StandsFor
  <2> QED
    BY <2>3, <2>7 DEF g, c
<1>9. CASE ~(Len(u) > Capacity)
  <2>1. Shrink(g) = g
    BY <1>3, <1>9 DEF Shrink
  <2>2. Len(u) <= Capacity
    BY <1>2, <1>9, CapacityAssumption
  <2>3. Contents(g) = Abstract!cache_put(c, k, v)
    BY <1>1, <1>2, <1>6, <1>7, <1>9
  <2>4. StandsFor(g, Abstract!cache_put(c, k, v))
    BY <1>1, <2>2, <2>3 DEF StandsFor
  <2> QED
    BY <2>1, <2>4 DEF g, c
<1> QED
  BY <1>8, <1>9

-----------------------------------------------------------------------------
(* The inductive invariant. *)

Locals ==
  /\ lock \in Threads \cup {Nil}
  /\ pc \in [Threads -> {"idle", "lock", "search", "unlock", "return"}]
  /\ call \in [Threads -> Calls \cup {NoCall}]
  /\ cur \in [Threads -> Pointers]
  /\ out \in [Threads -> Values \cup {NoValue}]

\* Who is between pthread_mutex_lock and pthread_mutex_unlock owns the mutex.
Turns(t) ==
  /\ lock = t <=> pc[t] \in {"search", "unlock"}
  /\ pc[t] = "idle" <=> call[t] = NoCall
  /\ pc[t] \in {"idle", "lock", "search"} => out[t] = NoValue

\* The chain of the call's key.
ChainOf(t) == Along(heap.hnext, heap.htable[Hash[call[t].key]])

\* The search stands at a place of the chain and has passed no node of its key.
Searching(t) ==
  /\ contents = Contents(heap)
  /\ \E j \in 1 .. Len(ChainOf(t)) + 1 :
       /\ cur[t] = Stop(ChainOf(t), j)
       /\ \A i \in 1 .. j - 1 : heap.key[ChainOf(t)[i]] # call[t].key

\* What the call returns.
Answer(t) == IF call[t].op = "get" THEN contents.entry[call[t].key] ELSE NoValue

\* The change is made, and the caller's answer is known.
Changed(t) == Contents(heap) = Abstract!Apply(call[t], contents) /\ out[t] = Answer(t)

Kept == \E s, ch : Sound(heap, s, ch) /\ Len(s) <= Capacity

Good(t) ==
  /\ Turns(t)
  /\ pc[t] = "search" => Searching(t)
  /\ pc[t] = "unlock" => Changed(t)

HeapInv ==
  /\ Locals /\ Kept
  /\ \A t \in Threads : Good(t)
  /\ lock = Nil => contents = Contents(heap)

\* The fields of a call.
LEMMA CallFields ==
  ASSUME NEW c \in Calls
  PROVE  /\ c.op \in {"get", "put", "delete"} /\ c.key \in Keys /\ c # NoCall
         /\ c.op = "put" => c.val \in Values
<1>1. CASE c \in [op : {"get", "delete"}, key : Keys]
  <2>1. c.op \in {"get", "delete"} /\ c.key \in Keys
    BY <1>1
  <2>2. NoCall.op = "none"
    BY DEF NoCall
  <2> QED
    BY <2>1, <2>2
<1>2. CASE c \in [op : {"put"}, key : Keys, val : Values]
  <2>1. c.op = "put" /\ c.key \in Keys /\ c.val \in Values
    BY <1>2
  <2>2. NoCall.op = "none"
    BY DEF NoCall
  <2> QED
    BY <2>1, <2>2
<1> QED
  BY <1>1, <1>2 DEF Calls

\* The chain of a key is a path of nodes, and holds every node of the key.
LEMMA ChainIs ==
  ASSUME NEW h, NEW s, NEW ch, Sound(h, s, ch), NEW k \in Keys,
         NEW c, c = Along(h.hnext, h.htable[Hash[k]])
  PROVE  /\ Path(c) /\ Leads(h.hnext, c) /\ h.htable[Hash[k]] = Stop(c, 1)
         /\ \A i \in 1..Len(c) : c[i] \in Allocated(h)
         /\ \A a \in Allocated(h) : h.key[a] = k => \E i \in 1..Len(c) : c[i] = a
<1> DEFINE b == Hash[k]
<1>1. b \in Buckets
  BY HashAssumption
<1>2. /\ Path(ch[b]) /\ Leads(h.hnext, ch[b]) /\ h.htable[b] = Stop(ch[b], 1)
      /\ Range(ch[b]) = {a \in Allocated(h) : Hash[h.key[a]] = b}
      /\ h.htable[b] \in Pointers
  BY <1>1 DEF Sound, ChainsOf, Filed, Heaps
<1>3. c = ch[b]
  BY <1>2, AlongIs
<1>4. DOMAIN c = 1..Len(c)
  BY <1>2, <1>3, PathPlaces
<1>5. \A i \in 1..Len(c) : c[i] \in Allocated(h)
  BY <1>2, <1>3, <1>4 DEF Range
<1>6. \A a \in Allocated(h) : h.key[a] = k => \E i \in 1..Len(c) : c[i] = a
  BY <1>2, <1>3, <1>4 DEF Range
<1> QED
  BY <1>2, <1>3, <1>5, <1>6

\* What is left of a path from one of its places.
LEMMA RestOf ==
  ASSUME NEW link, NEW c, Path(c), Leads(link, c), NEW j \in 1 .. Len(c) + 1
  PROVE  Len(Along(link, Stop(c, j))) = Len(c) + 1 - j
<1> DEFINE m == Len(c) + 1 - j
           u == [i \in 1..m |-> c[i + j - 1]]
<1>1. /\ Len(c) \in Nat /\ DOMAIN c = 1..Len(c) /\ j \in Int /\ 1 <= j /\ j <= Len(c) + 1
      /\ \A i \in 1..Len(c) : c[i] \in Addrs
      /\ \A i, k \in 1..Len(c) : c[i] = c[k] => i = k
  BY PathPlaces
<1>2. /\ m \in Nat /\ u = [i \in 1..m |-> u[i]]
      /\ \A i \in 1..m : i + j - 1 \in 1..Len(c) /\ u[i] = c[i + j - 1]
  BY <1>1
<1> HIDE DEF u
<1>3. \A i \in 1..m : u[i] \in Addrs
  BY <1>1, <1>2
<1>4. \A i, k \in 1..m : u[i] = u[k] => i = k
  <2> SUFFICES ASSUME NEW i \in 1..m, NEW k \in 1..m, u[i] = u[k] PROVE i = k
    OBVIOUS
  <2>1. c[i + j - 1] = c[k + j - 1] /\ i + j - 1 \in 1..Len(c) /\ k + j - 1 \in 1..Len(c)
    BY <1>2
  <2>2. i + j - 1 = k + j - 1
    BY <1>1, <2>1
  <2> QED
    BY <1>1, <2>2
<1>5. Path(u) /\ Len(u) = m /\ DOMAIN u = 1..m
  <2> HIDE DEF m
  <2> QED
    BY <1>2, <1>3, <1>4, PathMade
<1>6. \A i \in 1 .. m + 1 : Stop(u, i) = Stop(c, i + j - 1)
  <2> TAKE i \in 1 .. m + 1
  <2>1. i \in 1..m <=> i + j - 1 \in 1..Len(c)
    BY <1>1, <1>2
  <2> QED
    BY <1>1, <1>2, <1>5, <2>1 DEF Stop
<1>7. Stop(u, 1) = Stop(c, j)
  <2>1. 1 \in 1 .. m + 1 /\ 1 + j - 1 = j
    BY <1>1, <1>2
  <2> QED
    BY <1>6, <2>1
<1>8. Leads(link, u)
  <2> SUFFICES ASSUME NEW i \in 1..m PROVE link[u[i]] = Stop(u, i + 1)
    BY <1>5 DEF Leads
  <2>1. link[c[i + j - 1]] = Stop(c, i + j - 1 + 1)
    BY <1>1, <1>2 DEF Leads
  <2>2. i + 1 \in 1 .. m + 1 /\ (i + 1) + j - 1 = i + j - 1 + 1
    BY <1>1, <1>2
  <2>3. Stop(u, i + 1) = Stop(c, (i + 1) + j - 1)
    BY <1>6, <2>2
  <2> QED
    BY <1>2, <2>1, <2>2, <2>3
<1>9. Stop(c, j) \in Pointers
  BY <1>1, StopIs
<1>10. Along(link, Stop(c, j)) = u
  BY <1>5, <1>7, <1>8, <1>9, AlongIs
<1> QED
  BY <1>5, <1>10

\* A call of a thread that is not idle.
LEMMA CallMade ==
  ASSUME HeapInv, NEW t \in Threads, pc[t] # "idle"
  PROVE  call[t] \in Calls
BY DEF HeapInv, Locals, Good, Turns

\* A search that stands on a node stands on one of the list.
LEMMA StandsOn ==
  ASSUME HeapInv, NEW t \in Threads, pc[t] = "search", cur[t] # Nil
  PROVE  \E s, ch : \E p \in 1..Len(s) :
           Sound(heap, s, ch) /\ Len(s) <= Capacity /\ cur[t] = s[p]
<1>1. PICK s, ch : Sound(heap, s, ch) /\ Len(s) <= Capacity
  BY DEF HeapInv, Kept
<1> DEFINE c == ChainOf(t)
           k == call[t].key
<1>2. k \in Keys
  BY CallMade, CallFields
<1>3. c = Along(heap.hnext, heap.htable[Hash[k]])
  BY DEF ChainOf
<1>4. PICK j \in 1 .. Len(c) + 1 : cur[t] = Stop(c, j)
  BY DEF HeapInv, Good, Searching
<1> HIDE DEF c, k
<1>5. Path(c) /\ \A i \in 1..Len(c) : c[i] \in Allocated(heap)
  BY <1>1, <1>2, <1>3, ChainIs
<1>6. cur[t] \in Allocated(heap)
  BY <1>4, <1>5, StopIs
<1>7. Range(s) = Allocated(heap) /\ DOMAIN s = 1..Len(s)
  BY <1>1, PathPlaces DEF Sound, ListOf
<1>8. \E p \in 1..Len(s) : cur[t] = s[p]
  BY <1>6, <1>7 DEF Range
<1> QED
  BY <1>1, <1>8

\* A search that stands at NULL has seen that no node has the key.
LEMMA StandsAtEnd ==
  ASSUME HeapInv, NEW t \in Threads, pc[t] = "search", cur[t] = Nil
  PROVE  \A a \in Allocated(heap) : heap.key[a] # call[t].key
<1>1. PICK s, ch : Sound(heap, s, ch)
  BY DEF HeapInv, Kept
<1> DEFINE c == ChainOf(t)
           k == call[t].key
<1>2. k \in Keys
  BY CallMade, CallFields
<1>3. c = Along(heap.hnext, heap.htable[Hash[k]])
  BY DEF ChainOf
<1>4. PICK j \in 1 .. Len(c) + 1 : /\ cur[t] = Stop(c, j)
                                  /\ \A i \in 1 .. j - 1 : heap.key[c[i]] # k
  BY DEF HeapInv, Good, Searching
<1> HIDE DEF c, k
<1>5. /\ Path(c) /\ \A i \in 1..Len(c) : c[i] \in Allocated(heap)
      /\ \A a \in Allocated(heap) : heap.key[a] = k => \E i \in 1..Len(c) : c[i] = a
  BY <1>1, <1>2, <1>3, ChainIs
<1>6. Len(c) \in Nat /\ \A i \in 1..Len(c) : c[i] # Nil
  BY <1>5, PathPlaces
<1>7. j \notin 1..Len(c)
  BY <1>4, <1>5, <1>6, StopIs
<1>8. \A i \in 1..Len(c) : i \in 1 .. j - 1
  BY <1>6, <1>7
<1>9. \A i \in 1..Len(c) : heap.key[c[i]] # k
  BY <1>4, <1>8
<1> QED
  BY <1>5, <1>9 DEF k

-----------------------------------------------------------------------------
(* Every step keeps the invariant. *)

\* A thread whose variables, and the heap's, stay as they are.
LEMMA SameThread ==
  ASSUME NEW t \in Threads, Good(t), heap' = heap, contents' = contents,
         pc'[t] = pc[t], call'[t] = call[t], cur'[t] = cur[t], out'[t] = out[t],
         lock' = t <=> lock = t
  PROVE  Good(t)'
<1>1. Turns(t)'
  BY DEF Good, Turns
<1>2. pc'[t] = "search" => Searching(t)'
  <2>1. ChainOf(t)' = ChainOf(t) /\ Contents(heap)' = Contents(heap)
    BY DEF ChainOf
  <2> QED
    BY <2>1 DEF Good, Searching
<1>3. pc'[t] = "unlock" => Changed(t)'
  BY DEF Good, Changed, Answer
<1> QED
  BY <1>1, <1>2, <1>3 DEF Good

\* A thread outside the lock, whatever its owner does.
LEMMA Outsider ==
  ASSUME NEW t \in Threads, Turns(t), lock # t, lock' # t,
         pc'[t] = pc[t], call'[t] = call[t], out'[t] = out[t]
  PROVE  Good(t)'
BY DEF Good, Turns

\* The initial heap is empty, and stands for the empty cache.
LEMMA InitInv ==
  ASSUME Init
  PROVE  HeapInv
<1> DEFINE s == <<>>
           ch == [b \in Buckets |-> <<>>]
           e == [k \in Keys |-> NoValue]
<1>1. Locals /\ \A t \in Threads : pc[t] = "idle" /\ lock = Nil /\ call[t] = NoCall /\ out[t] = NoValue
  BY DEF Init, Locals, Pointers
<1>2. /\ heap \in Heaps /\ Allocated(heap) = {} /\ heap.size = 0
      /\ heap.head = Nil /\ heap.tail = Nil /\ \A b \in Buckets : heap.htable[b] = Nil
  BY DEF Init, Heaps, Pointers, Allocated
<1>3. Path(s) /\ Len(s) = 0 /\ Range(s) = {} /\ DOMAIN s = {}
  BY DEF Path, IsInjective, Range
<1>4. \A i \in Int : Stop(s, i) = Nil
  BY <1>3, StopIs
<1>5. ListOf(heap, s)
  BY <1>2, <1>3, <1>4 DEF ListOf, Leads
<1>6. \A b \in Buckets : ch[b] = s
  OBVIOUS
<1>7. ch \in [Buckets -> Seq(Addrs)]
  OBVIOUS
<1> HIDE DEF ch, s
<1>8. ChainsOf(heap, ch)
  BY <1>2, <1>3, <1>4, <1>6 DEF ChainsOf, Leads
<1>9. Filed(heap, ch, Allocated(heap))
  BY <1>2, <1>3, <1>6 DEF Filed
<1>10. Sound(heap, s, ch)
  BY <1>2, <1>3, <1>5, <1>7, <1>8, <1>9 DEF Sound
<1>11. Kept
  BY <1>3, <1>10, CapacityAssumption DEF Kept
<1>12. contents = Contents(heap)
  <2>1. e \in [Keys -> Values \cup {NoValue}] /\ \A k \in Keys : e[k] = NoValue
    OBVIOUS
  <2> HIDE DEF e
  <2>2. Contents(heap) = [entry |-> e, lru |-> Read(heap.key, s)]
    BY <1>2, <1>10, <2>1, ContentsAre
  <2>3. Read(heap.key, s) = <<>>
    BY <1>3 DEF Read
  <2>4. contents = [entry |-> e, lru |-> <<>>]
    BY DEF Init, e
  <2> QED
    BY <2>2, <2>3, <2>4
<1>13. \A t \in Threads : Good(t)
  BY <1>1, NilAssumption DEF Good, Turns
<1> QED
  BY <1>1, <1>11, <1>12, <1>13 DEF HeapInv

\* A new call.
LEMMA InvokeKeeps ==
  ASSUME HeapInv, NEW t \in Threads, NEW c \in Calls, Invoke(t, c)
  PROVE  HeapInv'
<1>1. Locals'
  BY DEF HeapInv, Locals, Invoke, Goto
<1>2. Kept' /\ (lock' = Nil => contents' = Contents(heap)')
  BY DEF HeapInv, Kept, Invoke
<1>3. /\ pc[t] = "idle" /\ pc'[t] = "lock" /\ call'[t] = c /\ out'[t] = out[t] /\ lock' = lock
      /\ c # NoCall
      /\ \A w \in Threads \ {t} : pc'[w] = pc[w] /\ call'[w] = call[w]
  BY CallFields DEF HeapInv, Locals, Invoke, Goto
<1>4. Good(t)'
  BY <1>3 DEF HeapInv, Good, Turns
<1>5. ASSUME NEW w \in Threads \ {t} PROVE Good(w)'
  BY <1>3, SameThread DEF HeapInv, Invoke
<1> QED
  BY <1>1, <1>2, <1>4, <1>5 DEF HeapInv

\* pthread_mutex_lock: the search starts at the head of the chain.
LEMMA LockKeeps ==
  ASSUME HeapInv, NEW t \in Threads, Lock(t)
  PROVE  HeapInv'
<1> DEFINE k == call[t].key
           b == Hash[k]
           c == ChainOf(t)
<1>1. /\ pc[t] = "lock" /\ lock = Nil /\ pc'[t] = "search" /\ call' = call /\ out' = out
      /\ lock' = t /\ heap' = heap /\ contents' = contents
      /\ \A w \in Threads \ {t} : pc'[w] = pc[w]
  BY DEF HeapInv, Locals, Lock, Goto
<1>2. k \in Keys
  BY <1>1, CallMade, CallFields
<1>3. PICK s, ch : Sound(heap, s, ch)
  BY DEF HeapInv, Kept
<1>4. heap.htable[b] \in Pointers /\ cur' = [cur EXCEPT ![t] = heap.htable[b]]
  BY <1>2, <1>3, HashAssumption DEF Sound, Heaps, Lock
<1>5. Locals'
  <2>1. lock' \in Threads \cup {Nil} /\ pc' \in [Threads -> {"idle", "lock", "search", "unlock", "return"}]
    BY DEF HeapInv, Locals, Lock, Goto
  <2>2. cur' \in [Threads -> Pointers]
    BY <1>4 DEF HeapInv, Locals
  <2> QED
    BY <1>1, <2>1, <2>2 DEF HeapInv, Locals
<1>6. Kept'
  BY <1>1 DEF HeapInv, Kept
<1>7. Searching(t)'
  <2>1. c = Along(heap.hnext, heap.htable[Hash[k]])
    BY DEF ChainOf
  <2> HIDE DEF c
  <2>2. Path(c) /\ heap.htable[b] = Stop(c, 1)
    <3> HIDE DEF k
    <3> QED
      BY <1>2, <1>3, <2>1, ChainIs
  <2>3. cur'[t] = Stop(c, 1)
    BY <1>4, <2>2 DEF HeapInv, Locals
  <2>4. 1 \in 1 .. Len(c) + 1 /\ 1 .. 1 - 1 = {}
    BY <2>2, PathPlaces
  <2>5. ChainOf(t)' = c
    BY <1>1, <2>1 DEF ChainOf
  <2>6. contents' = Contents(heap)'
    BY <1>1 DEF HeapInv
  <2> QED
    BY <1>1, <2>3, <2>4, <2>5, <2>6 DEF Searching
<1>8. Good(t)'
  <2>1. Turns(t)'
    BY <1>1 DEF HeapInv, Good, Turns
  <2> QED
    BY <1>1, <1>7, <2>1 DEF Good
<1>9. ASSUME NEW w \in Threads \ {t} PROVE Good(w)'
  <2>1. Turns(w) /\ lock # w /\ lock' # w
    BY <1>1, NilAssumption DEF HeapInv, Good
  <2> QED
    BY <1>1, <2>1, Outsider
<1>10. lock' # Nil
  BY <1>1, NilAssumption
<1> QED
  BY <1>5, <1>6, <1>8, <1>9, <1>10 DEF HeapInv

\* The next node of the chain.
LEMMA AdvanceStands ==
  ASSUME HeapInv, NEW t \in Threads, Advance(t)
  PROVE  LET c == ChainOf(t)
         IN  /\ Path(c) /\ Leads(heap.hnext, c)
             /\ \E j \in 1..Len(c) :
                  /\ cur[t] = Stop(c, j) /\ cur'[t] = Stop(c, j + 1)
                  /\ \A i \in 1..j : heap.key[c[i]] # call[t].key
             /\ cur'[t] \in Pointers
<1> DEFINE c == ChainOf(t)
           k == call[t].key
<1>1. /\ pc[t] = "search" /\ cur[t] # Nil /\ heap.key[cur[t]] # k
      /\ cur'[t] = heap.hnext[cur[t]]
  BY DEF HeapInv, Locals, Advance
<1>2. k \in Keys
  BY <1>1, CallMade, CallFields
<1>3. PICK s, ch : Sound(heap, s, ch)
  BY DEF HeapInv, Kept
<1>4. c = Along(heap.hnext, heap.htable[Hash[k]])
  BY DEF ChainOf
<1>5. PICK j \in 1 .. Len(c) + 1 : /\ cur[t] = Stop(c, j)
                                  /\ \A i \in 1 .. j - 1 : heap.key[c[i]] # k
  BY <1>1 DEF HeapInv, Good, Searching
<1> HIDE DEF c, k
<1>6. Path(c) /\ Leads(heap.hnext, c)
  BY <1>2, <1>3, <1>4, ChainIs
<1>7. Len(c) \in Nat /\ DOMAIN c = 1..Len(c) /\ j \in Int
  BY <1>6, PathPlaces
<1>8. j \in 1..Len(c) /\ cur[t] = c[j]
  BY <1>1, <1>5, <1>6, <1>7, StopIs
<1>9. heap.hnext[c[j]] = Stop(c, j + 1)
  BY <1>6, <1>7, <1>8 DEF Leads
<1>10. Stop(c, j + 1) \in Pointers
  BY <1>6, <1>7, StopIs
<1>11. \A i \in 1..j : heap.key[c[i]] # k
  <2> TAKE i \in 1..j
  <2>1. i = j \/ i \in 1 .. j - 1
    BY <1>7
  <2> QED
    BY <1>1, <1>5, <1>8, <2>1
<1>12. cur'[t] = Stop(c, j + 1)
  BY <1>1, <1>8, <1>9
<1> QED
  BY <1>5, <1>6, <1>8, <1>10, <1>11, <1>12 DEF c, k

\* It keeps the invariant.
LEMMA AdvanceKeeps ==
  ASSUME HeapInv, NEW t \in Threads, Advance(t)
  PROVE  HeapInv'
<1> DEFINE c == ChainOf(t)
<1>1. /\ pc[t] = "search" /\ UNCHANGED <<heap, lock, pc, call, out, contents>>
      /\ \A w \in Threads \ {t} : cur'[w] = cur[w]
      /\ cur' = [cur EXCEPT ![t] = cur'[t]]
  BY DEF HeapInv, Locals, Advance
<1>2. PICK j \in 1..Len(c) : /\ cur'[t] = Stop(c, j + 1)
                             /\ \A i \in 1..j : heap.key[c[i]] # call[t].key
  BY AdvanceStands
<1>3. Path(c) /\ cur'[t] \in Pointers
  BY AdvanceStands
<1>4. Len(c) \in Nat /\ j \in Int
  BY <1>3, PathPlaces
<1>5. Locals'
  <2> DEFINE x == cur'[t]
  <2>1. x \in Pointers /\ cur' = [cur EXCEPT ![t] = x]
    BY <1>1, <1>3
  <2> HIDE DEF x
  <2>2. cur' \in [Threads -> Pointers]
    BY <2>1 DEF HeapInv, Locals
  <2> QED
    BY <1>1, <2>2 DEF HeapInv, Locals
<1>6. Searching(t)'
  <2>1. ChainOf(t)' = c
    BY <1>1 DEF ChainOf
  <2>2. contents' = Contents(heap)'
    BY <1>1 DEF HeapInv, Good, Searching
  <2> HIDE DEF c
  <2>3. j + 1 \in 1 .. Len(c) + 1 /\ (j + 1) - 1 = j
    BY <1>4
  <2>4. \E i \in 1 .. Len(c) + 1 : /\ cur'[t] = Stop(c, i)
                                   /\ \A l \in 1 .. i - 1 : heap'.key[c[l]] # call'[t].key
    BY <1>1, <1>2, <2>3
  <2> QED
    BY <2>1, <2>2, <2>4 DEF Searching
<1>7. Good(t)'
  <2>1. Turns(t)'
    BY <1>1 DEF HeapInv, Good, Turns
  <2> QED
    BY <1>1, <1>6, <2>1 DEF Good
<1>8. ASSUME NEW w \in Threads \ {t} PROVE Good(w)'
  BY <1>1, SameThread DEF HeapInv
<1>9. Kept' /\ (lock' = Nil => contents' = Contents(heap)')
  BY <1>1 DEF HeapInv, Kept
<1> QED
  BY <1>5, <1>7, <1>8, <1>9 DEF HeapInv

\* The change a search leads to: what the five ways to the unlocking share.
LEMMA ChangeKeeps ==
  ASSUME HeapInv, NEW t \in Threads, pc[t] = "search",
         StandsFor(heap', Abstract!Apply(call[t], contents)),
         out' = [out EXCEPT ![t] = Answer(t)], Answer(t) \in Values \cup {NoValue},
         Goto(t, "unlock"), UNCHANGED <<lock, call, cur, contents>>
  PROVE  HeapInv'
<1>1. /\ pc'[t] = "unlock" /\ out'[t] = Answer(t) /\ lock = t
      /\ \A w \in Threads \ {t} : pc'[w] = pc[w] /\ out'[w] = out[w]
  BY DEF HeapInv, Locals, Good, Turns, Goto
<1>2. Locals'
  <2>1. pc' \in [Threads -> {"idle", "lock", "search", "unlock", "return"}]
    BY DEF HeapInv, Locals, Goto
  <2> DEFINE x == Answer(t)
  <2> HIDE DEF x
  <2>2. out' \in [Threads -> Values \cup {NoValue}]
    <3>1. out' = [out EXCEPT ![t] = x] /\ x \in Values \cup {NoValue}
      BY DEF x
    <3> QED
      BY <3>1 DEF HeapInv, Locals
  <2> QED
    BY <2>1, <2>2 DEF HeapInv, Locals
<1>3. Kept' /\ Contents(heap') = Abstract!Apply(call[t], contents)
  BY DEF StandsFor, Kept
<1>4. Good(t)'
  <2>1. Turns(t)'
    BY <1>1 DEF HeapInv, Good, Turns
  <2>2. Contents(heap)' = Contents(heap')
    BY DEF Contents, Found
  <2>3. Changed(t)'
    <3>1. Answer(t)' = Answer(t)
      BY DEF Answer
    <3>2. Abstract!Apply(call[t], contents)' = Abstract!Apply(call[t], contents)
      OBVIOUS
    <3> QED
      BY <1>1, <1>3, <2>2, <3>1, <3>2 DEF Changed
  <2> QED
    BY <1>1, <2>1, <2>3 DEF Good
<1>5. ASSUME NEW w \in Threads \ {t} PROVE Good(w)'
  <2>1. Turns(w) /\ lock # w /\ lock' # w
    BY <1>1 DEF HeapInv, Good
  <2> QED
    BY <1>1, <2>1, Outsider
<1>6. lock' # Nil
  BY <1>1, NilAssumption
<1> QED
  BY <1>2, <1>3, <1>4, <1>5, <1>6 DEF HeapInv

\* What a search finds in the heap is what the history says of it.
LEMMA SearchSees ==
  ASSUME HeapInv, NEW t \in Threads, pc[t] = "search"
  PROVE  /\ contents = Contents(heap) /\ call[t] \in Calls /\ out[t] = NoValue
         /\ out = [out EXCEPT ![t] = NoValue] /\ NoValue \in Values \cup {NoValue}
<1>1. contents = Contents(heap) /\ out[t] = NoValue
  BY DEF HeapInv, Good, Turns, Searching
<1>2. call[t] \in Calls
  BY CallMade
<1>3. out = [out EXCEPT ![t] = NoValue]
  BY <1>1 DEF HeapInv, Locals
<1> QED
  BY <1>1, <1>2, <1>3

\* cache_get, the key found.
LEMMA GetHitKeeps ==
  ASSUME HeapInv, NEW t \in Threads, GetHit(t)
  PROVE  HeapInv'
<1> DEFINE n == cur[t]
           k == call[t].key
<1>1. /\ pc[t] = "search" /\ call[t].op = "get" /\ n # Nil /\ heap.key[n] = k
      /\ heap' = ToHead(heap, n) /\ out' = [out EXCEPT ![t] = heap.val[n]]
      /\ Goto(t, "unlock") /\ UNCHANGED <<lock, call, cur, contents>>
  BY DEF GetHit, Hit
<1>2. contents = Contents(heap)
  BY <1>1, SearchSees
<1>3. PICK s, ch : \E p \in 1..Len(s) : Sound(heap, s, ch) /\ Len(s) <= Capacity /\ n = s[p]
  BY <1>1, StandsOn
<1>4. PICK p \in 1..Len(s) : Sound(heap, s, ch) /\ Len(s) <= Capacity /\ n = s[p]
  BY <1>3
<1>5. StandsFor(ToHead(heap, n), Abstract!cache_get(Contents(heap), heap.key[n]))
  BY <1>4, GetsNode
<1>6. Abstract!Apply(call[t], contents) = Abstract!cache_get(contents, k)
  BY <1>1 DEF Abstract!Apply
<1>7. StandsFor(heap', Abstract!Apply(call[t], contents))
  BY <1>1, <1>2, <1>5, <1>6
<1>8. Answer(t) = heap.val[n] /\ Answer(t) \in Values \cup {NoValue}
  <2>1. heap.val[s[p]] \in Values /\ Contents(heap).entry[heap.key[s[p]]] = heap.val[s[p]]
    BY <1>4, PlaceIs
  <2>2. Answer(t) = Contents(heap).entry[heap.key[n]]
    BY <1>1, <1>2 DEF Answer
  <2> QED
    BY <1>4, <2>1, <2>2
<1>9. out' = [out EXCEPT ![t] = Answer(t)]
  BY <1>1, <1>8
<1> QED
  BY <1>1, <1>7, <1>8, <1>9, ChangeKeeps

\* cache_put, the key found.
LEMMA PutUpdateKeeps ==
  ASSUME HeapInv, NEW t \in Threads, PutUpdate(t)
  PROVE  HeapInv'
<1> DEFINE n == cur[t]
           k == call[t].key
           v == call[t].val
<1>1. /\ pc[t] = "search" /\ call[t].op = "put" /\ n # Nil /\ heap.key[n] = k
      /\ heap' = ToHead(Store(heap, n, v), n) /\ out' = out
      /\ Goto(t, "unlock") /\ UNCHANGED <<lock, call, cur, contents>>
  BY DEF PutUpdate, Hit
<1>2. contents = Contents(heap) /\ call[t] \in Calls /\ out = [out EXCEPT ![t] = NoValue]
  BY <1>1, SearchSees
<1>3. v \in Values
  BY <1>1, <1>2, CallFields
<1>4. PICK s, ch : \E p \in 1..Len(s) : Sound(heap, s, ch) /\ Len(s) <= Capacity /\ n = s[p]
  BY <1>1, StandsOn
<1>5. PICK p \in 1..Len(s) : Sound(heap, s, ch) /\ Len(s) <= Capacity /\ n = s[p]
  BY <1>4
<1> HIDE DEF v
<1>6. StandsFor(ToHead(Store(heap, n, v), n), Abstract!cache_put(Contents(heap), heap.key[n], v))
  BY <1>3, <1>5, PutsNode
<1>7. Abstract!Apply(call[t], contents) = Abstract!cache_put(contents, k, v)
  BY <1>1 DEF Abstract!Apply, v
<1>8. StandsFor(heap', Abstract!Apply(call[t], contents))
  BY <1>1, <1>2, <1>6, <1>7
<1>9. Answer(t) = NoValue
  BY <1>1 DEF Answer
<1>10. out' = [out EXCEPT ![t] = Answer(t)] /\ Answer(t) \in Values \cup {NoValue}
  BY <1>1, <1>2, <1>9
<1> QED
  BY <1>1, <1>8, <1>10, ChangeKeeps

\* cache_delete, the key found.
LEMMA DeleteHitKeeps ==
  ASSUME HeapInv, NEW t \in Threads, DeleteHit(t)
  PROVE  HeapInv'
<1> DEFINE n == cur[t]
           k == call[t].key
<1>1. /\ pc[t] = "search" /\ call[t].op = "delete" /\ n # Nil /\ heap.key[n] = k
      /\ heap' = Release(detach(Unchain(heap, n), n), n) /\ out' = out
      /\ Goto(t, "unlock") /\ UNCHANGED <<lock, call, cur, contents>>
  BY DEF DeleteHit, Hit
<1>2. contents = Contents(heap) /\ out = [out EXCEPT ![t] = NoValue]
  BY <1>1, SearchSees
<1>3. PICK s, ch : \E p \in 1..Len(s) : Sound(heap, s, ch) /\ Len(s) <= Capacity /\ n = s[p]
  BY <1>1, StandsOn
<1>4. PICK p \in 1..Len(s) : Sound(heap, s, ch) /\ Len(s) <= Capacity /\ n = s[p]
  BY <1>3
<1>5. StandsFor(Release(detach(Unchain(heap, n), n), n),
                Abstract!cache_delete(Contents(heap), heap.key[n]))
  BY <1>4, DeletesNode
<1>6. Abstract!Apply(call[t], contents) = Abstract!cache_delete(contents, k)
  BY <1>1 DEF Abstract!Apply
<1>7. StandsFor(heap', Abstract!Apply(call[t], contents))
  BY <1>1, <1>2, <1>5, <1>6
<1>8. Answer(t) = NoValue
  BY <1>1 DEF Answer
<1>9. out' = [out EXCEPT ![t] = Answer(t)] /\ Answer(t) \in Values \cup {NoValue}
  BY <1>1, <1>2, <1>8
<1> QED
  BY <1>1, <1>7, <1>9, ChangeKeeps

\* cache_get and cache_delete, the key not found.
LEMMA AbsentKeeps ==
  ASSUME HeapInv, NEW t \in Threads, Absent(t)
  PROVE  HeapInv'
<1> DEFINE k == call[t].key
<1>1. /\ pc[t] = "search" /\ call[t].op \in {"get", "delete"} /\ cur[t] = Nil
      /\ heap' = heap /\ out' = out
      /\ Goto(t, "unlock") /\ UNCHANGED <<lock, call, cur, contents>>
  BY DEF Absent, Miss
<1>2. contents = Contents(heap) /\ call[t] \in Calls /\ out = [out EXCEPT ![t] = NoValue]
  BY <1>1, SearchSees
<1>3. k \in Keys /\ \A a \in Allocated(heap) : heap.key[a] # k
  BY <1>1, <1>2, CallFields, StandsAtEnd
<1>4. PICK s, ch : Sound(heap, s, ch) /\ Len(s) <= Capacity
  BY DEF HeapInv, Kept
<1>5. /\ Contents(heap).entry[k] = NoValue
      /\ Abstract!cache_get(Contents(heap), k) = Contents(heap)
      /\ Abstract!cache_delete(Contents(heap), k) = Contents(heap)
  <2> HIDE DEF k
  <2> QED
    BY <1>3, <1>4, NotCached
<1>6. Abstract!Apply(call[t], contents) = contents
  <2>1. CASE call[t].op = "get"
    BY <1>2, <1>5, <2>1 DEF Abstract!Apply
  <2>2. CASE call[t].op = "delete"
    BY <1>2, <1>5, <2>2 DEF Abstract!Apply
  <2> QED
    BY <1>1, <2>1, <2>2
<1>7. StandsFor(heap, Contents(heap))
  BY <1>4 DEF StandsFor
<1>8. StandsFor(heap', Abstract!Apply(call[t], contents))
  BY <1>1, <1>2, <1>6, <1>7
<1>9. Answer(t) = NoValue
  BY <1>2, <1>5 DEF Answer
<1>10. out' = [out EXCEPT ![t] = Answer(t)] /\ Answer(t) \in Values \cup {NoValue}
  BY <1>1, <1>2, <1>9
<1> QED
  BY <1>1, <1>8, <1>10, ChangeKeeps

\* cache_put, the key not found.
LEMMA PutNewKeeps ==
  ASSUME HeapInv, NEW t \in Threads, PutNew(t)
  PROVE  HeapInv'
<1> DEFINE k == call[t].key
           v == call[t].val
<1>1. /\ pc[t] = "search" /\ call[t].op = "put" /\ cur[t] = Nil /\ out' = out
      /\ Goto(t, "unlock") /\ UNCHANGED <<lock, call, cur, contents>>
  BY DEF PutNew, Miss
<1>2. PICK n \in Addrs \ Allocated(heap) : heap' = Shrink(attach_head(Enter(heap, n, k, v), n))
  BY DEF PutNew
<1>3. contents = Contents(heap) /\ call[t] \in Calls /\ out = [out EXCEPT ![t] = NoValue]
  BY <1>1, SearchSees
<1>4. k \in Keys /\ v \in Values /\ \A a \in Allocated(heap) : heap.key[a] # k
  BY <1>1, <1>3, CallFields, StandsAtEnd
<1>5. PICK s, ch : Sound(heap, s, ch) /\ Len(s) <= Capacity
  BY DEF HeapInv, Kept
<1>6. StandsFor(Shrink(attach_head(Enter(heap, n, k, v), n)),
                Abstract!cache_put(Contents(heap), k, v))
  <2> HIDE DEF k, v
  <2> QED
    BY <1>4, <1>5, PutsNew
<1>7. Abstract!Apply(call[t], contents) = Abstract!cache_put(contents, k, v)
  BY <1>1 DEF Abstract!Apply
<1>8. StandsFor(heap', Abstract!Apply(call[t], contents))
  BY <1>2, <1>3, <1>6, <1>7
<1>9. Answer(t) = NoValue
  BY <1>1 DEF Answer
<1>10. out' = [out EXCEPT ![t] = Answer(t)] /\ Answer(t) \in Values \cup {NoValue}
  BY <1>1, <1>3, <1>9
<1> QED
  BY <1>1, <1>8, <1>10, ChangeKeeps

\* pthread_mutex_unlock.
LEMMA UnlockKeeps ==
  ASSUME HeapInv, NEW t \in Threads, Unlock(t)
  PROVE  HeapInv'
<1>1. /\ pc[t] = "unlock" /\ pc'[t] = "return" /\ lock' = Nil /\ contents' = Contents(heap)
      /\ UNCHANGED <<heap, call, cur, out>> /\ lock = t
      /\ \A w \in Threads \ {t} : pc'[w] = pc[w]
  BY DEF HeapInv, Locals, Good, Turns, Unlock, Goto
<1>2. Locals'
  BY <1>1 DEF HeapInv, Locals, Unlock, Goto
<1>3. Contents(heap)' = Contents(heap)
  BY <1>1
<1>4. Kept'
  BY <1>1 DEF HeapInv, Kept
<1>5. Good(t)'
  <2>1. Turns(t)'
    BY <1>1, NilAssumption DEF HeapInv, Good, Turns
  <2> QED
    BY <1>1, <2>1 DEF Good
<1>6. ASSUME NEW w \in Threads \ {t} PROVE Good(w)'
  <2>1. Turns(w) /\ lock # w /\ lock' # w
    BY <1>1, NilAssumption DEF HeapInv, Good
  <2> QED
    BY <1>1, <2>1, Outsider
<1> QED
  BY <1>1, <1>2, <1>3, <1>4, <1>5, <1>6 DEF HeapInv

\* The return to the caller.
LEMMA ReturnKeeps ==
  ASSUME HeapInv, NEW t \in Threads, Return(t)
  PROVE  HeapInv'
<1>1. /\ pc[t] = "return" /\ pc'[t] = "idle" /\ call'[t] = NoCall /\ out'[t] = NoValue
      /\ UNCHANGED <<heap, lock, contents>> /\ lock # t
      /\ \A w \in Threads \ {t} :
           pc'[w] = pc[w] /\ call'[w] = call[w] /\ cur'[w] = cur[w] /\ out'[w] = out[w]
  BY DEF HeapInv, Locals, Good, Turns, Return, Goto
<1>2. Locals'
  BY DEF HeapInv, Locals, Return, Goto, Pointers
<1>3. Kept' /\ (lock' = Nil => contents' = Contents(heap)')
  BY <1>1 DEF HeapInv, Kept
<1>4. Good(t)'
  BY <1>1 DEF Good, Turns
<1>5. ASSUME NEW w \in Threads \ {t} PROVE Good(w)'
  BY <1>1, SameThread DEF HeapInv
<1> QED
  BY <1>2, <1>3, <1>4, <1>5 DEF HeapInv

\* The invariant is inductive.
THEOREM HeapInductive ==
  Spec => []HeapInv
<1>1. Init => HeapInv
  BY InitInv
<1>2. HeapInv /\ [Next]_vars => HeapInv'
  <2> SUFFICES ASSUME HeapInv, [Next]_vars PROVE HeapInv'
    OBVIOUS
  <2>1. CASE UNCHANGED vars
    <3>1. /\ heap' = heap /\ lock' = lock /\ pc' = pc /\ call' = call /\ cur' = cur /\ out' = out
          /\ contents' = contents
      BY <2>1 DEF vars
    <3>2. \A t \in Threads : Good(t)'
      BY <3>1, SameThread DEF HeapInv
    <3>3. Locals' /\ Kept' /\ (lock' = Nil => contents' = Contents(heap)')
      BY <3>1 DEF HeapInv, Locals, Kept
    <3> QED
      BY <3>2, <3>3 DEF HeapInv
  <2>2. ASSUME NEW t \in Threads, Critical(t) PROVE HeapInv'
    BY <2>2, AdvanceKeeps, GetHitKeeps, PutUpdateKeeps, PutNewKeeps, DeleteHitKeeps, AbsentKeeps,
       UnlockKeeps DEF Critical
  <2>3. ASSUME NEW t \in Threads, Lock(t) PROVE HeapInv'
    BY <2>3, LockKeeps
  <2>4. ASSUME NEW t \in Threads, Return(t) PROVE HeapInv'
    BY <2>4, ReturnKeeps
  <2>5. ASSUME NEW t \in Threads, NEW c \in Calls, Invoke(t, c) PROVE HeapInv'
    BY <2>5, InvokeKeeps
  <2> QED
    BY <2>1, <2>2, <2>3, <2>4, <2>5 DEF Next
<1> QED
  BY <1>1, <1>2, PTL DEF Spec

-----------------------------------------------------------------------------
(* What the invariant says. *)

\* A path read backwards.
LEMMA Backwards ==
  ASSUME NEW s, Path(s), NEW link, \A i \in DOMAIN s : link[s[i]] = Stop(s, i - 1)
  PROVE  Reverse(s) \in Walks[Stop(s, Len(s))] /\ Leads(link, Reverse(s))
<1> DEFINE m == Len(s)
           u == Reverse(s)
<1>1. /\ m \in Nat /\ DOMAIN s = 1..m
      /\ \A i \in 1..m : s[i] \in Addrs
      /\ \A i, j \in 1..m : s[i] = s[j] => i = j
  BY PathPlaces
<1>2. /\ u = [i \in 1..m |-> u[i]]
      /\ \A i \in 1..m : m - i + 1 \in 1..m /\ u[i] = s[m - i + 1]
  BY <1>1 DEF Reverse
<1> HIDE DEF u
<1>3. \A i \in 1..m : u[i] \in Addrs
  BY <1>1, <1>2
<1>4. \A i, j \in 1..m : u[i] = u[j] => i = j
  <2> SUFFICES ASSUME NEW i \in 1..m, NEW j \in 1..m, u[i] = u[j] PROVE i = j
    OBVIOUS
  <2>1. m - i + 1 = m - j + 1
    BY <1>1, <1>2
  <2> QED
    BY <1>1, <2>1
<1>5. Path(u) /\ Len(u) = m /\ DOMAIN u = 1..m
  <2> HIDE DEF m
  <2> QED
    BY <1>1, <1>2, <1>3, <1>4, PathMade
<1>6. Stop(u, 1) = Stop(s, m)
  <2>1. CASE m = 0
    BY <1>1, <1>5, <2>1 DEF Stop
  <2>2. CASE m # 0
    <3>1. 1 \in 1..m /\ m \in 1..m /\ m - 1 + 1 = m
      BY <1>1, <2>2
    <3> QED
      BY <1>1, <1>2, <1>5, <3>1 DEF Stop
  <2> QED
    BY <2>1, <2>2
<1>7. Leads(link, u)
  <2> SUFFICES ASSUME NEW i \in 1..m PROVE link[u[i]] = Stop(u, i + 1)
    BY <1>5 DEF Leads
  <2>1. link[s[m - i + 1]] = Stop(s, m - i)
    <3>1. m - i + 1 \in DOMAIN s /\ (m - i + 1) - 1 = m - i
      BY <1>1, <1>2
    <3> QED
      BY <3>1
  <2>2. Stop(u, i + 1) = Stop(s, m - i)
    <3>1. CASE i = m
      <4>1. i + 1 \notin 1..m /\ m - i \notin 1..m
        BY <1>1, <3>1
      <4> QED
        BY <1>1, <1>5, <4>1 DEF Stop
    <3>2. CASE i # m
      <4>1. i + 1 \in 1..m /\ m - i \in 1..m /\ m - (i + 1) + 1 = m - i
        <5>1. m \in Nat /\ i \in 1..m
          BY <1>1
        <5> HIDE DEF m
        <5> QED
          BY <3>2, <5>1
      <4>2. u[i + 1] = s[m - i]
        BY <1>2, <4>1
      <4> QED
        BY <1>1, <1>5, <4>1, <4>2 DEF Stop
    <3> QED
      BY <3>1, <3>2
  <2> QED
    BY <1>2, <2>1, <2>2
<1>8. Stop(s, m) \in Pointers
  BY <1>1, StopIs
<1> QED
  BY <1>5, <1>6, <1>7, <1>8, WalksArePaths DEF u

(* Whatever the calls, the threads and the hash function, the list, the    *)
(* chains and the counter of cache.c agree whenever the lock is free, and  *)
(* no search reads a node that has been freed.                             *)
THEOREM HeapStaysSound ==
  Spec => []HeapSound
<1>1. ASSUME HeapInv, NEW t \in Threads, pc[t] = "search"
      PROVE  cur[t] \in Allocated(heap) \cup {Nil}
  <2>1. CASE cur[t] # Nil
    <3>1. PICK s, ch : \E p \in 1..Len(s) :
                         Sound(heap, s, ch) /\ Len(s) <= Capacity /\ cur[t] = s[p]
      BY <1>1, <2>1, StandsOn
    <3>2. Range(s) = Allocated(heap) /\ DOMAIN s = 1..Len(s)
      BY <3>1, PathPlaces DEF Sound, ListOf
    <3> QED
      BY <3>1, <3>2 DEF Range
  <2> QED
    BY <2>1
<1>2. HeapInv => HeapSound
  <2> SUFFICES ASSUME HeapInv, lock = Nil PROVE HeapSound
    BY <1>1 DEF HeapSound
  <2>1. PICK s, ch : Sound(heap, s, ch) /\ Len(s) <= Capacity
    BY DEF HeapInv, Kept
  <2>2. /\ Path(s) /\ Leads(heap.next, s) /\ heap.head = Stop(s, 1) /\ heap.tail = Stop(s, Len(s))
        /\ \A i \in DOMAIN s : heap.prev[s[i]] = Stop(s, i - 1)
        /\ heap.head \in Pointers
    BY <2>1 DEF Sound, ListOf, Heaps
  <2>3. s \in Walks[heap.head]
    BY <2>2, WalksArePaths
  <2>4. Reverse(s) \in Walks[heap.tail] /\ Leads(heap.prev, Reverse(s))
    <3> DEFINE prev == heap.prev
    <3>1. \A i \in DOMAIN s : prev[s[i]] = Stop(s, i - 1)
      BY <2>2
    <3> HIDE DEF prev
    <3>2. Reverse(s) \in Walks[Stop(s, Len(s))] /\ Leads(prev, Reverse(s))
      BY <2>2, <3>1, Backwards
    <3> QED
      BY <2>2, <3>2 DEF prev
  <2>5. Range(s) = Allocated(heap) /\ heap.size = Len(s) /\ heap.size <= Capacity
    BY <2>1 DEF Sound
  <2>6. ASSUME NEW b \in Buckets
        PROVE  \E c \in Walks[heap.htable[b]] :
                 /\ Leads(heap.hnext, c)
                 /\ Range(c) = {a \in Allocated(heap) : Hash[heap.key[a]] = b}
    <3>1. /\ Path(ch[b]) /\ Leads(heap.hnext, ch[b]) /\ heap.htable[b] = Stop(ch[b], 1)
          /\ Range(ch[b]) = {a \in Allocated(heap) : Hash[heap.key[a]] = b}
          /\ heap.htable[b] \in Pointers
      BY <2>1 DEF Sound, ChainsOf, Filed, Heaps
    <3>2. ch[b] \in Walks[heap.htable[b]]
      BY <3>1, WalksArePaths
    <3> QED
      BY <3>1, <3>2
  <2>7. /\ \A a, c \in Allocated(heap) : heap.key[a] = heap.key[c] => a = c
        /\ contents = Contents(heap)
    BY <2>1 DEF Sound, HeapInv
  <2> QED
    BY <1>1, <2>2, <2>3, <2>4, <2>5, <2>6, <2>7 DEF HeapSound
<1> QED
  BY <1>2, HeapInductive, PTL

-----------------------------------------------------------------------------
(* The steps to the unlocking. *)

\* What a search has before it.
LEMMA SearchLeft ==
  ASSUME HeapInv, NEW t \in Threads, pc[t] = "search"
  PROVE  /\ lock = t /\ StepsHeld(t) = Len(Along(heap.hnext, cur[t])) + 2
         /\ Len(Along(heap.hnext, cur[t])) \in Nat
<1>1. PICK s, ch : Sound(heap, s, ch)
  BY DEF HeapInv, Kept
<1> DEFINE c == ChainOf(t)
           k == call[t].key
<1>2. k \in Keys
  BY CallMade, CallFields
<1>3. c = Along(heap.hnext, heap.htable[Hash[k]])
  BY DEF ChainOf
<1>4. PICK j \in 1 .. Len(c) + 1 : cur[t] = Stop(c, j)
  BY DEF HeapInv, Good, Searching
<1> HIDE DEF c, k
<1>5. Path(c) /\ Leads(heap.hnext, c)
  BY <1>1, <1>2, <1>3, ChainIs
<1>6. Len(Along(heap.hnext, Stop(c, j))) = Len(c) + 1 - j
  BY <1>5, RestOf
<1>7. Len(Along(heap.hnext, cur[t])) \in Nat
  BY <1>4, <1>5, <1>6, PathPlaces
<1>8. lock = t
  BY DEF HeapInv, Good, Turns
<1> QED
  BY <1>7, <1>8 DEF StepsHeld

\* The steps left, at the unlocking and beyond.
LEMMA StepsAfter ==
  ASSUME NEW t \in Threads, lock' = lock, lock = t, pc'[t] = "unlock"
  PROVE  StepsHeld(t)' = 1
BY DEF StepsHeld

\* Each step of the holder brings the release nearer.
LEMMA HolderAdvances ==
  ASSUME HeapInv, NEW t \in Threads, lock = t, Critical(t)
  PROVE  StepsHeld(t)' < StepsHeld(t)
<1>1. CASE Advance(t)
  <2> DEFINE c == ChainOf(t)
             a == Len(Along(heap.hnext, cur[t]))
             b == Len(Along(heap.hnext, cur'[t]))
  <2>1. pc[t] = "search" /\ heap' = heap /\ lock' = t /\ pc' = pc
    BY <1>1 DEF Advance
  <2>2. PICK j \in 1..Len(c) : cur[t] = Stop(c, j) /\ cur'[t] = Stop(c, j + 1)
    BY <1>1, AdvanceStands
  <2>3. Path(c) /\ Leads(heap.hnext, c)
    BY <1>1, AdvanceStands
  <2>4. StepsHeld(t) = a + 2
    BY <2>1, SearchLeft
  <2>5. StepsHeld(t)' = b + 2
    BY <2>1, NilAssumption DEF StepsHeld
  <2> HIDE DEF c
  <2>6. Len(c) \in Nat /\ j \in 1 .. Len(c) + 1 /\ j + 1 \in 1 .. Len(c) + 1
    BY <2>3, PathPlaces
  <2>7. a = Len(c) + 1 - j
    BY <2>2, <2>3, <2>6, RestOf
  <2>8. b = Len(c) + 1 - (j + 1)
    <3> DEFINE i == j + 1
    <3>1. i \in 1 .. Len(c) + 1 /\ cur'[t] = Stop(c, i)
      BY <2>2, <2>6
    <3> HIDE DEF i
    <3>2. Len(Along(heap.hnext, Stop(c, i))) = Len(c) + 1 - i
      BY <2>3, <3>1, RestOf
    <3> QED
      BY <3>1, <3>2 DEF i
  <2> HIDE DEF a, b
  <2> QED
    BY <2>4, <2>5, <2>6, <2>7, <2>8
<1>2. CASE GetHit(t) \/ PutUpdate(t) \/ PutNew(t) \/ DeleteHit(t) \/ Absent(t)
  <2>1. pc[t] = "search"
    BY <1>2 DEF GetHit, PutUpdate, PutNew, DeleteHit, Absent, Hit, Miss
  <2>2. lock' = lock /\ Goto(t, "unlock")
    BY <1>2 DEF GetHit, PutUpdate, PutNew, DeleteHit, Absent
  <2>3. pc'[t] = "unlock"
    BY <2>2 DEF HeapInv, Locals, Goto
  <2>4. StepsHeld(t)' = 1
    BY <2>2, <2>3, StepsAfter
  <2> DEFINE a == Len(Along(heap.hnext, cur[t]))
  <2>5. StepsHeld(t) = a + 2 /\ a \in Nat
    BY <2>1, SearchLeft
  <2> HIDE DEF a
  <2> QED
    BY <2>4, <2>5
<1>3. CASE Unlock(t)
  <2>1. pc[t] = "unlock" /\ lock' = Nil /\ pc'[t] = "return"
    BY <1>3 DEF Unlock, Goto, HeapInv, Locals
  <2>2. StepsHeld(t) = 1
    BY <2>1 DEF StepsHeld
  <2>3. StepsHeld(t)' = 0
    <3>1. lock' # t /\ pc'[t] # "search"
      BY <2>1, NilAssumption
    <3> QED
      BY <3>1 DEF StepsHeld
  <2> QED
    BY <2>2, <2>3
<1> QED
  BY <1>1, <1>2, <1>3 DEF Critical

\* Nobody else's step takes it further away.
LEMMA OthersWait ==
  ASSUME HeapInv, NEW t \in Threads, lock = t, ~Critical(t), Next
  PROVE  StepsHeld(t)' = StepsHeld(t)
<1>1. PICK w \in Threads : \/ Critical(w) \/ Lock(w) \/ Return(w)
                           \/ \E c \in Calls : Invoke(w, c)
  BY DEF Next
<1>2. pc[t] \in {"search", "unlock"} /\ t # Nil
  BY NilAssumption DEF HeapInv, Good, Turns
<1>3. ~Lock(w)
  BY <1>2 DEF Lock
<1>4. ~Critical(w)
  <2>1. SUFFICES ASSUME Critical(w) PROVE w = t
    OBVIOUS
  <2>2. pc[w] \in {"search", "unlock"}
    BY <2>1 DEF Critical, Advance, GetHit, PutUpdate, PutNew, DeleteHit, Absent, Unlock, Hit, Miss
  <2> QED
    BY <2>2 DEF HeapInv, Good, Turns
<1>5. Return(w) \/ \E c \in Calls : Invoke(w, c)
  BY <1>1, <1>3, <1>4
<1>6. pc[w] \in {"idle", "return"} /\ heap' = heap /\ lock' = lock
  BY <1>5 DEF Return, Invoke
<1>7. w # t
  BY <1>2, <1>6
<1>8. pc'[t] = pc[t] /\ cur'[t] = cur[t]
  BY <1>5, <1>7 DEF HeapInv, Locals, Return, Invoke, Goto
<1> QED
  BY <1>6, <1>8 DEF StepsHeld

(* On every path through cache.c the lock is released after the rest of    *)
(* the chain, one change and the unlocking.                                *)
THEOREM LockIsReleased ==
  Spec => LockReleased
<1> DEFINE A == \A t \in Threads : lock = t =>
                  IF Critical(t) THEN StepsHeld(t)' < StepsHeld(t) ELSE StepsHeld(t)' = StepsHeld(t)
<1>1. HeapInv /\ [Next]_vars => [A]_vars
  <2> SUFFICES ASSUME HeapInv, Next PROVE A
    OBVIOUS
  <2> SUFFICES ASSUME NEW t \in Threads, lock = t
               PROVE  IF Critical(t) THEN StepsHeld(t)' < StepsHeld(t)
                      ELSE StepsHeld(t)' = StepsHeld(t)
    OBVIOUS
  <2>1. CASE Critical(t)
    BY <2>1, HolderAdvances
  <2>2. CASE ~Critical(t)
    BY <2>2, OthersWait
  <2> QED
    BY <2>1, <2>2
<1> QED
  BY <1>1, HeapInductive, PTL DEF Spec, LockReleased

-----------------------------------------------------------------------------
(* The refinement. *)

\* What the callers see of the replies.
Replies == [t \in Threads |-> IF pc[t] = "return" THEN <<out[t]>> ELSE <<>>]

\* The initial states map to initial states.
LEMMA InitRefines ==
  ASSUME Init
  PROVE  Abstract!CacheInit
BY DEF Init, Abstract!CacheInit, Abstract!cache_create, Abstract!NoCall, NoCall

\* Who invokes or returns does so for the callers; a step under the lock is invisible.
LEMMA OutsideRefines ==
  ASSUME HeapInv, NEW t \in Threads
  PROVE  /\ \A c \in Calls : Invoke(t, c) => Abstract!Invoke(t, c)
         /\ Return(t) => Abstract!Return(t)
         /\ Lock(t) \/ (Critical(t) /\ ~Unlock(t)) =>
              contents' = contents /\ call' = call /\ Replies' = Replies
<1>1. ASSUME NEW c \in Calls, Invoke(t, c) PROVE Abstract!Invoke(t, c)
  <2>1. pc[t] = "idle" /\ call[t] = NoCall /\ contents' = contents /\ out' = out
        /\ call' = [call EXCEPT ![t] = c] /\ pc' = [pc EXCEPT ![t] = "lock"]
    BY <1>1 DEF Invoke, Goto, HeapInv, Good, Turns
  <2>2. Replies' = Replies
    BY <2>1 DEF Replies, HeapInv, Locals
  <2> QED
    BY <2>1, <2>2 DEF Abstract!Invoke, Abstract!NoCall, NoCall, Replies
<1>2. ASSUME Return(t) PROVE Abstract!Return(t)
  <2>1. pc[t] = "return" /\ contents' = contents /\ call' = [call EXCEPT ![t] = NoCall]
        /\ pc' = [pc EXCEPT ![t] = "idle"] /\ out' = [out EXCEPT ![t] = NoValue]
    BY <1>2 DEF Return, Goto
  <2>2. Replies[t] # <<>>
    BY <2>1 DEF Replies
  <2>3. Replies' = [Replies EXCEPT ![t] = <<>>]
    BY <2>1 DEF Replies, HeapInv, Locals
  <2> QED
    BY <2>1, <2>2, <2>3 DEF Abstract!Return, Abstract!NoCall, NoCall, Replies
<1>3. ASSUME Lock(t) \/ (Critical(t) /\ ~Unlock(t))
      PROVE  contents' = contents /\ call' = call /\ Replies' = Replies
  <2>1. contents' = contents /\ call' = call
    BY <1>3 DEF Lock, Critical, Advance, GetHit, PutUpdate, PutNew, DeleteHit, Absent
  <2>2. \/ pc' = pc
        \/ pc' = [pc EXCEPT ![t] = "search"]
        \/ pc' = [pc EXCEPT ![t] = "unlock"]
    BY <1>3 DEF Lock, Critical, Advance, GetHit, PutUpdate, PutNew, DeleteHit, Absent, Goto
  <2>3. pc[t] \in {"lock", "search"}
    BY <1>3 DEF Lock, Critical, Advance, GetHit, PutUpdate, PutNew, DeleteHit, Absent, Hit, Miss
  <2>4. \A w \in Threads \ {t} : out'[w] = out[w]
    BY <1>3 DEF Lock, Critical, Advance, GetHit, PutUpdate, PutNew, DeleteHit, Absent, HeapInv, Locals
  <2>5. pc'[t] # "return" /\ \A w \in Threads \ {t} : pc'[w] = pc[w]
    BY <2>2, <2>3 DEF HeapInv, Locals
  <2>6. Replies' = Replies
    BY <2>3, <2>4, <2>5 DEF Replies
  <2> QED
    BY <2>1, <2>6
<1> QED
  BY <1>1, <1>2, <1>3

\* The unlocking is where the call takes its effect.
LEMMA UnlockRefines ==
  ASSUME HeapInv, NEW t \in Threads, Unlock(t)
  PROVE  Abstract!TakeEffect(t)
<1>1. /\ pc[t] = "unlock" /\ contents' = Contents(heap) /\ call' = call /\ out' = out
      /\ pc' = [pc EXCEPT ![t] = "return"]
  BY DEF Unlock, Goto
<1>2. call[t] # NoCall /\ contents' = Abstract!Apply(call[t], contents) /\ out[t] = Answer(t)
  BY <1>1 DEF HeapInv, Good, Turns, Changed
<1>3. Replies[t] = <<>>
  BY <1>1 DEF Replies
<1>4. Replies' = [Replies EXCEPT ![t] = <<Answer(t)>>]
  BY <1>1, <1>2 DEF Replies, HeapInv, Locals
<1> QED
  BY <1>1, <1>2, <1>3, <1>4 DEF Abstract!TakeEffect, Abstract!NoCall, NoCall, Answer, Replies

(* The pointers under the lock implement the cache of LRUCache: every call *)
(* is one change of the contents, between its invocation and its return.   *)
THEOREM HeapImplementsCache ==
  Spec => ImplementsCache
<1> DEFINE seen == <<contents, call, Replies>>
<1>1. Init => Abstract!CacheInit
  BY InitRefines
<1>2. HeapInv /\ [Next]_vars => [Abstract!CacheNext]_seen
  <2> SUFFICES ASSUME HeapInv, [Next]_vars PROVE Abstract!CacheNext \/ UNCHANGED seen
    OBVIOUS
  <2>1. CASE UNCHANGED vars
    BY <2>1 DEF vars, Replies
  <2>2. ASSUME NEW t \in Threads, Unlock(t) PROVE Abstract!CacheNext
    BY <2>2, UnlockRefines DEF Abstract!CacheNext
  <2>3. ASSUME NEW t \in Threads, Lock(t) \/ (Critical(t) /\ ~Unlock(t)) PROVE UNCHANGED seen
    BY <2>3, OutsideRefines
  <2>4. ASSUME NEW t \in Threads, Return(t) PROVE Abstract!CacheNext
    BY <2>4, OutsideRefines DEF Abstract!CacheNext
  <2>5. ASSUME NEW t \in Threads, NEW c \in Calls, Invoke(t, c) PROVE Abstract!CacheNext
    BY <2>5, OutsideRefines DEF Abstract!CacheNext, Abstract!Calls, Calls
  <2> QED
    BY <2>1, <2>2, <2>3, <2>4, <2>5 DEF Next
<1> QED
  BY <1>1, <1>2, HeapInductive, PTL DEF Spec, ImplementsCache, Abstract!CacheSpec, Replies

=============================================================================
