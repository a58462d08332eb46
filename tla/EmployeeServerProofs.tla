------------------------ MODULE EmployeeServerProofs ------------------------
(***************************************************************************)
(* Theorems of EmployeeServer, for every number of workers, every set of   *)
(* ids and rows, every capacity and every outcome of the statements.       *)
(***************************************************************************)
EXTENDS EmployeeServer, FiniteSetTheorems, SequenceTheorems, TLAPS

-----------------------------------------------------------------------------
(***************************************************************************)
(* What the operations of LRU preserve and return, for every set of keys   *)
(* and values and every capacity.                                          *)
(***************************************************************************)

\* The keys of a list, and lists that hold no key twice.
Members(s) == {s[i] : i \in DOMAIN s}

Distinct(s) == \A i, j \in DOMAIN s : s[i] = s[j] => i = j

-----------------------------------------------------------------------------
(* The three ways the list changes. *)

(* attach_head puts the key before all others. *)
LEMMA ConsProperties ==
  ASSUME NEW s \in Seq(Keys), NEW k \in Keys
  PROVE  /\ Cons(k, s) \in Seq(Keys)
         /\ Len(Cons(k, s)) = Len(s) + 1
         /\ \A i \in 1..(Len(s) + 1) : Cons(k, s)[i] = IF i = 1 THEN k ELSE s[i - 1]
<1>1. <<k>> \in Seq(Keys) /\ Len(<<k>>) = 1 /\ <<k>>[1] = k
  OBVIOUS
<1>2. Len(s) \in Nat
  BY LenProperties
<1>3. /\ <<k>> \o s \in Seq(Keys)
      /\ Len(<<k>> \o s) = 1 + Len(s)
      /\ \A i \in 1..(1 + Len(s)) :
           (<<k>> \o s)[i] = IF i <= 1 THEN <<k>>[i] ELSE s[i - 1]
  BY <1>1, ConcatProperties
<1> QED
  BY <1>1, <1>2, <1>3 DEF Cons

(* detach takes one place out of the list. *)
LEMMA RemoveAtProperties ==
  ASSUME NEW s \in Seq(Keys), NEW p \in 1..Len(s)
  PROVE  /\ RemoveAt(s, p) \in Seq(Keys)
         /\ Len(RemoveAt(s, p)) = Len(s) - 1
         /\ \A i \in 1..(Len(s) - 1) :
              RemoveAt(s, p)[i] = IF i < p THEN s[i] ELSE s[i + 1]
<1> DEFINE a == SubSeq(s, 1, p - 1)
           b == SubSeq(s, p + 1, Len(s))
<1>1. Len(s) \in Nat /\ p \in Int /\ \A i \in 1..Len(s) : s[i] \in Keys
  BY LenProperties, ElementOfSeq
<1>2. /\ a \in Seq(Keys) /\ Len(a) = p - 1
      /\ \A i \in 1..(p - 1) : a[i] = s[i]
  BY <1>1
<1>3. /\ b \in Seq(Keys) /\ Len(b) = Len(s) - p
      /\ \A i \in 1..(Len(s) - p) : b[i] = s[p + i]
  BY <1>1
<1>6. RemoveAt(s, p) = a \o b
  BY DEF RemoveAt
<1> HIDE DEF a, b
<1>4. /\ a \o b \in Seq(Keys)
      /\ Len(a \o b) = Len(s) - 1
      /\ \A i \in 1..(Len(s) - 1) :
           (a \o b)[i] = IF i <= p - 1 THEN a[i] ELSE b[i - (p - 1)]
  <2>1. /\ a \o b \in Seq(Keys)
        /\ Len(a \o b) = Len(a) + Len(b)
        /\ \A i \in 1..(Len(a) + Len(b)) :
             (a \o b)[i] = IF i <= Len(a) THEN a[i] ELSE b[i - Len(a)]
    BY <1>2, <1>3, ConcatProperties
  <2> QED
    BY <1>1, <1>2, <1>3, <2>1
<1>5. \A i \in 1..(Len(s) - 1) :
        (IF i <= p - 1 THEN a[i] ELSE b[i - (p - 1)]) = IF i < p THEN s[i] ELSE s[i + 1]
  BY <1>1, <1>2, <1>3
<1> QED
  BY <1>1, <1>4, <1>5, <1>6

(* The tail leaves the list. *)
LEMMA FrontProperties ==
  ASSUME NEW s \in Seq(Keys), Len(s) > 0
  PROVE  /\ Front(s) \in Seq(Keys)
         /\ Len(Front(s)) = Len(s) - 1
         /\ \A i \in 1..(Len(s) - 1) : Front(s)[i] = s[i]
         /\ Last(s) \in Keys /\ Last(s) = s[Len(s)]
<1>1. Len(s) \in Nat /\ \A i \in 1..Len(s) : s[i] \in Keys
  BY LenProperties, ElementOfSeq
<1>2. SubSeq(s, 1, Len(s) - 1) \in Seq(Keys)
  BY <1>1
<1>3. Len(SubSeq(s, 1, Len(s) - 1)) = Len(s) - 1
  <2> DEFINE n == Len(s) - 1
  <2>1. n \in Nat /\ \A i \in 1..n : s[i] \in Keys
    BY <1>1
  <2> HIDE DEF n
  <2>2. Len(SubSeq(s, 1, n)) = n
    BY <2>1
  <2> QED
    BY <2>2 DEF n
<1>4. \A i \in 1..(Len(s) - 1) : SubSeq(s, 1, Len(s) - 1)[i] = s[i]
  BY <1>1
<1> QED
  BY <1>1, <1>2, <1>3, <1>4 DEF Front, Last

(* Attaching a key that the list does not hold keeps the list distinct. *)
LEMMA AttachMembers ==
  ASSUME NEW s \in Seq(Keys), NEW k \in Keys, Distinct(s), k \notin Members(s)
  PROVE  /\ attach_head(s, k) \in Seq(Keys)
         /\ Len(attach_head(s, k)) = Len(s) + 1
         /\ Distinct(attach_head(s, k))
         /\ Members(attach_head(s, k)) = Members(s) \cup {k}
         /\ attach_head(s, k)[1] = k
<1> DEFINE t == attach_head(s, k)
<1>1. /\ t \in Seq(Keys) /\ Len(t) = Len(s) + 1
      /\ \A i \in 1..(Len(s) + 1) : t[i] = IF i = 1 THEN k ELSE s[i - 1]
  BY ConsProperties DEF attach_head
<1>2. Len(s) \in Nat /\ DOMAIN s = 1..Len(s) /\ DOMAIN t = 1..(Len(s) + 1)
  BY <1>1, LenProperties
<1> HIDE DEF t
<1>3. ASSUME NEW i \in DOMAIN t, NEW j \in DOMAIN t, t[i] = t[j]
      PROVE  i = j
  <2>1. CASE i = 1 /\ j # 1
    BY <1>1, <1>2, <1>3, <2>1, s[j - 1] \in Members(s) DEF Members
  <2>2. CASE i # 1 /\ j = 1
    BY <1>1, <1>2, <1>3, <2>2, s[i - 1] \in Members(s) DEF Members
  <2>3. CASE i # 1 /\ j # 1
    <3>1. i - 1 \in DOMAIN s /\ j - 1 \in DOMAIN s
      BY <1>2, <2>3
    <3>2. s[i - 1] = s[j - 1]
      BY <1>1, <1>2, <1>3, <2>3
    <3> QED
      BY <1>2, <3>1, <3>2 DEF Distinct
  <2> QED
    BY <2>1, <2>2, <2>3
<1>4. Members(t) \subseteq Members(s) \cup {k}
  BY <1>1, <1>2 DEF Members
<1>5. Members(s) \cup {k} \subseteq Members(t)
  <2>1. k \in Members(t)
    BY <1>1, <1>2, 1 \in DOMAIN t, t[1] = k DEF Members
  <2>2. ASSUME NEW i \in DOMAIN s
        PROVE  s[i] \in Members(t)
    BY <1>1, <1>2, i + 1 \in DOMAIN t, t[i + 1] = s[i] DEF Members
  <2> QED
    BY <2>1, <2>2 DEF Members
<1> QED
  BY <1>1, <1>3, <1>4, <1>5 DEF Distinct, t

(* Detaching a listed key removes it and nothing else. *)
LEMMA DetachMembers ==
  ASSUME NEW s \in Seq(Keys), NEW k \in Members(s), Distinct(s)
  PROVE  /\ detach(s, k) \in Seq(Keys)
         /\ Len(detach(s, k)) = Len(s) - 1
         /\ Distinct(detach(s, k))
         /\ Members(detach(s, k)) = Members(s) \ {k}
<1> DEFINE p == Place(s, k)
           t == detach(s, k)
<1>1. Len(s) \in Nat /\ DOMAIN s = 1..Len(s)
  BY LenProperties
<1>2. p \in 1..Len(s) /\ s[p] = k
  BY <1>1 DEF Members, Place
<1>3. /\ t \in Seq(Keys) /\ Len(t) = Len(s) - 1
      /\ \A i \in 1..(Len(s) - 1) : t[i] = IF i < p THEN s[i] ELSE s[i + 1]
  <2>1. t = RemoveAt(s, p)
    BY DEF detach
  <2> HIDE DEF t, p
  <2> QED
    BY <1>2, <2>1, RemoveAtProperties
<1> HIDE DEF t, p
<1>4. DOMAIN t = 1..(Len(s) - 1)
  BY <1>3, LenProperties
<1>5. Distinct(t)
  <2> SUFFICES ASSUME NEW i \in DOMAIN t, NEW j \in DOMAIN t, t[i] = t[j] PROVE i = j
    BY DEF Distinct
  <2> DEFINE before(m) == IF m < p THEN m ELSE m + 1
  <2>1. \A m \in DOMAIN t : before(m) \in DOMAIN s /\ t[m] = s[before(m)]
    BY <1>1, <1>2, <1>3, <1>4
  <2>2. before(i) = before(j)
    <3> HIDE DEF before
    <3> QED
      BY <2>1 DEF Distinct
  <2>3. i \in Int /\ j \in Int /\ p \in Int
    BY <1>2, <1>4
  <2> QED
    BY <2>2, <2>3
<1>6. Members(t) \subseteq Members(s) \ {k}
  <2> SUFFICES ASSUME NEW i \in DOMAIN t
               PROVE  t[i] \in Members(s) \ {k}
    BY DEF Members
  <2> DEFINE j == IF i < p THEN i ELSE i + 1
  <2>1. j \in DOMAIN s /\ j # p /\ t[i] = s[j]
    BY <1>1, <1>2, <1>3, <1>4
  <2> QED
    BY <1>1, <1>2, <2>1 DEF Members, Distinct
<1>7. Members(s) \ {k} \subseteq Members(t)
  <2> SUFFICES ASSUME NEW i \in DOMAIN s, s[i] # k
               PROVE  s[i] \in Members(t)
    BY DEF Members
  <2>1. CASE i < p
    BY <1>1, <1>2, <1>3, <1>4, <2>1, i \in DOMAIN t, t[i] = s[i] DEF Members
  <2>2. CASE i > p
    BY <1>1, <1>2, <1>3, <1>4, <2>2, i - 1 \in DOMAIN t, t[i - 1] = s[i] DEF Members
  <2> QED
    BY <1>1, <1>2, <2>1, <2>2
<1> QED
  BY <1>3, <1>5, <1>6, <1>7 DEF t

(* Moving a listed key to the head keeps the keys of the list. *)
LEMMA ToHeadMembers ==
  ASSUME NEW s \in Seq(Keys), NEW k \in Members(s), Distinct(s)
  PROVE  /\ ToHead(s, k) \in Seq(Keys)
         /\ Len(ToHead(s, k)) = Len(s)
         /\ Distinct(ToHead(s, k))
         /\ Members(ToHead(s, k)) = Members(s)
<1>1. k \in Keys /\ Len(s) \in Nat
  BY LenProperties, ElementOfSeq DEF Members
<1>2. /\ detach(s, k) \in Seq(Keys) /\ Len(detach(s, k)) = Len(s) - 1
      /\ Distinct(detach(s, k)) /\ Members(detach(s, k)) = Members(s) \ {k}
  BY DetachMembers
<1> DEFINE t == detach(s, k)
<1> HIDE DEF t
<1>3. /\ attach_head(t, k) \in Seq(Keys) /\ Len(attach_head(t, k)) = Len(t) + 1
      /\ Distinct(attach_head(t, k)) /\ Members(attach_head(t, k)) = Members(t) \cup {k}
  BY <1>1, <1>2, AttachMembers DEF t
<1> QED
  BY <1>1, <1>2, <1>3 DEF ToHead, t

(* The tail's key leaves the list and no other does. *)
LEMMA FrontMembers ==
  ASSUME NEW s \in Seq(Keys), Len(s) > 0, Distinct(s)
  PROVE  /\ Front(s) \in Seq(Keys)
         /\ Len(Front(s)) = Len(s) - 1
         /\ Distinct(Front(s))
         /\ Last(s) \in Keys /\ Last(s) = s[Len(s)]
         /\ Members(Front(s)) = Members(s) \ {Last(s)}
<1> DEFINE t == Front(s)
<1>1. Len(s) \in Nat /\ DOMAIN s = 1..Len(s)
  BY LenProperties
<1>2. /\ t \in Seq(Keys) /\ Len(t) = Len(s) - 1
      /\ \A i \in 1..(Len(s) - 1) : t[i] = s[i]
      /\ Last(s) \in Keys /\ Last(s) = s[Len(s)]
  BY FrontProperties
<1>3. DOMAIN t = 1..(Len(s) - 1)
  BY <1>2, LenProperties
<1> HIDE DEF t
<1>4. Distinct(t)
  BY <1>1, <1>2, <1>3 DEF Distinct
<1>5. Members(t) \subseteq Members(s) \ {Last(s)}
  BY <1>1, <1>2, <1>3 DEF Members, Distinct
<1>6. Members(s) \ {Last(s)} \subseteq Members(t)
  <2> SUFFICES ASSUME NEW i \in DOMAIN s, s[i] # Last(s)
               PROVE  s[i] \in Members(t)
    BY DEF Members
  <2> QED
    BY <1>1, <1>2, <1>3, i \in DOMAIN t, t[i] = s[i] DEF Members
<1> QED
  BY <1>2, <1>4, <1>5, <1>6 DEF t

-----------------------------------------------------------------------------
(* The operations of the cache. *)

\* WellFormed in the terms of the lemmas above.
LEMMA WellFormedMembers ==
  ASSUME NEW c \in CacheStates
  PROVE  WellFormed(c) <=> /\ Members(c.lru) = {k \in Keys : Cached(c, k)}
                           /\ Distinct(c.lru)
                           /\ Len(c.lru) <= Capacity
<1>1. c.lru \in Seq(Keys) /\ \A i \in DOMAIN c.lru : c.lru[i] \in Keys
  BY LenProperties, ElementOfSeq DEF CacheStates
<1>2. Distinct(c.lru) <=> ListedOnce(c)
  BY DEF Distinct, ListedOnce
<1>3. ListMatchesTable(c) <=> Members(c.lru) = {k \in Keys : Cached(c, k)}
  BY <1>1 DEF ListMatchesTable, Members
<1> QED
  BY <1>2, <1>3 DEF WellFormed

(* The empty cache of cache_create. *)
THEOREM CreateCorrect == cache_create \in CacheStates /\ WellFormed(cache_create)
<1>1. cache_create \in CacheStates /\ cache_create.lru = <<>>
  BY DEF cache_create, CacheStates, Optional
<1>2. \A k \in Keys : ~Cached(cache_create, k)
  BY DEF cache_create, Cached
<1>3. DOMAIN <<>> = {} /\ Len(<<>>) = 0
  OBVIOUS
<1> QED
  BY <1>1, <1>2, <1>3, CapacityAssumption DEF WellFormed, ListMatchesTable, ListedOnce

(* cache_get reorders the list and changes no entry. *)
THEOREM GetCorrect ==
  ASSUME NEW c \in CacheStates, WellFormed(c), NEW k \in Keys
  PROVE  /\ cache_get(c, k) \in CacheStates
         /\ WellFormed(cache_get(c, k))
         /\ cache_get(c, k).entry = c.entry
<1> DEFINE d == cache_get(c, k)
<1>1. CASE ~Cached(c, k)
  BY <1>1 DEF cache_get
<1>2. CASE Cached(c, k)
  <2>1. /\ c.lru \in Seq(Keys) /\ Distinct(c.lru) /\ k \in Members(c.lru)
        /\ Members(c.lru) = {j \in Keys : Cached(c, j)} /\ Len(c.lru) <= Capacity
    BY <1>2, WellFormedMembers DEF CacheStates
  <2>2. d = [c EXCEPT !.lru = ToHead(c.lru, k)]
    BY <1>2 DEF cache_get
  <2>3. /\ ToHead(c.lru, k) \in Seq(Keys) /\ Len(ToHead(c.lru, k)) = Len(c.lru)
        /\ Distinct(ToHead(c.lru, k)) /\ Members(ToHead(c.lru, k)) = Members(c.lru)
    BY <2>1, ToHeadMembers
  <2>4. d \in CacheStates /\ d.entry = c.entry /\ d.lru = ToHead(c.lru, k)
    BY <2>2, <2>3 DEF CacheStates
  <2>5. {j \in Keys : Cached(d, j)} = {j \in Keys : Cached(c, j)}
    BY <2>4 DEF Cached
  <2>6. WellFormed(d)
    BY <2>1, <2>3, <2>4, <2>5, WellFormedMembers
  <2> QED
    BY <2>4, <2>6
<1> QED
  BY <1>1, <1>2

(* cache_delete removes the key's entry and touches no other. *)
THEOREM DeleteCorrect ==
  ASSUME NEW c \in CacheStates, WellFormed(c), NEW k \in Keys
  PROVE  /\ cache_delete(c, k) \in CacheStates
         /\ WellFormed(cache_delete(c, k))
         /\ cache_delete(c, k).entry = [c.entry EXCEPT ![k] = NoValue]
<1> DEFINE d == cache_delete(c, k)
<1>1. CASE ~Cached(c, k)
  BY <1>1 DEF cache_delete, Cached, CacheStates
<1>2. CASE Cached(c, k)
  <2>1. /\ c.lru \in Seq(Keys) /\ Distinct(c.lru) /\ k \in Members(c.lru)
        /\ Members(c.lru) = {j \in Keys : Cached(c, j)} /\ Len(c.lru) <= Capacity
    BY <1>2, WellFormedMembers DEF CacheStates
  <2>2. /\ d.entry = [c.entry EXCEPT ![k] = NoValue] /\ d.lru = detach(c.lru, k)
        /\ d = [entry |-> d.entry, lru |-> d.lru]
    BY <1>2 DEF cache_delete
  <2>3. /\ d.lru \in Seq(Keys) /\ Len(d.lru) = Len(c.lru) - 1
        /\ Distinct(d.lru) /\ Members(d.lru) = Members(c.lru) \ {k}
    BY <2>1, <2>2, DetachMembers
  <2>4. d \in CacheStates
    BY <2>2, <2>3 DEF CacheStates, Optional
  <2>5. {j \in Keys : Cached(d, j)} = {j \in Keys : Cached(c, j)} \ {k}
    BY <2>2 DEF Cached, CacheStates
  <2>6. Len(d.lru) <= Capacity
    BY <2>1, <2>3, LenProperties, CapacityAssumption
  <2>7. WellFormed(d)
    BY <2>1, <2>3, <2>4, <2>5, <2>6, WellFormedMembers
  <2> QED
    BY <2>2, <2>4, <2>7
<1> QED
  BY <1>1, <1>2

(* cache_put leaves the key with the new value (with none when it had no   *)
(* node and the capacity is zero), and every other entry as it was or      *)
(* evicted: the row just cached is never the one evicted for it.           *)
THEOREM PutCorrect ==
  ASSUME NEW c \in CacheStates, WellFormed(c), NEW k \in Keys, NEW v \in Values
  PROVE  /\ cache_put(c, k, v) \in CacheStates
         /\ WellFormed(cache_put(c, k, v))
         /\ cache_put(c, k, v).entry[k] \in {v, NoValue}
         /\ Capacity > 0 => cache_put(c, k, v).entry[k] = v
         /\ \A j \in Keys \ {k} : cache_put(c, k, v).entry[j] \in {c.entry[j], NoValue}
<1> DEFINE d == cache_put(c, k, v)
           s == [c EXCEPT !.entry[k] = v]
           e == [s EXCEPT !.lru = attach_head(c.lru, k)]
<1>1. /\ c.lru \in Seq(Keys) /\ Distinct(c.lru) /\ c.entry \in [Keys -> Optional]
      /\ Members(c.lru) = {j \in Keys : Cached(c, j)}
      /\ Len(c.lru) <= Capacity /\ Len(c.lru) \in Nat
  BY WellFormedMembers, LenProperties DEF CacheStates
<1>2. /\ s = [entry |-> [c.entry EXCEPT ![k] = v], lru |-> c.lru]
      /\ s.entry \in [Keys -> Optional] /\ s.entry[k] = v
      /\ \A j \in Keys \ {k} : s.entry[j] = c.entry[j]
  BY <1>1 DEF CacheStates, Optional
<1>3. v # NoValue
  BY NoValueAssumption
<1>4. {j \in Keys : s.entry[j] # NoValue} = Members(c.lru) \cup {k}
  BY <1>1, <1>2, <1>3 DEF Cached
<1> HIDE DEF s
<1>5. CASE Cached(c, k)
  <2>1. d = [s EXCEPT !.lru = ToHead(c.lru, k)]
    BY <1>2, <1>5 DEF cache_put, s
  <2>2. /\ ToHead(c.lru, k) \in Seq(Keys) /\ Len(ToHead(c.lru, k)) = Len(c.lru)
        /\ Distinct(ToHead(c.lru, k)) /\ Members(ToHead(c.lru, k)) = Members(c.lru)
    BY <1>1, <1>5, ToHeadMembers
  <2>3. d.entry = s.entry /\ d.lru = ToHead(c.lru, k) /\ d \in CacheStates
    BY <1>2, <2>1, <2>2 DEF CacheStates
  <2>4. {j \in Keys : Cached(d, j)} = Members(d.lru)
    BY <1>1, <1>4, <1>5, <2>2, <2>3 DEF Cached
  <2>5. WellFormed(d)
    BY <1>1, <2>2, <2>3, <2>4, WellFormedMembers
  <2> QED
    BY <1>2, <2>3, <2>5
<1>6. CASE ~Cached(c, k)
  <2>1. /\ attach_head(c.lru, k) \in Seq(Keys)
        /\ Len(attach_head(c.lru, k)) = Len(c.lru) + 1
        /\ Distinct(attach_head(c.lru, k))
        /\ Members(attach_head(c.lru, k)) = Members(c.lru) \cup {k}
        /\ attach_head(c.lru, k)[1] = k
    BY <1>1, <1>6, AttachMembers
  <2>2. /\ e = [entry |-> s.entry, lru |-> attach_head(c.lru, k)]
        /\ e.entry = s.entry /\ e.lru = attach_head(c.lru, k) /\ e \in CacheStates
    <3>1. e = [entry |-> s.entry, lru |-> attach_head(c.lru, k)]
      BY <1>2
    <3>2. e.entry = s.entry /\ e.lru = attach_head(c.lru, k)
      BY <3>1
    <3> QED
      BY <1>2, <2>1, <3>1, <3>2 DEF CacheStates
  <2>3. {j \in Keys : e.entry[j] # NoValue} = Members(e.lru)
    BY <1>4, <2>1, <2>2
  <2>4. d = IF Len(e.lru) > Capacity THEN EvictTail(e) ELSE e
    BY <1>2, <1>6, <2>2 DEF cache_put, s
  <2> HIDE DEF e, d
  <2>5. CASE ~(Len(e.lru) > Capacity)
    <3>1. d = e
      BY <2>4, <2>5
    <3>2. Len(d.lru) <= Capacity
      BY <1>1, <2>1, <2>2, <2>5, <3>1, CapacityAssumption
    <3>3. WellFormed(d)
      BY <2>1, <2>2, <2>3, <3>1, <3>2, WellFormedMembers DEF Cached
    <3> QED
      BY <1>2, <2>2, <3>1, <3>3 DEF d
  <2>6. CASE Len(e.lru) > Capacity
    <3>1. /\ d.entry = [e.entry EXCEPT ![Last(e.lru)] = NoValue] /\ d.lru = Front(e.lru)
          /\ d = [entry |-> d.entry, lru |-> d.lru]
      BY <2>4, <2>6 DEF EvictTail
    <3>2. /\ d.lru \in Seq(Keys) /\ Len(d.lru) = Len(e.lru) - 1 /\ Distinct(d.lru)
          /\ Last(e.lru) \in Keys /\ Last(e.lru) = e.lru[Len(e.lru)]
          /\ Members(d.lru) = Members(e.lru) \ {Last(e.lru)}
      BY <1>1, <2>1, <2>2, <3>1, FrontMembers
    <3>3. d \in CacheStates
      BY <1>2, <2>2, <3>1, <3>2 DEF CacheStates, Optional
    <3>4. {j \in Keys : Cached(d, j)} = Members(d.lru)
      BY <1>2, <2>2, <2>3, <3>1, <3>2 DEF Cached
    <3>5. Len(d.lru) <= Capacity
      BY <1>1, <2>1, <2>2, <3>2, CapacityAssumption
    <3>6. WellFormed(d)
      BY <3>2, <3>3, <3>4, <3>5, WellFormedMembers
    <3>7. /\ d.entry[k] \in {v, NoValue}
          /\ \A j \in Keys \ {k} : d.entry[j] \in {c.entry[j], NoValue}
      BY <1>2, <2>2, <3>1, <3>2
    <3>8. ASSUME Capacity > 0
          PROVE  d.entry[k] = v
      <4>1. Len(e.lru) \in Nat /\ Len(e.lru) # 1 /\ {1, Len(e.lru)} \subseteq DOMAIN e.lru
        BY <1>1, <2>1, <2>2, <2>6, <3>8, CapacityAssumption, LenProperties
      <4>2. Last(e.lru) # k
        BY <2>1, <2>2, <3>2, <4>1 DEF Distinct
      <4> QED
        BY <1>2, <2>2, <3>1, <4>2
    <3> QED
      BY <3>3, <3>6, <3>7, <3>8 DEF d
  <2> QED
    BY <2>5, <2>6
<1> QED
  BY <1>5, <1>6

-----------------------------------------------------------------------------
(***************************************************************************)
(* What a label says of the worker's locals: the id it looks up or writes  *)
(* is an employee's, and a row on its way into the cache is one.           *)
(***************************************************************************)
Located(w) ==
  /\ pc[w] \in {"list_fetch", "list_put", "lookup", "fetch", "put"} => cur[w] \in Keys
  /\ pc[w] \in {"insert", "update", "delete", "invalidate"} => req[w].id \in Keys
  /\ pc[w] \in {"insert", "update"} => req[w].row \in Values
  /\ Filling(w) => row[w] \in Values

TypeInv == TypeOK /\ CacheWellFormed /\ \A w \in Workers : Located(w)

-----------------------------------------------------------------------------
(* A request's fields. *)
LEMMA RequestFields ==
  ASSUME NEW r \in Requests \cup {NoRequest}
  PROVE  /\ r.id \in Ids
         /\ r.op \in {"GET", "DELETE", "POST", "PUT", "LIST", "OTHER", "NONE"}
         /\ r.op \in {"POST", "PUT"} => r.row \in Values
  BY DEF Requests, NoRequest, Ids

(* The branch a method selects, and no other method. *)
LEMMA BranchOf ==
  ASSUME NEW r \in Requests, r.op \notin {"LIST", "OTHER"}
  PROVE  /\ Branch(r) \in {"lookup", "insert", "update", "delete"}
         /\ Branch(r) = "insert" => r.op = "POST"
         /\ Branch(r) = "update" => r.op = "PUT"
  BY DEF Branch, Requests

(* The types of the initial state. *)
LEMMA TypeInit == Init => TypeInv
  BY CreateCorrect DEF Init, TypeInv, TypeOK, CacheWellFormed, Located, Filling,
     Optional, Labels, Statuses, Ids, NoRequest

(* Filling the cache keeps its types. *)
LEMMA FillType ==
  ASSUME TypeInv, NEW w \in Workers, Filling(w), Fill(w)
  PROVE  /\ cache' \in CacheStates /\ WellFormed(cache')
         /\ taint' \in SUBSET Keys
<1>1. cur[w] \in Keys /\ row[w] \in Values
  BY DEF TypeInv, Located, Filling
<1> QED
  BY <1>1, PutCorrect DEF TypeInv, TypeOK, CacheWellFormed, Fill

(* A committed write keeps the types of the table and its history. *)
LEMMA CommitType ==
  ASSUME TypeInv, NEW k \in Keys, NEW v \in Optional, Commit(k, v)
  PROVE  /\ table' \in [Keys -> Optional] /\ had' \in [Keys -> SUBSET Values]
         /\ dirty' \in [Workers -> BOOLEAN]
  BY DEF TypeInv, TypeOK, Commit, Optional

(* Appending an employee to the response keeps its type. *)
LEMMA AppendType ==
  ASSUME TypeInv, NEW w \in Workers, NEW k \in Keys, NEW v \in Values, Append1(w, k, v)
  PROVE  out' \in [Workers -> Seq(Items)]
<1>1. [sep |-> ~first[w], id |-> k, row |-> v] \in Items
  BY DEF TypeInv, TypeOK, Items
<1>2. Append(out[w], [sep |-> ~first[w], id |-> k, row |-> v]) \in Seq(Items)
  BY <1>1, AppendProperties DEF TypeInv, TypeOK
<1> QED
  BY <1>2 DEF TypeInv, TypeOK, Append1

(* An iteration of the list loop ends at a label where no local is needed. *)
LEMMA NextIdType ==
  ASSUME TypeInv, NEW w \in Workers, NEW k, NextId(w, k)
  PROVE  /\ pc' \in [Workers -> Labels] /\ first' \in [Workers -> BOOLEAN]
         /\ todo' \in [Workers -> SUBSET Keys] /\ status' \in [Workers -> Statuses]
         /\ pc'[w] = "list" /\ \A u \in Workers \ {w} : pc'[u] = pc[u]
  BY DEF TypeInv, TypeOK, NextId, Goto, Labels, Statuses

(* The end of the request's list loop, either way. *)
LEMMA ListEndType ==
  ASSUME TypeInv, NEW w \in Workers, ListClose(w) \/ ListNoMemory(w)
  PROVE  /\ pc' \in [Workers -> Labels] /\ pc' = [pc EXCEPT ![w] = "reply"] /\ pc[w] = "list"
         /\ todo' \in [Workers -> SUBSET Keys] /\ status' \in [Workers -> Statuses]
         /\ out' \in [Workers -> Seq(Items)] /\ pc'[w] = "reply" /\ status'[w] \in {"200", "500"}
         /\ UNCHANGED <<dbVars, cacheVars, req, cur, row, first, dirty>>
<1>1. pc' = [pc EXCEPT ![w] = "reply"] /\ pc[w] = "list"
  BY DEF ListClose, ListNoMemory, Answer, Goto
<1>2. UNCHANGED <<dbVars, cacheVars, req, cur, row, first, dirty>>
  BY DEF ListClose, ListNoMemory
<1>3. /\ todo = todo' \/ todo' = [todo EXCEPT ![w] = {}]
      /\ out = out' \/ out' = [out EXCEPT ![w] = <<>>]
      /\ status' = [status EXCEPT ![w] = "200"] \/ status' = [status EXCEPT ![w] = "500"]
  BY DEF ListClose, ListNoMemory, Answer
<1>4. <<>> \in Seq(Items)
  OBVIOUS
<1>5. todo' \in [Workers -> SUBSET Keys]
  BY <1>3 DEF TypeInv, TypeOK
<1>6. out' \in [Workers -> Seq(Items)]
  BY <1>3, <1>4 DEF TypeInv, TypeOK
<1>7. status' \in [Workers -> Statuses] /\ status'[w] \in {"200", "500"}
  BY <1>3 DEF TypeInv, TypeOK, Statuses
<1>8. pc' \in [Workers -> Labels] /\ pc'[w] = "reply"
  BY <1>1 DEF TypeInv, TypeOK, Labels
<1> QED
  BY <1>1, <1>2, <1>5, <1>6, <1>7, <1>8

(* The history of faults and of overlapping requests keeps its types.      *)
LEMMA CourseStep ==
  ASSUME TypeInv, [Next]_vars
  PROVE  faulted' \in [Workers -> BOOLEAN] /\ serial' \in BOOLEAN
<1>0. faulted \in [Workers -> BOOLEAN] /\ serial \in BOOLEAN
  BY DEF TypeInv, TypeOK
<1>1. ASSUME UNCHANGED courseVars
      PROVE  faulted' \in [Workers -> BOOLEAN] /\ serial' \in BOOLEAN
  BY <1>0, <1>1 DEF courseVars
<1>2. ASSUME NEW w \in Workers, NEW o, Record(w, o)
      PROVE  faulted' \in [Workers -> BOOLEAN] /\ serial' \in BOOLEAN
  <2>2. faulted' = [faulted EXCEPT ![w] = faulted[w] \/ o # "ok"]
    BY <1>2 DEF Record
  <2>3. serial' \in BOOLEAN
    BY <1>2 DEF Record
  <2> QED
    BY <1>0, <2>2, <2>3
<1>3. ASSUME NEW w \in Workers, NEW r, Accept(w, r)
      PROVE  faulted' \in [Workers -> BOOLEAN] /\ serial' \in BOOLEAN
  <2>1. serial' \in BOOLEAN /\ faulted' = faulted
    BY <1>3 DEF Accept
  <2> QED
    BY <1>0, <2>1
<1>4. ASSUME NEW w \in Workers, Return(w)
      PROVE  faulted' \in [Workers -> BOOLEAN] /\ serial' \in BOOLEAN
  <2>1. serial' = serial /\ faulted' = [faulted EXCEPT ![w] = FALSE]
    BY <1>4 DEF Return
  <2> QED
    BY <1>0, <2>1
<1>5. CASE Truncate
  BY <1>0, <1>5 DEF Truncate
<1>6. ASSUME NEW w \in Workers, Handle(w), ~Return(w)
      PROVE  UNCHANGED courseVars \/ \E o : Record(w, o)
  <2>1. CASE Connect(w)
    BY <2>1 DEF Connect
  <2>2. CASE ListIds(w)
    BY <2>2 DEF ListIds
  <2>3. CASE ListLookup(w) \/ ListPut(w) \/ GetLookup(w) \/ GetPut(w) \/ Invalidate(w)
    BY <2>3 DEF ListLookup, ListPut, GetLookup, GetPut, Invalidate, courseVars
  <2>4. CASE ListFetch(w)
    BY <2>4 DEF ListFetch
  <2>5. CASE GetFetch(w)
    BY <2>5 DEF GetFetch
  <2>6. CASE Insert(w)
    BY <2>6 DEF Insert
  <2>7. CASE Update(w) \/ Delete(w)
    BY <2>7 DEF Update, Delete, Write
  <2>8. CASE ListClose(w) \/ ListNoMemory(w)
    BY <2>8 DEF ListClose, ListNoMemory
  <2> QED
    BY <1>6, <2>1, <2>2, <2>3, <2>4, <2>5, <2>6, <2>7, <2>8 DEF Handle
<1>7. CASE UNCHANGED vars
  BY <1>1, <1>7 DEF vars
<1> QED
  BY <1>1, <1>2, <1>3, <1>4, <1>5, <1>6, <1>7 DEF Next

(* Every step keeps the types: one step of the proof for each action. *)
LEMMA TypeStep == TypeInv /\ [Next]_vars => TypeInv'
<1> SUFFICES ASSUME TypeInv, [Next]_vars
             PROVE  TypeInv'
  OBVIOUS
<1>0. faulted' \in [Workers -> BOOLEAN] /\ serial' \in BOOLEAN
  BY CourseStep
<1> USE DEF TypeInv, TypeOK, CacheWellFormed
<1>1. ASSUME NEW w \in Workers, NEW r \in Requests, Accept(w, r)
      PROVE  TypeInv'
  BY <1>0, <1>1 DEF Accept, Goto, dbVars, cacheVars, Labels, Located, Filling
<1>2. ASSUME NEW w \in Workers, Connect(w)
      PROVE  TypeInv'
  <2>1. req[w].id \in Ids /\ (req[w].op \in {"POST", "PUT"} => req[w].row \in Values)
    BY RequestFields
  <2>2. req[w].op \notin {"LIST", "OTHER"} /\ req[w].id # BadId =>
          /\ Branch(req[w]) \in {"lookup", "insert", "update", "delete"}
          /\ Branch(req[w]) \in {"insert", "update"} => req[w].op \in {"POST", "PUT"}
    BY BranchOf DEF NoRequest
  <2>3. /\ pc' \in [Workers -> Labels] /\ status' \in [Workers -> Statuses]
        /\ cur' \in [Workers -> Ids] /\ cur'[w] = req[w].id
        /\ \A u \in Workers \ {w} : pc'[u] = pc[u] /\ cur'[u] = cur[u]
        /\ \/ pc'[w] \in {"reply", "ids"}
           \/ /\ pc'[w] \in {"lookup", "insert", "update", "delete"}
              /\ pc'[w] \in {"insert", "update"} => req[w].row \in Values
              /\ req[w].id \in Keys
    BY <1>0, <1>2, <2>1, <2>2 DEF Connect, Goto, Answer, Labels, Statuses, Ids
  <2> QED
    BY <1>0, <1>2, <2>3 DEF Connect, dbVars, cacheVars, Located, Filling
<1>3. ASSUME NEW w \in Workers, ListIds(w)
      PROVE  TypeInv'
  <2>1. /\ pc' \in [Workers -> Labels] /\ status' \in [Workers -> Statuses]
        /\ todo' \in [Workers -> SUBSET Keys] /\ first' \in [Workers -> BOOLEAN]
        /\ pc'[w] \in {"reply", "list"} /\ \A u \in Workers \ {w} : pc'[u] = pc[u]
    <3>1. PICK ids \in SUBSET Keys :
            /\ todo' = [todo EXCEPT ![w] = ids]
            /\ first' = [first EXCEPT ![w] = TRUE]
            /\ IF ids = {} THEN Answer(w, "404") ELSE Goto(w, "list") /\ UNCHANGED status
      <4>1. PICK o \in Outcomes :
              LET ids == IF o = "ok" THEN {k \in Keys : table[k] # NoValue} ELSE {}
              IN  /\ todo' = [todo EXCEPT ![w] = ids]
                  /\ first' = [first EXCEPT ![w] = TRUE]
                  /\ IF ids = {} THEN Answer(w, "404") ELSE Goto(w, "list") /\ UNCHANGED status
        BY <1>0, <1>3 DEF ListIds
      <4> DEFINE S == IF o = "ok" THEN {k \in Keys : table[k] # NoValue} ELSE {}
      <4>2. S \in SUBSET Keys
        OBVIOUS
      <4> HIDE DEF S
      <4> QED
        BY <1>0, <4>1, <4>2, Zenon DEF S
    <3>2. CASE ids = {}
      BY <1>0, <3>1, <3>2 DEF Goto, Answer, Labels, Statuses
    <3>3. CASE ids # {}
      BY <1>0, <3>1, <3>3 DEF Goto, Labels
    <3> QED
      BY <1>0, <3>2, <3>3
  <2> QED
    BY <1>0, <1>3, <2>1 DEF ListIds, dbVars, cacheVars, Located, Filling
<1>4. ASSUME NEW w \in Workers, ListLookup(w)
      PROVE  TypeInv'
  <2>1. PICK k \in todo[w] :
          /\ cur' = [cur EXCEPT ![w] = k]
          /\ cache' = cache_get(cache, k)
          /\ IF Cached(cache, k)
             THEN Append1(w, k, cache.entry[k]) /\ NextId(w, k)
             ELSE Goto(w, "list_fetch") /\ UNCHANGED <<todo, first, out, status>>
    BY <1>0, <1>4 DEF ListLookup
  <2>2. k \in Keys /\ cache' \in CacheStates /\ WellFormed(cache')
    BY <1>0, <2>1, GetCorrect
  <2>3. Cached(cache, k) => cache.entry[k] \in Values
    BY <1>0, <2>2 DEF Cached, CacheStates, Optional
  <2>4. CASE Cached(cache, k)
    BY <1>0, <1>4, <2>1, <2>2, <2>3, <2>4, AppendType, NextIdType
       DEF ListLookup, dbVars, Located, Filling, Ids
  <2>5. CASE ~Cached(cache, k)
    <3>1. /\ pc' \in [Workers -> Labels] /\ pc' = [pc EXCEPT ![w] = "list_fetch"]
          /\ cur' \in [Workers -> Ids] /\ cur' = [cur EXCEPT ![w] = k]
          /\ UNCHANGED <<todo, first, out, status>>
      BY <1>0, <2>1, <2>2, <2>5 DEF Goto, Labels, Ids
    <3> QED
      BY <1>0, <1>4, <2>2, <3>1 DEF ListLookup, dbVars, Located, Filling
  <2> QED
    BY <1>0, <2>4, <2>5
<1>5. ASSUME NEW w \in Workers, ListFetch(w)
      PROVE  TypeInv'
  <2>1. CASE NextId(w, cur[w]) /\ UNCHANGED <<row, dirty>>
    BY <1>0, <1>5, <2>1, NextIdType DEF ListFetch, dbVars, cacheVars, Located, Filling
  <2>2. CASE /\ table[cur[w]] # NoValue
             /\ row' = [row EXCEPT ![w] = table[cur[w]]]
             /\ dirty' = [dirty EXCEPT ![w] = FALSE]
             /\ Goto(w, "list_put")
             /\ UNCHANGED <<todo, first, status>>
    BY <1>0, <1>5, <2>2 DEF ListFetch, Goto, dbVars, cacheVars, Located, Filling, Labels, Optional
  <2> QED
    BY <1>0, <1>5, <2>1, <2>2 DEF ListFetch
<1>6. ASSUME NEW w \in Workers, ListPut(w)
      PROVE  TypeInv'
  <2>1. Filling(w) /\ Fill(w) /\ cur[w] \in Keys /\ row[w] \in Values
    BY <1>0, <1>6 DEF ListPut, Filling, Located
  <2> QED
    BY <1>0, <1>6, <2>1, FillType, AppendType, NextIdType
       DEF ListPut, FreeRow, dbVars, Located, Filling, Optional
<1>7. ASSUME NEW w \in Workers, GetLookup(w)
      PROVE  TypeInv'
  <2>1. cur[w] \in Keys
    BY <1>0, <1>7 DEF GetLookup, Located
  <2>2. cache' \in CacheStates /\ WellFormed(cache')
    BY <1>0, <1>7, <2>1, GetCorrect DEF GetLookup
  <2>3. Cached(cache, cur[w]) => cache.entry[cur[w]] \in Values
    BY <1>0, <2>1 DEF Cached, CacheStates, Optional
  <2>4. out' \in [Workers -> Seq(Items)]
    BY <1>0, <1>7, <2>1, <2>3, AppendType DEF GetLookup
  <2>5. /\ UNCHANGED <<dbVars, taint, req, cur, row, todo, first, dirty, courseVars>>
        /\ \/ pc' = [pc EXCEPT ![w] = "reply"] /\ status' = [status EXCEPT ![w] = "200"]
           \/ pc' = [pc EXCEPT ![w] = "fetch"] /\ status' = status
    BY <1>7 DEF GetLookup, Goto, Answer
  <2>6. pc' \in [Workers -> Labels] /\ status' \in [Workers -> Statuses]
    BY <1>0, <2>5 DEF Labels, Statuses
  <2>7. \A u \in Workers : Located(u)'
    BY <1>0, <2>1, <2>5 DEF Located, Filling
  <2> QED
    BY <1>0, <2>2, <2>4, <2>5, <2>6, <2>7 DEF dbVars
<1>8. ASSUME NEW w \in Workers, GetFetch(w)
      PROVE  TypeInv'
  <2>1. CASE Answer(w, "404") /\ UNCHANGED <<row, dirty>>
    BY <1>0, <1>8, <2>1 DEF GetFetch, Goto, Answer, dbVars, cacheVars, Labels, Statuses,
       Located, Filling
  <2>2. CASE /\ table[cur[w]] # NoValue
             /\ row' = [row EXCEPT ![w] = table[cur[w]]]
             /\ dirty' = [dirty EXCEPT ![w] = FALSE]
             /\ Goto(w, "put")
             /\ UNCHANGED status
    BY <1>0, <1>8, <2>2 DEF GetFetch, Goto, dbVars, cacheVars, Located, Filling, Labels, Optional
  <2> QED
    BY <1>8, <2>1, <2>2 DEF GetFetch
<1>9. ASSUME NEW w \in Workers, GetPut(w)
      PROVE  TypeInv'
  <2>1. Filling(w) /\ Fill(w) /\ cur[w] \in Keys /\ row[w] \in Values
    BY <1>0, <1>9 DEF GetPut, Filling, Located
  <2> QED
    BY <1>0, <1>9, <2>1, FillType, AppendType
       DEF GetPut, FreeRow, Goto, Answer, dbVars, Labels, Statuses, Located, Filling, Optional
<1>10. ASSUME NEW w \in Workers, Insert(w)
       PROVE  TypeInv'
  <2>1. req[w].id \in Keys /\ req[w].row \in Optional
    BY <1>0, <1>10 DEF Insert, Located, Optional
  <2>2. /\ table' \in [Keys -> Optional] /\ had' \in [Keys -> SUBSET Values]
        /\ dirty' \in [Workers -> BOOLEAN]
    BY <1>0, <1>10, <2>1, CommitType DEF Insert, dbVars
  <2>3. /\ pc' \in [Workers -> Labels] /\ pc' = [pc EXCEPT ![w] = "reply"]
        /\ status' \in [Workers -> Statuses]
        /\ taint' \in SUBSET Keys
    BY <1>0, <1>10, <2>1 DEF Insert, LostWrite, Goto, Answer, Labels, Statuses
  <2> QED
    BY <1>0, <1>10, <2>2, <2>3 DEF Insert, Located, Filling
<1>11. ASSUME NEW w \in Workers, NEW v \in Optional, Write(w, v), req[w].id \in Keys
       PROVE  TypeInv'
  <2>1. /\ table' \in [Keys -> Optional] /\ had' \in [Keys -> SUBSET Values]
        /\ dirty' \in [Workers -> BOOLEAN]
    BY <1>0, <1>11, CommitType DEF Write, dbVars
  <2>2. /\ pc' \in [Workers -> Labels]
        /\ pc'[w] \in {"reply", "invalidate"} /\ \A u \in Workers \ {w} : pc'[u] = pc[u]
        /\ status' \in [Workers -> Statuses]
        /\ taint' \in SUBSET Keys
    <3>1. PICK o \in Outcomes :
            /\ IF o = "ok" THEN Goto(w, "invalidate") /\ UNCHANGED status
                           ELSE Answer(w, "500")
            /\ IF o = "lost" THEN LostWrite(w) ELSE UNCHANGED taint
      BY <1>0, <1>11 DEF Write
    <3>2. taint' \in SUBSET Keys
      BY <1>0, <1>11, <3>1 DEF LostWrite
    <3>3. CASE o = "ok"
      BY <1>0, <3>1, <3>2, <3>3 DEF Goto, Labels
    <3>4. CASE o # "ok"
      BY <1>0, <3>1, <3>2, <3>4 DEF Goto, Answer, Labels, Statuses
    <3> QED
      BY <1>0, <3>3, <3>4
  <2> QED
    BY <1>0, <1>11, <2>1, <2>2 DEF Write, Located, Filling
<1>12. ASSUME NEW w \in Workers, Update(w)
       PROVE  TypeInv'
  BY <1>0, <1>11, <1>12 DEF Update, Located, Optional
<1>13. ASSUME NEW w \in Workers, Delete(w)
       PROVE  TypeInv'
  BY <1>0, <1>11, <1>13 DEF Delete, Located, Optional
<1>14. ASSUME NEW w \in Workers, Invalidate(w)
       PROVE  TypeInv'
  <2>1. req[w].id \in Keys
    BY <1>0, <1>14 DEF Invalidate, Located
  <2>2. cache' \in CacheStates /\ WellFormed(cache')
    BY <1>0, <1>14, <2>1, DeleteCorrect DEF Invalidate
  <2> QED
    BY <1>0, <1>14, <2>2 DEF Invalidate, Goto, Answer, dbVars, Labels, Statuses, Located, Filling
<1>15. ASSUME NEW w \in Workers, Return(w)
       PROVE  TypeInv'
  BY <1>0, <1>15 DEF Return, Goto, dbVars, cacheVars, Labels, Statuses, Ids, Optional,
     Located, Filling
<1>16. CASE Truncate
  BY <1>0, <1>16 DEF Truncate, Optional, Located, Filling
<1>17. CASE UNCHANGED vars
  BY <1>0, <1>17 DEF vars, dbVars, cacheVars, workerVars, Located, Filling
<1>18. ASSUME NEW w \in Workers, ListClose(w) \/ ListNoMemory(w)
       PROVE  TypeInv'
  BY <1>0, <1>18, ListEndType DEF dbVars, cacheVars, Located, Filling
<1> QED
  BY <1>1, <1>2, <1>3, <1>4, <1>5, <1>6, <1>7, <1>8, <1>9, <1>10, <1>12, <1>13,
     <1>14, <1>15, <1>16, <1>17, <1>18 DEF Next, Handle

(* The specification keeps its types, and the cache's two structures agree *)
(* through every interleaving of the handlers' calls.                      *)
THEOREM TypeCorrect == Spec => []TypeInv
  BY TypeInit, TypeStep, PTL DEF Spec

(* The variables keep their types: no step stores a row, an id or a status *)
(* that the code could not hold there.                                     *)
THEOREM ServerTypes == Spec => []TypeOK
<1>1. TypeInv => TypeOK
  BY DEF TypeInv
<1> QED
  BY <1>1, TypeCorrect, PTL

(* The cache's two structures agree in every state of the server.          *)
THEOREM CacheIsWellFormed == Spec => []CacheWellFormed
<1>1. TypeInv => CacheWellFormed
  BY DEF TypeInv
<1> QED
  BY <1>1, TypeCorrect, PTL

-----------------------------------------------------------------------------
(***************************************************************************)
(* Staleness.  StaleHasCause is inductive together with FillFresh: when a  *)
(* row is cached, either it is the table's or dirty puts its id in taint.  *)
(***************************************************************************)
CauseInv == FillFresh /\ StaleHasCause

\* Nothing of a worker other than w changes.
OthersKeep(w) ==
  \A u \in Workers \ {w} :
    pc'[u] = pc[u] /\ req'[u] = req[u] /\ cur'[u] = cur[u] /\ row'[u] = row[u]

\* Freeing a row is nothing to the other workers.
LEMMA FreeOthers ==
  ASSUME TypeInv, NEW w \in Workers, FreeRow(w)
  PROVE  /\ ~dirty'[w] /\ \A u \in Workers \ {w} : row'[u] = row[u] /\ dirty'[u] = dirty[u]
  BY DEF FreeRow, TypeInv, TypeOK

(* A step that neither writes the table nor changes an entry adds no       *)
(* staleness, if a row it is about to cache comes from the table.          *)
LEMMA CauseReads ==
  ASSUME TypeInv, CauseInv, NEW w \in Workers, OthersKeep(w), pc[w] # "invalidate",
         table' = table, taint' = taint, cache'.entry = cache.entry,
         \A u \in Workers \ {w} : dirty'[u] = dirty[u],
         Filling(w)' => row'[w] = table'[cur'[w]]
  PROVE  CauseInv'
<1>1. FillFresh'
  BY DEF CauseInv, FillFresh, Filling, OthersKeep
<1>2. \A k \in Keys : BeingInvalidated(k) => BeingInvalidated(k)'
  BY DEF BeingInvalidated, OthersKeep
<1>3. StaleHasCause'
  BY <1>2 DEF CauseInv, StaleHasCause, Stale, Cached
<1> QED
  BY <1>1, <1>3 DEF CauseInv

(* Caching a row makes an entry stale only when the row was overtaken.     *)
LEMMA CauseFill ==
  ASSUME TypeInv, CauseInv, NEW w \in Workers, OthersKeep(w), Filling(w), Fill(w),
         ~Filling(w)', table' = table, \A u \in Workers \ {w} : dirty'[u] = dirty[u]
  PROVE  CauseInv'
<1>1. cur[w] \in Keys /\ row[w] \in Values
  BY DEF TypeInv, Located, Filling
<1>2. /\ cache'.entry[cur[w]] \in {row[w], NoValue}
      /\ \A k \in Keys \ {cur[w]} : cache'.entry[k] \in {cache.entry[k], NoValue}
  BY <1>1, PutCorrect DEF TypeInv, TypeOK, CacheWellFormed, Fill
<1>3. FillFresh'
  BY DEF CauseInv, FillFresh, Filling, OthersKeep
<1>4. \A k \in Keys : BeingInvalidated(k) => BeingInvalidated(k)'
  BY DEF BeingInvalidated, OthersKeep, Filling
<1>5. ASSUME NEW k \in Keys, Stale(k)'
      PROVE  k \in taint' \/ BeingInvalidated(k)'
  <2>1. CASE k = cur[w]
    BY <1>2, <1>5, <2>1 DEF Stale, Cached, Fill, CauseInv, FillFresh
  <2>2. CASE k # cur[w]
    <3>1. cache'.entry[k] = cache.entry[k] /\ Stale(k)
      BY <1>2, <1>5, <2>2 DEF Stale, Cached
    <3>2. k \in taint => k \in taint'
      BY <1>5, <2>2 DEF Fill, Stale
    <3> QED
      BY <1>4, <3>1, <3>2 DEF CauseInv, StaleHasCause
  <2> QED
    BY <2>1, <2>2
<1> QED
  BY <1>3, <1>5 DEF CauseInv, StaleHasCause

(* A committed write makes an entry stale only if it is about to be        *)
(* invalidated, or if its success is not reported, or if it already was.   *)
LEMMA CauseCommit ==
  ASSUME TypeInv, CauseInv, NEW w \in Workers, OthersKeep(w), NEW v \in Optional,
         req[w].id \in Keys, Commit(req[w].id, v), cache' = cache, req' = req,
         pc[w] \notin {"invalidate", "put", "list_put"}, ~Filling(w)',
         taint \subseteq taint',
         \/ pc'[w] = "invalidate"
         \/ Cached(cache, req[w].id) => req[w].id \in taint'
         \/ table[req[w].id] = NoValue
  PROVE  CauseInv'
<1>1. ASSUME NEW u \in Workers, Filling(u)'
      PROVE  dirty'[u] \/ row'[u] = table'[cur'[u]]
  <2>1. u # w /\ Filling(u) /\ cur'[u] = cur[u] /\ row'[u] = row[u] /\ cur[u] \in Keys
    BY <1>1 DEF OthersKeep, Filling, TypeInv, Located
  <2>2. CASE cur[u] = req[w].id
    BY <2>1, <2>2 DEF Commit
  <2>3. CASE cur[u] # req[w].id
    BY <2>1, <2>3 DEF Commit, CauseInv, FillFresh, TypeInv, TypeOK
  <2> QED
    BY <2>2, <2>3
<1>2. \A k \in Keys : BeingInvalidated(k) => BeingInvalidated(k)'
  BY DEF BeingInvalidated, OthersKeep
<1>3. ASSUME NEW k \in Keys, Stale(k)'
      PROVE  k \in taint' \/ BeingInvalidated(k)'
  <2>1. CASE k # req[w].id
    BY <1>2, <1>3, <2>1 DEF Commit, Stale, Cached, CauseInv, StaleHasCause, TypeInv, TypeOK
  <2>2. CASE k = req[w].id /\ pc'[w] = "invalidate"
    BY <2>2 DEF BeingInvalidated
  <2>3. CASE k = req[w].id /\ (Cached(cache, k) => k \in taint')
    BY <1>3, <2>3 DEF Stale
  <2>4. CASE k = req[w].id /\ table[k] = NoValue
    BY <1>2, <1>3, <2>4 DEF Stale, Cached, CauseInv, StaleHasCause
  <2> QED
    BY <2>1, <2>2, <2>3, <2>4
<1> QED
  BY <1>1, <1>3 DEF CauseInv, FillFresh, StaleHasCause

(* Deleting an entry removes its staleness and no other entry's cause.     *)
LEMMA CauseInvalidate ==
  ASSUME TypeInv, CauseInv, NEW w \in Workers, Invalidate(w)
  PROVE  CauseInv'
<1>1. req[w].id \in Keys
  BY DEF TypeInv, Located, Invalidate
<1>2. cache'.entry = [cache.entry EXCEPT ![req[w].id] = NoValue]
  BY <1>1, DeleteCorrect DEF TypeInv, TypeOK, CacheWellFormed, Invalidate
<1>3. FillFresh'
  BY DEF CauseInv, FillFresh, Filling, Invalidate, Answer, Goto, dbVars, TypeInv, TypeOK
<1>4. ASSUME NEW k \in Keys, Stale(k)'
      PROVE  k \in taint' \/ BeingInvalidated(k)'
  <2>1. k # req[w].id /\ Stale(k)
    BY <1>1, <1>2, <1>4 DEF Stale, Cached, Invalidate, dbVars, TypeInv, TypeOK, CacheStates
  <2>2. BeingInvalidated(k) => BeingInvalidated(k)'
    BY <2>1 DEF BeingInvalidated, Invalidate, Answer, Goto, TypeInv, TypeOK
  <2> QED
    BY <2>1, <2>2 DEF CauseInv, StaleHasCause, Invalidate
<1> QED
  BY <1>3, <1>4 DEF CauseInv, StaleHasCause

\* Fills, commits and invalidations keep every stale entry explained.
LEMMA CauseStep == TypeInv /\ CauseInv /\ [Next]_vars => CauseInv'
<1> SUFFICES ASSUME TypeInv, CauseInv, [Next]_vars
             PROVE  CauseInv'
  OBVIOUS
<1>1. ASSUME NEW w \in Workers, NEW r \in Requests, Accept(w, r)
      PROVE  CauseInv'
  BY <1>1, CauseReads DEF Accept, OthersKeep, Goto, dbVars, cacheVars, Filling, TypeInv, TypeOK
<1>2. ASSUME NEW w \in Workers, Connect(w)
      PROVE  CauseInv'
  <2>1. /\ \A u \in Workers \ {w} : pc'[u] = pc[u]
        /\ pc'[w] \notin {"put", "list_put"}
    <3>1. req[w].op \notin {"LIST", "OTHER"} /\ req[w].id # BadId =>
            Branch(req[w]) \in {"lookup", "insert", "update", "delete"}
      BY BranchOf DEF NoRequest, TypeInv, TypeOK
    <3> QED
      BY <1>2, <3>1 DEF Connect, Goto, Answer, TypeInv, TypeOK
  <2>2. /\ pc[w] = "connect" /\ table' = table /\ taint' = taint /\ cache' = cache
        /\ dirty' = dirty /\ req' = req /\ row' = row
        /\ \A u \in Workers \ {w} : cur'[u] = cur[u]
    BY <1>2 DEF Connect, dbVars, cacheVars, TypeInv, TypeOK
  <2> QED
    BY <2>1, <2>2, CauseReads DEF OthersKeep, Filling
<1>3. ASSUME NEW w \in Workers, ListIds(w)
      PROVE  CauseInv'
  <2>1. /\ \A u \in Workers \ {w} : pc'[u] = pc[u]
        /\ pc'[w] \in {"reply", "list"}
    BY <1>3, Zenon DEF ListIds, Goto, Answer, TypeInv, TypeOK
  <2> QED
    BY <1>3, <2>1, CauseReads DEF ListIds, OthersKeep, dbVars, cacheVars, Filling
<1>4. ASSUME NEW w \in Workers, ListLookup(w)
      PROVE  CauseInv'
  <2>1. /\ \A u \in Workers \ {w} : pc'[u] = pc[u] /\ cur'[u] = cur[u]
        /\ pc'[w] \in {"list", "list_fetch"}
        /\ cache'.entry = cache.entry
    BY <1>4, GetCorrect, NextIdType DEF ListLookup, Goto, TypeInv, TypeOK, CacheWellFormed
  <2> QED
    BY <1>4, <2>1, CauseReads DEF ListLookup, OthersKeep, dbVars, Filling
<1>5. ASSUME NEW w \in Workers, ListFetch(w)
      PROVE  CauseInv'
  <2>1. CASE NextId(w, cur[w]) /\ UNCHANGED <<row, dirty>>
    BY <1>5, <2>1, CauseReads, NextIdType
       DEF ListFetch, OthersKeep, dbVars, cacheVars, Filling
  <2>2. CASE /\ row' = [row EXCEPT ![w] = table[cur[w]]]
             /\ dirty' = [dirty EXCEPT ![w] = FALSE]
             /\ Goto(w, "list_put")
    BY <1>5, <2>2, CauseReads
       DEF ListFetch, OthersKeep, Goto, dbVars, cacheVars, Filling, TypeInv, TypeOK
  <2> QED
    BY <1>5, <2>1, <2>2 DEF ListFetch
<1>6. ASSUME NEW w \in Workers, ListPut(w)
      PROVE  CauseInv'
  <2>1. OthersKeep(w) /\ Filling(w) /\ ~Filling(w)'
    BY <1>6, NextIdType, FreeOthers DEF ListPut, OthersKeep, Filling
  <2> QED
    BY <1>6, <2>1, CauseFill, FreeOthers DEF ListPut, dbVars
<1>7. ASSUME NEW w \in Workers, GetLookup(w)
      PROVE  CauseInv'
  <2>1. cache'.entry = cache.entry
    BY <1>7, GetCorrect DEF GetLookup, TypeInv, TypeOK, CacheWellFormed, Located
  <2>2. /\ \A u \in Workers \ {w} : pc'[u] = pc[u]
        /\ pc'[w] \in {"reply", "fetch"}
    BY <1>7 DEF GetLookup, Goto, Answer, TypeInv, TypeOK
  <2> QED
    BY <1>7, <2>1, <2>2, CauseReads DEF GetLookup, OthersKeep, dbVars, Filling
<1>8. ASSUME NEW w \in Workers, GetFetch(w)
      PROVE  CauseInv'
  <2>1. /\ pc[w] = "fetch" /\ table' = table /\ taint' = taint /\ cache' = cache /\ cur' = cur
        /\ OthersKeep(w) /\ \A u \in Workers \ {w} : dirty'[u] = dirty[u]
    BY <1>8 DEF GetFetch, OthersKeep, Goto, Answer, dbVars, cacheVars, TypeInv, TypeOK
  <2>2. \/ pc'[w] = "put" /\ row'[w] = table[cur[w]]
        \/ pc'[w] = "reply"
    BY <1>8 DEF GetFetch, Goto, Answer, TypeInv, TypeOK
  <2> QED
    BY <2>1, <2>2, CauseReads DEF Filling
<1>9. ASSUME NEW w \in Workers, GetPut(w)
      PROVE  CauseInv'
  <2>1. OthersKeep(w) /\ Filling(w) /\ ~Filling(w)'
    BY <1>9, FreeOthers DEF GetPut, OthersKeep, Answer, Goto, Filling, TypeInv, TypeOK
  <2> QED
    BY <1>9, <2>1, CauseFill, FreeOthers DEF GetPut, dbVars
<1>10. ASSUME NEW w \in Workers, Insert(w)
       PROVE  CauseInv'
  <2>1. OthersKeep(w) /\ ~Filling(w)' /\ req[w].id \in Keys /\ req[w].row \in Optional
    BY <1>10 DEF Insert, OthersKeep, Answer, Goto, Filling, TypeInv, TypeOK, Located, Optional
  <2>2. CASE UNCHANGED <<dbVars, dirty, taint>>
    BY <1>10, <2>1, <2>2, CauseReads DEF Insert, dbVars
  <2>3. CASE /\ Commit(req[w].id, req[w].row) /\ table[req[w].id] = NoValue
             /\ taint \subseteq taint'
    BY <1>10, <2>1, <2>3, CauseCommit DEF Insert
  <2> QED
    BY <1>10, <2>2, <2>3 DEF Insert, LostWrite
<1>11. ASSUME NEW w \in Workers, NEW v \in Optional, Write(w, v), req[w].id \in Keys,
              pc[w] \in {"update", "delete"}
       PROVE  CauseInv'
  <2>1. PICK o \in Outcomes :
          /\ IF o = "error" THEN UNCHANGED <<dbVars, dirty>> ELSE Commit(req[w].id, v)
          /\ IF o = "ok" THEN Goto(w, "invalidate") /\ UNCHANGED status
                         ELSE Answer(w, "500")
          /\ IF o = "lost" THEN LostWrite(w) ELSE UNCHANGED taint
    BY <1>11 DEF Write
  <2>2. /\ OthersKeep(w) /\ ~Filling(w)' /\ cache' = cache /\ req' = req
        /\ o = "ok" => pc'[w] = "invalidate"
    BY <1>11, <2>1 DEF Write, OthersKeep, Answer, Goto, Filling, TypeInv, TypeOK
  <2>3. CASE o = "error"
    BY <1>11, <2>1, <2>2, <2>3, CauseReads DEF dbVars
  <2>4. CASE o = "ok"
    BY <1>11, <2>1, <2>2, <2>4, CauseCommit
  <2>5. CASE o = "lost"
    BY <1>11, <2>1, <2>2, <2>5, CauseCommit DEF LostWrite
  <2> QED
    BY <2>3, <2>4, <2>5, OutcomesAssumption
<1>12. ASSUME NEW w \in Workers, Update(w)
       PROVE  CauseInv'
  BY <1>11, <1>12 DEF Update, TypeInv, Located, Optional
<1>13. ASSUME NEW w \in Workers, Delete(w)
       PROVE  CauseInv'
  BY <1>11, <1>13 DEF Delete, TypeInv, Located, Optional
<1>14. ASSUME NEW w \in Workers, Invalidate(w)
       PROVE  CauseInv'
  BY <1>14, CauseInvalidate
<1>15. ASSUME NEW w \in Workers, Return(w)
       PROVE  CauseInv'
  BY <1>15, CauseReads DEF Return, OthersKeep, Goto, dbVars, cacheVars, Filling, TypeInv, TypeOK
<1>16. CASE Truncate
  BY <1>16 DEF Truncate, CauseInv, FillFresh, Filling, StaleHasCause, Stale, Cached
<1>17. CASE UNCHANGED vars
  BY <1>17 DEF vars, dbVars, cacheVars, workerVars, CauseInv, FillFresh, Filling,
     StaleHasCause, Stale, Cached, BeingInvalidated
<1>18. ASSUME NEW w \in Workers, ListClose(w) \/ ListNoMemory(w)
       PROVE  CauseInv'
  <2>1. /\ pc[w] = "list" /\ pc' = [pc EXCEPT ![w] = "reply"]
        /\ UNCHANGED <<dbVars, cacheVars, req, cur, row, dirty>>
    BY <1>18, ListEndType
  <2>2. OthersKeep(w) /\ ~Filling(w)'
    BY <2>1 DEF OthersKeep, Filling, TypeInv, TypeOK
  <2> QED
    BY <2>1, <2>2, CauseReads DEF dbVars, cacheVars
<1> QED
  BY <1>1, <1>2, <1>3, <1>4, <1>5, <1>6, <1>7, <1>8, <1>9, <1>10, <1>12, <1>13,
     <1>14, <1>15, <1>16, <1>17, <1>18 DEF Next, Handle

(* No interleaving leaves an entry that disagrees with the table but by    *)
(* one of the three causes StaleHasCause names.                            *)
THEOREM StaleEntriesHaveACause == Spec => []StaleHasCause
<1>1. Init => CauseInv
  BY DEF Init, CauseInv, FillFresh, Filling, StaleHasCause, Stale, Cached, cache_create
<1>2. CauseInv => StaleHasCause
  BY DEF CauseInv
<1> QED
  BY <1>1, <1>2, TypeCorrect, CauseStep, PTL DEF Spec

-----------------------------------------------------------------------------
(***************************************************************************)
(* While requests are serial, one worker at most is in the handler and     *)
(* nothing but its own reported writes changes the table: nothing          *)
(* overtakes a row, so no id is ever in taint.                             *)
(***************************************************************************)
Alone == \A u, w \in Workers : pc[u] # "idle" /\ pc[w] # "idle" => u = w

Undisturbed == taint = {} /\ (\A w \in Workers : ~dirty[w]) /\ Alone

SerialInv == serial => Undisturbed

(* A handler's step is that of a worker with a request, and moves no other. *)
LEMMA HandleMoves ==
  ASSUME TypeInv, NEW w \in Workers, Handle(w)
  PROVE  pc[w] # "idle" /\ \A u \in Workers \ {w} : pc'[u] = pc[u]
<1> USE DEF Goto, Answer, TypeInv, TypeOK
<1>1. CASE Connect(w)
  BY <1>1 DEF Connect
<1>2. CASE ListIds(w)
  BY <1>2 DEF ListIds
<1>3. CASE ListLookup(w)
  BY <1>3 DEF ListLookup, NextId
<1>4. CASE ListFetch(w)
  BY <1>4 DEF ListFetch, NextId
<1>5. CASE ListPut(w)
  BY <1>5 DEF ListPut, NextId
<1>6. CASE GetLookup(w) \/ GetFetch(w) \/ GetPut(w)
  BY <1>6 DEF GetLookup, GetFetch, GetPut
<1>7. CASE Insert(w) \/ Invalidate(w) \/ Return(w)
  BY <1>7 DEF Insert, Invalidate, Return
<1>8. CASE Update(w) \/ Delete(w)
  BY <1>8 DEF Update, Delete, Write
<1>9. CASE ListClose(w) \/ ListNoMemory(w)
  BY <1>9, ListEndType
<1> QED
  BY <1>1, <1>2, <1>3, <1>4, <1>5, <1>6, <1>7, <1>8, <1>9 DEF Handle

(* The lone worker's step overtakes no row and leaves no write unreported. *)
LEMMA UndisturbedStep ==
  ASSUME TypeInv, Undisturbed, NEW w \in Workers, Handle(w), serial'
  PROVE  taint' = {} /\ \A u \in Workers : ~dirty'[u]
<1>1. \A u \in Workers \ {w} : ~Filling(u)
  BY HandleMoves DEF Undisturbed, Alone, Filling
<1>2. ASSUME NEW k, NEW v, Commit(k, v), ~Filling(w)
      PROVE  \A u \in Workers : ~dirty'[u]
  BY <1>1, <1>2 DEF Commit, Undisturbed
<1>3. ASSUME Fill(w)
      PROVE  taint' = {}
  BY <1>3 DEF Fill, Undisturbed
<1>4. ASSUME NEW o, Record(w, o)
      PROVE  o # "lost"
  BY <1>4 DEF Record
<1>5. ASSUME NEW v, Write(w, v), ~Filling(w)
      PROVE  taint' = {} /\ \A u \in Workers : ~dirty'[u]
  <2>1. taint' = taint
    BY <1>4, <1>5 DEF Write
  <2>2. \A u \in Workers : ~dirty'[u]
    BY <1>2, <1>5 DEF Write, Undisturbed
  <2> QED
    BY <2>1, <2>2 DEF Undisturbed
<1>6. CASE Insert(w)
  <2>1. taint' = taint
    BY <1>4, <1>6 DEF Insert
  <2>2. \A u \in Workers : ~dirty'[u]
    BY <1>2, <1>6 DEF Insert, Filling, Undisturbed
  <2> QED
    BY <2>1, <2>2 DEF Undisturbed
<1>7. CASE ListPut(w) \/ GetPut(w)
  BY <1>3, <1>7, FreeOthers DEF ListPut, GetPut, Undisturbed
<1>8. CASE Update(w) \/ Delete(w)
  BY <1>5, <1>8 DEF Update, Delete, Filling
<1>9. CASE ListFetch(w) \/ GetFetch(w) \/ Return(w)
  BY <1>9 DEF ListFetch, GetFetch, Return, cacheVars, Undisturbed, TypeInv, TypeOK
<1>10. CASE Connect(w) \/ ListIds(w) \/ ListLookup(w) \/ GetLookup(w) \/ Invalidate(w)
  BY <1>10 DEF Connect, ListIds, ListLookup, GetLookup, Invalidate, cacheVars, Undisturbed
<1>11. CASE ListClose(w) \/ ListNoMemory(w)
  BY <1>11 DEF ListClose, ListNoMemory, cacheVars, Undisturbed
<1> QED
  BY <1>6, <1>7, <1>8, <1>9, <1>10, <1>11 DEF Handle

(* What is serial was serial before. *)
LEMMA SerialFalls ==
  ASSUME [Next]_vars, serial'
  PROVE  serial
<1>1. ASSUME NEW w \in Workers, NEW o, Record(w, o)
      PROVE  serial
  BY <1>1 DEF Record
<1>2. ASSUME NEW w \in Workers, Handle(w)
      PROVE  serial
  <2>1. CASE Connect(w)
    BY <1>1, <2>1 DEF Connect, courseVars
  <2>2. CASE ListIds(w) \/ ListFetch(w) \/ GetFetch(w)
    BY <1>1, <2>2 DEF ListIds, ListFetch, GetFetch
  <2>3. CASE ListLookup(w) \/ ListPut(w) \/ GetLookup(w) \/ GetPut(w) \/ Invalidate(w)
    BY <2>3 DEF ListLookup, ListPut, GetLookup, GetPut, Invalidate, courseVars
  <2>4. CASE Insert(w)
    BY <1>1, <2>4 DEF Insert
  <2>5. CASE Update(w) \/ Delete(w)
    BY <1>1, <2>5 DEF Update, Delete, Write
  <2>6. CASE Return(w)
    BY <2>6 DEF Return
  <2>7. CASE ListClose(w) \/ ListNoMemory(w)
    BY <1>1, <2>7 DEF ListClose, ListNoMemory, courseVars
  <2> QED
    BY <1>2, <2>1, <2>2, <2>3, <2>4, <2>5, <2>6, <2>7 DEF Handle
<1>3. ASSUME NEW w \in Workers, NEW r, Accept(w, r)
      PROVE  serial
  BY <1>3 DEF Accept
<1>4. CASE Truncate
  BY <1>4 DEF Truncate
<1>5. CASE UNCHANGED vars
  BY <1>5 DEF vars, courseVars
<1> QED
  BY <1>2, <1>3, <1>4, <1>5 DEF Next

\* While requests do not overlap, no step taints an entry.
LEMMA SerialStep == TypeInv /\ SerialInv /\ [Next]_vars => SerialInv'
<1> SUFFICES ASSUME TypeInv, SerialInv, [Next]_vars, serial'
             PROVE  Undisturbed'
  BY DEF SerialInv
<1>1. Undisturbed
  BY SerialFalls DEF SerialInv
<1>2. ASSUME NEW w \in Workers, Handle(w)
      PROVE  Undisturbed'
  <2>1. taint' = {} /\ \A u \in Workers : ~dirty'[u]
    BY <1>1, <1>2, UndisturbedStep
  <2>2. Alone'
    BY <1>1, <1>2, HandleMoves DEF Undisturbed, Alone
  <2> QED
    BY <2>1, <2>2 DEF Undisturbed
<1>3. ASSUME NEW w \in Workers, NEW r, Accept(w, r)
      PROVE  Undisturbed'
  <2>1. taint' = taint /\ dirty' = dirty
    BY <1>3 DEF Accept, cacheVars
  <2>2. Alone'
    BY <1>3 DEF Accept, Goto, Alone, TypeInv, TypeOK
  <2> QED
    BY <1>1, <2>1, <2>2 DEF Undisturbed
<1>4. CASE Truncate
  BY <1>4 DEF Truncate
<1>5. CASE UNCHANGED vars
  BY <1>1, <1>5 DEF vars, cacheVars, workerVars, Undisturbed, Alone
<1> QED
  BY <1>2, <1>3, <1>4, <1>5 DEF Next

(* As long as requests are served one after the other, their statements    *)
(* are not lost and nobody else writes the table, the cache agrees with    *)
(* the table whenever the server idles: handle_employee is right as        *)
(* sequential code.                                                        *)
THEOREM SequentialCoherence == Spec => []QuiescentCoherence
<1>1. Init => SerialInv
  BY DEF Init, SerialInv, Undisturbed, Alone
<1>2. StaleHasCause /\ SerialInv => QuiescentCoherence
  BY DEF StaleHasCause, SerialInv, Undisturbed, QuiescentCoherence, Quiescent, BeingInvalidated
<1> QED
  BY <1>1, <1>2, TypeCorrect, SerialStep, StaleEntriesHaveACause, PTL DEF Spec

-----------------------------------------------------------------------------
(***************************************************************************)
(* Provenance.  A row reaches a response from the table by way of the      *)
(* worker's local or of the cache, under one and the same id all the way.  *)
(***************************************************************************)
RealInv ==
  /\ ServedWasReal
  /\ \A k \in Keys : table[k] # NoValue => table[k] \in had[k]
  /\ \A w \in Workers : Filling(w) => row[w] \in had[cur[w]]

HadGrows == \A k \in Keys : had[k] \subseteq had'[k]

(* A response stays real when a row that is real is appended to it.        *)
LEMMA AppendReal ==
  ASSUME TypeInv, ServedWasReal, NEW w \in Workers, NEW k \in Keys, NEW v \in had[k],
         Append1(w, k, v), had' = had
  PROVE  \A u \in Workers : \A i \in DOMAIN out'[u] : out'[u][i].row \in had'[out'[u][i].id]
<1> DEFINE item == [sep |-> ~first[w], id |-> k, row |-> v]
<1>1. item \in Items /\ item.id = k /\ item.row = v
  BY DEF TypeInv, TypeOK, Items
<1>2. out' = [out EXCEPT ![w] = Append(out[w], item)] /\ out[w] \in Seq(Items)
  BY DEF Append1, TypeInv, TypeOK
<1> HIDE DEF item
<1>3. \A i \in DOMAIN Append(out[w], item) :
        Append(out[w], item)[i] = item \/ (i \in DOMAIN out[w] /\ Append(out[w], item)[i] = out[w][i])
  BY <1>1, <1>2, AppendProperties, LenProperties
<1>4. \A i \in DOMAIN out'[w] : out'[w][i].row \in had'[out'[w][i].id]
  BY <1>1, <1>2, <1>3 DEF ServedWasReal, TypeInv, TypeOK
<1> QED
  BY <1>2, <1>4 DEF ServedWasReal, TypeInv, TypeOK

(* A step that changes no entry, response or row on its way keeps them all *)
(* real, whatever it adds to the rows that were had.                       *)
LEMMA RealKept ==
  ASSUME TypeInv, RealInv, HadGrows,
         \A k \in Keys : cache'.entry[k] \in {cache.entry[k], NoValue},
         \A w \in Workers : out'[w] \in {out[w], <<>>},
         \A k \in Keys : table'[k] # NoValue => table'[k] \in had'[k],
         \A w \in Workers : Filling(w)' =>
           \/ Filling(w) /\ row'[w] = row[w] /\ cur'[w] = cur[w]
           \/ cur'[w] \in Keys /\ row'[w] \in had'[cur'[w]]
  PROVE  RealInv'
<1>1. \A k \in Keys : Cached(cache, k)' => cache'.entry[k] \in had'[k]
  BY DEF RealInv, ServedWasReal, HadGrows, Cached
<1>2. ASSUME NEW w \in Workers, NEW i \in DOMAIN out'[w]
      PROVE  out'[w][i].row \in had'[out'[w][i].id]
  <2>1. out'[w] = out[w] /\ out[w][i] \in Items
    BY <1>2, EmptySeq, ElementOfSeq, LenProperties DEF TypeInv, TypeOK
  <2> QED
    BY <1>2, <2>1 DEF RealInv, ServedWasReal, HadGrows, Items
<1>3. \A w \in Workers : Filling(w)' => row'[w] \in had'[cur'[w]]
  BY DEF RealInv, HadGrows, TypeInv, Located, Filling
<1> QED
  BY <1>1, <1>2, <1>3 DEF RealInv, ServedWasReal

(* A step that serves a row that is real, and may cache it, keeps all so.  *)
LEMMA RealServed ==
  ASSUME TypeInv, RealInv, NEW w \in Workers, NEW k \in Keys, NEW v \in had[k],
         Append1(w, k, v), had' = had, table' = table, OthersKeep(w), ~Filling(w)',
         \A j \in Keys \ {k} : cache'.entry[j] \in {cache.entry[j], NoValue},
         cache'.entry[k] \in {cache.entry[k], v, NoValue}
  PROVE  RealInv'
<1>1. \A j \in Keys : Cached(cache, j)' => cache'.entry[j] \in had'[j]
  BY DEF RealInv, ServedWasReal, Cached
<1>2. \A u \in Workers : \A i \in DOMAIN out'[u] : out'[u][i].row \in had'[out'[u][i].id]
  BY AppendReal DEF RealInv
<1>3. \A u \in Workers : Filling(u)' => row'[u] \in had'[cur'[u]]
  BY DEF RealInv, OthersKeep, Filling
<1> QED
  BY <1>1, <1>2, <1>3 DEF RealInv, ServedWasReal

\* A row on its way to the cache or to a client is one its id has had.
LEMMA RealStep == TypeInv /\ RealInv /\ [Next]_vars => RealInv'
<1> SUFFICES ASSUME TypeInv, RealInv, [Next]_vars
             PROVE  RealInv'
  OBVIOUS
<1>1. ASSUME NEW w \in Workers, NEW r \in Requests, Accept(w, r)
      PROVE  RealInv'
  BY <1>1, RealKept
     DEF Accept, Goto, dbVars, cacheVars, Filling, HadGrows, RealInv, TypeInv, TypeOK
<1>2. ASSUME NEW w \in Workers, Connect(w)
      PROVE  RealInv'
  <2>1. req[w].op \notin {"LIST", "OTHER"} /\ req[w].id # BadId =>
          Branch(req[w]) \in {"lookup", "insert", "update", "delete"}
    BY BranchOf DEF NoRequest, TypeInv, TypeOK
  <2>2. /\ \A u \in Workers \ {w} : pc'[u] = pc[u] /\ cur'[u] = cur[u]
        /\ pc'[w] \notin {"put", "list_put"}
    BY <1>2, <2>1 DEF Connect, Goto, Answer, TypeInv, TypeOK
  <2>3. table' = table /\ had' = had /\ cache' = cache /\ out' = out /\ row' = row
    BY <1>2 DEF Connect, dbVars, cacheVars
  <2> QED
    BY <2>2, <2>3, RealKept DEF Filling, HadGrows, RealInv
<1>3. ASSUME NEW w \in Workers, ListIds(w)
      PROVE  RealInv'
  <2>1. /\ \A u \in Workers \ {w} : pc'[u] = pc[u]
        /\ pc'[w] \in {"reply", "list"}
    BY <1>3, Zenon DEF ListIds, Goto, Answer, TypeInv, TypeOK
  <2> QED
    BY <1>3, <2>1, RealKept DEF ListIds, dbVars, cacheVars, Filling, HadGrows, RealInv
<1>4. ASSUME NEW w \in Workers, ListLookup(w)
      PROVE  RealInv'
  <2>1. PICK k \in todo[w] :
          /\ cur' = [cur EXCEPT ![w] = k]
          /\ cache' = cache_get(cache, k)
          /\ IF Cached(cache, k)
             THEN Append1(w, k, cache.entry[k]) /\ NextId(w, k)
             ELSE Goto(w, "list_fetch") /\ UNCHANGED <<todo, first, out, status>>
    BY <1>4 DEF ListLookup
  <2>2. k \in Keys /\ cache'.entry = cache.entry
    BY <2>1, GetCorrect DEF TypeInv, TypeOK, CacheWellFormed
  <2>3. \A u \in Workers \ {w} : pc'[u] = pc[u] /\ cur'[u] = cur[u]
    BY <2>1, NextIdType DEF Goto, TypeInv, TypeOK
  <2>4. CASE Cached(cache, k)
    <3>1. cache.entry[k] \in had[k] /\ ~Filling(w)'
      BY <2>1, <2>2, <2>4, NextIdType DEF RealInv, ServedWasReal, Filling
    <3>2. had' = had /\ table' = table /\ OthersKeep(w)
      BY <1>4, <2>3 DEF ListLookup, dbVars, OthersKeep
    <3> QED
      BY <2>1, <2>2, <2>4, <3>1, <3>2, RealServed
  <2>5. CASE ~Cached(cache, k)
    <3>1. ~Filling(w)'
      BY <2>1, <2>5 DEF Goto, Filling, TypeInv, TypeOK
    <3> QED
      BY <1>4, <2>1, <2>2, <2>3, <2>5, <3>1, RealKept
         DEF ListLookup, dbVars, Filling, HadGrows, RealInv
  <2> QED
    BY <2>4, <2>5
<1>5. ASSUME NEW w \in Workers, ListFetch(w)
      PROVE  RealInv'
  <2>1. CASE NextId(w, cur[w]) /\ UNCHANGED <<row, dirty>>
    BY <1>5, <2>1, NextIdType, RealKept
       DEF ListFetch, dbVars, cacheVars, Filling, HadGrows, RealInv
  <2>2. CASE /\ table[cur[w]] # NoValue
             /\ row' = [row EXCEPT ![w] = table[cur[w]]]
             /\ Goto(w, "list_put")
    <3>1. cur[w] \in Keys
      BY <1>5 DEF ListFetch, TypeInv, Located
    <3>2. /\ pc' = [pc EXCEPT ![w] = "list_put"] /\ row'[w] \in had'[cur'[w]]
          /\ \A u \in Workers \ {w} : pc'[u] = pc[u] /\ row'[u] = row[u]
      BY <1>5, <2>2, <3>1 DEF ListFetch, Goto, dbVars, RealInv, TypeInv, TypeOK
    <3> QED
      BY <1>5, <3>1, <3>2, RealKept
         DEF ListFetch, dbVars, cacheVars, Filling, HadGrows, RealInv
  <2> QED
    BY <1>5, <2>1, <2>2 DEF ListFetch
<1>6. ASSUME NEW w \in Workers, Filling(w), Fill(w), Append1(w, cur[w], row[w]),
             had' = had, table' = table, OthersKeep(w), ~Filling(w)'
      PROVE  RealInv'
  <2>1. cur[w] \in Keys /\ row[w] \in Values /\ row[w] \in had[cur[w]]
    BY <1>6 DEF TypeInv, Located, Filling, RealInv
  <2>2. /\ cache'.entry[cur[w]] \in {row[w], NoValue}
        /\ \A k \in Keys \ {cur[w]} : cache'.entry[k] \in {cache.entry[k], NoValue}
    BY <1>6, <2>1, PutCorrect DEF TypeInv, TypeOK, CacheWellFormed, Fill
  <2> QED
    BY <1>6, <2>1, <2>2, RealServed
<1>7. ASSUME NEW w \in Workers, ListPut(w) \/ GetPut(w)
      PROVE  RealInv'
  <2>1. /\ Filling(w) /\ OthersKeep(w) /\ ~Filling(w)'
    BY <1>7, NextIdType, FreeOthers
       DEF ListPut, GetPut, Answer, Goto, Filling, OthersKeep, TypeInv, TypeOK
  <2> QED
    BY <1>6, <1>7, <2>1 DEF ListPut, GetPut, dbVars
<1>8. ASSUME NEW w \in Workers, GetLookup(w)
      PROVE  RealInv'
  <2>1. cur[w] \in Keys /\ cache'.entry = cache.entry
    BY <1>8, GetCorrect DEF GetLookup, TypeInv, TypeOK, CacheWellFormed, Located
  <2>2. OthersKeep(w) /\ pc'[w] \in {"reply", "fetch"}
    BY <1>8 DEF GetLookup, OthersKeep, Goto, Answer, TypeInv, TypeOK
  <2>3. CASE Cached(cache, cur[w])
    <3>1. cache.entry[cur[w]] \in had[cur[w]]
      BY <2>1, <2>3 DEF RealInv, ServedWasReal
    <3> QED
      BY <1>8, <2>1, <2>2, <2>3, <3>1, RealServed DEF GetLookup, dbVars, Filling
  <2>4. CASE ~Cached(cache, cur[w])
    BY <1>8, <2>1, <2>2, <2>4, RealKept
       DEF GetLookup, OthersKeep, dbVars, Filling, HadGrows, RealInv
  <2> QED
    BY <2>3, <2>4
<1>9. ASSUME NEW w \in Workers, GetFetch(w)
      PROVE  RealInv'
  <2>1. cur[w] \in Keys /\ \A u \in Workers \ {w} : pc'[u] = pc[u] /\ row'[u] = row[u]
    BY <1>9 DEF GetFetch, Goto, Answer, TypeInv, TypeOK, Located
  <2>2. Filling(w)' => row'[w] \in had[cur[w]]
    BY <1>9, <2>1 DEF GetFetch, Goto, Answer, Filling, RealInv, TypeInv, TypeOK
  <2> QED
    BY <1>9, <2>1, <2>2, RealKept
       DEF GetFetch, dbVars, cacheVars, Filling, HadGrows, RealInv
<1>10. ASSUME NEW k \in Keys, NEW v \in Optional, Commit(k, v)
       PROVE  HadGrows /\ \A j \in Keys : table'[j] # NoValue => table'[j] \in had'[j]
  BY <1>10 DEF Commit, HadGrows, RealInv, TypeInv, TypeOK
<1>11. ASSUME NEW w \in Workers, cache' = cache, cur' = cur, row' = row, out' = out,
              OthersKeep(w), ~Filling(w)', NEW v \in Optional, req[w].id \in Keys,
              UNCHANGED dbVars \/ Commit(req[w].id, v)
       PROVE  RealInv'
  <2>1. HadGrows /\ \A j \in Keys : table'[j] # NoValue => table'[j] \in had'[j]
    BY <1>10, <1>11 DEF dbVars, HadGrows, RealInv
  <2> QED
    BY <1>11, <2>1, RealKept DEF OthersKeep, Filling
<1>12. ASSUME NEW w \in Workers, Insert(w)
       PROVE  RealInv'
  <2>1. OthersKeep(w) /\ ~Filling(w)' /\ req[w].id \in Keys /\ req[w].row \in Optional
    BY <1>12 DEF Insert, OthersKeep, Answer, Goto, Filling, TypeInv, TypeOK, Located, Optional
  <2> QED
    BY <1>11, <1>12, <2>1 DEF Insert
<1>13. ASSUME NEW w \in Workers, NEW v \in Optional, Write(w, v), req[w].id \in Keys,
              ~Filling(w)
       PROVE  RealInv'
  <2>1. OthersKeep(w) /\ ~Filling(w)'
    BY <1>13 DEF Write, OthersKeep, Answer, Goto, Filling, TypeInv, TypeOK
  <2> QED
    BY <1>11, <1>13, <2>1 DEF Write
<1>14. ASSUME NEW w \in Workers, Update(w) \/ Delete(w)
       PROVE  RealInv'
  BY <1>13, <1>14 DEF Update, Delete, TypeInv, Located, Optional, Filling
<1>15. ASSUME NEW w \in Workers, Invalidate(w)
       PROVE  RealInv'
  <2>1. \A k \in Keys : cache'.entry[k] \in {cache.entry[k], NoValue}
    <3>1. req[w].id \in Keys /\ cache.entry \in [Keys -> Optional]
      BY <1>15 DEF Invalidate, TypeInv, TypeOK, Located, CacheStates
    <3>2. cache'.entry = [cache.entry EXCEPT ![req[w].id] = NoValue]
      BY <1>15, <3>1, DeleteCorrect DEF Invalidate, TypeInv, TypeOK, CacheWellFormed
    <3> QED
      BY <3>1, <3>2
  <2> QED
    BY <1>15, <2>1, RealKept
       DEF Invalidate, Answer, Goto, dbVars, Filling, HadGrows, RealInv, TypeInv, TypeOK
<1>16. ASSUME NEW w \in Workers, Return(w)
       PROVE  RealInv'
  BY <1>16, RealKept
     DEF Return, Goto, dbVars, cacheVars, Filling, HadGrows, RealInv, TypeInv, TypeOK
<1>17. CASE Truncate
  BY <1>17, RealKept DEF Truncate, Filling, HadGrows, RealInv
<1>18. CASE UNCHANGED vars
  BY <1>18, RealKept DEF vars, dbVars, cacheVars, workerVars, Filling, HadGrows, RealInv
<1>19. ASSUME NEW w \in Workers, ListClose(w) \/ ListNoMemory(w)
       PROVE  RealInv'
  <2>1. \A u \in Workers : out'[u] \in {out[u], <<>>}
    BY <1>19 DEF ListClose, ListNoMemory, TypeInv, TypeOK
  <2>2. \A u \in Workers : Filling(u)' => Filling(u)
    <3>1. pc' = [pc EXCEPT ![w] = "reply"]
      BY <1>19, ListEndType
    <3> QED
      BY <3>1 DEF Filling, TypeInv, TypeOK
  <2>3. /\ table' = table /\ had' = had /\ cache' = cache /\ row' = row /\ cur' = cur
    BY <1>19, ListEndType DEF dbVars, cacheVars
  <2> QED
    BY <2>1, <2>2, <2>3, RealKept DEF HadGrows, RealInv
<1> QED
  BY <1>1, <1>2, <1>3, <1>4, <1>5, <1>7, <1>8, <1>9, <1>12, <1>14, <1>15, <1>16,
     <1>17, <1>18, <1>19 DEF Next, Handle

(* Every row served is one its id has had: no interleaving, eviction or    *)
(* refill hands a reader the row of another employee.                      *)
THEOREM ServedRowsAreReal == Spec => []ServedWasReal
<1>1. Init => RealInv
  BY LenProperties DEF Init, RealInv, ServedWasReal, Filling, Cached, cache_create, Optional
<1>2. RealInv => ServedWasReal
  BY DEF RealInv
<1> QED
  BY <1>1, <1>2, TypeCorrect, RealStep, PTL DEF Spec

-----------------------------------------------------------------------------
(***************************************************************************)
(* The employees a response names so far are not among the ids that its    *)
(* list loop has yet to try, and it is empty until something is found.     *)
(***************************************************************************)
Listed(w) == {out[w][i].id : i \in DOMAIN out[w]}

NamedOnce(w) == \A i, j \in DOMAIN out[w] : out[w][i].id = out[w][j].id => i = j

OnceOf(w) ==
  /\ NamedOnce(w)
  /\ pc[w] \in {"idle", "connect", "ids", "lookup", "fetch", "put"} => out[w] = <<>>
  /\ pc[w] \in {"list", "list_fetch", "list_put"} => Listed(w) \cap todo[w] = {}
  /\ pc[w] \in {"list_fetch", "list_put"} => cur[w] \in todo[w]

OnceInv == \A w \in Workers : OnceOf(w)

\* What a worker has listed depends on its own locals alone.
LEMMA OnceUntouched ==
  ASSUME NEW u \in Workers, OnceOf(u), pc'[u] = pc[u], out'[u] = out[u], todo'[u] = todo[u],
         cur'[u] = cur[u]
  PROVE  OnceOf(u)'
  BY DEF OnceOf, Listed, NamedOnce

\* An employee that is not in the response yet is appended.
LEMMA AppendOnce ==
  ASSUME TypeInv, NEW w \in Workers, NEW k \in Keys, NEW v \in Values, Append1(w, k, v),
         NamedOnce(w), k \notin Listed(w)
  PROVE  NamedOnce(w)' /\ Listed(w)' = Listed(w) \cup {k}
<1> DEFINE e == [sep |-> ~first[w], id |-> k, row |-> v]
<1>1. out[w] \in Seq(Items) /\ e \in Items
  BY DEF TypeInv, TypeOK, Items
<1>2. out'[w] = Append(out[w], e)
  BY DEF Append1, TypeInv, TypeOK
<1>3. e.id = k
  OBVIOUS
<1> HIDE DEF e
<1>4. /\ DOMAIN out[w] = 1..Len(out[w]) /\ Len(out[w]) \in Nat
      /\ DOMAIN out'[w] = 1..(Len(out[w]) + 1)
      /\ \A i \in DOMAIN out[w] : out'[w][i] = out[w][i]
      /\ out'[w][Len(out[w]) + 1] = e
  BY <1>1, <1>2
<1>5. \A i \in DOMAIN out[w] : out[w][i].id # k
  BY DEF Listed
<1>6. DOMAIN out'[w] = DOMAIN out[w] \cup {Len(out[w]) + 1}
  BY <1>4
<1>7. NamedOnce(w)'
  BY <1>3, <1>4, <1>5, <1>6 DEF NamedOnce
<1>8. Listed(w)' = Listed(w) \cup {k}
  BY <1>3, <1>4, <1>6 DEF Listed
<1>9. QED
  BY <1>7, <1>8

\* The id that an iteration is about is not in the response, and leaves todo.
LEMMA ListOnce ==
  ASSUME TypeInv, NEW w \in Workers, OnceOf(w), NEW k \in todo[w], NEW v \in Values,
         pc[w] \in {"list", "list_put"}, Append1(w, k, v), NextId(w, k)
  PROVE  OnceOf(w)'
<1>1. k \in Keys /\ k \notin Listed(w) /\ NamedOnce(w) /\ Listed(w) \cap todo[w] = {}
  BY DEF OnceOf, TypeInv, TypeOK
<1>2. NamedOnce(w)' /\ Listed(w)' = Listed(w) \cup {k}
  BY <1>1, AppendOnce
<1>3. todo'[w] = todo[w] \ {k} /\ pc'[w] = "list"
  BY NextIdType DEF NextId, TypeInv, TypeOK
<1>4. QED
  BY <1>1, <1>2, <1>3 DEF OnceOf

\* An employee that is not found leaves the response as it is.
LEMMA SkipOnce ==
  ASSUME TypeInv, NEW w \in Workers, OnceOf(w), pc[w] = "list_fetch", NextId(w, cur[w]),
         UNCHANGED out
  PROVE  OnceOf(w)'
<1>1. todo'[w] \subseteq todo[w] /\ pc'[w] = "list"
  BY NextIdType DEF NextId, TypeInv, TypeOK
<1>2. NamedOnce(w)' /\ Listed(w)' = Listed(w)
  BY DEF OnceOf, NamedOnce, Listed
<1>3. QED
  BY <1>1, <1>2 DEF OnceOf

\* GET of one employee appends to a response that is empty.
LEMMA SingleOnce ==
  ASSUME TypeInv, NEW w \in Workers, OnceOf(w), NEW k \in Keys, NEW v \in Values,
         pc[w] \in {"lookup", "put"}, Append1(w, k, v), pc'[w] = "reply"
  PROVE  OnceOf(w)'
<1>1. k \notin Listed(w) /\ NamedOnce(w)
  BY DEF OnceOf, Listed
<1>2. NamedOnce(w)'
  BY <1>1, AppendOnce
<1>3. QED
  BY <1>2 DEF OnceOf

\* A step that leaves the response and the ids to try alone.
LEMMA QuietOnce ==
  ASSUME NEW w \in Workers, OnceOf(w), UNCHANGED <<out, todo>>,
         \/ pc'[w] \in {"reply", "insert", "update", "delete", "invalidate"}
         \/ /\ pc[w] \in {"idle", "connect", "ids", "lookup", "fetch", "put"}
            /\ pc'[w] \in {"connect", "ids", "lookup", "fetch", "put"}
  PROVE  OnceOf(w)'
  BY DEF OnceOf, Listed, NamedOnce

\* One step of the proof for each action.
LEMMA OnceStep == TypeInv /\ OnceInv /\ [Next]_vars => OnceInv'
<1> SUFFICES ASSUME TypeInv, OnceInv, [Next]_vars
             PROVE  OnceInv'
  OBVIOUS
<1>0. \A u \in Workers : OnceOf(u)
  BY DEF OnceInv
<1>1. ASSUME NEW w \in Workers, OnceOf(w)',
             \A u \in Workers \ {w} : /\ pc'[u] = pc[u] /\ out'[u] = out[u]
                                      /\ todo'[u] = todo[u] /\ cur'[u] = cur[u]
      PROVE  OnceInv'
  BY <1>0, <1>1, OnceUntouched DEF OnceInv
<1>2. ASSUME NEW w \in Workers, Handle(w) \/ \E r \in Requests : Accept(w, r)
      PROVE  \A u \in Workers \ {w} : /\ pc'[u] = pc[u] /\ out'[u] = out[u]
                                      /\ todo'[u] = todo[u] /\ cur'[u] = cur[u]
  <2> USE DEF TypeInv, TypeOK, Goto, Answer, NextId, Append1
  <2>1. CASE \E r \in Requests : Accept(w, r)
    BY <2>1 DEF Accept
  <2>2. CASE Connect(w)
    BY <2>2 DEF Connect
  <2>3. CASE ListIds(w)
    BY <2>3 DEF ListIds
  <2>4. CASE ListLookup(w)
    BY <2>4 DEF ListLookup
  <2>5. CASE ListFetch(w)
    BY <2>5 DEF ListFetch
  <2>6. CASE ListPut(w)
    BY <2>6 DEF ListPut
  <2>7. CASE GetLookup(w)
    BY <2>7 DEF GetLookup
  <2>8. CASE GetFetch(w)
    BY <2>8 DEF GetFetch
  <2>9. CASE GetPut(w)
    BY <2>9 DEF GetPut
  <2>10. CASE Insert(w)
    BY <2>10 DEF Insert
  <2>11. CASE Update(w) \/ Delete(w)
    BY <2>11 DEF Update, Delete, Write
  <2>12. CASE Invalidate(w)
    BY <2>12 DEF Invalidate
  <2>13. CASE Return(w)
    BY <2>13 DEF Return
  <2>14. CASE ListClose(w) \/ ListNoMemory(w)
    BY <2>14 DEF ListClose, ListNoMemory
  <2> QED
    BY <1>2, <2>1, <2>2, <2>3, <2>4, <2>5, <2>6, <2>7, <2>8, <2>9, <2>10, <2>11, <2>12, <2>13,
       <2>14 DEF Handle
<1>3. ASSUME NEW w \in Workers, Handle(w) \/ \E r \in Requests : Accept(w, r)
      PROVE  OnceOf(w)'
  <2>0. OnceOf(w)
    BY <1>0
  <2>1. CASE \E r \in Requests : Accept(w, r)
    BY <2>0, <2>1, QuietOnce DEF Accept, Goto, TypeInv, TypeOK
  <2>2. CASE Connect(w)
    <3>1. pc'[w] \in {"reply", "ids", "lookup", "insert", "update", "delete"}
      <4>1. req[w].op \notin {"LIST", "OTHER"} /\ req[w].id # BadId =>
              Branch(req[w]) \in {"lookup", "insert", "update", "delete"}
        BY BranchOf DEF NoRequest, TypeInv, TypeOK
      <4> QED
        BY <2>2, <4>1 DEF Connect, Goto, Answer, TypeInv, TypeOK
    <3> QED
      BY <2>0, <2>2, <3>1, QuietOnce DEF Connect
  <2>3. CASE ListIds(w)
    <3>1. out'[w] = <<>> /\ pc'[w] \in {"reply", "list"}
      BY <2>0, <2>3 DEF ListIds, OnceOf, Goto, Answer, TypeInv, TypeOK
    <3> QED
      BY <3>1 DEF OnceOf, Listed, NamedOnce
  <2>4. CASE ListLookup(w)
    <3>1. PICK k \in todo[w] :
            /\ cur' = [cur EXCEPT ![w] = k]
            /\ IF Cached(cache, k)
               THEN Append1(w, k, cache.entry[k]) /\ NextId(w, k)
               ELSE Goto(w, "list_fetch") /\ UNCHANGED <<todo, first, out, status>>
      BY <2>4 DEF ListLookup
    <3>2. pc[w] = "list" /\ k \in Keys
      BY <2>4 DEF ListLookup, TypeInv, TypeOK
    <3>3. CASE Cached(cache, k)
      <4>1. cache.entry[k] \in Values
        BY <3>2, <3>3 DEF Cached, CacheStates, Optional, TypeInv, TypeOK
      <4> QED
        BY <2>0, <3>1, <3>2, <3>3, <4>1, ListOnce
    <3>4. CASE ~Cached(cache, k)
      <4>1. /\ cur'[w] = k /\ pc'[w] = "list_fetch" /\ out'[w] = out[w]
            /\ todo'[w] = todo[w]
        BY <3>1, <3>4 DEF Goto, TypeInv, TypeOK
      <4> QED
        BY <2>0, <3>2, <4>1 DEF OnceOf, Listed, NamedOnce
    <3> QED
      BY <3>3, <3>4
  <2>5. CASE ListFetch(w)
    <3>1. CASE NextId(w, cur[w])
      BY <2>0, <2>5, <3>1, SkipOnce DEF ListFetch
    <3>2. CASE Goto(w, "list_put") /\ UNCHANGED todo
      <4>1. /\ cur'[w] = cur[w] /\ pc'[w] = "list_put" /\ out'[w] = out[w]
            /\ todo'[w] = todo[w] /\ pc[w] = "list_fetch"
        BY <2>5, <3>2 DEF ListFetch, Goto, TypeInv, TypeOK
      <4> QED
        BY <2>0, <4>1 DEF OnceOf, Listed, NamedOnce
    <3> QED
      BY <2>5, <3>1, <3>2 DEF ListFetch
  <2>6. CASE ListPut(w)
    <3>1. cur[w] \in todo[w] /\ row[w] \in Values /\ pc[w] = "list_put"
      BY <2>0, <2>6 DEF ListPut, OnceOf, Located, Filling, TypeInv
    <3> QED
      BY <2>0, <2>6, <3>1, ListOnce DEF ListPut
  <2>7. CASE GetLookup(w)
    <3>1. cur[w] \in Keys /\ pc[w] = "lookup"
      BY <2>7 DEF GetLookup, Located, TypeInv
    <3>2. CASE Cached(cache, cur[w])
      <4>1. cache.entry[cur[w]] \in Values
        BY <3>1, <3>2 DEF Cached, CacheStates, Optional, TypeInv, TypeOK
      <4>2. Append1(w, cur[w], cache.entry[cur[w]]) /\ pc'[w] = "reply"
        BY <2>7, <3>2 DEF GetLookup, Answer, Goto, TypeInv, TypeOK
      <4> QED
        BY <2>0, <3>1, <4>1, <4>2, SingleOnce
    <3>3. CASE ~Cached(cache, cur[w])
      BY <2>0, <2>7, <3>3, QuietOnce DEF GetLookup, Goto, TypeInv, TypeOK
    <3> QED
      BY <3>2, <3>3
  <2>8. CASE GetFetch(w)
    <3>1. pc[w] = "fetch" /\ pc'[w] \in {"put", "reply"} /\ UNCHANGED <<out, todo>>
      BY <2>8 DEF GetFetch, Goto, Answer, TypeInv, TypeOK
    <3> QED
      BY <2>0, <3>1, QuietOnce
  <2>9. CASE GetPut(w)
    <3>1. cur[w] \in Keys /\ row[w] \in Values /\ pc[w] = "put"
      BY <2>9 DEF GetPut, Located, Filling, TypeInv
    <3>2. Append1(w, cur[w], row[w]) /\ pc'[w] = "reply"
      BY <2>9 DEF GetPut, Answer, Goto, TypeInv, TypeOK
    <3> QED
      BY <2>0, <3>1, <3>2, SingleOnce
  <2>10. CASE Insert(w)
    BY <2>0, <2>10, QuietOnce DEF Insert, Answer, Goto, TypeInv, TypeOK
  <2>11. CASE Update(w) \/ Delete(w)
    <3>1. pc'[w] \in {"invalidate", "reply"} /\ UNCHANGED <<out, todo>>
      BY <2>11 DEF Update, Delete, Write, Answer, Goto, TypeInv, TypeOK
    <3> QED
      BY <2>0, <3>1, QuietOnce
  <2>12. CASE Invalidate(w)
    BY <2>0, <2>12, QuietOnce DEF Invalidate, Answer, Goto, TypeInv, TypeOK
  <2>13. CASE Return(w)
    <3>1. out'[w] = <<>> /\ pc'[w] = "idle"
      BY <2>13 DEF Return, Goto, TypeInv, TypeOK
    <3> QED
      BY <3>1 DEF OnceOf, NamedOnce
  <2>14. CASE ListClose(w)
    BY <2>0, <2>14, ListEndType, QuietOnce DEF ListClose, TypeInv, TypeOK
  <2>15. CASE ListNoMemory(w)
    <3>1. pc'[w] = "reply"
      BY <2>15, ListEndType
    <3>2. out'[w] = <<>>
      BY <2>15 DEF ListNoMemory, TypeInv, TypeOK
    <3> QED
      BY <3>1, <3>2 DEF OnceOf, NamedOnce
  <2> QED
    BY <1>3, <2>1, <2>2, <2>3, <2>4, <2>5, <2>6, <2>7, <2>8, <2>9, <2>10, <2>11, <2>12, <2>13,
       <2>14, <2>15 DEF Handle
<1>4. CASE UNCHANGED <<pc, out, todo, cur>>
  BY <1>0, <1>4, OnceUntouched DEF OnceInv
<1> QED
  BY <1>1, <1>2, <1>3, <1>4 DEF Next, Truncate, vars, workerVars

(* GET /employee/all names no employee twice, although rows come and go    *)
(* under it and entries are filled and evicted by the other workers.       *)
THEOREM ListsNameEachOnce == Spec => []ListedOncePerReply
<1>1. Init => OnceInv
  BY DEF Init, OnceInv, OnceOf, NamedOnce
<1>2. OnceInv => ListedOncePerReply
  BY DEF OnceInv, OnceOf, NamedOnce, ListedOncePerReply
<1> QED
  BY <1>1, <1>2, TypeCorrect, OnceStep, PTL DEF Spec

-----------------------------------------------------------------------------
(***************************************************************************)
(* A request advances: what is left of it falls with every step.           *)
(***************************************************************************)

\* An iteration of the list loop takes one of finitely many ids.
LEMMA IdsLeft ==
  ASSUME TypeInv, NEW w \in Workers
  PROVE  /\ Cardinality(Keys) \in Nat
         /\ \A s \in SUBSET Keys : Cardinality(s) \in Nat /\ Cardinality(s) <= Cardinality(Keys)
         /\ \A k \in todo[w] : /\ Cardinality(todo[w]) \in Nat \ {0}
                               /\ Cardinality(todo[w] \ {k}) = Cardinality(todo[w]) - 1
<1>1. Cardinality(Keys) \in Nat
  BY KeysAssumption, FS_CardinalityType
<1>2. \A s \in SUBSET Keys : /\ IsFiniteSet(s) /\ Cardinality(s) \in Nat
                             /\ Cardinality(s) <= Cardinality(Keys)
  BY KeysAssumption, FS_Subset, FS_CardinalityType
<1>3. todo[w] \in SUBSET Keys
  BY DEF TypeInv, TypeOK
<1>4. ASSUME NEW k \in todo[w]
      PROVE  /\ Cardinality(todo[w]) \in Nat \ {0}
             /\ Cardinality(todo[w] \ {k}) = Cardinality(todo[w]) - 1
  <2>1. IsFiniteSet(todo[w]) /\ Cardinality(todo[w]) \in Nat
    BY <1>2, <1>3
  <2>2. Cardinality(todo[w]) # 0
    BY <1>4, <2>1, FS_EmptySet
  <2>3. Cardinality(todo[w] \ {k}) = Cardinality(todo[w]) - 1
    BY <1>4, <2>1, FS_RemoveElement
  <2> QED
    BY <2>1, <2>2, <2>3
<1> QED
  BY <1>1, <1>2, <1>4

\* The end of an iteration leaves the rest of the loop.
LEMMA NextIdAdvances ==
  ASSUME TypeInv, NEW w \in Workers, NEW k \in todo[w], NextId(w, k)
  PROVE  StepsLeft(w)' = 3 * Cardinality(todo[w]) - 1 /\ pc'[w] = "list"
<1>1. Cardinality(todo[w]) \in Nat \ {0} /\ Cardinality(todo[w] \ {k}) = Cardinality(todo[w]) - 1
  BY IdsLeft
<1>2. pc'[w] = "list" /\ todo'[w] = todo[w] \ {k}
  BY DEF NextId, Goto, TypeInv, TypeOK
<1>3. StepsLeft(w)' = 3 * Cardinality(todo[w] \ {k}) + 2
  BY <1>2 DEF StepsLeft
<1> QED
  BY <1>1, <1>2, <1>3

\* Each step of a request leaves fewer, and an answer has its status.
LEMMA HandleAdvances ==
  ASSUME TypeInv, OnceInv, NEW w \in Workers, Handle(w)
  PROVE  StepsLeft(w)' < StepsLeft(w) /\ (pc'[w] = "reply" => status'[w] # "none")
<1> DEFINE c == Cardinality(todo[w])
           n == Cardinality(Keys)
<1>0. /\ n \in Nat /\ c \in Nat
      /\ \A s \in SUBSET Keys : Cardinality(s) \in Nat /\ Cardinality(s) <= n
  <2>1. todo[w] \in SUBSET Keys
    BY DEF TypeInv, TypeOK
  <2> QED
    BY <2>1, IdsLeft
<1> USE DEF Answer, Goto
<1>1. CASE Connect(w)
  <2>1. pc[w] = "connect"
    BY <1>1 DEF Connect
  <2>2. \/ pc'[w] = "reply" /\ status'[w] \in {"400", "405", "500"}
        \/ pc'[w] = "ids"
        \/ pc'[w] \in {"lookup", "insert", "update", "delete"}
    <3>1. req[w].op \notin {"LIST", "OTHER"} /\ req[w].id # BadId =>
            Branch(req[w]) \in {"lookup", "insert", "update", "delete"}
      BY BranchOf DEF NoRequest, TypeInv, TypeOK
    <3> QED
      BY <1>1, <3>1 DEF Connect, TypeInv, TypeOK
  <2>3. StepsLeft(w) = 3 * n + 6
    BY <2>1 DEF StepsLeft
  <2>4. StepsLeft(w)' \in {1, 3, 4, 3 * n + 5}
    BY <2>2 DEF StepsLeft
  <2> QED
    BY <1>0, <2>2, <2>3, <2>4
<1>2. CASE ListIds(w)
  <2>1. pc[w] = "ids"
    BY <1>2 DEF ListIds
  <2>2. \/ pc'[w] = "reply" /\ status'[w] = "404"
        \/ pc'[w] = "list" /\ todo'[w] \in SUBSET Keys
    BY <1>2 DEF ListIds, TypeInv, TypeOK
  <2>3. StepsLeft(w) = 3 * n + 5
    BY <2>1 DEF StepsLeft
  <2>4. CASE pc'[w] = "reply" /\ status'[w] = "404"
    <3>1. StepsLeft(w)' = 1
      BY <2>4 DEF StepsLeft
    <3> QED
      BY <1>0, <2>3, <2>4, <3>1
  <2>5. CASE pc'[w] = "list" /\ todo'[w] \in SUBSET Keys
    <3>1. StepsLeft(w)' = 3 * Cardinality(todo'[w]) + 2
      BY <2>5 DEF StepsLeft
    <3>2. Cardinality(todo'[w]) \in Nat /\ Cardinality(todo'[w]) <= n
      BY <1>0, <2>5
    <3> QED
      BY <1>0, <2>3, <2>5, <3>1, <3>2
  <2> QED
    BY <2>2, <2>4, <2>5
<1>3. CASE ListLookup(w)
  <2>1. pc[w] = "list" /\ StepsLeft(w) = 3 * c + 2
    BY <1>3 DEF ListLookup, StepsLeft
  <2>2. PICK k \in todo[w] :
          \/ NextId(w, k)
          \/ Goto(w, "list_fetch") /\ todo' = todo
    BY <1>3 DEF ListLookup
  <2>3. CASE NextId(w, k)
    <3>1. StepsLeft(w)' = 3 * c - 1 /\ pc'[w] = "list"
      BY <2>3, NextIdAdvances
    <3> QED
      BY <1>0, <2>1, <3>1
  <2>4. CASE Goto(w, "list_fetch") /\ todo' = todo
    <3>1. pc'[w] = "list_fetch"
      BY <2>4 DEF TypeInv, TypeOK
    <3>2. StepsLeft(w)' = 3 * c + 1
      BY <2>4, <3>1 DEF StepsLeft
    <3> QED
      BY <1>0, <2>1, <3>1, <3>2
  <2> QED
    BY <2>2, <2>3, <2>4
<1>4. CASE ListFetch(w)
  <2>1. pc[w] = "list_fetch" /\ StepsLeft(w) = 3 * c + 1
    BY <1>4 DEF ListFetch, StepsLeft
  <2>2. cur[w] \in todo[w]
    BY <2>1 DEF OnceInv, OnceOf
  <2>3. \/ NextId(w, cur[w])
        \/ Goto(w, "list_put") /\ todo' = todo
    BY <1>4 DEF ListFetch
  <2>4. CASE NextId(w, cur[w])
    <3>1. StepsLeft(w)' = 3 * c - 1 /\ pc'[w] = "list"
      BY <2>2, <2>4, NextIdAdvances
    <3> QED
      BY <1>0, <2>1, <3>1
  <2>5. CASE Goto(w, "list_put") /\ todo' = todo
    <3>1. pc'[w] = "list_put"
      BY <2>5 DEF TypeInv, TypeOK
    <3>2. StepsLeft(w)' = 3 * c
      BY <2>5, <3>1 DEF StepsLeft
    <3> QED
      BY <1>0, <2>1, <3>1, <3>2
  <2> QED
    BY <2>3, <2>4, <2>5
<1>5. CASE ListPut(w)
  <2>1. pc[w] = "list_put" /\ StepsLeft(w) = 3 * c
    BY <1>5 DEF ListPut, StepsLeft
  <2>2. cur[w] \in todo[w]
    BY <2>1 DEF OnceInv, OnceOf
  <2>3. NextId(w, cur[w])
    BY <1>5 DEF ListPut
  <2>4. StepsLeft(w)' = 3 * c - 1 /\ pc'[w] = "list"
    BY <2>2, <2>3, NextIdAdvances
  <2> QED
    BY <1>0, <2>1, <2>4
<1>6. CASE GetLookup(w) \/ GetFetch(w) \/ GetPut(w)
  <2>1. \/ StepsLeft(w) = 4 /\ pc'[w] \in {"reply", "fetch"}
        \/ StepsLeft(w) = 3 /\ pc'[w] \in {"reply", "put"}
        \/ StepsLeft(w) = 2 /\ pc'[w] = "reply"
    BY <1>6 DEF GetLookup, GetFetch, GetPut, StepsLeft, TypeInv, TypeOK
  <2>2. pc'[w] = "reply" => status'[w] # "none"
    BY <1>6 DEF GetLookup, GetFetch, GetPut, TypeInv, TypeOK
  <2>3. /\ pc'[w] = "reply" => StepsLeft(w)' = 1
        /\ pc'[w] = "put" => StepsLeft(w)' = 2
        /\ pc'[w] = "fetch" => StepsLeft(w)' = 3
    BY DEF StepsLeft
  <2> QED
    BY <2>1, <2>2, <2>3
<1>7. CASE Insert(w) \/ Invalidate(w)
  <2>1. StepsLeft(w) = 3 /\ pc'[w] = "reply" /\ status'[w] # "none"
    BY <1>7 DEF Insert, Invalidate, StepsLeft, TypeInv, TypeOK
  <2>2. StepsLeft(w)' = 1
    BY <2>1 DEF StepsLeft
  <2> QED
    BY <2>1, <2>2
<1>8. CASE Update(w) \/ Delete(w)
  <2>1. StepsLeft(w) = 4
    BY <1>8 DEF Update, Delete, StepsLeft
  <2>2. \/ pc'[w] = "invalidate"
        \/ pc'[w] = "reply" /\ status'[w] = "500"
    BY <1>8 DEF Update, Delete, Write, TypeInv, TypeOK
  <2>3. StepsLeft(w)' \in {1, 3}
    BY <2>2 DEF StepsLeft
  <2> QED
    BY <2>1, <2>2, <2>3
<1>9. CASE Return(w)
  <2>1. StepsLeft(w) = 1 /\ pc'[w] = "idle"
    BY <1>9 DEF Return, StepsLeft, TypeInv, TypeOK
  <2>2. StepsLeft(w)' = 0
    BY <2>1 DEF StepsLeft
  <2> QED
    BY <2>1, <2>2
<1>10. CASE ListClose(w) \/ ListNoMemory(w)
  <2>1. pc[w] = "list" /\ pc'[w] = "reply" /\ status'[w] \in {"200", "500"}
    <3> HIDE DEF Answer, Goto
    <3> QED
      BY <1>10, ListEndType
  <2>2. StepsLeft(w) = 3 * c + 2 /\ StepsLeft(w)' = 1
    BY <2>1 DEF StepsLeft
  <2> QED
    BY <1>0, <2>1, <2>2
<1> QED
  BY <1>1, <1>2, <1>3, <1>4, <1>5, <1>6, <1>7, <1>8, <1>9, <1>10 DEF Handle

(* server.c:90-123 and the other branches: every step of a request brings  *)
(* its end nearer, whatever the other workers do to the ids it goes        *)
(* through; the loop cannot spin and no path answers without a status.     *)
THEOREM HandlerStepsAdvance == Spec => HandlerAdvances
<1>1. Init => OnceInv
  BY DEF Init, OnceInv, OnceOf, NamedOnce
<1>2. TypeInv /\ OnceInv /\ [Next]_vars =>
        [\A w \in Workers : Handle(w) =>
           StepsLeft(w)' < StepsLeft(w) /\ (pc'[w] = "reply" => status'[w] # "none")]_vars
  BY HandleAdvances
<1> QED
  BY <1>1, <1>2, TypeCorrect, OnceStep, PTL DEF Spec, HandlerAdvances

-----------------------------------------------------------------------------
(***************************************************************************)
(* The contract.  What a label says of the request that is being served,   *)
(* and of the response so far.                                             *)
(***************************************************************************)
Phase(w) ==
  /\ pc[w] = "idle" <=> req[w] = NoRequest
  /\ pc[w] = "idle" => ~faulted[w]
  /\ pc[w] \in {"ids", "list", "list_fetch", "list_put"} => req[w].op = "LIST"
  /\ pc[w] \in {"lookup", "fetch", "put"} => req[w].op = "GET" /\ cur[w] = req[w].id
  /\ pc[w] = "insert" => req[w].op = "POST"
  /\ pc[w] = "update" => req[w].op = "PUT"
  /\ pc[w] = "delete" => req[w].op = "DELETE"
  /\ pc[w] \notin {"list", "list_fetch", "list_put", "reply"} => out[w] = <<>>
  /\ pc[w] = "reply" => status[w] # "none"

PhaseInv == \A w \in Workers : Phase(w)

\* A step of one worker is no step of another.
LEMMA OthersUntouched ==
  ASSUME TypeInv, NEW w \in Workers, Handle(w) \/ \E r \in Requests : Accept(w, r)
  PROVE  \A u \in Workers \ {w} :
           /\ pc'[u] = pc[u] /\ req'[u] = req[u] /\ cur'[u] = cur[u] /\ out'[u] = out[u]
           /\ todo'[u] = todo[u] /\ status'[u] = status[u] /\ faulted'[u] = faulted[u]
<1> USE DEF TypeInv, TypeOK, Goto, Answer, NextId, Append1, Record, courseVars
<1>1. CASE \E r \in Requests : Accept(w, r)
  BY <1>1 DEF Accept
<1>2. CASE Connect(w)
  BY <1>2 DEF Connect
<1>3. CASE ListIds(w)
  BY <1>3 DEF ListIds
<1>4. CASE ListLookup(w)
  BY <1>4 DEF ListLookup
<1>5. CASE ListFetch(w)
  BY <1>5 DEF ListFetch
<1>6. CASE ListPut(w)
  BY <1>6 DEF ListPut
<1>7. CASE GetLookup(w)
  BY <1>7 DEF GetLookup
<1>8. CASE GetFetch(w)
  BY <1>8 DEF GetFetch
<1>9. CASE GetPut(w)
  BY <1>9 DEF GetPut
<1>10. CASE Insert(w)
  BY <1>10 DEF Insert
<1>11. CASE Update(w) \/ Delete(w)
  BY <1>11 DEF Update, Delete, Write
<1>12. CASE Invalidate(w)
  BY <1>12 DEF Invalidate
<1>13. CASE Return(w)
  BY <1>13 DEF Return
<1>14. CASE ListClose(w) \/ ListNoMemory(w)
  BY <1>14 DEF ListClose, ListNoMemory
<1> QED
  BY <1>1, <1>2, <1>3, <1>4, <1>5, <1>6, <1>7, <1>8, <1>9, <1>10, <1>11, <1>12, <1>13, <1>14
     DEF Handle

\* The request stays until the handler returns.
LEMMA RequestStays ==
  ASSUME TypeInv, NEW w \in Workers, Handle(w), ~Return(w)
  PROVE  req' = req /\ pc[w] # "idle" /\ pc'[w] # "idle"
<1> USE DEF TypeInv, TypeOK, Goto, Answer, NextId
<1>1. CASE Connect(w)
  <2>1. req[w].op \notin {"LIST", "OTHER"} /\ req[w].id # BadId =>
          Branch(req[w]) \in {"lookup", "insert", "update", "delete"}
    BY BranchOf DEF NoRequest
  <2> QED
    BY <1>1, <2>1 DEF Connect
<1>2. CASE ListIds(w)
  BY <1>2 DEF ListIds
<1>3. CASE ListLookup(w)
  BY <1>3 DEF ListLookup
<1>4. CASE ListFetch(w)
  BY <1>4 DEF ListFetch
<1>5. CASE ListPut(w)
  BY <1>5 DEF ListPut
<1>6. CASE GetLookup(w)
  BY <1>6 DEF GetLookup
<1>7. CASE GetFetch(w)
  BY <1>7 DEF GetFetch
<1>8. CASE GetPut(w)
  BY <1>8 DEF GetPut
<1>9. CASE Insert(w)
  BY <1>9 DEF Insert
<1>10. CASE Update(w) \/ Delete(w)
  BY <1>10 DEF Update, Delete, Write
<1>11. CASE Invalidate(w)
  BY <1>11 DEF Invalidate
<1>12. CASE ListClose(w) \/ ListNoMemory(w)
  BY <1>12 DEF ListClose, ListNoMemory
<1> QED
  BY <1>1, <1>2, <1>3, <1>4, <1>5, <1>6, <1>7, <1>8, <1>9, <1>10, <1>11, <1>12 DEF Handle

\* One step of the proof for each action.
LEMMA PhaseStep == TypeInv /\ PhaseInv /\ [Next]_vars => PhaseInv'
<1> SUFFICES ASSUME TypeInv, PhaseInv, [Next]_vars
             PROVE  PhaseInv'
  OBVIOUS
<1>0. \A u \in Workers : Phase(u)
  BY DEF PhaseInv
<1>1. ASSUME NEW w \in Workers, Handle(w) \/ \E r \in Requests : Accept(w, r), Phase(w)'
      PROVE  PhaseInv'
  <2>1. \A u \in Workers \ {w} : Phase(u)'
    BY <1>0, <1>1, OthersUntouched DEF Phase
  <2> QED
    BY <1>1, <2>1 DEF PhaseInv
<1>2. ASSUME NEW w \in Workers, NEW r \in Requests, Accept(w, r)
      PROVE  Phase(w)'
  <2>1. r # NoRequest
    BY DEF Requests, NoRequest
  <2>2. /\ pc[w] = "idle" /\ pc'[w] = "connect" /\ req'[w] = r /\ out'[w] = out[w]
    BY <1>2 DEF Accept, Goto, TypeInv, TypeOK
  <2> QED
    BY <1>0, <2>1, <2>2 DEF Phase
<1>3. ASSUME NEW w \in Workers, Handle(w)
      PROVE  Phase(w)'
  <2> USE DEF TypeInv, TypeOK, Goto, Answer
  <2>0. Phase(w)
    BY <1>0
  <2>1. CASE Return(w)
    BY <2>1 DEF Return, Phase
  <2>2. CASE ~Return(w)
    <3>0. req'[w] = req[w] /\ req[w] # NoRequest /\ pc'[w] # "idle"
      BY <1>3, <2>0, <2>2, RequestStays DEF Phase
    <3>1. CASE Connect(w)
      <4>1. out'[w] = <<>> /\ cur'[w] = req[w].id
        BY <2>0, <3>1 DEF Connect, Phase
      <4>2. CASE pc'[w] = "reply" /\ status'[w] # "none"
        BY <3>0, <4>1, <4>2 DEF Phase
      <4>3. CASE pc'[w] = "ids" /\ req[w].op = "LIST"
        BY <3>0, <4>1, <4>3 DEF Phase
      <4>4. CASE /\ req[w].op \notin {"LIST", "OTHER"} /\ req[w].id # BadId
                 /\ pc'[w] = Branch(req[w])
        <5>1. req[w] \in Requests
          BY <3>0
        <5>2. \/ req[w].op = "GET" /\ pc'[w] = "lookup"
              \/ req[w].op = "POST" /\ pc'[w] = "insert"
              \/ req[w].op = "PUT" /\ pc'[w] = "update"
              \/ req[w].op = "DELETE" /\ pc'[w] = "delete"
          BY <4>4, <5>1 DEF Branch, Requests
        <5> QED
          BY <3>0, <4>1, <5>2 DEF Phase
      <4> QED
        BY <3>1, <4>2, <4>3, <4>4 DEF Connect
    <3>2. CASE ListIds(w)
      <4>1. req[w].op = "LIST" /\ (pc'[w] = "list" \/ (pc'[w] = "reply" /\ status'[w] # "none"))
        BY <2>0, <3>2 DEF ListIds, Phase
      <4> QED
        BY <3>0, <4>1 DEF Phase
    <3>3. CASE ListLookup(w) \/ ListFetch(w) \/ ListPut(w)
      <4>1. /\ req[w].op = "LIST"
            /\ pc'[w] \in {"list", "list_fetch", "list_put"}
        BY <2>0, <3>3 DEF ListLookup, ListFetch, ListPut, Phase, NextId
      <4> QED
        BY <3>0, <4>1 DEF Phase
    <3>4. CASE GetLookup(w) \/ GetFetch(w)
      <4>1. /\ req[w].op = "GET" /\ cur'[w] = req[w].id
            /\ \/ pc'[w] \in {"fetch", "put"} /\ out'[w] = <<>>
               \/ pc'[w] = "reply" /\ status'[w] # "none"
        BY <2>0, <3>4 DEF GetLookup, GetFetch, Phase
      <4> QED
        BY <3>0, <4>1 DEF Phase
    <3>5. CASE GetPut(w) \/ Insert(w) \/ Invalidate(w)
      <4>1. pc'[w] = "reply" /\ status'[w] # "none"
        BY <3>5 DEF GetPut, Insert, Invalidate
      <4> QED
        BY <3>0, <4>1 DEF Phase
    <3>6. CASE Update(w) \/ Delete(w)
      <4>1. \/ pc'[w] = "invalidate" /\ out'[w] = <<>>
            \/ pc'[w] = "reply" /\ status'[w] # "none"
        BY <2>0, <3>6 DEF Update, Delete, Write, Phase
      <4> QED
        BY <3>0, <4>1 DEF Phase
    <3>7. CASE ListClose(w) \/ ListNoMemory(w)
      <4>1. pc'[w] = "reply" /\ status'[w] \in {"200", "500"}
        BY <3>7, ListEndType
      <4> QED
        BY <3>0, <4>1 DEF Phase
    <3> QED
      BY <1>3, <2>2, <3>1, <3>2, <3>3, <3>4, <3>5, <3>6, <3>7 DEF Handle
  <2> QED
    BY <2>1, <2>2
<1>4. CASE UNCHANGED <<pc, req, cur, out, status, faulted>>
  BY <1>0, <1>4 DEF PhaseInv, Phase
<1> QED
  BY <1>1, <1>2, <1>3, <1>4 DEF Next, Truncate, vars, workerVars, courseVars

-----------------------------------------------------------------------------
(***************************************************************************)
(* What is read is what the contract lets a client read, and a list that   *)
(* has met no fault has every employee, or its id is yet to be tried.      *)
(***************************************************************************)
Listing(w) == pc[w] \in {"list", "list_fetch", "list_put"}

ReadsOf(w) == \A i \in DOMAIN out[w] : out[w][i].row \in Store!Readable(out[w][i].id)

CompleteOf(w) ==
  serial /\ Listing(w) /\ ~faulted[w] => Store!Present \subseteq Listed(w) \cup todo[w]

ReadInv == \A w \in Workers : ReadsOf(w) /\ CompleteOf(w)

\* The invariants of the sections above, and the labels'.
ServerInv == TypeInv /\ CauseInv /\ SerialInv /\ RealInv /\ OnceInv /\ PhaseInv

\* A cached row may be served.
LEMMA EntryReadable ==
  ASSUME ServerInv, NEW w \in Workers, pc[w] \in {"list", "lookup"}, NEW k \in Keys, Cached(cache, k)
  PROVE  cache.entry[k] \in Store!Readable(k) /\ cache.entry[k] \in Values
<1>1. cache.entry[k] \in Values
  BY DEF ServerInv, TypeInv, TypeOK, CacheStates, Optional, Cached
<1>2. CASE serial
  <2>1. taint = {} /\ ~BeingInvalidated(k)
    BY <1>2 DEF ServerInv, SerialInv, Undisturbed, Alone, BeingInvalidated
  <2>2. cache.entry[k] = table[k]
    BY <2>1 DEF ServerInv, CauseInv, StaleHasCause, Stale
  <2> QED
    BY <1>1, <1>2, <2>2, NoValueAssumption DEF Store!Readable
<1>3. CASE ~serial
  BY <1>1, <1>3 DEF ServerInv, RealInv, ServedWasReal, Store!Readable
<1> QED
  BY <1>2, <1>3

\* A row on its way into the cache may be served.
LEMMA RowReadable ==
  ASSUME ServerInv, NEW w \in Workers, Filling(w)
  PROVE  row[w] \in Store!Readable(cur[w]) /\ row[w] \in Values /\ cur[w] \in Keys
<1>1. row[w] \in Values /\ cur[w] \in Keys
  BY DEF ServerInv, TypeInv, Located, Filling
<1>2. CASE serial
  <2>1. row[w] = table[cur[w]]
    BY <1>2 DEF ServerInv, SerialInv, Undisturbed, CauseInv, FillFresh
  <2> QED
    BY <1>1, <1>2, <2>1, NoValueAssumption DEF Store!Readable
<1>3. CASE ~serial
  BY <1>1, <1>3 DEF ServerInv, RealInv, Store!Readable
<1> QED
  BY <1>1, <1>2, <1>3

\* A row that may be served is appended to a response.
LEMMA AppendReadable ==
  ASSUME TypeInv, NEW w \in Workers, ReadsOf(w), NEW k \in Keys, NEW v \in Values,
         v \in Store!Readable(k), Append1(w, k, v)
  PROVE  /\ \A i \in DOMAIN out'[w] : out'[w][i].row \in Store!Readable(out'[w][i].id)
         /\ out'[w] \in Seq(Items)
<1> DEFINE e == [sep |-> ~first[w], id |-> k, row |-> v]
<1>1. out[w] \in Seq(Items) /\ e \in Items
  BY DEF TypeInv, TypeOK, Items
<1>2. out'[w] = Append(out[w], e)
  BY DEF Append1, TypeInv, TypeOK
<1>3. e.id = k /\ e.row = v
  OBVIOUS
<1> HIDE DEF e
<1>4. /\ DOMAIN out[w] = 1..Len(out[w]) /\ Len(out[w]) \in Nat
      /\ DOMAIN out'[w] = 1..(Len(out[w]) + 1)
      /\ \A i \in DOMAIN out[w] : out'[w][i] = out[w][i]
      /\ out'[w][Len(out[w]) + 1] = e
      /\ out'[w] \in Seq(Items)
  BY <1>1, <1>2
<1>5. DOMAIN out'[w] = DOMAIN out[w] \cup {Len(out[w]) + 1}
  BY <1>4
<1> QED
  BY <1>3, <1>4, <1>5 DEF ReadsOf

\* An iteration of the list loop that finds its employee.
LEMMA ListAppends ==
  ASSUME ServerInv, ReadInv, NEW w \in Workers, NEW k \in todo[w], NEW v \in Values,
         v \in Store!Readable(k), pc[w] \in {"list", "list_put"}, Append1(w, k, v),
         NextId(w, k), faulted' = faulted
  PROVE  /\ \A i \in DOMAIN out'[w] : out'[w][i].row \in Store!Readable(out'[w][i].id)
         /\ out'[w] \in Seq(Items) /\ NamedOnce(w)'
         /\ serial /\ ~faulted'[w] => Store!Present \subseteq Listed(w)' \cup todo'[w]
<1> USE DEF ServerInv
<1>1. k \in Keys /\ k \notin Listed(w) /\ NamedOnce(w)
  BY DEF OnceInv, OnceOf, TypeInv, TypeOK
<1>2. NamedOnce(w)' /\ Listed(w)' = Listed(w) \cup {k}
  BY <1>1, AppendOnce
<1>3. todo'[w] = todo[w] \ {k}
  BY DEF NextId, TypeInv, TypeOK
<1>4. serial /\ ~faulted[w] => Store!Present \subseteq Listed(w) \cup todo[w]
  BY DEF ReadInv, CompleteOf, Listing
<1> QED
  BY <1>1, <1>2, <1>3, <1>4, AppendReadable DEF ReadInv

\* An iteration that does not find it, because of a fault or rightly.
LEMMA ListSkips ==
  ASSUME ServerInv, ReadInv, NEW w \in Workers, pc[w] = "list_fetch", NextId(w, cur[w]),
         out' = out, faulted[w] => faulted'[w],
         table[cur[w]] # NoValue => faulted'[w]
  PROVE  /\ \A i \in DOMAIN out'[w] : out'[w][i].row \in Store!Readable(out'[w][i].id)
         /\ out'[w] \in Seq(Items) /\ NamedOnce(w)'
         /\ serial /\ ~faulted'[w] => Store!Present \subseteq Listed(w)' \cup todo'[w]
<1> USE DEF ServerInv
<1>1. NamedOnce(w)' /\ Listed(w)' = Listed(w)
  BY DEF OnceInv, OnceOf, NamedOnce, Listed
<1>2. todo'[w] = todo[w] \ {cur[w]}
  BY DEF NextId, TypeInv, TypeOK
<1>3. serial /\ ~faulted[w] => Store!Present \subseteq Listed(w) \cup todo[w]
  BY DEF ReadInv, CompleteOf, Listing
<1>4. ~faulted'[w] => cur[w] \notin Store!Present
  BY DEF Store!Present
<1>5. /\ \A i \in DOMAIN out'[w] : out'[w][i].row \in Store!Readable(out'[w][i].id)
      /\ out'[w] \in Seq(Items)
  BY DEF ReadInv, ReadsOf, TypeInv, TypeOK
<1> QED
  BY <1>1, <1>2, <1>3, <1>4, <1>5

\* While serial, a write meets no reader.
LEMMA WriteAlone ==
  ASSUME ServerInv, serial, NEW w \in Workers, pc[w] \in {"insert", "update", "delete"}
  PROVE  \A u \in Workers : ~Listing(u) /\ out[u] = <<>>
<1>1. \A u \in Workers \ {w} : pc[u] = "idle"
  BY DEF ServerInv, SerialInv, Undisturbed, Alone
<1> QED
  BY <1>1 DEF ServerInv, PhaseInv, Phase, Listing

\* Every step keeps what is read readable: one step of the proof for each action.
LEMMA ReadStep ==
  ASSUME ServerInv, ServerInv', ReadInv, [Next]_vars
  PROVE  ReadInv'
<1> USE DEF ServerInv
<1>1. CASE ~serial'
  <2>1. \A w \in Workers : (ReadsOf(w) /\ CompleteOf(w))'
    BY <1>1 DEF RealInv, ServedWasReal, ReadsOf, Store!Readable, CompleteOf
  <2> QED
    BY <2>1 DEF ReadInv
<1>2. CASE serial'
  <2>0. serial
    BY <1>2, SerialFalls
  <2>1. ASSUME NEW u \in Workers, table' = table, pc'[u] = pc[u], out'[u] = out[u],
               todo'[u] = todo[u], faulted'[u] = faulted[u]
        PROVE  (ReadsOf(u) /\ CompleteOf(u))'
    BY <1>2, <2>0, <2>1 DEF ReadInv, ReadsOf, CompleteOf, Listing, Listed, Store!Readable,
                            Store!Present
  <2>2. ASSUME NEW w \in Workers, Handle(w) \/ \E r \in Requests : Accept(w, r),
               table' = table, (ReadsOf(w) /\ CompleteOf(w))'
        PROVE  ReadInv'
    <3>1. \A u \in Workers \ {w} : (ReadsOf(u) /\ CompleteOf(u))'
      BY <2>1, <2>2, OthersUntouched
    <3> QED
      BY <2>2, <3>1 DEF ReadInv
  <2>3. ASSUME NEW u \in Workers, out'[u] = <<>>, ~Listing(u)'
        PROVE  (ReadsOf(u) /\ CompleteOf(u))'
    BY <2>3 DEF ReadsOf, CompleteOf
  <2>4. ASSUME NEW w \in Workers, Insert(w) \/ Update(w) \/ Delete(w)
        PROVE  ReadInv'
    <3>1. pc[w] \in {"insert", "update", "delete"} /\ out' = out /\ pc'[w] \in {"invalidate", "reply"}
      BY <2>4 DEF Insert, Update, Delete, Write, Goto, Answer, TypeInv, TypeOK
    <3>2. \A u \in Workers : ~Listing(u) /\ out[u] = <<>>
      BY <2>0, <3>1, WriteAlone
    <3>3. \A u \in Workers \ {w} : pc'[u] = pc[u]
      BY <2>4, OthersUntouched DEF Handle
    <3>4. \A u \in Workers : out'[u] = <<>> /\ ~Listing(u)'
      BY <3>1, <3>2, <3>3 DEF Listing
    <3> QED
      BY <2>3, <3>4 DEF ReadInv
  <2>5. ASSUME NEW w \in Workers, NEW r \in Requests, Accept(w, r)
        PROVE  ReadInv'
    <3>1. out'[w] = <<>> /\ ~Listing(w)' /\ table' = table
      BY <2>5 DEF Accept, Goto, PhaseInv, Phase, Listing, TypeInv, TypeOK, dbVars
    <3> QED
      BY <2>2, <2>3, <2>5, <3>1
  <2>6. ASSUME NEW w \in Workers, Connect(w) \/ Invalidate(w) \/ Return(w)
        PROVE  ReadInv'
    <3>1. out'[w] = <<>> /\ ~Listing(w)' /\ table' = table /\ Handle(w)
      <4>1. CASE Connect(w)
        <5>1. req[w].op \notin {"LIST", "OTHER"} /\ req[w].id # BadId =>
                Branch(req[w]) \in {"lookup", "insert", "update", "delete"}
          BY BranchOf DEF NoRequest, TypeInv, TypeOK
        <5> QED
          BY <4>1, <5>1 DEF Connect, Goto, Answer, PhaseInv, Phase, Listing, TypeInv, TypeOK,
                            dbVars, Handle
      <4>2. CASE Invalidate(w)
        BY <4>2 DEF Invalidate, Goto, Answer, PhaseInv, Phase, Listing, TypeInv, TypeOK, dbVars,
                    Handle
      <4>3. CASE Return(w)
        BY <4>3 DEF Return, Goto, Listing, TypeInv, TypeOK, dbVars, Handle
      <4> QED
        BY <2>6, <4>1, <4>2, <4>3
    <3> QED
      BY <2>2, <2>3, <3>1
  <2>7. ASSUME NEW w \in Workers, GetFetch(w)
        PROVE  ReadInv'
    <3>1. out'[w] = <<>> /\ ~Listing(w)' /\ table' = table /\ Handle(w)
      BY <2>7 DEF GetFetch, Goto, Answer, PhaseInv, Phase, Listing, TypeInv, TypeOK, dbVars, Handle
    <3> QED
      BY <2>2, <2>3, <3>1
  <2>8. ASSUME NEW w \in Workers, NEW k \in Keys, NEW v \in Values, v \in Store!Readable(k),
               Append1(w, k, v), Handle(w), table' = table, ~Listing(w)'
        PROVE  ReadInv'
    <3>1. \A i \in DOMAIN out'[w] : out'[w][i].row \in Store!Readable(out'[w][i].id)
      BY <2>8, AppendReadable DEF ReadInv
    <3>2. \A x : Store!Readable(x)' = Store!Readable(x)
      BY <1>2, <2>0, <2>8 DEF Store!Readable
    <3>3. (ReadsOf(w) /\ CompleteOf(w))'
      BY <2>8, <3>1, <3>2 DEF ReadsOf, CompleteOf
    <3> QED
      BY <2>2, <2>8, <3>3
  <2>9. ASSUME NEW w \in Workers, GetLookup(w)
        PROVE  ReadInv'
    <3>1. pc[w] = "lookup" /\ table' = table /\ Handle(w) /\ ~Listing(w)' /\ cur[w] \in Keys
      BY <2>9 DEF GetLookup, Goto, Answer, Listing, TypeInv, TypeOK, dbVars, Handle, Located
    <3>2. CASE Cached(cache, cur[w])
      <4>1. Append1(w, cur[w], cache.entry[cur[w]])
        BY <2>9, <3>2 DEF GetLookup
      <4> QED
        BY <2>8, <3>1, <3>2, <4>1, EntryReadable
    <3>3. CASE ~Cached(cache, cur[w])
      <4>1. out'[w] = <<>>
        BY <2>9, <3>1, <3>3 DEF GetLookup, PhaseInv, Phase
      <4> QED
        BY <2>2, <2>3, <3>1, <4>1
    <3> QED
      BY <3>2, <3>3
  <2>10. ASSUME NEW w \in Workers, GetPut(w)
         PROVE  ReadInv'
    <3>1. Filling(w) /\ table' = table /\ Handle(w) /\ ~Listing(w)' /\ Append1(w, cur[w], row[w])
      BY <2>10 DEF GetPut, Goto, Answer, Listing, TypeInv, TypeOK, dbVars, Handle, Filling
    <3> QED
      BY <2>8, <3>1, RowReadable
  <2>11. ASSUME NEW w \in Workers, Handle(w), table' = table,
                \A i \in DOMAIN out'[w] : out'[w][i].row \in Store!Readable(out'[w][i].id),
                serial /\ ~faulted'[w] => Store!Present \subseteq Listed(w)' \cup todo'[w]
         PROVE  ReadInv'
    <3>1. \A x : Store!Readable(x)' = Store!Readable(x)
      BY <1>2, <2>0, <2>11 DEF Store!Readable
    <3>2. Store!Present' = Store!Present
      BY <2>11 DEF Store!Present
    <3>3. (ReadsOf(w) /\ CompleteOf(w))'
      BY <2>0, <2>11, <3>1, <3>2 DEF ReadsOf, CompleteOf
    <3> QED
      BY <2>2, <2>11, <3>3
  <2>12. ASSUME NEW w \in Workers, ListIds(w)
         PROVE  ReadInv'
    <3>1. table' = table /\ Handle(w) /\ out'[w] = <<>>
      BY <2>12 DEF ListIds, PhaseInv, Phase, dbVars, Handle
    <3>2. faulted'[w] \/ todo'[w] = Store!Present
      BY <2>12 DEF ListIds, Record, TypeInv, TypeOK, Store!Present
    <3> QED
      BY <2>11, <3>1, <3>2
  <2>13. ASSUME NEW w \in Workers, ListLookup(w)
         PROVE  ReadInv'
    <3>1. pc[w] = "list" /\ table' = table /\ faulted' = faulted /\ Handle(w)
      BY <2>13 DEF ListLookup, dbVars, courseVars, Handle
    <3>2. PICK k \in todo[w] :
            IF Cached(cache, k)
            THEN Append1(w, k, cache.entry[k]) /\ NextId(w, k)
            ELSE Goto(w, "list_fetch") /\ UNCHANGED <<todo, first, out, status>>
      BY <2>13 DEF ListLookup
    <3>3. k \in Keys
      BY DEF TypeInv, TypeOK
    <3>4. CASE Cached(cache, k)
      <4>1. cache.entry[k] \in Store!Readable(k) /\ cache.entry[k] \in Values
        BY <3>1, <3>3, <3>4, EntryReadable
      <4>2. /\ \A i \in DOMAIN out'[w] : out'[w][i].row \in Store!Readable(out'[w][i].id)
            /\ serial /\ ~faulted'[w] => Store!Present \subseteq Listed(w)' \cup todo'[w]
        BY <3>1, <3>2, <3>4, <4>1, ListAppends
      <4> QED
        BY <2>11, <3>1, <4>2
    <3>5. CASE ~Cached(cache, k)
      <4>1. out' = out /\ todo' = todo
        BY <3>2, <3>5
      <4>2. Listed(w)' = Listed(w)
        BY <4>1 DEF Listed
      <4> QED
        BY <2>11, <3>1, <4>1, <4>2 DEF ReadInv, ReadsOf, CompleteOf, Listing
    <3> QED
      BY <3>4, <3>5
  <2>14. ASSUME NEW w \in Workers, ListFetch(w)
         PROVE  ReadInv'
    <3>1. /\ pc[w] = "list_fetch" /\ table' = table /\ Handle(w) /\ out' = out
          /\ faulted[w] => faulted'[w]
      BY <2>14 DEF ListFetch, dbVars, Handle, Record, TypeInv, TypeOK
    <3>2. CASE todo' = todo
      <4>2. Listed(w)' = Listed(w)
        BY <3>1 DEF Listed
      <4> QED
        BY <2>11, <3>1, <3>2, <4>2 DEF ReadInv, ReadsOf, CompleteOf, Listing
    <3>3. CASE NextId(w, cur[w]) /\ (table[cur[w]] # NoValue => faulted'[w])
      <4>1. /\ \A i \in DOMAIN out'[w] : out'[w][i].row \in Store!Readable(out'[w][i].id)
            /\ serial /\ ~faulted'[w] => Store!Present \subseteq Listed(w)' \cup todo'[w]
        BY <3>1, <3>3, ListSkips
      <4> QED
        BY <2>11, <3>1, <4>1
    <3> QED
      BY <2>14, <3>2, <3>3 DEF ListFetch, Record, TypeInv, TypeOK
  <2>15. ASSUME NEW w \in Workers, ListPut(w)
         PROVE  ReadInv'
    <3>1. /\ pc[w] = "list_put" /\ table' = table /\ faulted' = faulted /\ Handle(w)
          /\ Append1(w, cur[w], row[w]) /\ NextId(w, cur[w])
      BY <2>15 DEF ListPut, dbVars, courseVars, Handle
    <3>2. cur[w] \in todo[w]
      BY <3>1 DEF OnceInv, OnceOf
    <3>3. row[w] \in Store!Readable(cur[w]) /\ row[w] \in Values
      BY <3>1, RowReadable DEF Filling
    <3>4. /\ \A i \in DOMAIN out'[w] : out'[w][i].row \in Store!Readable(out'[w][i].id)
          /\ serial /\ ~faulted'[w] => Store!Present \subseteq Listed(w)' \cup todo'[w]
      BY <3>1, <3>2, <3>3, ListAppends
    <3> QED
      BY <2>11, <3>1, <3>4
  <2>16. CASE UNCHANGED <<table, pc, out, todo, faulted>>
    BY <2>1, <2>16 DEF ReadInv
  <2>18. ASSUME NEW w \in Workers, ListClose(w)
         PROVE  ReadInv'
    <3>1. out' = out /\ ~Listing(w)' /\ table' = table /\ Handle(w)
      BY <2>18, ListEndType DEF ListClose, Listing, dbVars, Handle, TypeInv, TypeOK
    <3>2. \A i \in DOMAIN out'[w] : out'[w][i].row \in Store!Readable(out'[w][i].id)
      BY <3>1 DEF ReadInv, ReadsOf
    <3>3. \A x : Store!Readable(x)' = Store!Readable(x)
      BY <1>2, <2>0, <3>1 DEF Store!Readable
    <3>4. (ReadsOf(w) /\ CompleteOf(w))'
      BY <3>1, <3>2, <3>3 DEF ReadsOf, CompleteOf
    <3> QED
      BY <2>2, <3>1, <3>4
  <2>19. ASSUME NEW w \in Workers, ListNoMemory(w)
         PROVE  ReadInv'
    <3>1. pc'[w] = "reply" /\ table' = table
      BY <2>19, ListEndType DEF dbVars
    <3>2. out'[w] = <<>> /\ Handle(w)
      BY <2>19 DEF ListNoMemory, Handle, TypeInv, TypeOK
    <3>3. ~Listing(w)'
      BY <3>1 DEF Listing
    <3> QED
      BY <2>2, <2>3, <3>1, <3>2, <3>3
  <2>17. ~Truncate
    BY <1>2 DEF Truncate
  <2> QED
    BY <2>4, <2>5, <2>6, <2>7, <2>9, <2>10, <2>12, <2>13, <2>14, <2>15, <2>16, <2>17,
       <2>18, <2>19
       DEF Next, Handle, vars, dbVars, workerVars, courseVars
<1> QED
  BY <1>1, <1>2

-----------------------------------------------------------------------------
(* Every step of the server is a step of the contract, or none. *)

Answers == [w \in Workers |-> Decided(w)]

Moves(w) == Handle(w) \/ \E r \in Requests : Accept(w, r)

\* The answer of a worker that does not move stays as it is.
LEMMA AnswersKeep ==
  ASSUME TypeInv, NEW w \in Workers, Moves(w)
  PROVE  \A u \in Workers \ {w} : Decided(u)' = Decided(u)
  BY OthersUntouched DEF Moves, Decided

\* A step that decides.
LEMMA Decides ==
  ASSUME TypeInv, NEW w \in Workers, Moves(w), NEW c, NEW R,
         Decided(w)' = [status |-> c, rows |-> R]
  PROVE  Store!Decide(w, c, R)
  BY AnswersKeep DEF Store!Decide

\* A step that does not.
LEMMA Undecides ==
  ASSUME TypeInv, NEW w \in Workers, Moves(w), Decided(w)' = Decided(w)
  PROVE  Answers' = Answers
  BY AnswersKeep DEF Answers

\* The places where a request is under way and not decided.
LEMMA UnderWay ==
  ASSUME NEW w \in Workers, pc[w] \notin {"reply", "invalidate"}
  PROVE  Decided(w) = Store!Undecided
  BY DEF Decided, Store!Undecided

\* The same after a step.
LEMMA UnderWayNext ==
  ASSUME NEW w \in Workers, pc'[w] \notin {"reply", "invalidate"}
  PROVE  Decided(w)' = Store!Undecided
  BY DEF Decided, Store!Undecided

\* An answer without rows.
LEMMA EmptyReply ==
  ASSUME NEW w \in Workers, pc'[w] = "reply", out'[w] = <<>>
  PROVE  Decided(w)' = [status |-> status'[w], rows |-> {}]
<1>1. {<<i.id, i.row>> : i \in Range(out'[w])} = {}
  BY DEF Range
<1> QED
  BY <1>1 DEF Decided

\* A step inside a request that decides nothing.
LEMMA Suffers ==
  ASSUME ServerInv, NEW w \in Workers, Handle(w), req[w] # NoRequest, UNCHANGED <<dbVars, req>>,
         pc[w] \notin {"reply", "invalidate"}, pc'[w] \notin {"reply", "invalidate"}
  PROVE  Store!Suffer(w)
<1>1. Decided(w) = Store!Undecided /\ Decided(w)' = Decided(w)
  BY UnderWay, UnderWayNext
<1>2. Answers' = Answers
  BY <1>1, Undecides DEF Moves, ServerInv
<1> QED
  BY <1>1, <1>2 DEF Store!Suffer, Answers, dbVars

\* A refusal, with 400, 405 or 500.
LEMMA Refuses ==
  ASSUME ServerInv, NEW w \in Workers, Handle(w), req[w] # NoRequest, UNCHANGED <<dbVars, req>>,
         pc[w] \notin {"reply", "invalidate"}, pc'[w] = "reply", out'[w] = <<>>,
         \/ req[w].op = "OTHER" /\ status'[w] = "405"
         \/ req[w].op \notin {"OTHER", "LIST"} /\ req[w].id = BadId /\ status'[w] = "400"
         \/ faulted'[w] /\ status'[w] = "500"
  PROVE  Store!Refuse(w)
<1>1. Decided(w) = Store!Undecided
  BY UnderWay
<1>2. Store!Decide(w, status'[w], {})
  BY EmptyReply, Decides DEF Moves, ServerInv
<1> QED
  BY <1>1, <1>2 DEF Store!Refuse, Store!Complete, dbVars

\* GET of an employee that is found.
LEMMA Gets ==
  ASSUME ServerInv, NEW w \in Workers, Handle(w), UNCHANGED <<dbVars, req>>,
         pc[w] \in {"lookup", "put"}, NEW v \in Values, v \in Store!Readable(cur[w]),
         Append1(w, cur[w], v), pc'[w] = "reply", status'[w] = "200"
  PROVE  Store!Get(w)
<1> DEFINE e == [sep |-> ~first[w], id |-> cur[w], row |-> v]
<1>1. /\ req[w].op = "GET" /\ cur[w] = req[w].id /\ out[w] = <<>> /\ cur[w] \in Keys
  BY DEF ServerInv, PhaseInv, Phase, TypeInv, Located
<1>2. out'[w] = Append(out[w], e)
  BY DEF Append1, ServerInv, TypeInv, TypeOK
<1>3. e.id = cur[w] /\ e.row = v
  OBVIOUS
<1> HIDE DEF e
<1>4. DOMAIN out'[w] = {1} /\ out'[w][1] = e
  BY <1>1, <1>2
<1>5. Range(out'[w]) = {e}
  BY <1>4 DEF Range
<1>6. {<<i.id, i.row>> : i \in Range(out'[w])} = {<<cur[w], v>>}
  BY <1>3, <1>5
<1>7. Decided(w)' = [status |-> "200", rows |-> {<<cur[w], v>>}]
  BY <1>6 DEF Decided
<1>8. Store!Decide(w, "200", {<<cur[w], v>>})
  BY <1>7, Decides DEF Moves, ServerInv
<1>9. Decided(w) = Store!Undecided
  BY UnderWay
<1> QED
  BY <1>1, <1>8, <1>9 DEF Store!Get, Store!Open, dbVars

\* GET of one that is not, or of which no answer came.
LEMMA GetsNone ==
  ASSUME ServerInv, NEW w \in Workers, Handle(w), UNCHANGED <<dbVars, req>>,
         pc[w] = "fetch", pc'[w] = "reply", status'[w] = "404", out' = out,
         table[cur[w]] # NoValue => faulted'[w]
  PROVE  Store!Get(w)
<1>1. /\ req[w].op = "GET" /\ cur[w] = req[w].id /\ out[w] = <<>> /\ cur[w] \in Keys
  BY DEF ServerInv, PhaseInv, Phase, TypeInv, Located
<1>2. Store!Decide(w, "404", {})
  BY <1>1, EmptyReply, Decides DEF Moves, ServerInv
<1>3. Decided(w) = Store!Undecided
  BY UnderWay
<1>4. Store!Complete(w) => cur[w] \notin Store!Present
  BY DEF Store!Complete, Store!Present
<1> QED
  BY <1>1, <1>2, <1>3, <1>4 DEF Store!Get, Store!Open, dbVars

\* GET /employee/all answers with what the loop has listed.
LEMMA Lists ==
  ASSUME ServerInv, NEW w \in Workers, Handle(w), UNCHANGED <<dbVars, req>>, Listing(w),
         pc'[w] = "reply", status'[w] = "200",
         \A i \in DOMAIN out'[w] : out'[w][i].row \in Store!Readable(out'[w][i].id),
         out'[w] \in Seq(Items), NamedOnce(w)',
         serial /\ ~faulted'[w] => Store!Present \subseteq Listed(w)'
  PROVE  Store!List(w)
<1> DEFINE S == {<<i.id, i.row>> : i \in Range(out'[w])}
<1>1. req[w].op = "LIST" /\ Decided(w) = Store!Undecided
  BY UnderWay DEF ServerInv, PhaseInv, Phase, Listing
<1>2. Decided(w)' = [status |-> "200", rows |-> S]
  BY DEF Decided
<1>3. \A e \in S : \E j \in DOMAIN out'[w] : e = <<out'[w][j].id, out'[w][j].row>>
  BY DEF Range
<1>4. \A j \in DOMAIN out'[w] : <<out'[w][j].id, out'[w][j].row>> \in S
  BY DEF Range
<1>5. \A j \in DOMAIN out'[w] : out'[w][j].id \in Keys /\ out'[w][j].row \in Values
  <2>1. \A j \in DOMAIN out'[w] : out'[w][j] \in Items
    OBVIOUS
  <2> QED
    BY <2>1 DEF Items
<1>6. Store!Decide(w, "200", S)
  BY <1>2, Decides DEF Moves, ServerInv
<1> HIDE DEF S
<1>7. S \in SUBSET (Keys \X Values)
  BY <1>3, <1>5
<1>8. \A e \in S : e[2] \in Store!Readable(e[1])
  BY <1>3
<1>9. \A d, e \in S : d[1] = e[1] => d = e
  <2> TAKE d, e \in S
  <2> HAVE d[1] = e[1]
  <2>1. PICK i \in DOMAIN out'[w] : d = <<out'[w][i].id, out'[w][i].row>>
    BY <1>3
  <2>2. PICK j \in DOMAIN out'[w] : e = <<out'[w][j].id, out'[w][j].row>>
    BY <1>3
  <2>3. out'[w][i].id = out'[w][j].id
    BY <2>1, <2>2
  <2> QED
    BY <2>1, <2>2, <2>3 DEF NamedOnce
<1>10. \A k \in Listed(w)' : \E e \in S : e[1] = k
  <2> TAKE k \in Listed(w)'
  <2>1. PICK j \in DOMAIN out'[w] : out'[w][j].id = k
    BY DEF Listed
  <2>2. <<out'[w][j].id, out'[w][j].row>> \in S
    BY <1>4
  <2> QED
    BY <2>1, <2>2
<1>11. (serial /\ Store!Complete(w)) => Store!Present \subseteq {e[1] : e \in S}
  BY <1>10 DEF Store!Complete
<1> QED
  BY <1>1, <1>6, <1>7, <1>8, <1>9, <1>11 DEF Store!List, Store!Open, dbVars

\* It answers 404 when the statement failed or found no employee.
LEMMA ListsNone ==
  ASSUME ServerInv, NEW w \in Workers, Handle(w), UNCHANGED <<dbVars, req>>, pc[w] = "ids",
         pc'[w] = "reply", status'[w] = "404", out' = out,
         Store!Present # {} => faulted'[w]
  PROVE  Store!List(w)
<1>1. req[w].op = "LIST" /\ out[w] = <<>> /\ Decided(w) = Store!Undecided
  BY UnderWay DEF ServerInv, PhaseInv, Phase
<1>2. Store!Decide(w, "404", {})
  BY <1>1, EmptyReply, Decides DEF Moves, ServerInv
<1> QED
  BY <1>1, <1>2 DEF Store!List, Store!Open, Store!Complete, dbVars

\* A statement that changes the table, with each of its outcomes.
LEMMA Changes ==
  ASSUME ServerInv, NEW w \in Workers, Handle(w), UNCHANGED <<req, out>>,
         NEW o \in Outcomes \cup {"error"}, NEW v, pc[w] \in {"insert", "update", "delete"},
         IF o = "error" THEN UNCHANGED dbVars ELSE Commit(req[w].id, v),
         \/ o = "ok" /\ pc'[w] = "reply" /\ status'[w] = "200"
         \/ o = "ok" /\ pc'[w] = "invalidate"
         \/ o # "ok" /\ pc'[w] = "reply" /\ status'[w] = "500",
         o # "ok" => faulted'[w]
  PROVE  Store!Change(w, req[w].id, v) /\ Decided(w) = Store!Undecided
<1>1. out'[w] = <<>> /\ Decided(w) = Store!Undecided
  BY UnderWay DEF ServerInv, PhaseInv, Phase
<1>2. o # "error" => Store!Apply(req[w].id, v)
  BY DEF Commit, Store!Apply
<1>3. CASE o = "ok"
  <2>1. Decided(w)' = [status |-> "200", rows |-> {}]
    BY <1>1, <1>3, EmptyReply DEF Decided
  <2>2. Store!Decide(w, "200", {})
    BY <2>1, Decides DEF Moves, ServerInv
  <2> QED
    BY <1>1, <1>2, <1>3, <2>2 DEF Store!Change
<1>4. CASE o # "ok"
  <2>1. Store!Decide(w, "500", {})
    BY <1>1, <1>4, EmptyReply, Decides DEF Moves, ServerInv
  <2> QED
    BY <1>1, <1>2, <1>4, <2>1 DEF Store!Change, Store!Complete, dbVars
<1> QED
  BY <1>3, <1>4

\* A request leaves its faults behind when it ends, and currency is lost for good.
LEMMA CourseHolds ==
  ASSUME ServerInv, PhaseInv', [Next]_vars
  PROVE  Store!Course(Workers)
<1> USE DEF ServerInv
<1>1. ASSUME NEW w \in Workers, Moves(w)
      PROVE  \A u \in Workers : faulted[u] => faulted'[u] \/ req'[u] = NoRequest
  <2> USE DEF TypeInv, TypeOK, Record, courseVars
  <2>1. \A u \in Workers \ {w} : faulted'[u] = faulted[u]
    BY <1>1, OthersUntouched DEF Moves
  <2>2. CASE \E r \in Requests : Accept(w, r)
    BY <2>1, <2>2 DEF Accept
  <2>3. CASE Connect(w)
    BY <2>1, <2>3 DEF Connect
  <2>4. CASE ListIds(w) \/ ListFetch(w) \/ GetFetch(w)
    BY <2>1, <2>4 DEF ListIds, ListFetch, GetFetch
  <2>5. CASE ListLookup(w) \/ ListPut(w) \/ GetLookup(w) \/ GetPut(w) \/ Invalidate(w)
    BY <2>1, <2>5 DEF ListLookup, ListPut, GetLookup, GetPut, Invalidate
  <2>6. CASE Insert(w)
    BY <2>1, <2>6 DEF Insert
  <2>7. CASE Update(w) \/ Delete(w)
    BY <2>1, <2>7 DEF Update, Delete, Write
  <2>8. CASE Return(w)
    BY <2>1, <2>8 DEF Return
  <2>9. CASE ListClose(w) \/ ListNoMemory(w)
    BY <2>1, <2>9 DEF ListClose, ListNoMemory
  <2> QED
    BY <1>1, <2>2, <2>3, <2>4, <2>5, <2>6, <2>7, <2>8, <2>9 DEF Moves, Handle
<1>2. \A u \in Workers : faulted[u] => faulted'[u] \/ req'[u] = NoRequest
  BY <1>1 DEF Next, Moves, Truncate, vars, courseVars
<1>3. \A u \in Workers : req'[u] = NoRequest => ~faulted'[u]
  BY DEF PhaseInv, Phase
<1>4. serial' => serial
  BY SerialFalls
<1> QED
  BY <1>2, <1>3, <1>4 DEF Store!Course

\* What a worker does in the contract.
Contract(w) ==
  \/ \E r \in Requests : Store!Ask(w, r)
  \/ Store!Get(w) \/ Store!List(w) \/ Store!Post(w) \/ Store!Put(w) \/ Store!Remove(w)
  \/ Store!Refuse(w) \/ Store!Suffer(w) \/ Store!Close(w)

\* One step of the proof for each action.
LEMMA WorkerStep ==
  ASSUME ServerInv, ServerInv', ReadInv, NEW w \in Workers, Moves(w)
  PROVE  Contract(w) \/ UNCHANGED <<dbVars, req, Answers, courseVars>>
<1> USE DEF ServerInv, TypeInv, TypeOK, Goto, Answer
<1>0. Phase(w) /\ ReadsOf(w) /\ CompleteOf(w) /\ OnceOf(w) /\ Located(w)
  BY DEF PhaseInv, ReadInv, OnceInv
<1>1. ASSUME NEW r \in Requests, Accept(w, r)
      PROVE  Contract(w)
  <2>1. /\ pc[w] = "idle" /\ pc'[w] = "connect" /\ req' = [req EXCEPT ![w] = r]
        /\ UNCHANGED <<table, had>>
    BY <1>1 DEF Accept, dbVars
  <2>2. Answers' = Answers
    BY <2>1, UnderWay, UnderWayNext, Undecides
  <2>3. Store!Ask(w, r)
    BY <1>0, <2>1, <2>2 DEF Store!Ask, Phase, Answers
  <2> QED
    BY <2>3 DEF Contract
<1>2. CASE Connect(w)
  <2>1. /\ Handle(w) /\ req[w] # NoRequest /\ UNCHANGED <<dbVars, req>> /\ out'[w] = <<>>
        /\ pc[w] = "connect"
    BY <1>0, <1>2 DEF Connect, Handle, Phase
  <2>2. CASE Answer(w, "500") /\ Record(w, "error")
    <3>1. faulted'[w] /\ status'[w] = "500" /\ pc'[w] = "reply"
      BY <2>2 DEF Record
    <3> QED
      BY <2>1, <3>1, Refuses DEF Contract
  <2>3. CASE /\ pc'[w] = "reply"
             /\ \/ req[w].op = "OTHER" /\ status'[w] = "405"
                \/ req[w].op \notin {"LIST", "OTHER"} /\ req[w].id = BadId /\ status'[w] = "400"
    BY <2>1, <2>3, Refuses DEF Contract
  <2>4. CASE pc'[w] \notin {"reply", "invalidate"}
    BY <2>1, <2>4, Suffers DEF Contract
  <2>5. req[w].op \notin {"LIST", "OTHER"} /\ req[w].id # BadId =>
          Branch(req[w]) \in {"lookup", "insert", "update", "delete"}
    BY BranchOf DEF NoRequest
  <2> QED
    BY <1>2, <2>2, <2>3, <2>4, <2>5 DEF Connect
<1>3. CASE ListIds(w)
  <2>1. /\ Handle(w) /\ req[w] # NoRequest /\ UNCHANGED <<dbVars, req>> /\ out' = out
        /\ pc[w] = "ids"
    BY <1>0, <1>3 DEF ListIds, Handle, Phase
  <2>2. \/ pc'[w] = "list"
        \/ pc'[w] = "reply" /\ status'[w] = "404" /\ (Store!Present # {} => faulted'[w])
    <3>1. PICK o \in Outcomes :
            LET ids == IF o = "ok" THEN {k \in Keys : table[k] # NoValue} ELSE {}
            IN  /\ IF ids = {} THEN Answer(w, "404") ELSE Goto(w, "list") /\ UNCHANGED status
                /\ Record(w, o)
      BY <1>3 DEF ListIds
    <3>2. o # "ok" => faulted'[w]
      BY <3>1 DEF Record
    <3>3. CASE o = "ok"
      BY <3>1, <3>3 DEF Store!Present
    <3>4. CASE o # "ok"
      BY <3>1, <3>2, <3>4
    <3> QED
      BY <3>3, <3>4
  <2> QED
    BY <2>1, <2>2, Suffers, ListsNone DEF Contract
<1>4. ASSUME Handle(w), UNCHANGED <<dbVars, req>>, Listing(w), NEW k \in Keys, NextId(w, k)
      PROVE  Contract(w)
  <2>1. req[w] # NoRequest /\ pc[w] \notin {"reply", "invalidate"}
    BY <1>0, <1>4 DEF Phase, Listing
  <2>2. pc'[w] = "list"
    BY <1>4 DEF NextId
  <2> QED
    BY <1>4, <2>1, <2>2, Suffers DEF Contract
<1>5. CASE ListLookup(w)
  <2>1. /\ Handle(w) /\ req[w] # NoRequest /\ UNCHANGED <<dbVars, req>>
        /\ pc[w] = "list" /\ Listing(w)
    BY <1>0, <1>5 DEF ListLookup, Handle, Phase, Listing
  <2>2. PICK k \in todo[w] :
          NextId(w, k) \/ (Goto(w, "list_fetch") /\ UNCHANGED <<todo, first, out, status>>)
    BY <1>5 DEF ListLookup
  <2>3. k \in Keys
    OBVIOUS
  <2>4. CASE NextId(w, k)
    BY <1>4, <2>1, <2>3, <2>4
  <2>5. CASE Goto(w, "list_fetch")
    BY <2>1, <2>5, Suffers DEF Contract
  <2> QED
    BY <2>2, <2>4, <2>5
<1>6. CASE ListFetch(w)
  <2>1. /\ Handle(w) /\ req[w] # NoRequest /\ UNCHANGED <<dbVars, req>>
        /\ pc[w] = "list_fetch" /\ Listing(w) /\ cur[w] \in Keys
    BY <1>0, <1>6 DEF ListFetch, Handle, Phase, Listing, Located
  <2>2. CASE NextId(w, cur[w])
    BY <1>4, <2>1, <2>2
  <2>3. CASE pc'[w] = "list_put"
    BY <2>1, <2>3, Suffers DEF Contract
  <2> QED
    BY <1>6, <2>2, <2>3 DEF ListFetch
<1>7. CASE ListPut(w)
  <2>1. /\ Handle(w) /\ UNCHANGED <<dbVars, req>> /\ Listing(w) /\ cur[w] \in Keys
        /\ NextId(w, cur[w])
    BY <1>0, <1>7 DEF ListPut, Handle, Listing, Located
  <2> QED
    BY <1>4, <2>1
<1>17. CASE ListClose(w)
  <2>1. /\ Handle(w) /\ UNCHANGED <<dbVars, req>> /\ Listing(w) /\ pc[w] = "list"
        /\ out' = out /\ faulted' = faulted /\ todo[w] = {}
        /\ pc'[w] = "reply" /\ status'[w] = "200"
    BY <1>17 DEF ListClose, Handle, Listing, courseVars
  <2>2. out'[w] \in Seq(Items) /\ NamedOnce(w)' /\ Listed(w)' = Listed(w)
    BY <1>0, <2>1 DEF OnceOf, NamedOnce, Listed
  <2>3. \A i \in DOMAIN out'[w] : out'[w][i].row \in Store!Readable(out'[w][i].id)
    BY <1>0, <2>1 DEF ReadsOf
  <2>4. serial /\ ~faulted'[w] => Store!Present \subseteq Listed(w)'
    BY <1>0, <2>1, <2>2 DEF CompleteOf
  <2> QED
    BY <2>1, <2>2, <2>3, <2>4, Lists DEF Contract
<1>18. CASE ListNoMemory(w)
  <2>1. /\ Handle(w) /\ req[w] # NoRequest /\ UNCHANGED <<dbVars, req>> /\ pc[w] = "list"
        /\ out'[w] = <<>> /\ pc'[w] = "reply" /\ status'[w] = "500" /\ faulted'[w]
    BY <1>0, <1>18 DEF ListNoMemory, Handle, Phase, Record
  <2> QED
    BY <2>1, Refuses DEF Contract
<1>8. CASE GetLookup(w)
  <2>1. /\ Handle(w) /\ req[w] # NoRequest /\ UNCHANGED <<dbVars, req>> /\ pc[w] = "lookup"
        /\ cur[w] \in Keys
    BY <1>0, <1>8 DEF GetLookup, Handle, Phase, Located
  <2>2. CASE Cached(cache, cur[w])
    <3>1. cache.entry[cur[w]] \in Store!Readable(cur[w]) /\ cache.entry[cur[w]] \in Values
      BY <2>1, <2>2, EntryReadable
    <3>2. Append1(w, cur[w], cache.entry[cur[w]]) /\ pc'[w] = "reply" /\ status'[w] = "200"
      BY <1>8, <2>2 DEF GetLookup
    <3> QED
      BY <2>1, <3>1, <3>2, Gets DEF Contract
  <2>3. CASE ~Cached(cache, cur[w])
    <3>1. pc'[w] = "fetch"
      BY <1>8, <2>3 DEF GetLookup
    <3> QED
      BY <2>1, <3>1, Suffers DEF Contract
  <2> QED
    BY <2>2, <2>3
<1>9. CASE GetFetch(w)
  <2>1. /\ Handle(w) /\ req[w] # NoRequest /\ UNCHANGED <<dbVars, req>> /\ pc[w] = "fetch"
        /\ out' = out
    BY <1>0, <1>9 DEF GetFetch, Handle, Phase
  <2>2. \/ pc'[w] = "put"
        \/ pc'[w] = "reply" /\ status'[w] = "404" /\ (table[cur[w]] # NoValue => faulted'[w])
    <3>1. PICK o \in Outcomes :
            /\ Record(w, o)
            /\ IF o = "ok" /\ table[cur[w]] # NoValue
               THEN Goto(w, "put") ELSE Answer(w, "404")
      BY <1>9 DEF GetFetch
    <3>2. o # "ok" => faulted'[w]
      BY <1>0, <3>1 DEF Record
    <3>3. /\ Goto(w, "put") => pc'[w] = "put"
          /\ Answer(w, "404") => pc'[w] = "reply" /\ status'[w] = "404"
      BY <1>0 DEF Goto, Answer
    <3> QED
      BY <3>1, <3>2, <3>3
  <2> QED
    BY <2>1, <2>2, Suffers, GetsNone DEF Contract
<1>10. CASE GetPut(w)
  <2>1. /\ Handle(w) /\ UNCHANGED <<dbVars, req>> /\ pc[w] = "put" /\ Filling(w)
        /\ Append1(w, cur[w], row[w]) /\ pc'[w] = "reply" /\ status'[w] = "200"
    BY <1>10 DEF GetPut, Handle, Filling
  <2>2. row[w] \in Store!Readable(cur[w]) /\ row[w] \in Values
    BY <2>1, RowReadable
  <2> QED
    BY <2>1, <2>2, Gets DEF Contract
<1>11. CASE Insert(w)
  <2>1. /\ Handle(w) /\ UNCHANGED <<req, out>> /\ pc[w] = "insert" /\ req[w].op = "POST"
        /\ req[w].id \in Keys
    BY <1>0, <1>11 DEF Insert, Handle, Phase, Located
  <2>2. PICK o \in Outcomes \cup {"error"} :
          /\ o # "error" => table[req[w].id] = NoValue
          /\ IF o = "error" THEN UNCHANGED <<dbVars, dirty>>
                            ELSE Commit(req[w].id, req[w].row)
          /\ Answer(w, IF o = "ok" THEN "200" ELSE "500")
          /\ Record(w, o)
    BY <1>11 DEF Insert
  <2>3. /\ pc'[w] = "reply" /\ status'[w] = IF o = "ok" THEN "200" ELSE "500"
        /\ o # "ok" => faulted'[w]
    BY <2>2 DEF Record
  <2>4. Store!Change(w, req[w].id, req[w].row) /\ Decided(w) = Store!Undecided
    <3>1. IF o = "error" THEN UNCHANGED dbVars ELSE Commit(req[w].id, req[w].row)
      BY <2>2
    <3>2. \/ o = "ok" /\ pc'[w] = "reply" /\ status'[w] = "200"
          \/ o # "ok" /\ pc'[w] = "reply" /\ status'[w] = "500"
      BY <2>3
    <3> HIDE DEF ServerInv, TypeInv, TypeOK, Goto, Answer
    <3> QED
      BY <2>1, <2>3, <3>1, <3>2, Changes
  <2>5. CASE req[w].id \in Store!Present
    <3>1. o = "error" /\ out'[w] = <<>> /\ UNCHANGED dbVars
      BY <1>0, <2>1, <2>2, <2>5 DEF Store!Present, Phase
    <3>2. Store!Decide(w, "500", {})
      BY <2>3, <3>1, EmptyReply, Decides
    <3> QED
      BY <2>1, <2>4, <2>5, <3>1, <3>2 DEF Store!Post, Store!Open, Contract, dbVars
  <2>6. CASE req[w].id \notin Store!Present
    BY <2>1, <2>4, <2>6 DEF Store!Post, Store!Open, Contract
  <2> QED
    BY <2>5, <2>6
<1>12. ASSUME NEW v, Write(w, v), pc[w] \in {"update", "delete"}, Handle(w)
       PROVE  Store!Change(w, req[w].id, v) /\ Decided(w) = Store!Undecided
  <2>1. PICK o \in Outcomes :
          /\ IF o = "error" THEN UNCHANGED <<dbVars, dirty>> ELSE Commit(req[w].id, v)
          /\ IF o = "ok" THEN Goto(w, "invalidate") /\ UNCHANGED status
                         ELSE Answer(w, "500")
          /\ Record(w, o)
    BY <1>12 DEF Write
  <2>2. o # "ok" => faulted'[w]
    BY <2>1 DEF Record
  <2>3. \/ o = "ok" /\ pc'[w] = "invalidate"
        \/ o # "ok" /\ pc'[w] = "reply" /\ status'[w] = "500"
    BY <2>1
  <2>4. UNCHANGED <<req, out>>
    BY <1>12 DEF Write
  <2>5. IF o = "error" THEN UNCHANGED dbVars ELSE Commit(req[w].id, v)
    BY <2>1
  <2> HIDE DEF ServerInv, TypeInv, TypeOK, Goto, Answer
  <2> QED
    BY <1>12, <2>2, <2>3, <2>4, <2>5, Changes
<1>13. CASE Update(w)
  <2>1. /\ Handle(w) /\ req[w].op = "PUT" /\ req[w].id \in Keys /\ pc[w] = "update" /\ req' = req
        /\ Write(w, IF table[req[w].id] = NoValue THEN NoValue ELSE req[w].row)
    BY <1>0, <1>13 DEF Update, Write, Handle, Phase, Located
  <2>2. /\ Store!Change(w, req[w].id, IF table[req[w].id] = NoValue THEN NoValue ELSE req[w].row)
        /\ Decided(w) = Store!Undecided
    BY <1>12, <2>1
  <2>3. (IF table[req[w].id] = NoValue THEN NoValue ELSE req[w].row)
          = (IF req[w].id \in Store!Present THEN req[w].row ELSE NoValue)
    BY <2>1 DEF Store!Present
  <2> QED
    BY <2>1, <2>2, <2>3 DEF Store!Put, Store!Open, Contract
<1>14. CASE Delete(w)
  <2>1. /\ Handle(w) /\ req[w].op = "DELETE" /\ req[w].id \in Keys /\ pc[w] = "delete"
        /\ req' = req /\ Write(w, NoValue)
    BY <1>0, <1>14 DEF Delete, Write, Handle, Phase, Located
  <2>2. Store!Change(w, req[w].id, NoValue) /\ Decided(w) = Store!Undecided
    BY <1>12, <2>1
  <2> QED
    BY <2>1, <2>2 DEF Store!Remove, Store!Open, Contract
<1>15. CASE Invalidate(w)
  <2>1. /\ pc[w] = "invalidate" /\ pc'[w] = "reply" /\ status'[w] = "200" /\ out'[w] = <<>>
        /\ UNCHANGED <<dbVars, req, courseVars>>
    BY <1>0, <1>15 DEF Invalidate, Phase
  <2>2. Decided(w) = [status |-> "200", rows |-> {}]
    BY <2>1 DEF Decided
  <2>3. Answers' = Answers
    BY <2>1, <2>2, EmptyReply, Undecides
  <2> QED
    BY <2>1, <2>3
<1>16. CASE Return(w)
  <2>1. /\ pc[w] = "reply" /\ pc'[w] = "idle" /\ req' = [req EXCEPT ![w] = NoRequest]
        /\ UNCHANGED <<table, had>>
    BY <1>16 DEF Return, dbVars
  <2>2. Decided(w) # Store!Undecided
    BY <1>0, <2>1 DEF Decided, Store!Undecided, Phase
  <2>3. Decided(w)' = Store!Undecided
    BY <2>1, UnderWayNext
  <2>4. Answers' = [Answers EXCEPT ![w] = Store!Undecided]
    BY <2>3, AnswersKeep DEF Answers
  <2>5. Store!Close(w)
    BY <2>1, <2>2, <2>4 DEF Store!Close, Answers
  <2> QED
    BY <2>5 DEF Contract
<1> QED
  BY <1>1, <1>2, <1>3, <1>5, <1>6, <1>7, <1>8, <1>9, <1>10, <1>11, <1>13, <1>14, <1>15, <1>16,
     <1>17, <1>18 DEF Moves, Handle

\* A step of the server, under the mapping.
LEMMA StoreStep ==
  ServerInv /\ ServerInv' /\ ReadInv /\ [Next]_vars => [Store!StoreNext]_Store!storeVars
<1> SUFFICES ASSUME ServerInv, ServerInv', ReadInv, [Next]_vars
             PROVE  Store!StoreNext \/ UNCHANGED <<table, had, req, Answers, faulted, serial>>
  BY DEF Store!storeVars, Answers
<1>1. Store!Course(Workers)
  BY CourseHolds DEF ServerInv
<1>2. ASSUME NEW w \in Workers, Moves(w)
      PROVE  Store!StoreNext \/ UNCHANGED <<table, had, req, Answers, faulted, serial>>
  <2>1. \A u \in Workers \ {w} : faulted'[u] = faulted[u]
    BY <1>2, OthersUntouched DEF Moves, ServerInv
  <2>2. CASE Contract(w)
    BY <1>1, <2>1, <2>2 DEF Contract, Store!StoreNext
  <2>3. CASE UNCHANGED <<dbVars, req, Answers, courseVars>>
    BY <2>3 DEF dbVars, courseVars
  <2> QED
    BY <1>2, <2>2, <2>3, WorkerStep
<1>3. CASE Truncate
  <2>1. Answers' = Answers
    BY <1>3 DEF Truncate, Answers, Decided
  <2>2. Store!Empty /\ UNCHANGED faulted
    BY <1>3, <2>1 DEF Truncate, Store!Empty, Answers
  <2> QED
    BY <1>1, <2>2 DEF Store!StoreNext
<1>4. CASE UNCHANGED vars
  <2>1. Answers' = Answers
    BY <1>4 DEF vars, workerVars, Answers, Decided
  <2> QED
    BY <1>4, <2>1 DEF vars, dbVars, workerVars, courseVars
<1> QED
  BY <1>2, <1>3, <1>4 DEF Next, Moves

(* server.c:40-234: for any number of workers, the handler over the cache  *)
(* and the table implements the contract: every answer is that of one      *)
(* atomic step on the table, as far as the contract promises it.           *)
THEOREM HandlerKeepsContract == Spec => ImplementsStore
<1>1. Init => ServerInv /\ ReadInv
  <2> SUFFICES ASSUME Init PROVE ServerInv /\ ReadInv
    OBVIOUS
  <2>1. TypeInv
    BY TypeInit
  <2>2. CauseInv
    BY DEF Init, CauseInv, FillFresh, StaleHasCause, Stale, Cached, Filling, cache_create
  <2>3. SerialInv
    BY DEF Init, SerialInv, Undisturbed, Alone
  <2>4. RealInv
    BY LenProperties DEF Init, RealInv, ServedWasReal, Filling, Cached, cache_create, Optional
  <2>5. OnceInv
    BY DEF Init, OnceInv, OnceOf, NamedOnce
  <2>6. PhaseInv
    BY DEF Init, PhaseInv, Phase
  <2>7. ReadInv
    BY DEF Init, ReadInv, ReadsOf, CompleteOf, Listing
  <2> QED
    BY <2>1, <2>2, <2>3, <2>4, <2>5, <2>6, <2>7 DEF ServerInv
<1>2. ServerInv /\ [Next]_vars => ServerInv'
  BY TypeStep, CauseStep, SerialStep, RealStep, OnceStep, PhaseStep DEF ServerInv
<1>3. ServerInv /\ ServerInv' /\ ReadInv /\ [Next]_vars => ReadInv'
  BY ReadStep
<1>4. Init => Store!StoreInit
  <2> SUFFICES ASSUME Init PROVE Store!StoreInit
    OBVIOUS
  <2>1. \A w \in Workers : Decided(w) = Store!Undecided
    BY UnderWay DEF Init
  <2> QED
    BY <2>1 DEF Init, Store!StoreInit, Optional
<1> QED
  BY <1>1, <1>2, <1>3, <1>4, StoreStep, PTL DEF Spec, ImplementsStore, Store!StoreSpec
=============================================================================
