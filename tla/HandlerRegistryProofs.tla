------------------------ MODULE HandlerRegistryProofs ------------------------
(***************************************************************************)
(* A request handler stays as a request has read it while the request      *)
(* uses it, and its count is the number of its users, for any number of    *)
(* workers, callers, URIs and callbacks.                                   *)
(***************************************************************************)
EXTENDS HandlerRegistry, FiniteSetTheorems, SequenceTheorems, TLAPS

Structures == [uri : Uris \cup {"none"}, handler : Callbacks \cup {"none"},
               refs : Int, removing : BOOLEAN]

Operations == {Idle} \cup [uri : Uris, handler : Callbacks \cup {Remove}]

Typed ==
  /\ list \in Seq(Nodes)
  /\ node \in [Nodes -> Structures]
  /\ wpc \in [Workers -> {"idle", "auth", "call"}]
  /\ info \in [Workers -> Nodes \cup {NoNode}]
  /\ called \in [Workers -> Callbacks \cup {"none"}]
  /\ resource \in [Workers -> BOOLEAN]
  /\ op \in [Callers -> Operations]
  /\ twice \subseteq Nodes

(* Where handle_request is, and what its variables hold there. *)
Phases ==
  \A w \in Workers :
    /\ wpc[w] = "idle" => info[w] = NoNode
    /\ wpc[w] = "call" => resource[w]
    /\ resource[w] => info[w] # NoNode

(* The entries are for URIs that exist, each for one of its own. *)
OnePerUri ==
  /\ \A i \in DOMAIN list : node[list[i]].uri \in Uris
  /\ \A i, j \in DOMAIN list : node[list[i]].uri = node[list[j]].uri => i = j

(* Who uses an entry has it in the list, with the callback it has read. *)
InUse ==
  \A w \in Workers : \A n \in Nodes \ twice :
    w \in Using(n) => n \in Linked /\ node[n].handler = called[w]

RegistryInv == Typed /\ Phases /\ OnePerUri /\ InUse /\ RefsExact

-----------------------------------------------------------------------------
(* Lists and the structures they link. *)

\* Taking one place out of a list.
LEMMA RemoveAtElements ==
  ASSUME NEW S, NEW s \in Seq(S), NEW p \in DOMAIN s
  PROVE  /\ SeqExt!RemoveAt(s, p) \in Seq(S)
         /\ Len(SeqExt!RemoveAt(s, p)) = Len(s) - 1
         /\ \A i \in 1..(Len(s) - 1) :
              SeqExt!RemoveAt(s, p)[i] = IF i < p THEN s[i] ELSE s[i + 1]
<1> DEFINE a == SubSeq(s, 1, p - 1)
           b == SubSeq(s, p + 1, Len(s))
<1>1. Len(s) \in Nat /\ p \in 1..Len(s) /\ \A i \in 1..Len(s) : s[i] \in S
  BY LenProperties, ElementOfSeq
<1>2. /\ a \in Seq(S) /\ Len(a) = p - 1
      /\ \A i \in 1..(p - 1) : a[i] = s[i]
  BY <1>1
<1>3. /\ b \in Seq(S) /\ Len(b) = Len(s) - p
      /\ \A i \in 1..(Len(s) - p) : b[i] = s[p + i]
  BY <1>1
<1>4. SeqExt!RemoveAt(s, p) = a \o b
  BY DEF SeqExt!RemoveAt
<1> HIDE DEF a, b
<1>5. /\ a \o b \in Seq(S)
      /\ Len(a \o b) = Len(a) + Len(b)
      /\ \A i \in 1..(Len(a) + Len(b)) :
           (a \o b)[i] = IF i <= Len(a) THEN a[i] ELSE b[i - Len(a)]
  BY <1>2, <1>3, ConcatProperties
<1>6. \A i \in 1..(Len(s) - 1) :
        (IF i <= p - 1 THEN a[i] ELSE b[i - (p - 1)]) = IF i < p THEN s[i] ELSE s[i + 1]
  BY <1>1, <1>2, <1>3
<1>7. Len(a) + Len(b) = Len(s) - 1 /\ Len(a) = p - 1
  BY <1>1, <1>2, <1>3
<1>8. /\ a \o b \in Seq(S)
      /\ Len(a \o b) = Len(s) - 1
      /\ \A i \in 1..(Len(s) - 1) :
           (a \o b)[i] = IF i <= p - 1 THEN a[i] ELSE b[i - (p - 1)]
  BY <1>5, <1>7
<1> QED
  BY <1>4, <1>6, <1>8

\* A structure that the list has in two places would be for one URI.
LEMMA LinkedOnce ==
  ASSUME OnePerUri, NEW i \in DOMAIN list, NEW j \in DOMAIN list, list[i] = list[j]
  PROVE  i = j
  BY DEF OnePerUri

\* A removal takes one structure out of the list.
LEMMA UnlinkLinked ==
  ASSUME Typed, OnePerUri, NEW i \in DOMAIN list, list' = SeqExt!RemoveAt(list, i)
  PROVE  /\ list' \in Seq(Nodes)
         /\ Linked' = Linked \ {list[i]}
         /\ \A j \in DOMAIN list' : \E k \in DOMAIN list \ {i} : list'[j] = list[k]
         /\ \A j, k \in DOMAIN list' : list'[j] = list'[k] => j = k
<1>1. list \in Seq(Nodes) /\ Len(list) \in Nat /\ DOMAIN list = 1..Len(list)
  BY LenProperties DEF Typed
<1>2. /\ list' \in Seq(Nodes) /\ Len(list') = Len(list) - 1
      /\ \A j \in 1..(Len(list) - 1) : list'[j] = IF j < i THEN list[j] ELSE list[j + 1]
  BY <1>1, RemoveAtElements
<1>3. DOMAIN list' = 1..(Len(list) - 1)
  BY <1>1, <1>2, LenProperties
<1>4. \A j \in DOMAIN list : \A k \in DOMAIN list : list[j] = list[k] => j = k
  BY LinkedOnce
<1>5. ASSUME NEW j \in DOMAIN list'
      PROVE  \E k \in DOMAIN list \ {i} : list'[j] = list[k]
  <2>1. CASE j < i
    BY <1>1, <1>2, <1>3, <2>1
  <2>2. CASE ~(j < i)
    <3>1. j + 1 \in DOMAIN list \ {i} /\ list'[j] = list[j + 1]
      BY <1>1, <1>2, <1>3, <2>2
    <3> QED
      BY <3>1
  <2> QED
    BY <2>1, <2>2
<1>6. ASSUME NEW k \in DOMAIN list \ {i}
      PROVE  \E j \in DOMAIN list' : list'[j] = list[k]
  <2>1. CASE k < i
    BY <1>1, <1>2, <1>3, <2>1
  <2>2. CASE ~(k < i)
    <3>1. k - 1 \in DOMAIN list' /\ list'[k - 1] = list[k]
      BY <1>1, <1>2, <1>3, <2>2
    <3> QED
      BY <3>1
  <2> QED
    BY <2>1, <2>2
<1>7. ASSUME NEW j \in DOMAIN list', NEW k \in DOMAIN list', list'[j] = list'[k]
      PROVE  j = k
  <2> DEFINE before(m) == IF m < i THEN m ELSE m + 1
  <2>1. \A m \in DOMAIN list' : before(m) \in DOMAIN list /\ list'[m] = list[before(m)]
    BY <1>1, <1>2, <1>3
  <2>2. before(j) = before(k)
    <3> HIDE DEF before
    <3> QED
      BY <1>4, <1>7, <2>1
  <2>3. j \in Int /\ k \in Int /\ i \in Int
    BY <1>1, <1>3
  <2> QED
    BY <2>2, <2>3
<1>8. Linked' = {list'[j] : j \in DOMAIN list'}
  BY DEF Linked
<1>9. Linked' = Linked \ {list[i]}
  BY <1>4, <1>5, <1>6, <1>8 DEF Linked
<1> QED
  BY <1>2, <1>5, <1>7, <1>9

\* An addition links one structure more, at the end.
LEMMA AppendLinked ==
  ASSUME Typed, NEW n \in Nodes, list' = Append(list, n)
  PROVE  /\ list' \in Seq(Nodes)
         /\ DOMAIN list' = DOMAIN list \cup {Len(list) + 1}
         /\ Len(list) + 1 \notin DOMAIN list
         /\ list'[Len(list) + 1] = n
         /\ \A i \in DOMAIN list : list'[i] = list[i]
         /\ Linked' = Linked \cup {n}
<1>1. list \in Seq(Nodes) /\ Len(list) \in Nat /\ DOMAIN list = 1..Len(list)
  BY LenProperties DEF Typed
<1>2. /\ list' \in Seq(Nodes) /\ Len(list') = Len(list) + 1
      /\ list'[Len(list) + 1] = n
      /\ \A i \in 1..Len(list) : list'[i] = list[i]
  BY <1>1, AppendProperties
<1>3. DOMAIN list' = 1..(Len(list) + 1)
  BY <1>2, LenProperties
<1>4. Linked' = {list'[j] : j \in DOMAIN list'}
  BY DEF Linked
<1>5. DOMAIN list' = DOMAIN list \cup {Len(list) + 1} /\ Len(list) + 1 \notin DOMAIN list
  BY <1>1, <1>3
<1>6. Linked' = Linked \cup {n}
  BY <1>1, <1>2, <1>4, <1>5 DEF Linked
<1> QED
  BY <1>1, <1>2, <1>5, <1>6

(* There is a structure for a new entry: the others are in the list, each  *)
(* for another URI, or some worker points to them.                         *)
LEMMA StructureLeft ==
  ASSUME Typed, OnePerUri, NEW u \in Uris, At(u) = {}
  PROVE  \E n \in Nodes : n \notin Linked \cup {info[w] : w \in Workers}
<1> DEFINE pointed == {info[w] : w \in Workers}
           uriAt == [i \in DOMAIN list |-> node[list[i]].uri]
           linkedAt == [i \in DOMAIN list |-> list[i]]
<1>1. IsFiniteSet(Uris) /\ IsFiniteSet(Workers)
  BY RegistryAssumption
<1>2. Len(list) \in Nat /\ DOMAIN list = 1..Len(list)
  BY LenProperties DEF Typed
<1>3. IsFiniteSet(DOMAIN list) /\ Cardinality(DOMAIN list) = Len(list)
  <2>1. /\ IsFiniteSet(1..Len(list))
        /\ Cardinality(1..Len(list)) = IF 1 > Len(list) THEN 0 ELSE Len(list) - 1 + 1
    BY <1>2, FS_Interval
  <2> QED
    BY <1>2, <2>1
<1>4. IsFiniteSet(Uris \ {u}) /\ Cardinality(Uris \ {u}) = Cardinality(Uris) - 1
  BY <1>1, FS_RemoveElement
<1>5. uriAt \in Injection(DOMAIN list, Uris \ {u})
  BY DEF OnePerUri, At, Injection, IsInjective
<1>6. Cardinality(DOMAIN list) <= Cardinality(Uris \ {u})
  <2> HIDE DEF uriAt
  <2> QED
    BY <1>4, <1>5, FS_Injection
<1>7. linkedAt \in Surjection(DOMAIN list, Linked)
  BY DEF Linked, Surjection
<1>8. IsFiniteSet(Linked) /\ Cardinality(Linked) <= Cardinality(DOMAIN list)
  <2> HIDE DEF linkedAt
  <2> QED
    BY <1>3, <1>7, FS_Surjection
<1>9. info \in Surjection(Workers, pointed)
  BY DEF Typed, Surjection
<1>10. IsFiniteSet(pointed) /\ Cardinality(pointed) <= Cardinality(Workers)
  <2> HIDE DEF pointed
  <2> QED
    BY <1>1, <1>9, FS_Surjection
<1>11. /\ Cardinality(Uris) \in Nat /\ Cardinality(Workers) \in Nat
       /\ Cardinality(Linked) \in Nat /\ Cardinality(pointed) \in Nat
       /\ Cardinality(Linked \cap pointed) \in Nat
  BY <1>1, <1>8, <1>10, FS_CardinalityType, FS_Intersection
<1>12. /\ IsFiniteSet(Linked \cup pointed)
       /\ Cardinality(Linked \cup pointed)
            = Cardinality(Linked) + Cardinality(pointed) - Cardinality(Linked \cap pointed)
  BY <1>8, <1>10, FS_Union
<1>13. Cardinality(Linked \cup pointed) < Cardinality(Uris) + Cardinality(Workers)
  BY <1>2, <1>3, <1>4, <1>6, <1>8, <1>10, <1>11, <1>12
<1>14. Cardinality(Nodes) = Cardinality(Uris) + Cardinality(Workers)
  BY <1>11, FS_Interval DEF Nodes
<1>15. ~(Nodes \subseteq Linked \cup pointed)
  <2> SUFFICES ASSUME Nodes \subseteq Linked \cup pointed PROVE FALSE
    OBVIOUS
  <2>1. Cardinality(Nodes) <= Cardinality(Linked \cup pointed)
    BY <1>12, FS_Subset
  <2>2. Cardinality(Linked \cup pointed) \in Nat
    BY <1>12, FS_CardinalityType
  <2> QED
    BY <1>11, <1>13, <1>14, <2>1, <2>2
<1> QED
  BY <1>15

-----------------------------------------------------------------------------
(* The users of an entry. *)

\* The workers are finitely many, and so are those that use an entry.
LEMMA UsersFinite ==
  \A n : /\ IsFiniteSet(Using(n)) /\ Cardinality(Using(n)) \in Nat
         /\ IsFiniteSet(Using(n)') /\ Cardinality(Using(n)') \in Nat
<1> TAKE n
<1>1. IsFiniteSet(Workers) /\ Using(n) \subseteq Workers /\ Using(n)' \subseteq Workers
  BY RegistryAssumption DEF Using
<1>2. IsFiniteSet(Using(n)) /\ IsFiniteSet(Using(n)')
  BY <1>1, FS_Subset
<1> QED
  BY <1>2, FS_CardinalityType

\* Two finite sets that differ at most in one element.
LEMMA CountChange ==
  ASSUME NEW S, NEW T, NEW x, IsFiniteSet(S), IsFiniteSet(T), T \ {x} = S \ {x}
  PROVE  Cardinality(T) = Cardinality(S) + (IF x \in T THEN 1 ELSE 0)
                                         - (IF x \in S THEN 1 ELSE 0)
<1>1. Cardinality(S) \in Nat /\ Cardinality(T) \in Nat
  BY FS_CardinalityType
<1>2. Cardinality(S \ {x}) = IF x \in S THEN Cardinality(S) - 1 ELSE Cardinality(S)
  BY FS_RemoveElement
<1>3. Cardinality(T \ {x}) = IF x \in T THEN Cardinality(T) - 1 ELSE Cardinality(T)
  BY FS_RemoveElement
<1> QED
  BY <1>1, <1>2, <1>3

\* A worker's step changes the users of an entry by that worker.
LEMMA UsersChange ==
  ASSUME NEW w \in Workers, NEW n,
         \A v \in Workers \ {w} : info'[v] = info[v] /\ resource'[v] = resource[v]
  PROVE  Cardinality(Using(n)')
           = Cardinality(Using(n)) + (IF w \in Using(n)' THEN 1 ELSE 0)
                                   - (IF w \in Using(n)  THEN 1 ELSE 0)
<1>1. Using(n)' \ {w} = Using(n) \ {w}
  BY DEF Using
<1>2. IsFiniteSet(Using(n)) /\ IsFiniteSet(Using(n)')
  BY UsersFinite
<1> QED
  BY <1>1, <1>2, CountChange

\* The users of an entry do not change while no worker moves.
LEMMA UsersKept == UNCHANGED worker => \A n : Using(n)' = Using(n)
  BY DEF worker, Using

-----------------------------------------------------------------------------
(* The steps of mg_set_handler_type. *)

\* A caller calls: the handlers are as they were.
LEMMA CallKeeps == ASSUME RegistryInv, NEW c \in Callers, Call(c) PROVE RegistryInv'
<1>1. /\ UNCHANGED <<list, node, wpc, info, called, resource, twice>>
      /\ op' \in [Callers -> Operations]
  BY DEF RegistryInv, Typed, Call, worker, Operations
<1>2. Linked' = Linked /\ \A n : Using(n)' = Using(n)
  BY <1>1 DEF Linked, Using
<1> QED
  BY <1>1, <1>2 DEF RegistryInv, Typed, Phases, OnePerUri, InUse, RefsExact

\* A call that returns leaves its caller at nothing.
LEMMA ReturnTyped ==
  ASSUME Typed, NEW c \in Callers, Return(c)
  PROVE  op' \in [Callers -> Operations]
  BY DEF Typed, Return, Operations

\* A caller that finds the entry in use may mark it, which its users ignore.
LEMMA WaitKeeps ==
  ASSUME RegistryInv, NEW c \in Callers, NEW i \in DOMAIN list, Wait(c, list[i]),
         UNCHANGED worker
  PROVE  RegistryInv'
<1>1. list[i] \in Nodes
  BY LenProperties, ElementOfSeq DEF RegistryInv, Typed
<1>2. /\ node' \in [Nodes -> Structures]
      /\ \A n \in Nodes : /\ node'[n].uri = node[n].uri /\ node'[n].refs = node[n].refs
                          /\ node'[n].handler = node[n].handler
  <2> DEFINE b == node[list[i]].removing \/ op[c].handler = Remove
  <2>1. node' = [node EXCEPT ![list[i]].removing = b]
    BY DEF Wait
  <2>2. b \in BOOLEAN
    BY <1>1 DEF RegistryInv, Typed, Structures
  <2> HIDE DEF b
  <2>3. \A n \in Nodes : node[n] \in Structures
    BY DEF RegistryInv, Typed
  <2>4. \A n \in Nodes : node'[n] = IF n = list[i] THEN [node[n] EXCEPT !.removing = b] ELSE node[n]
    BY <1>1, <2>1 DEF RegistryInv, Typed
  <2>5. ASSUME NEW n \in Nodes PROVE [node[n] EXCEPT !.removing = b] \in Structures
    BY <2>2, <2>3 DEF Structures
  <2>6. \A n \in Nodes : node'[n] \in Structures
    BY <2>3, <2>4, <2>5
  <2>7. node' = [n \in Nodes |-> node'[n]]
    BY <2>1 DEF RegistryInv, Typed
  <2> QED
    BY <2>3, <2>4, <2>6, <2>7 DEF Structures
<1>3. UNCHANGED <<list, op, twice, wpc, info, called, resource>>
  BY DEF Wait, worker
<1>4. \A j \in DOMAIN list : list[j] \in Nodes
  BY LenProperties, ElementOfSeq DEF RegistryInv, Typed
<1>5. Linked' = Linked /\ (\A n : Using(n)' = Using(n)) /\ Linked \subseteq Nodes
  BY <1>3, <1>4, UsersKept DEF Linked
<1>6. Typed' /\ Phases'
  BY <1>2, <1>3 DEF RegistryInv, Typed, Phases
<1>7. OnePerUri'
  BY <1>2, <1>3, <1>4 DEF RegistryInv, OnePerUri
<1>8. InUse'
  BY <1>2, <1>3, <1>5 DEF RegistryInv, InUse
<1>9. RefsExact'
  BY <1>2, <1>3, <1>5 DEF RegistryInv, RefsExact
<1> QED
  BY <1>6, <1>7, <1>8, <1>9 DEF RegistryInv

\* An entry whose count is zero has no user, unless given back twice.
LEMMA NotUsed ==
  ASSUME RegistryInv, NEW n \in Linked, node[n].refs = 0, n \notin twice
  PROVE  Using(n) = {}
<1>1. IsFiniteSet(Using(n)) /\ Cardinality(Using(n)) \in Nat
  BY UsersFinite
<1>2. Cardinality(Using(n)) = 0
  BY <1>1 DEF RegistryInv, RefsExact
<1> QED
  BY <1>1, <1>2, FS_EmptySet

\* An update changes the callback that no user of the entry has read.
LEMMA UpdateKeeps ==
  ASSUME RegistryInv, NEW c \in Callers, NEW i \in DOMAIN list, Update(c, list[i]),
         UNCHANGED worker
  PROVE  RegistryInv'
<1>1. \A j \in DOMAIN list : list[j] \in Nodes
  BY LenProperties, ElementOfSeq DEF RegistryInv, Typed
<1>2. op[c] \in Operations /\ op[c].handler \in Callbacks \cup {"none"}
  BY DEF RegistryInv, Typed, Operations, Idle, Update
<1>3. /\ node' \in [Nodes -> Structures]
      /\ \A n \in Nodes : node'[n].uri = node[n].uri /\ node'[n].refs = node[n].refs
      /\ \A n \in Nodes \ {list[i]} : node'[n] = node[n]
  <2> DEFINE x == op[c].handler
  <2>1. node' = [node EXCEPT ![list[i]].handler = x]
    BY DEF Update
  <2>2. x \in Callbacks \cup {"none"}
    BY <1>2
  <2> HIDE DEF x
  <2>3. \A n \in Nodes : node[n] \in Structures
    BY DEF RegistryInv, Typed
  <2>4. \A n \in Nodes : node'[n] = IF n = list[i] THEN [node[n] EXCEPT !.handler = x] ELSE node[n]
    BY <1>1, <2>1 DEF RegistryInv, Typed
  <2>5. ASSUME NEW n \in Nodes PROVE [node[n] EXCEPT !.handler = x] \in Structures
    BY <2>2, <2>3 DEF Structures
  <2>6. \A n \in Nodes : node'[n] \in Structures
    BY <2>3, <2>4, <2>5
  <2>7. node' = [n \in Nodes |-> node'[n]]
    BY <2>1 DEF RegistryInv, Typed
  <2> QED
    BY <2>3, <2>4, <2>6, <2>7 DEF Structures
<1>4. UNCHANGED <<list, twice, wpc, info, called, resource>>
  BY DEF Update, worker
<1>5. Linked' = Linked /\ (\A n : Using(n)' = Using(n)) /\ Linked \subseteq Nodes
  BY <1>1, <1>4, UsersKept DEF Linked
<1>6. InUse'
  <2> SUFFICES ASSUME NEW w \in Workers, NEW n \in Nodes \ twice, w \in Using(n)
               PROVE  n \in Linked /\ node'[n].handler = called[w]
    BY <1>4, <1>5 DEF InUse
  <2>1. n \in Linked /\ node[n].handler = called[w]
    BY DEF RegistryInv, InUse
  <2>2. n # list[i]
    BY <2>1, NotUsed DEF Update
  <2> QED
    BY <1>3, <2>1, <2>2
<1>7. op' \in [Callers -> Operations]
  BY ReturnTyped DEF RegistryInv, Update
<1>8. Typed' /\ Phases'
  BY <1>3, <1>4, <1>7 DEF RegistryInv, Typed, Phases
<1>9. OnePerUri' /\ RefsExact'
  BY <1>1, <1>3, <1>4, <1>5 DEF RegistryInv, OnePerUri, RefsExact
<1> QED
  BY <1>6, <1>8, <1>9 DEF RegistryInv

\* A removal takes an entry out of the list that has no user.
LEMMA UnlinkKeeps ==
  ASSUME RegistryInv, NEW c \in Callers, NEW i \in DOMAIN list, Unlink(c, i),
         UNCHANGED worker
  PROVE  RegistryInv'
<1>1. \A j \in DOMAIN list : list[j] \in Nodes
  BY LenProperties, ElementOfSeq DEF RegistryInv, Typed
<1>2. /\ list' \in Seq(Nodes)
      /\ Linked' = Linked \ {list[i]}
      /\ \A j \in DOMAIN list' : \E k \in DOMAIN list \ {i} : list'[j] = list[k]
      /\ \A j, k \in DOMAIN list' : list'[j] = list'[k] => j = k
  BY UnlinkLinked DEF RegistryInv, Unlink
<1>3. /\ node' \in [Nodes -> Structures]
      /\ \A n \in Nodes \ {list[i]} : node'[n] = node[n]
  BY <1>1 DEF RegistryInv, Typed, Structures, Unlink, Blank, Entry
<1>4. UNCHANGED <<twice, wpc, info, called, resource>>
  BY DEF Unlink, worker
<1>5. (\A n : Using(n)' = Using(n)) /\ Linked \subseteq Nodes
  BY <1>1, UsersKept DEF Linked
<1>6. InUse'
  <2> SUFFICES ASSUME NEW w \in Workers, NEW n \in Nodes \ twice, w \in Using(n)
               PROVE  n \in Linked' /\ node'[n].handler = called[w]
    BY <1>4, <1>5 DEF InUse
  <2>1. n \in Linked /\ node[n].handler = called[w]
    BY DEF RegistryInv, InUse
  <2>2. n # list[i]
    BY <2>1, NotUsed DEF Unlink
  <2> QED
    BY <1>2, <1>3, <2>1, <2>2
<1>7. \A j \in DOMAIN list' :
        \E k \in DOMAIN list \ {i} : list'[j] = list[k] /\ node'[list'[j]] = node[list[k]]
  <2> TAKE j \in DOMAIN list'
  <2>1. PICK k \in DOMAIN list \ {i} : list'[j] = list[k]
    BY <1>2
  <2>2. list[k] # list[i]
    BY LinkedOnce DEF RegistryInv
  <2> QED
    BY <1>1, <1>3, <2>1, <2>2
<1>8. OnePerUri'
  <2>1. \A j \in DOMAIN list' : node'[list'[j]].uri \in Uris
    BY <1>7 DEF RegistryInv, OnePerUri
  <2>2. ASSUME NEW j \in DOMAIN list', NEW k \in DOMAIN list',
               node'[list'[j]].uri = node'[list'[k]].uri
        PROVE  j = k
    <3>1. PICK p \in DOMAIN list : list'[j] = list[p] /\ node'[list'[j]] = node[list[p]]
      BY <1>7
    <3>2. PICK q \in DOMAIN list : list'[k] = list[q] /\ node'[list'[k]] = node[list[q]]
      BY <1>7
    <3>3. p = q
      BY <2>2, <3>1, <3>2 DEF RegistryInv, OnePerUri
    <3> QED
      BY <1>2, <3>1, <3>2, <3>3
  <2> QED
    BY <2>1, <2>2 DEF OnePerUri
<1>9. op' \in [Callers -> Operations]
  BY ReturnTyped DEF RegistryInv, Unlink
<1>10. Typed' /\ Phases'
  BY <1>2, <1>3, <1>4, <1>9 DEF RegistryInv, Typed, Phases
<1>11. RefsExact'
  BY <1>2, <1>3, <1>4, <1>5 DEF RegistryInv, RefsExact
<1> QED
  BY <1>6, <1>8, <1>10, <1>11 DEF RegistryInv

\* A new entry takes a structure that no worker points to.
LEMMA AddKeeps ==
  ASSUME RegistryInv, NEW c \in Callers, op[c] # Idle, At(op[c].uri) = {}, AddNew(c),
         UNCHANGED worker
  PROVE  RegistryInv'
<1>1. \A j \in DOMAIN list : list[j] \in Nodes
  BY LenProperties, ElementOfSeq DEF RegistryInv, Typed
<1>2. op' \in [Callers -> Operations]
  BY ReturnTyped DEF RegistryInv, AddNew
<1>3. UNCHANGED <<wpc, info, called, resource>>
  BY DEF worker
<1>4. (\A n : Using(n)' = Using(n)) /\ Linked \subseteq Nodes
  BY <1>1, UsersKept DEF Linked
<1> DEFINE n == CHOOSE m \in Nodes : m \notin Linked \cup {info[w] : w \in Workers}
<1>5. CASE UNCHANGED <<list, node, twice>>
  <2>2. Linked' = Linked
    BY <1>5 DEF Linked
  <2> QED
    BY <1>2, <1>3, <1>4, <1>5, <2>2
       DEF RegistryInv, Typed, Phases, OnePerUri, InUse, RefsExact
<1>6. CASE /\ op[c].handler # Remove /\ list' = Append(list, n)
           /\ node' = [node EXCEPT ![n] = Entry(op[c].uri, op[c].handler)]
           /\ twice' = twice \ {n}
  <2>1. op[c] \in [uri : Uris, handler : Callbacks \cup {Remove}]
    BY DEF RegistryInv, Typed, Operations
  <2>2. op[c].uri \in Uris /\ op[c].handler \in Callbacks
    BY <1>6, <2>1
  <2>3. n \in Nodes /\ n \notin Linked /\ \A w \in Workers : info[w] # n
    BY <2>2, StructureLeft DEF RegistryInv
  <2>4. /\ list' = Append(list, n)
        /\ node' = [node EXCEPT ![n] = Entry(op[c].uri, op[c].handler)]
        /\ twice' = twice \ {n}
    BY <1>6
  <2> HIDE DEF n
  <2>5. /\ node' \in [Nodes -> Structures]
        /\ node'[n].uri = op[c].uri /\ node'[n].refs = 0
        /\ \A m \in Nodes \ {n} : node'[m] = node[m]
    BY <2>2, <2>3, <2>4 DEF RegistryInv, Typed, Structures, Entry
  <2>6. /\ list' \in Seq(Nodes)
        /\ DOMAIN list' = DOMAIN list \cup {Len(list) + 1}
        /\ Len(list) + 1 \notin DOMAIN list
        /\ list'[Len(list) + 1] = n
        /\ \A i \in DOMAIN list : list'[i] = list[i]
        /\ Linked' = Linked \cup {n}
    BY <2>3, <2>4, AppendLinked DEF RegistryInv
  <2>7. Using(n) = {}
    BY <2>3 DEF Using
  <2>8. Typed' /\ Phases'
    BY <1>2, <1>3, <2>4, <2>5, <2>6 DEF RegistryInv, Typed, Phases
  <2>9. OnePerUri'
    <3>1. \A i \in DOMAIN list : node'[list'[i]] = node[list[i]]
      BY <1>1, <2>3, <2>5, <2>6 DEF Linked
    <3>2. \A i \in DOMAIN list : node[list[i]].uri # op[c].uri
      BY DEF At
    <3> QED
      BY <2>2, <2>5, <2>6, <3>1, <3>2 DEF RegistryInv, OnePerUri
  <2>10. InUse'
    <3> SUFFICES ASSUME NEW w \in Workers, NEW m \in Nodes \ twice', w \in Using(m)
                 PROVE  m \in Linked' /\ node'[m].handler = called[w]
      BY <1>3, <1>4 DEF InUse
    <3>1. m # n /\ m \notin twice
      BY <2>4, <2>7
    <3>2. m \in Linked /\ node[m].handler = called[w]
      BY <3>1 DEF RegistryInv, InUse
    <3> QED
      BY <2>5, <2>6, <3>1, <3>2
  <2>11. RefsExact'
    <3> SUFFICES ASSUME NEW m \in Linked'
                 PROVE  node'[m].refs
                          = Cardinality(Using(m)) - (IF m \in twice' THEN 1 ELSE 0)
      BY <1>4 DEF RefsExact
    <3>1. CASE m = n
      <4>1. Cardinality(Using(m)) = 0
        BY <2>7, <3>1, FS_EmptySet
      <4>2. m \notin twice' /\ node'[m].refs = 0
        BY <2>4, <2>5, <3>1
      <4>3. (IF m \in twice' THEN 1 ELSE 0) = 0
        BY <4>2
      <4> DEFINE users == Cardinality(Using(m))
                 given == IF m \in twice' THEN 1 ELSE 0
      <4>4. users = 0 /\ given = 0
        BY <4>1, <4>3
      <4>5. node'[m].refs = 0
        BY <4>2
      <4> HIDE DEF users, given
      <4>6. node'[m].refs = users - given
        BY <4>4, <4>5
      <4> QED
        BY <4>6 DEF users, given
    <3>2. CASE m # n
      <4>1. m \in Linked /\ node'[m] = node[m] /\ (m \in twice' <=> m \in twice)
        BY <1>4, <2>4, <2>5, <2>6, <3>2
      <4> QED
        BY <4>1 DEF RegistryInv, RefsExact
    <3> QED
      BY <3>1, <3>2
  <2> QED
    BY <2>8, <2>9, <2>10, <2>11 DEF RegistryInv
<1> QED
  BY <1>5, <1>6 DEF AddNew

\* Every step of a caller keeps the registry sound.
LEMMA SetHandlerKeeps ==
  ASSUME RegistryInv, NEW c \in Callers, SetHandler(c) PROVE RegistryInv'
<1>1. op[c] # Idle /\ UNCHANGED worker
  BY DEF SetHandler
<1>2. CASE At(op[c].uri) = {} /\ AddNew(c)
  BY <1>1, <1>2, AddKeeps
<1>3. CASE \E i \in At(op[c].uri) : Wait(c, list[i]) \/ Update(c, list[i]) \/ Unlink(c, i)
  <2>1. PICK i \in DOMAIN list : Wait(c, list[i]) \/ Update(c, list[i]) \/ Unlink(c, i)
    BY <1>3 DEF At
  <2> QED
    BY <1>1, <2>1, WaitKeeps, UpdateKeeps, UnlinkKeeps
<1> QED
  BY <1>2, <1>3 DEF SetHandler

-----------------------------------------------------------------------------
(* The steps of handle_request. *)

\* What giving a reference back does to the structures.
LEMMA ReleaseNode ==
  ASSUME Typed, NEW w \in Workers, release_handler_ref(w)
  PROVE  /\ node' \in [Nodes -> Structures]
         /\ \A n \in Nodes : /\ node'[n].uri = node[n].uri
                             /\ node'[n].handler = node[n].handler
                             /\ node'[n].refs = node[n].refs - (IF n = info[w] THEN 1 ELSE 0)
<1>1. CASE info[w] = NoNode
  <2>1. node' = node /\ \A n \in Nodes : n # info[w]
    BY <1>1 DEF release_handler_ref, NoNode, Nodes
  <2>2. \A n \in Nodes : node[n].refs \in Int
    BY DEF Typed, Structures
  <2> QED
    BY <2>1, <2>2 DEF Typed
<1>2. CASE info[w] # NoNode
  <2> DEFINE r == node[info[w]].refs - 1
  <2>1. info[w] \in Nodes
    BY <1>2 DEF Typed
  <2>2. r \in Int /\ node' = [node EXCEPT ![info[w]].refs = r]
    BY <1>2, <2>1 DEF Typed, Structures, release_handler_ref
  <2>3. r = node[info[w]].refs - 1 /\ \A n \in Nodes : node[n].refs \in Int
    BY DEF Typed, Structures
  <2> HIDE DEF r
  <2>4. /\ node' \in [Nodes -> Structures]
        /\ node'[info[w]].refs = r
        /\ \A n \in Nodes : node'[n].uri = node[n].uri /\ node'[n].handler = node[n].handler
        /\ \A n \in Nodes \ {info[w]} : node'[n] = node[n]
    BY <2>1, <2>2 DEF Typed, Structures
  <2> QED
    BY <2>1, <2>3, <2>4
<1> QED
  BY <1>1, <1>2

\* A worker that uses no entry any more leaves those of the others as they are.
LEMMA UserLeaves ==
  ASSUME RegistryInv, NEW w \in Workers,
         UNCHANGED list, twice \subseteq twice',
         \A n \in Nodes : node'[n].uri = node[n].uri /\ node'[n].handler = node[n].handler,
         \A v \in Workers \ {w} :
           info'[v] = info[v] /\ resource'[v] = resource[v] /\ called'[v] = called[v],
         ~resource'[w]
  PROVE  /\ Linked' = Linked /\ Linked \subseteq Nodes
         /\ OnePerUri' /\ InUse'
         /\ \A n : Cardinality(Using(n)')
                     = Cardinality(Using(n)) - (IF w \in Using(n) THEN 1 ELSE 0)
<1>1. \A j \in DOMAIN list : list[j] \in Nodes
  BY LenProperties, ElementOfSeq DEF RegistryInv, Typed
<1>2. Linked' = Linked /\ Linked \subseteq Nodes
  BY <1>1 DEF Linked
<1>3. OnePerUri'
  BY <1>1 DEF RegistryInv, OnePerUri
<1>4. \A n : Using(n)' \subseteq Using(n) \ {w}
  BY DEF Using
<1>5. InUse'
  <2> SUFFICES ASSUME NEW v \in Workers, NEW n \in Nodes \ twice', v \in Using(n)'
               PROVE  n \in Linked' /\ node'[n].handler = called'[v]
    BY DEF InUse
  <2>1. v \in Using(n) /\ v # w /\ n \in Nodes \ twice
    BY <1>4
  <2>2. n \in Linked /\ node[n].handler = called[v]
    BY <2>1 DEF RegistryInv, InUse
  <2> QED
    BY <1>2, <2>1, <2>2
<1>6. ASSUME NEW n
      PROVE  Cardinality(Using(n)')
               = Cardinality(Using(n)) - (IF w \in Using(n) THEN 1 ELSE 0)
  <2>1. IsFiniteSet(Using(n)) /\ Cardinality(Using(n)) \in Nat
    BY UsersFinite
  <2>2. Using(n)' = Using(n) \ {w}
    BY DEF Using
  <2>3. Cardinality(Using(n) \ {w})
          = IF w \in Using(n) THEN Cardinality(Using(n)) - 1 ELSE Cardinality(Using(n))
    BY <2>1, FS_RemoveElement
  <2> QED
    BY <2>1, <2>2, <2>3
<1> QED
  BY <1>2, <1>3, <1>5, <1>6

\* What the end of handle_request does to the worker's variables.
LEMMA FinishVariables ==
  ASSUME Typed, NEW w \in Workers, Finish(w)
  PROVE  /\ wpc' \in [Workers -> {"idle", "auth", "call"}]
         /\ info' \in [Workers -> Nodes \cup {NoNode}]
         /\ called' \in [Workers -> Callbacks \cup {"none"}]
         /\ resource' \in [Workers -> BOOLEAN]
         /\ wpc'[w] = "idle" /\ info'[w] = NoNode /\ ~resource'[w]
         /\ \A v \in Workers \ {w} : /\ wpc'[v] = wpc[v] /\ info'[v] = info[v]
                                     /\ resource'[v] = resource[v] /\ called'[v] = called[v]
  BY DEF Typed, Finish

\* A request that is looked up adds its worker to the users of the entry.
LEMMA LookUpKeeps == ASSUME RegistryInv, NEW w \in Workers, LookUp(w) PROVE RegistryInv'
<1>1. \A j \in DOMAIN list : list[j] \in Nodes
  BY LenProperties, ElementOfSeq DEF RegistryInv, Typed
<1>2. /\ wpc[w] = "idle" /\ wpc' = [wpc EXCEPT ![w] = "auth"]
      /\ UNCHANGED <<list, op, twice>>
  BY DEF LookUp
<1>3. info[w] = NoNode /\ ~resource[w]
  BY <1>2 DEF RegistryInv, Phases
<1>4. Linked' = Linked /\ Linked \subseteq Nodes
  BY <1>1, <1>2 DEF Linked
<1>5. wpc' \in [Workers -> {"idle", "auth", "call"}]
  BY <1>2 DEF RegistryInv, Typed
<1>6. CASE /\ info' = [info EXCEPT ![w] = NoNode]
           /\ resource' = [resource EXCEPT ![w] = FALSE]
           /\ UNCHANGED <<node, called>>
  <2>1. info' = info /\ resource' = resource
    BY <1>3, <1>6 DEF RegistryInv, Typed
  <2>2. \A n : Using(n)' = Using(n)
    BY <2>1 DEF Using
  <2>3. Typed' /\ Phases'
    BY <1>2, <1>3, <1>5, <1>6, <2>1 DEF RegistryInv, Typed, Phases
  <2>4. OnePerUri' /\ InUse' /\ RefsExact'
    BY <1>2, <1>4, <1>6, <2>1, <2>2 DEF RegistryInv, OnePerUri, InUse, RefsExact
  <2> QED
    BY <2>3, <2>4 DEF RegistryInv
<1>7. ASSUME NEW n \in Linked,
             info' = [info EXCEPT ![w] = n], resource' = [resource EXCEPT ![w] = TRUE],
             called' = [called EXCEPT ![w] = node[n].handler],
             node' = [node EXCEPT ![n].refs = @ + 1]
      PROVE  RegistryInv'
  <2>1. n \in Nodes /\ n # NoNode
    BY <1>4 DEF Nodes, NoNode
  <2>2. /\ node' \in [Nodes -> Structures]
        /\ \A m \in Nodes : /\ node'[m].uri = node[m].uri
                            /\ node'[m].handler = node[m].handler
                            /\ node'[m].refs = node[m].refs + (IF m = n THEN 1 ELSE 0)
    <3> DEFINE r == node[n].refs + 1
    <3>1. r \in Int /\ node' = [node EXCEPT ![n].refs = r]
      BY <1>7, <2>1 DEF RegistryInv, Typed, Structures
    <3>2. \A m \in Nodes : node[m].refs \in Int
      BY DEF RegistryInv, Typed, Structures
    <3>3. r = node[n].refs + 1
      OBVIOUS
    <3> HIDE DEF r
    <3>4. /\ node' \in [Nodes -> Structures]
          /\ node'[n].refs = r
          /\ \A m \in Nodes : node'[m].uri = node[m].uri /\ node'[m].handler = node[m].handler
          /\ \A m \in Nodes \ {n} : node'[m] = node[m]
      BY <2>1, <3>1 DEF RegistryInv, Typed, Structures
    <3> QED
      BY <2>1, <3>2, <3>3, <3>4
  <2>3. /\ info' \in [Workers -> Nodes \cup {NoNode}] /\ info'[w] = n
        /\ resource' \in [Workers -> BOOLEAN] /\ resource'[w]
        /\ called' \in [Workers -> Callbacks \cup {"none"}] /\ called'[w] = node[n].handler
        /\ \A v \in Workers \ {w} :
             info'[v] = info[v] /\ resource'[v] = resource[v] /\ called'[v] = called[v]
    BY <1>7, <2>1 DEF RegistryInv, Typed, Structures
  <2>4. Typed' /\ Phases'
    BY <1>2, <1>5, <2>1, <2>2, <2>3 DEF RegistryInv, Typed, Phases
  <2>5. OnePerUri'
    BY <1>1, <1>2, <2>2 DEF RegistryInv, OnePerUri
  <2>6. \A m : Using(m) \subseteq Workers \ {w}
    BY <1>3 DEF Using
  <2>7. \A m : Using(m)' = IF m = n THEN Using(m) \cup {w} ELSE Using(m)
    BY <2>3, <2>6 DEF Using
  <2>8. InUse'
    <3> SUFFICES ASSUME NEW v \in Workers, NEW m \in Nodes \ twice, v \in Using(m)'
                 PROVE  m \in Linked /\ node'[m].handler = called'[v]
      BY <1>2, <1>4 DEF InUse
    <3>1. CASE v = w
      BY <2>1, <2>2, <2>3, <2>6, <2>7, <3>1
    <3>2. CASE v # w
      <4>1. v \in Using(m)
        BY <2>7, <3>2
      <4>2. m \in Linked /\ node[m].handler = called[v]
        BY <4>1 DEF RegistryInv, InUse
      <4> QED
        BY <2>2, <2>3, <3>2, <4>2
    <3> QED
      BY <3>1, <3>2
  <2>9. RefsExact'
    <3> SUFFICES ASSUME NEW m \in Linked
                 PROVE  node'[m].refs
                          = Cardinality(Using(m)') - (IF m \in twice THEN 1 ELSE 0)
      BY <1>2, <1>4 DEF RefsExact
    <3>1. node[m].refs = Cardinality(Using(m)) - (IF m \in twice THEN 1 ELSE 0)
      BY DEF RegistryInv, RefsExact
    <3>2. w \in Using(m)' <=> m = n
      BY <2>6, <2>7
    <3>3. Cardinality(Using(m)') = Cardinality(Using(m)) + (IF m = n THEN 1 ELSE 0)
      <4>1. Cardinality(Using(m)')
              = Cardinality(Using(m)) + (IF w \in Using(m)' THEN 1 ELSE 0)
                                      - (IF w \in Using(m)  THEN 1 ELSE 0)
        BY <2>3, UsersChange
      <4>2. Cardinality(Using(m)) \in Nat
        BY UsersFinite
      <4> QED
        BY <2>6, <3>2, <4>1, <4>2
    <3>4. Cardinality(Using(m)) \in Nat
      BY UsersFinite
    <3>5. node'[m].refs = node[m].refs + (IF m = n THEN 1 ELSE 0)
      BY <1>4, <2>2
    <3> QED
      BY <3>1, <3>3, <3>4, <3>5
  <2> QED
    BY <2>4, <2>5, <2>8, <2>9 DEF RegistryInv
<1>8. PICK u \in Uris :
        LET usable == {list[i] : i \in {j \in At(u) : ~node[list[j]].removing}}
        IN  \/ /\ usable = {}
               /\ info' = [info EXCEPT ![w] = NoNode]
               /\ resource' = [resource EXCEPT ![w] = FALSE]
               /\ UNCHANGED <<node, called>>
            \/ \E n \in usable :
                 /\ info' = [info EXCEPT ![w] = n]
                 /\ resource' = [resource EXCEPT ![w] = TRUE]
                 /\ called' = [called EXCEPT ![w] = node[n].handler]
                 /\ node' = [node EXCEPT ![n].refs = @ + 1]
  BY DEF LookUp
<1>9. {list[i] : i \in {j \in At(u) : ~node[list[j]].removing}} \subseteq Linked
  BY DEF Linked, At
<1> QED
  BY <1>6, <1>7, <1>8, <1>9

\* A rejected request gives back what it uses, and once more what it has declined.
LEMMA RejectKeeps == ASSUME RegistryInv, NEW w \in Workers, Reject(w) PROVE RegistryInv'
<1>1. /\ node' \in [Nodes -> Structures]
      /\ \A n \in Nodes : /\ node'[n].uri = node[n].uri
                          /\ node'[n].handler = node[n].handler
                          /\ node'[n].refs = node[n].refs - (IF n = info[w] THEN 1 ELSE 0)
  BY ReleaseNode DEF RegistryInv, Reject
<1>2. /\ wpc' \in [Workers -> {"idle", "auth", "call"}]
      /\ info' \in [Workers -> Nodes \cup {NoNode}]
      /\ called' \in [Workers -> Callbacks \cup {"none"}]
      /\ resource' \in [Workers -> BOOLEAN]
      /\ wpc'[w] = "idle" /\ info'[w] = NoNode /\ ~resource'[w]
      /\ \A v \in Workers \ {w} : /\ wpc'[v] = wpc[v] /\ info'[v] = info[v]
                                  /\ resource'[v] = resource[v] /\ called'[v] = called[v]
  BY FinishVariables DEF RegistryInv, Reject
<1>3. /\ UNCHANGED <<list, op>>
      /\ twice' = IF Stale(w) THEN twice \cup {info[w]} ELSE twice
      /\ Stale(w) => info[w] \in Nodes /\ info[w] \notin twice
  BY DEF RegistryInv, Typed, Reject, Stale
<1>4. /\ Linked' = Linked /\ Linked \subseteq Nodes
      /\ OnePerUri' /\ InUse'
      /\ \A n : Cardinality(Using(n)')
                  = Cardinality(Using(n)) - (IF w \in Using(n) THEN 1 ELSE 0)
  BY <1>1, <1>2, <1>3, UserLeaves
<1>5. Typed' /\ Phases'
  BY <1>1, <1>2, <1>3 DEF RegistryInv, Typed, Phases
<1>6. RefsExact'
  <2> SUFFICES ASSUME NEW n \in Linked
               PROVE  node'[n].refs
                        = Cardinality(Using(n)') - (IF n \in twice' THEN 1 ELSE 0)
    BY <1>4 DEF RefsExact
  <2>1. node[n].refs = Cardinality(Using(n)) - (IF n \in twice THEN 1 ELSE 0)
    BY DEF RegistryInv, RefsExact
  <2>2. node'[n].refs = node[n].refs - (IF n = info[w] THEN 1 ELSE 0)
    BY <1>1, <1>4
  <2>3. /\ Cardinality(Using(n)) \in Nat /\ n # NoNode
        /\ Cardinality(Using(n)') = Cardinality(Using(n)) - (IF w \in Using(n) THEN 1 ELSE 0)
    BY <1>4, UsersFinite DEF Nodes, NoNode
  <2>4. CASE n = info[w] /\ resource[w]
    <3>1. w \in Using(n) /\ (n \in twice' <=> n \in twice)
      BY <1>3, <2>4 DEF Using, Stale
    <3> QED
      BY <2>1, <2>2, <2>3, <2>4, <3>1
  <2>5. CASE n = info[w] /\ ~resource[w]
    <3>1. w \notin Using(n) /\ n \in twice' /\ n \notin twice
      BY <1>3, <2>3, <2>5 DEF Using, Stale
    <3> QED
      BY <2>1, <2>2, <2>3, <2>5, <3>1
  <2>6. CASE n # info[w]
    <3>1. w \notin Using(n) /\ (n \in twice' <=> n \in twice)
      BY <1>3, <2>6 DEF Using, Stale
    <3> QED
      BY <2>1, <2>2, <2>3, <2>6, <3>1
  <2> QED
    BY <2>4, <2>5, <2>6
<1> QED
  BY <1>4, <1>5, <1>6 DEF RegistryInv

\* A request for a file uses no entry.
LEMMA ServeFileKeeps == ASSUME RegistryInv, NEW w \in Workers, ServeFile(w) PROVE RegistryInv'
<1>1. /\ wpc' \in [Workers -> {"idle", "auth", "call"}]
      /\ info' \in [Workers -> Nodes \cup {NoNode}]
      /\ called' \in [Workers -> Callbacks \cup {"none"}]
      /\ resource' \in [Workers -> BOOLEAN]
      /\ wpc'[w] = "idle" /\ info'[w] = NoNode /\ ~resource'[w]
      /\ \A v \in Workers \ {w} : /\ wpc'[v] = wpc[v] /\ info'[v] = info[v]
                                  /\ resource'[v] = resource[v] /\ called'[v] = called[v]
  BY FinishVariables DEF RegistryInv, ServeFile
<1>2. UNCHANGED <<list, node, op, twice>> /\ ~resource[w]
  BY DEF ServeFile
<1>3. /\ Linked' = Linked
      /\ OnePerUri' /\ InUse'
      /\ \A n : Cardinality(Using(n)')
                  = Cardinality(Using(n)) - (IF w \in Using(n) THEN 1 ELSE 0)
  BY <1>1, <1>2, UserLeaves
<1>4. Typed' /\ Phases'
  BY <1>1, <1>2 DEF RegistryInv, Typed, Phases
<1>5. \A n : Cardinality(Using(n)') = Cardinality(Using(n))
  <2> TAKE n
  <2>1. w \notin Using(n) /\ Cardinality(Using(n)) \in Nat
    BY <1>2, UsersFinite DEF Using
  <2> QED
    BY <1>3, <2>1
<1>6. RefsExact'
  BY <1>2, <1>3, <1>5 DEF RegistryInv, RefsExact
<1> QED
  BY <1>3, <1>4, <1>6 DEF RegistryInv

\* A request goes on to its callback with the entry it has counted itself in.
LEMMA AuthorizeKeeps == ASSUME RegistryInv, NEW w \in Workers, Authorize(w) PROVE RegistryInv'
<1>1. /\ UNCHANGED <<list, node, op, info, called, resource, twice>>
      /\ wpc' = [wpc EXCEPT ![w] = "call"] /\ resource[w]
  BY DEF Authorize
<1>2. Linked' = Linked /\ \A n : Using(n)' = Using(n)
  BY <1>1 DEF Linked, Using
<1>3. Typed' /\ Phases'
  BY <1>1 DEF RegistryInv, Typed, Phases
<1> QED
  BY <1>1, <1>2, <1>3 DEF RegistryInv, OnePerUri, InUse, RefsExact

\* A callback has returned: the reference is given back, and the use is over.
LEMMA CallBackKeeps == ASSUME RegistryInv, NEW w \in Workers, CallBack(w) PROVE RegistryInv'
<1>1. /\ node' \in [Nodes -> Structures]
      /\ \A n \in Nodes : /\ node'[n].uri = node[n].uri
                          /\ node'[n].handler = node[n].handler
                          /\ node'[n].refs = node[n].refs - (IF n = info[w] THEN 1 ELSE 0)
  BY ReleaseNode DEF RegistryInv, CallBack
<1>2. /\ wpc' \in [Workers -> {"idle", "auth", "call"}]
      /\ info' \in [Workers -> Nodes \cup {NoNode}]
      /\ called' \in [Workers -> Callbacks \cup {"none"}]
      /\ resource' \in [Workers -> BOOLEAN]
      /\ wpc'[w] # "call" /\ (wpc'[w] = "idle" => info'[w] = NoNode) /\ ~resource'[w]
      /\ \A v \in Workers \ {w} : /\ wpc'[v] = wpc[v] /\ info'[v] = info[v]
                                  /\ resource'[v] = resource[v] /\ called'[v] = called[v]
  <2>1. CASE Finish(w)
    BY <2>1, FinishVariables DEF RegistryInv
  <2>2. CASE /\ wpc' = [wpc EXCEPT ![w] = "auth"]
             /\ called' = [called EXCEPT ![w] = "none"]
             /\ resource' = [resource EXCEPT ![w] = FALSE]
             /\ UNCHANGED info
    BY <2>2 DEF RegistryInv, Typed
  <2> QED
    BY <2>1, <2>2 DEF CallBack
<1>3. UNCHANGED <<list, op, twice>> /\ resource[w]
  BY DEF RegistryInv, Phases, CallBack
<1>4. /\ Linked' = Linked /\ Linked \subseteq Nodes
      /\ OnePerUri' /\ InUse'
      /\ \A n : Cardinality(Using(n)')
                  = Cardinality(Using(n)) - (IF w \in Using(n) THEN 1 ELSE 0)
  BY <1>1, <1>2, <1>3, UserLeaves
<1>5. Typed' /\ Phases'
  BY <1>1, <1>2, <1>3 DEF RegistryInv, Typed, Phases
<1>6. RefsExact'
  <2> SUFFICES ASSUME NEW n \in Linked
               PROVE  node'[n].refs
                        = Cardinality(Using(n)') - (IF n \in twice THEN 1 ELSE 0)
    BY <1>3, <1>4 DEF RefsExact
  <2>1. node[n].refs = Cardinality(Using(n)) - (IF n \in twice THEN 1 ELSE 0)
    BY DEF RegistryInv, RefsExact
  <2>2. node'[n].refs = node[n].refs - (IF n = info[w] THEN 1 ELSE 0)
    BY <1>1, <1>4
  <2>3. /\ Cardinality(Using(n)) \in Nat /\ (w \in Using(n) <=> n = info[w])
        /\ Cardinality(Using(n)') = Cardinality(Using(n)) - (IF w \in Using(n) THEN 1 ELSE 0)
    BY <1>3, <1>4, UsersFinite DEF Using
  <2> QED
    BY <2>1, <2>2, <2>3
<1> QED
  BY <1>4, <1>5, <1>6 DEF RegistryInv

-----------------------------------------------------------------------------
(* The registry starts empty. *)
LEMMA InitRegistry == Init => RegistryInv
<1> SUFFICES ASSUME Init PROVE RegistryInv
  OBVIOUS
<1>1. list \in Seq(Nodes) /\ DOMAIN list = {} /\ Linked = {}
  BY DEF Init, Linked
<1>2. node \in [Nodes -> Structures]
  BY DEF Init, Structures, Blank, Entry
<1>3. Typed
  BY <1>1, <1>2 DEF Init, Typed, Operations
<1> QED
  BY <1>1, <1>3 DEF Init, RegistryInv, Phases, OnePerUri, InUse, RefsExact, Using

\* Every step of a worker or a caller keeps it sound.
LEMMA RegistryStep == RegistryInv /\ [Next]_vars => RegistryInv'
<1> SUFFICES ASSUME RegistryInv, [Next]_vars PROVE RegistryInv'
  OBVIOUS
<1>1. ASSUME NEW w \in Workers, LookUp(w) \/ HandleRequest(w) PROVE RegistryInv'
  BY <1>1, LookUpKeeps, RejectKeeps, ServeFileKeeps, AuthorizeKeeps, CallBackKeeps
     DEF HandleRequest
<1>2. ASSUME NEW c \in Callers, Call(c) \/ SetHandler(c) PROVE RegistryInv'
  BY <1>2, CallKeeps, SetHandlerKeeps
<1>3. CASE UNCHANGED vars
  <2>1. UNCHANGED <<list, node, wpc, info, called, resource, op, twice>>
    BY <1>3 DEF vars, worker
  <2>2. Linked' = Linked /\ \A n : Using(n)' = Using(n)
    BY <2>1 DEF Linked, Using
  <2> QED
    BY <2>1, <2>2 DEF RegistryInv, Typed, Phases, OnePerUri, InUse, RefsExact
<1> QED
  BY <1>1, <1>2, <1>3 DEF Next

(* The registry is sound in every state, for any number of workers, of     *)
(* callers and of URIs.                                                    *)
THEOREM RegistryInductive == Spec => []RegistryInv
<1> QED
  BY InitRegistry, RegistryStep, PTL DEF Spec

(* Sound registries keep the entries in use.                               *)
LEMMA RegistryStable == RegistryInv => StableInUse
  BY DEF RegistryInv, InUse, OnePerUri, StableInUse

(* While a request is between the lookup of its handler and the end of the *)
(* call, the entry stays in the list with the callback that it has read,   *)
(* unless some request gave it back twice; and each URI has one entry.     *)
THEOREM HandlersStable == Spec => []StableInUse
<1> QED
  BY RegistryInductive, RegistryStable, PTL

\* The count of an entry is a part of the invariant.
LEMMA RegistryRefs == RegistryInv => RefsExact
  BY DEF RegistryInv

(* The count that updates and removals wait for is the number of requests  *)
(* that use the entry, one short when it was given back twice.             *)
THEOREM HandlersCounted == Spec => []RefsExact
<1> QED
  BY RegistryInductive, RegistryRefs, PTL
=============================================================================
