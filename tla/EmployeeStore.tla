---------------------------- MODULE EmployeeStore ----------------------------
(***************************************************************************)
(* What the server promises its clients, without cache, connections or     *)
(* handler: a table that each request reads or changes in one step, the    *)
(* step that also decides its answer.                                      *)
(*                                                                         *)
(* Two variables say how much is promised.  While fresh, a read answers    *)
(* what the table holds when the answer is decided; after, a read of an id *)
(* answers some row that id has had, current or not.  Unless the request   *)
(* is faulted, a read that answers "404" or, while fresh, leaves an id out *)
(* of a list vouches that the table does not hold it, and the request does *)
(* not fail but for its own fault.                                         *)
(***************************************************************************)
EXTENDS Integers

CONSTANTS Keys, Values, NoValue, BadId, Workers, Requests, NoRequest,
          ExternalReset

VARIABLES table,    \* the row of each id
          had,      \* the rows each id has had
          asked,    \* the request each worker serves, or NoRequest
          decided,  \* its answer: status and rows
          faulted,  \* the request may be answered short of the truth
          fresh     \* reads are current

storeVars == <<table, had, asked, decided, faulted, fresh>>

Undecided == [status |-> "none", rows |-> {}]

Present == {k \in Keys : table[k] # NoValue}

Readable(k) == IF fresh THEN {table[k]} \ {NoValue} ELSE had[k]

Decide(w, code, rows) ==
  decided' = [decided EXCEPT ![w] = [status |-> code, rows |-> rows]]

\* Judged with what befalls the request in the very step that decides it.
Complete(w) == ~faulted'[w]

Open(w, op) ==
  /\ asked[w].op = op
  /\ decided[w] = Undecided
  /\ UNCHANGED asked

Ask(w, r) ==
  /\ asked[w] = NoRequest
  /\ ~faulted[w]
  /\ asked' = [asked EXCEPT ![w] = r]
  /\ UNCHANGED <<table, had, decided>>

Get(w) ==
  LET k == asked[w].id
  IN  /\ Open(w, "GET") /\ k \in Keys
      /\ \/ \E v \in Readable(k) : Decide(w, "200", {<<k, v>>})
         \/ (Complete(w) => k \notin Present) /\ Decide(w, "404", {})
      /\ UNCHANGED <<table, had>>

List(w) ==
  /\ Open(w, "LIST")
  /\ \/ \E S \in SUBSET (Keys \X Values) :
          /\ \A e \in S : e[2] \in Readable(e[1])
          /\ \A d, e \in S : d[1] = e[1] => d = e
          /\ (fresh /\ Complete(w)) => Present \subseteq {e[1] : e \in S}
          /\ Decide(w, "200", S)
     \/ (Complete(w) => Present = {}) /\ Decide(w, "404", {})
  /\ UNCHANGED <<table, had>>

\* A write is applied or not, all at once.
Apply(k, v) ==
  /\ table' = [table EXCEPT ![k] = v]
  /\ had' = [had EXCEPT ![k] = @ \cup ({v} \ {NoValue})]

\* Done, "200"; done but reported failed, or not done, "500".
Change(w, k, v) ==
  \/ Apply(k, v) /\ Decide(w, "200", {})
  \/ ~Complete(w) /\ Apply(k, v) /\ Decide(w, "500", {})
  \/ ~Complete(w) /\ UNCHANGED <<table, had>> /\ Decide(w, "500", {})

Post(w) ==
  LET r == asked[w]
  IN  /\ Open(w, "POST") /\ r.id \in Keys
      /\ IF r.id \in Present
         THEN Decide(w, "500", {}) /\ UNCHANGED <<table, had>>
         ELSE Change(w, r.id, r.row)

Put(w) ==
  LET r == asked[w]
  IN  /\ Open(w, "PUT") /\ r.id \in Keys
      /\ Change(w, r.id, IF r.id \in Present THEN r.row ELSE NoValue)

Remove(w) ==
  /\ Open(w, "DELETE") /\ asked[w].id \in Keys
  /\ Change(w, asked[w].id, NoValue)

Refuse(w) ==
  /\ asked[w] # NoRequest
  /\ decided[w] = Undecided
  /\ \/ asked[w].op = "OTHER" /\ Decide(w, "405", {})
     \/ asked[w].op \notin {"OTHER", "LIST"} /\ asked[w].id = BadId /\ Decide(w, "400", {})
     \/ ~Complete(w) /\ Decide(w, "500", {})
  /\ UNCHANGED <<table, had, asked>>

Close(w) ==
  /\ decided[w] # Undecided
  /\ asked' = [asked EXCEPT ![w] = NoRequest]
  /\ decided' = [decided EXCEPT ![w] = Undecided]
  /\ UNCHANGED <<table, had>>

\* Something befalls a request before it is decided.
Suffer(w) ==
  /\ asked[w] # NoRequest /\ decided[w] = Undecided
  /\ UNCHANGED <<table, had, asked, decided>>

\* A fault marks the request that meets it, until its end; currency is lost for good.
Course(W) ==
  /\ \A u \in W : asked'[u] = NoRequest => ~faulted'[u]
  /\ \A u \in W : faulted[u] /\ asked'[u] # NoRequest => faulted'[u]
  /\ fresh' => fresh

Empty ==
  /\ ExternalReset /\ ~fresh'
  /\ table' = [k \in Keys |-> NoValue]
  /\ UNCHANGED <<had, asked, decided>>

StoreInit ==
  /\ table \in [Keys -> Values \cup {NoValue}]
  /\ had = [k \in Keys |-> {table[k]} \ {NoValue}]
  /\ asked = [w \in Workers |-> NoRequest]
  /\ decided = [w \in Workers |-> Undecided]
  /\ faulted = [w \in Workers |-> FALSE]
  /\ fresh = TRUE

StoreNext ==
  /\ \/ \E w \in Workers :
          /\ \/ \E r \in Requests : Ask(w, r)
             \/ Get(w) \/ List(w) \/ Post(w) \/ Put(w) \/ Remove(w)
             \/ Refuse(w) \/ Suffer(w) \/ Close(w)
          /\ \A u \in Workers \ {w} : faulted'[u] = faulted[u]
     \/ Empty /\ UNCHANGED faulted
  /\ Course(Workers)

StoreSpec == StoreInit /\ [][StoreNext]_storeVars
=============================================================================
