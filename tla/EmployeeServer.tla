--------------------------- MODULE EmployeeServer ---------------------------
(***************************************************************************)
(* handle_employee (server.c) as CivetWeb's worker threads run it: every   *)
(* worker executes the handler for one request at a time, all of them      *)
(* share the cache g_cache and the employees table, and nothing else       *)
(* orders them.  A worker's step is the code from one point where other    *)
(* threads' effects become visible to the next: a call of the cache API,   *)
(* which is atomic because it holds c->lock, or one SQL statement, which   *)
(* is atomic because MySQL commits each statement by itself.               *)
(*                                                                         *)
(* A key is an employee id (the cache's key is the id printed with %d,     *)
(* so the two correspond one to one) and a value is a row: what an update  *)
(* may change of an employee, and equally the JSON text db_get_employee    *)
(* makes of it, a function of the row.  A write asks for a row and stores  *)
(* it, in its own id alone: this takes the texts of a request to be plain, *)
(* in the sense of EmployeeText, which says what becomes of others.        *)
(*                                                                         *)
(* What ensure_connection and the connection do is in DbConnection; here a *)
(* statement has one of three outcomes:                                    *)
(*   "ok"     executed, and the caller is told so;                         *)
(*   "error"  of no effect, and reported as failed: no connection, or a    *)
(*            statement that the server refused, or a read whose rows      *)
(*            could not be stored or copied;                               *)
(*   "lost"   executed, but reported as failed: the connection broke       *)
(*            before the answer (mysql_query returns nonzero).             *)
(* A request that finds no memory for its list fails like one of "error".  *)
(***************************************************************************)
EXTENDS LRU, FiniteSets

CONSTANTS Workers,        \* CivetWeb's worker threads
          BadId,          \* any id <= 0, and what sscanf leaves without one
          Outcomes,       \* the outcomes a statement can have
          ExternalReset   \* whether reset_db.sh may truncate the table

ASSUME OutcomesAssumption ==
  "ok" \in Outcomes /\ Outcomes \subseteq {"ok", "error", "lost"}
ASSUME ResetAssumption == ExternalReset \in BOOLEAN
ASSUME BadIdAssumption == BadId \notin Keys
ASSUME KeysAssumption == IsFiniteSet(Keys)   \* an id is an int

VARIABLES
  table,    \* the employees table: the row of each id, NoValue when absent
  cache,    \* g_cache
  pc,       \* where each worker is in the handler
  req,      \* the request it handles
  cur,      \* the id whose row it looks up: id, or emp_id in the list loop
  row,      \* the row db_get_employee returned, to be put into the cache
  todo,     \* the ids of the list loop's remaining iterations
  first,    \* the list loop's flag of that name
  out,      \* the employees written to the response, with their separators
  status,   \* the HTTP status sent
  \* History variables: the code does not have them, no guard reads them.
  had,      \* the rows each id has had in the table
  dirty,    \* the worker's row was overtaken by a write to its id
  taint,    \* the ids cached from an overtaken row or left cached by a
            \* write whose success was not reported
  faulted,  \* a statement of the worker's request was not "ok"
  serial    \* so far no two requests have been handled at once, no statement
            \* was "lost" and nothing else has changed the table

dbVars     == <<table, had>>
cacheVars  == <<cache, taint>>
workerVars == <<pc, req, cur, row, todo, first, out, status, dirty>>
courseVars == <<faulted, serial>>
vars       == <<dbVars, cacheVars, workerVars, courseVars>>

-----------------------------------------------------------------------------
(* Requests: the method, the id of the URI or of the body, the body's row. *)

NoRequest == [op |-> "NONE", id |-> BadId, row |-> NoValue]

Ids == Keys \cup {BadId}

Requests ==
       [op : {"LIST", "OTHER"}, id : {BadId}, row : {NoValue}]
  \cup [op : {"GET", "DELETE"}, id : Ids, row : {NoValue}]
  \cup [op : {"POST", "PUT"}, id : Ids, row : Values]

Statuses == {"none", "200", "400", "404", "405", "500"}

Labels == {"idle", "connect", "ids", "list", "list_fetch", "list_put", "lookup",
           "fetch", "put", "insert", "update", "delete", "invalidate", "reply"}

Items == [sep : BOOLEAN, id : Keys, row : Values]

-----------------------------------------------------------------------------
Goto(w, label) == pc' = [pc EXCEPT ![w] = label]

Answer(w, code) == Goto(w, "reply") /\ status' = [status EXCEPT ![w] = code]

\* The outcome of the worker's statement goes on record.
Record(w, o) ==
  /\ faulted' = [faulted EXCEPT ![w] = @ \/ o # "ok"]
  /\ serial' = (serial /\ o # "lost")

\* A worker at either label holds a row it has yet to put into the cache.
Filling(w) == pc[w] \in {"put", "list_put"}

\* The table takes the row v, or loses k, before any other statement.
Commit(k, v) ==
  /\ table' = [table EXCEPT ![k] = v]
  /\ had' = [had EXCEPT ![k] = @ \cup ({v} \ {NoValue})]
  /\ dirty' = [w \in Workers |-> dirty[w] \/ (Filling(w) /\ cur[w] = k)]

\* The row is cached under k, and with it whatever overtook the row.
Fill(w) ==
  /\ cache' = cache_put(cache, cur[w], row[w])
  /\ taint' = {k \in taint \ {cur[w]} : Cached(cache', k)}
              \cup (IF dirty[w] THEN {cur[w]} ELSE {})

FreeRow(w) == row' = [row EXCEPT ![w] = NoValue] /\ dirty' = [dirty EXCEPT ![w] = FALSE]

\* An employee is appended to the response, after a comma unless first.
Append1(w, k, v) ==
  out' = [out EXCEPT ![w] = Append(@, [sep |-> ~first[w], id |-> k, row |-> v])]

\* Mutant: the loop variable does not advance.
NextId_NoAdvance(w, k) ==
  /\ first' = [first EXCEPT ![w] = FALSE]
  /\ UNCHANGED <<todo, status>>
  /\ Goto(w, "list")

\* Mutant: the index counts the employees written, not the ids tried.
NextId_CountsOutput(w, k) ==
  /\ first' = [first EXCEPT ![w] = FALSE]
  /\ todo' = [todo EXCEPT ![w] = IF out'[w] = out[w] THEN @ ELSE @ \ {k}]
  /\ Goto(w, "list") /\ UNCHANGED status

\* The end of an iteration of the list loop, reached with or without output.
NextId(w, k) ==
  /\ first' = [first EXCEPT ![w] = FALSE]
  /\ todo' = [todo EXCEPT ![w] = @ \ {k}]
  /\ Goto(w, "list") /\ UNCHANGED status

-----------------------------------------------------------------------------
(* A CivetWeb worker calls the handler with a request. *)
Accept(w, r) ==
  /\ pc[w] = "idle"
  /\ req' = [req EXCEPT ![w] = r]
  /\ Goto(w, "connect")
  /\ serial' = (serial /\ \A u \in Workers : pc[u] = "idle")
  /\ UNCHANGED <<dbVars, cacheVars, cur, row, todo, first, out, status, dirty, faulted>>

(* The worker gets its thread's connection, then the method selects the    *)
(* branch and the branch rejects an id that is not positive.               *)
Branch(r) ==
  CASE r.op = "GET"    -> "lookup"
    [] r.op = "POST"   -> "insert"
    [] r.op = "PUT"    -> "update"
    [] r.op = "DELETE" -> "delete"

Connect(w) ==
  LET r == req[w]
  IN  /\ pc[w] = "connect"
      /\ \/ "error" \in Outcomes /\ Answer(w, "500") /\ Record(w, "error")
         \/ /\ \/ r.op = "LIST" /\ Goto(w, "ids") /\ UNCHANGED status
               \/ r.op = "OTHER" /\ Answer(w, "405")
               \/ r.op \notin {"LIST", "OTHER"} /\ r.id = BadId /\ Answer(w, "400")
               \/ /\ r.op \notin {"LIST", "OTHER"} /\ r.id # BadId
                  /\ Goto(w, Branch(r))
                  /\ UNCHANGED status
            /\ UNCHANGED courseVars
      /\ cur' = [cur EXCEPT ![w] = r.id]
      /\ UNCHANGED <<dbVars, cacheVars, req, row, todo, first, out, dirty>>

-----------------------------------------------------------------------------
(* GET /employee/all *)

ListIds(w) ==
  /\ pc[w] = "ids"
  /\ \E o \in Outcomes :
       LET ids == IF o = "ok" THEN {k \in Keys : table[k] # NoValue} ELSE {}
       IN  /\ todo' = [todo EXCEPT ![w] = ids]
           /\ first' = [first EXCEPT ![w] = TRUE]
           /\ IF ids = {} THEN Answer(w, "404")
                          ELSE Goto(w, "list") /\ UNCHANGED status
           /\ Record(w, o)
  /\ UNCHANGED <<dbVars, cacheVars, req, cur, row, out, dirty>>

\* SELECT id has no ORDER BY: the ids come in any order.
ListLookup(w) ==
  /\ pc[w] = "list"
  /\ \E k \in todo[w] :
       /\ cur' = [cur EXCEPT ![w] = k]
       /\ cache' = cache_get(cache, k)
       /\ IF Cached(cache, k)
          THEN Append1(w, k, cache.entry[k]) /\ NextId(w, k)
          ELSE Goto(w, "list_fetch") /\ UNCHANGED <<todo, first, out, status>>
  /\ UNCHANGED <<dbVars, taint, req, row, dirty, courseVars>>

ListFetch(w) ==
  /\ pc[w] = "list_fetch"
  /\ UNCHANGED <<dbVars, cacheVars, req, cur, out>>
  /\ \E o \in Outcomes :
       /\ Record(w, o)
       /\ IF o = "ok" /\ table[cur[w]] # NoValue
          THEN /\ row' = [row EXCEPT ![w] = table[cur[w]]]
               /\ dirty' = [dirty EXCEPT ![w] = FALSE]
               /\ Goto(w, "list_put")
               /\ UNCHANGED <<todo, first, status>>
          ELSE NextId(w, cur[w]) /\ UNCHANGED <<row, dirty>>

ListPut(w) ==
  /\ pc[w] = "list_put"
  /\ Fill(w)
  /\ Append1(w, cur[w], row[w])
  /\ NextId(w, cur[w])
  /\ FreeRow(w)
  /\ UNCHANGED <<dbVars, req, cur, courseVars>>

\* Every id has been tried: the list is sent.
ListClose(w) ==
  /\ pc[w] = "list" /\ todo[w] = {}
  /\ Answer(w, "200")
  /\ UNCHANGED <<dbVars, cacheVars, req, cur, row, todo, first, out, dirty, courseVars>>

\* No memory for the list before the loop, or for a longer one in it.
ListNoMemory(w) ==
  /\ pc[w] = "list" /\ "error" \in Outcomes
  /\ Answer(w, "500") /\ Record(w, "error")
  /\ todo' = [todo EXCEPT ![w] = {}] /\ out' = [out EXCEPT ![w] = <<>>]
  /\ UNCHANGED <<dbVars, cacheVars, req, cur, row, first, dirty>>

-----------------------------------------------------------------------------
(* GET /employee/<id> *)

GetLookup(w) ==
  /\ pc[w] = "lookup"
  /\ cache' = cache_get(cache, cur[w])
  /\ IF Cached(cache, cur[w])
     THEN Append1(w, cur[w], cache.entry[cur[w]]) /\ Answer(w, "200")
     ELSE Goto(w, "fetch") /\ UNCHANGED <<out, status>>
  /\ UNCHANGED <<dbVars, taint, req, cur, row, todo, first, dirty, courseVars>>

\* Mutant: the result is put into the cache without the test that it is one.
GetFetch_NoTest(w) ==
  /\ pc[w] = "fetch"
  /\ row' = [row EXCEPT ![w] = table[cur[w]]]
  /\ dirty' = [dirty EXCEPT ![w] = FALSE]
  /\ Goto(w, "put")
  /\ UNCHANGED <<dbVars, cacheVars, req, cur, todo, first, out, status, courseVars>>

GetFetch(w) ==
  /\ pc[w] = "fetch"
  /\ \E o \in Outcomes :
       /\ Record(w, o)
       /\ IF o = "ok" /\ table[cur[w]] # NoValue
          THEN /\ row' = [row EXCEPT ![w] = table[cur[w]]]
               /\ dirty' = [dirty EXCEPT ![w] = FALSE]
               /\ Goto(w, "put")
               /\ UNCHANGED status
          ELSE Answer(w, "404") /\ UNCHANGED <<row, dirty>>
  /\ UNCHANGED <<dbVars, cacheVars, req, cur, todo, first, out>>

GetPut(w) ==
  /\ pc[w] = "put"
  /\ Fill(w)
  /\ Append1(w, cur[w], row[w])
  /\ Answer(w, "200")
  /\ FreeRow(w)
  /\ UNCHANGED <<dbVars, req, cur, todo, first, courseVars>>

-----------------------------------------------------------------------------
(* POST, PUT and DELETE.  A write that is reported done goes on to         *)
(* invalidate its id, except an insertion; one reported failed does not.   *)

\* The statement ran but its caller is told it failed: a cached row stays.
LostWrite(w) ==
  taint' = taint \cup {k \in {req[w].id} : Cached(cache, k)}

\* INSERT refuses an id that is in the table: PRIMARY KEY.
Insert(w) ==
  /\ pc[w] = "insert"
  /\ \E o \in Outcomes \cup {"error"} :
       /\ o # "error" => table[req[w].id] = NoValue
       /\ o = "error" => "error" \in Outcomes \/ table[req[w].id] # NoValue
       /\ IF o = "error" THEN UNCHANGED <<dbVars, dirty>>
                         ELSE Commit(req[w].id, req[w].row)
       /\ Answer(w, IF o = "ok" THEN "200" ELSE "500")
       /\ IF o = "lost" THEN LostWrite(w) ELSE UNCHANGED taint
       /\ Record(w, o)
  /\ UNCHANGED <<cache, req, cur, row, todo, first, out>>

\* Mutant: the handler answers without deleting the entry.
Write_NoInvalidate(w, v) ==
  /\ \E o \in Outcomes :
       /\ IF o = "error" THEN UNCHANGED <<dbVars, dirty>> ELSE Commit(req[w].id, v)
       /\ Answer(w, IF o = "ok" THEN "200" ELSE "500")
       /\ Record(w, o)
  /\ UNCHANGED <<cacheVars, req, cur, row, todo, first, out>>

\* Mutant: the result of db_update_employee and db_delete_employee is ignored.
Write_IgnoresResult(w, v) ==
  /\ \E o \in Outcomes :
       /\ IF o = "error" THEN UNCHANGED <<dbVars, dirty>> ELSE Commit(req[w].id, v)
       /\ IF o = "lost" THEN LostWrite(w) ELSE UNCHANGED taint
       /\ Record(w, o)
  /\ Goto(w, "invalidate")
  /\ UNCHANGED <<cache, req, cur, row, todo, first, out, status>>

\* The rest of PUT and of DELETE is one and the same: v is the id's new row.
Write(w, v) ==
  /\ \E o \in Outcomes :
       /\ IF o = "error" THEN UNCHANGED <<dbVars, dirty>> ELSE Commit(req[w].id, v)
       /\ IF o = "ok" THEN Goto(w, "invalidate") /\ UNCHANGED status
                      ELSE Answer(w, "500")
       /\ IF o = "lost" THEN LostWrite(w) ELSE UNCHANGED taint
       /\ Record(w, o)
  /\ UNCHANGED <<cache, req, cur, row, todo, first, out>>

\* UPDATE succeeds on an id that is not in the table, and changes nothing.
Update(w) ==
  /\ pc[w] = "update"
  /\ Write(w, IF table[req[w].id] = NoValue THEN NoValue ELSE req[w].row)

Delete(w) ==
  /\ pc[w] = "delete"
  /\ Write(w, NoValue)

Invalidate(w) ==
  /\ pc[w] = "invalidate"
  /\ cache' = cache_delete(cache, req[w].id)
  /\ taint' = taint \ {req[w].id}
  /\ Answer(w, "200")
  /\ UNCHANGED <<dbVars, req, cur, row, todo, first, out, dirty, courseVars>>

-----------------------------------------------------------------------------
(* The handler returns; its locals are gone. *)
Return(w) ==
  /\ pc[w] = "reply"
  /\ Goto(w, "idle")
  /\ req' = [req EXCEPT ![w] = NoRequest]
  /\ cur' = [cur EXCEPT ![w] = BadId]
  /\ row' = [row EXCEPT ![w] = NoValue]
  /\ todo' = [todo EXCEPT ![w] = {}]
  /\ first' = [first EXCEPT ![w] = TRUE]
  /\ out' = [out EXCEPT ![w] = <<>>]
  /\ status' = [status EXCEPT ![w] = "none"]
  /\ dirty' = [dirty EXCEPT ![w] = FALSE]
  /\ faulted' = [faulted EXCEPT ![w] = FALSE]
  /\ UNCHANGED <<dbVars, cacheVars, serial>>

(* reset_db.sh empties the table behind the server's back. *)
Truncate ==
  /\ ExternalReset
  /\ table' = [k \in Keys |-> NoValue]
  /\ dirty' = [w \in Workers |-> dirty[w] \/ Filling(w)]
  /\ taint' = {k \in Keys : Cached(cache, k)}
  /\ serial' = FALSE
  /\ UNCHANGED <<had, cache, pc, req, cur, row, todo, first, out, status, faulted>>

-----------------------------------------------------------------------------
Init ==
  /\ table \in [Keys -> Optional]
  /\ had = [k \in Keys |-> {table[k]} \ {NoValue}]
  /\ cache = cache_create
  /\ taint = {}
  /\ pc = [w \in Workers |-> "idle"]
  /\ req = [w \in Workers |-> NoRequest]
  /\ cur = [w \in Workers |-> BadId]
  /\ row = [w \in Workers |-> NoValue]
  /\ todo = [w \in Workers |-> {}]
  /\ first = [w \in Workers |-> TRUE]
  /\ out = [w \in Workers |-> <<>>]
  /\ status = [w \in Workers |-> "none"]
  /\ dirty = [w \in Workers |-> FALSE]
  /\ faulted = [w \in Workers |-> FALSE]
  /\ serial = TRUE

Handle(w) ==
  \/ Connect(w)
  \/ ListIds(w) \/ ListLookup(w) \/ ListFetch(w) \/ ListPut(w)
  \/ ListClose(w) \/ ListNoMemory(w)
  \/ GetLookup(w) \/ GetFetch(w) \/ GetPut(w)
  \/ Insert(w) \/ Update(w) \/ Delete(w) \/ Invalidate(w)
  \/ Return(w)

Next ==
  \/ \E w \in Workers : Handle(w) \/ \E r \in Requests : Accept(w, r)
  \/ Truncate

Spec == Init /\ [][Next]_vars

-----------------------------------------------------------------------------
TypeOK ==
  /\ table \in [Keys -> Optional] /\ had \in [Keys -> SUBSET Values]
  /\ cache \in CacheStates /\ taint \in SUBSET Keys
  /\ pc \in [Workers -> Labels]
  /\ req \in [Workers -> Requests \cup {NoRequest}]
  /\ cur \in [Workers -> Ids] /\ row \in [Workers -> Optional]
  /\ todo \in [Workers -> SUBSET Keys] /\ first \in [Workers -> BOOLEAN]
  /\ out \in [Workers -> Seq(Items)] /\ status \in [Workers -> Statuses]
  /\ dirty \in [Workers -> BOOLEAN]
  /\ faulted \in [Workers -> BOOLEAN] /\ serial \in BOOLEAN

(* The hash table and the recency list of cache.c agree, list no node      *)
(* twice and stay within c->cap, whatever calls the handlers interleave.   *)
CacheWellFormed == WellFormed(cache)

\* A worker has committed a write to k and is about to delete k's entry.
BeingInvalidated(k) == \E w \in Workers : pc[w] = "invalidate" /\ req[w].id = k

Stale(k) == Cached(cache, k) /\ cache.entry[k] # table[k]

(* An entry the cache holds against the table has one of three causes: a   *)
(* reader cached a row that a write had overtaken between its SELECT and   *)
(* its cache_put, a write that did happen was reported failed and skipped  *)
(* cache_delete, or the writer has yet to reach cache_delete.  No other    *)
(* interleaving of the handler's steps leaves a stale entry.               *)
StaleHasCause == \A k \in Keys : Stale(k) => k \in taint \/ BeingInvalidated(k)

(* A row on its way into the cache is the table's, unless a write to its   *)
(* id has committed since the SELECT.                                      *)
FillFresh ==
  \A w \in Workers : Filling(w) => dirty[w] \/ row[w] = table[cur[w]]

(* Whatever is served, from the cache or from the table, by whatever       *)
(* interleaving, is a row that this id has had: no reader gets another     *)
(* employee's row, and no row comes from nowhere.                          *)
ServedWasReal ==
  /\ \A k \in Keys : Cached(cache, k) => cache.entry[k] \in had[k]
  /\ \A w \in Workers : \A i \in DOMAIN out[w] : out[w][i].row \in had[out[w][i].id]

\* No request is being handled.
Quiescent == \A w \in Workers : pc[w] = "idle"

(* Between requests the cache agrees with the table: what cache_delete     *)
(* after an UPDATE or a DELETE (server.c:204, 225) is for.  It holds while  *)
(* requests come one after the other, their statements are not lost and    *)
(* nothing else writes the table, and it needs all three.                  *)
QuiescentCoherence == Quiescent /\ serial => \A k \in Keys : ~Stale(k)

(* "Employee %d (cache invalidated)", server.c:227: once every request is  *)
(* answered, no employee that is not in the table is in the cache.         *)
DeletedNotCached ==
  Quiescent => \A k \in Keys : Cached(cache, k) => table[k] # NoValue

(* A list names each employee once, although rows come and go, and entries *)
(* are filled and evicted, between its iterations.                         *)
ListedOncePerReply ==
  \A w \in Workers : \A i, j \in DOMAIN out[w] : out[w][i].id = out[w][j].id => i = j

(* "Content-Type: application/json", server.c:126: a list that is sent has *)
(* a comma before every employee but the first.                            *)
ListIsJson ==
  \A w \in Workers : pc[w] = "reply" =>
    \A i \in DOMAIN out[w] : out[w][i].sep <=> i > 1

\* A bound of the steps a worker has left in its request.
StepsLeft(w) ==
  CASE pc[w] = "connect"                            -> 3 * Cardinality(Keys) + 6
    [] pc[w] = "ids"                                -> 3 * Cardinality(Keys) + 5
    [] pc[w] = "list"                               -> 3 * Cardinality(todo[w]) + 2
    [] pc[w] = "list_fetch"                         -> 3 * Cardinality(todo[w]) + 1
    [] pc[w] = "list_put"                           -> 3 * Cardinality(todo[w])
    [] pc[w] \in {"lookup", "update", "delete"}     -> 4
    [] pc[w] \in {"fetch", "insert", "invalidate"}  -> 3
    [] pc[w] = "put"                                -> 2
    [] pc[w] = "reply"                              -> 1
    [] pc[w] = "idle"                               -> 0

(* The loop of GET /employee/all (server.c:90-123), in which rows come and *)
(* go under the request, advances on every path: each step of a request    *)
(* brings its end nearer, so a worker that runs on answers.                *)
HandlerAdvances ==
  [][\A w \in Workers :
       Handle(w) => StepsLeft(w)' < StepsLeft(w) /\ (pc'[w] = "reply" => status'[w] # "none")]_vars

-----------------------------------------------------------------------------
(***************************************************************************)
(* A write is decided when its statement has been reported done, before    *)
(* the entry is deleted; any other answer when the worker has it ready.    *)
(***************************************************************************)
Decided(w) ==
  CASE pc[w] = "reply"      -> [status |-> status[w],
                                rows |-> {<<i.id, i.row>> : i \in Range(out[w])}]
    [] pc[w] = "invalidate" -> [status |-> "200", rows |-> {}]
    [] OTHER                -> [status |-> "none", rows |-> {}]

Store == INSTANCE EmployeeStore
           WITH asked <- req, decided <- [w \in Workers |-> Decided(w)], fresh <- serial

(* The handler (server.c:40-234) implements the contract: every answer is  *)
(* that of one atomic step on the table; 404 and 500 are the truth unless  *)
(* a statement of this very request failed, whatever befell the others;    *)
(* and reads are current as long as the server's requests are serial.      *)
ImplementsStore == Store!StoreSpec
=============================================================================
