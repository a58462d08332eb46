---------------------------- MODULE DbConnection ----------------------------
(***************************************************************************)
(* db.c: the connection to MySQL that each worker thread keeps in its      *)
(* thread-local storage, from its creation by the thread's first request   *)
(* (db_get_thread_connection) through the check and the reconnection       *)
(* before every statement (ensure_connection) to the destructor that runs  *)
(* when the thread exits (db_destroy).                                     *)
(*                                                                         *)
(* The client library is external and is modelled by what db.c relies on:  *)
(* a MYSQL object is allocated by mysql_init and released by mysql_close   *)
(* (which accepts NULL); mysql_ping and mysql_query need an object, fail   *)
(* on a broken connection and do not reconnect by themselves; a connection *)
(* may break at any time, the server may go away and come back.            *)
(***************************************************************************)
EXTENDS Integers

CONSTANTS Threads,      \* the threads that run the handler
          AllocFails,   \* whether malloc and mysql_init may return NULL
          ServerFails   \* whether connections break and the server goes away

ASSUME FailureAssumption == AllocFails \in BOOLEAN /\ ServerFails \in BOOLEAN

VARIABLES
  up,        \* MySQL accepts connections
  inited,    \* threads in mysql_thread_init without mysql_thread_end yet
  tls,       \* threads whose thread-specific value of db_key is set
  conn,      \* db->conn: "none" without a db_conn_t, "null" for NULL
  pc,        \* where the thread is in db.c
  stmt,      \* the statement it is in or was in last: "write", "row" or "ids"
  result,    \* what that returned to the handler; "failed" is -1 or NULL
  crashed,   \* a NULL was dereferenced: the process is gone
  \* History variables, read by no guard.
  handles,   \* MYSQL objects of the thread not yet closed
  ran,       \* how many times the current statement was executed
  stranded   \* threads whose malloc has failed

threadVars == <<inited, stranded, tls, conn, handles>>
vars       == <<up, threadVars, pc, stmt, result, crashed, ran>>

Conns  == {"none", "null", "new", "open", "broken"}
Labels == {"idle", "thread_init", "malloc", "init", "connect", "ready", "ping",
           "reinit", "reconnect", "query", "store", "copy", "exited"}

\* INSERT, UPDATE or DELETE; the row of an id; all the ids.
Kinds == {"write", "row", "ids"}

Goto(t, label) == pc' = [pc EXCEPT ![t] = label]

At(t, label) == pc[t] = label /\ ~crashed

SetConn(t, c) == conn' = [conn EXCEPT ![t] = c]

\* Mutant: an object is taken to be there whenever mysql_close is called.
Closed_NoTest(t) == handles[t] - 1

\* mysql_close releases the object, if there is one.
Closed(t) == IF conn[t] \in {"new", "open", "broken"} THEN handles[t] - 1 ELSE handles[t]

-----------------------------------------------------------------------------
(* db_get_thread_connection *)

\* A request arrives; a thread that has its connection returns it at once.
Enter(t) ==
  /\ At(t, "idle")
  /\ Goto(t, IF t \in tls THEN "ready" ELSE "thread_init")
  /\ UNCHANGED <<up, threadVars, stmt, result, crashed, ran>>

ThreadInit(t) ==
  /\ At(t, "thread_init")
  /\ \/ inited' = inited \cup {t} /\ Goto(t, "malloc")
     \/ AllocFails /\ Goto(t, "idle") /\ UNCHANGED inited
  /\ UNCHANGED <<up, stranded, tls, conn, handles, stmt, result, crashed, ran>>

\* A failed malloc returns without mysql_thread_end.
Malloc(t) ==
  /\ At(t, "malloc")
  /\ \/ SetConn(t, "null") /\ Goto(t, "init") /\ UNCHANGED stranded
     \/ AllocFails /\ Goto(t, "idle") /\ stranded' = stranded \cup {t} /\ UNCHANGED conn
  /\ UNCHANGED <<up, inited, tls, handles, stmt, result, crashed, ran>>

\* Mutant: the failure path leaves mysql_thread_end out.
GiveUp_KeepsThread(t) ==
  /\ SetConn(t, "none")
  /\ handles' = [handles EXCEPT ![t] = Closed(t)]
  /\ Goto(t, "idle")
  /\ UNCHANGED <<inited, stranded, tls>>

\* Any later failure undoes what was done and returns NULL: "500".
GiveUp(t) ==
  /\ SetConn(t, "none")
  /\ inited' = inited \ {t}
  /\ handles' = [handles EXCEPT ![t] = Closed(t)]
  /\ Goto(t, "idle")
  /\ UNCHANGED <<stranded, tls>>

MysqlInit(t) ==
  /\ At(t, "init")
  /\ \/ /\ SetConn(t, "new")
        /\ handles' = [handles EXCEPT ![t] = @ + 1]
        /\ Goto(t, "connect")
        /\ UNCHANGED <<inited, stranded, tls>>
     \/ AllocFails /\ GiveUp(t)
  /\ UNCHANGED <<up, stmt, result, crashed, ran>>

Connect(t) ==
  /\ At(t, "connect")
  /\ \/ /\ up
        /\ SetConn(t, "open")
        /\ tls' = tls \cup {t}
        /\ Goto(t, "ready")
        /\ UNCHANGED <<inited, stranded, handles>>
     \/ ServerFails /\ GiveUp(t)
  /\ UNCHANGED <<up, stmt, result, crashed, ran>>

-----------------------------------------------------------------------------
(* A statement: db_create_employee and the others, all of one shape. *)

Call(t) ==
  /\ At(t, "ready")
  /\ Goto(t, "ping")
  /\ \E k \in Kinds : stmt' = [stmt EXCEPT ![t] = k]
  /\ result' = [result EXCEPT ![t] = "none"]
  /\ ran' = [ran EXCEPT ![t] = 0]
  /\ UNCHANGED <<up, threadVars, crashed>>

\* The handler may leave its statements at any point of a request.
Leave(t) ==
  /\ At(t, "ready")
  /\ Goto(t, "idle")
  /\ stmt' = [stmt EXCEPT ![t] = "none"]
  /\ result' = [result EXCEPT ![t] = "none"]
  /\ ran' = [ran EXCEPT ![t] = 0]
  /\ UNCHANGED <<up, threadVars, crashed>>

Fail(t) == Goto(t, "ready") /\ result' = [result EXCEPT ![t] = "failed"]

\* mysql_ping dereferences its argument.
Ping(t) ==
  /\ At(t, "ping")
  /\ IF conn[t] = "null" THEN crashed' = TRUE /\ UNCHANGED pc
     ELSE Goto(t, IF conn[t] = "open" THEN "query" ELSE "reinit") /\ UNCHANGED crashed
  /\ UNCHANGED <<up, threadVars, stmt, result, ran>>

\* Mutant: the broken connection is not closed before its pointer is lost.
Reinit_NoClose(t) ==
  /\ At(t, "reinit")
  /\ SetConn(t, "new")
  /\ handles' = [handles EXCEPT ![t] = @ + 1]
  /\ Goto(t, "reconnect")
  /\ UNCHANGED <<up, inited, stranded, tls, stmt, result, crashed, ran>>

\* mysql_close of the old object, mysql_init of a new one.
Reinit(t) ==
  /\ At(t, "reinit")
  /\ \/ /\ SetConn(t, "new")
        /\ handles' = [handles EXCEPT ![t] = Closed(t) + 1]
        /\ Goto(t, "reconnect")
        /\ UNCHANGED result
     \/ /\ AllocFails
        /\ SetConn(t, "null")
        /\ handles' = [handles EXCEPT ![t] = Closed(t)]
        /\ Fail(t)
  /\ UNCHANGED <<up, inited, stranded, tls, stmt, crashed, ran>>

\* Mutant: a failed reconnection is tried again until it succeeds.
Reconnect_Loops(t) ==
  /\ At(t, "reconnect")
  /\ \/ up /\ SetConn(t, "open") /\ Goto(t, "query") /\ UNCHANGED handles
     \/ /\ ServerFails
        /\ SetConn(t, "null")
        /\ handles' = [handles EXCEPT ![t] = Closed(t)]
        /\ Goto(t, "reinit")
  /\ UNCHANGED <<up, inited, stranded, tls, stmt, result, crashed, ran>>

\* A failed reconnection leaves db->conn at NULL, for the next statement.
Reconnect(t) ==
  /\ At(t, "reconnect")
  /\ \/ up /\ SetConn(t, "open") /\ Goto(t, "query") /\ UNCHANGED <<handles, result>>
     \/ /\ ServerFails
        /\ SetConn(t, "null")
        /\ handles' = [handles EXCEPT ![t] = Closed(t)]
        /\ Fail(t)
  /\ UNCHANGED <<up, inited, stranded, tls, stmt, crashed, ran>>

Ran(t) == ran' = [ran EXCEPT ![t] = @ + 1]

Done(t) == Goto(t, "ready") /\ result' = [result EXCEPT ![t] = "ok"]

\* What follows a mysql_query that returned 0.
Proceed(t) ==
  IF stmt[t] = "write" THEN Done(t) ELSE Goto(t, "store") /\ UNCHANGED result

\* Mutant: a statement whose answer does not arrive is sent again.
Query_Retries(t) ==
  /\ At(t, "query")
  /\ \/ conn[t] = "open" /\ Ran(t) /\ Proceed(t) /\ UNCHANGED conn
     \/ /\ conn[t] = "open" /\ ServerFails /\ Ran(t)
        /\ SetConn(t, "broken") /\ Goto(t, "ping") /\ UNCHANGED result
     \/ conn[t] = "broken" /\ Fail(t) /\ UNCHANGED <<conn, ran>>
  /\ UNCHANGED <<up, inited, stranded, tls, handles, stmt, crashed>>

(* mysql_query: executed and answered; executed, but the connection broke  *)
(* before the answer; not executed, because the server refuses it or the   *)
(* connection has broken since the ping.                                   *)
Query(t) ==
  /\ At(t, "query")
  /\ \/ conn[t] = "open" /\ Ran(t) /\ Proceed(t) /\ UNCHANGED conn
     \/ conn[t] = "open" /\ ServerFails /\ Ran(t) /\ SetConn(t, "broken") /\ Fail(t)
     \/ conn[t] \in {"open", "broken"} /\ Fail(t) /\ UNCHANGED <<conn, ran>>
  /\ UNCHANGED <<up, inited, stranded, tls, handles, stmt, crashed>>

(* mysql_store_result: all rows are in memory, or NULL: no memory, an      *)
(* error of the server while it sends them, or the connection has broken.  *)
StoreResult(t) ==
  /\ At(t, "store")
  /\ \/ Goto(t, "copy") /\ UNCHANGED result
     \/ Fail(t)
  /\ UNCHANGED <<up, threadVars, stmt, crashed, ran>>

(* The rows are copied into memory that the caller frees.  That there is   *)
(* no row of the id is NULL to the caller, like a failure; that there is   *)
(* no memory is tested for the ids only: snprintf gets a NULL for the row. *)
Copy(t) ==
  /\ At(t, "copy")
  /\ \/ Done(t) /\ UNCHANGED crashed
     \/ (stmt[t] = "row" \/ AllocFails) /\ Fail(t) /\ UNCHANGED crashed
     \/ stmt[t] = "row" /\ AllocFails /\ crashed' = TRUE /\ UNCHANGED <<pc, result>>
  /\ UNCHANGED <<up, threadVars, stmt, ran>>

-----------------------------------------------------------------------------
(* The thread exits; db_destroy runs for a db_key value that is not NULL.  *)
Exit(t) ==
  /\ At(t, "idle")
  /\ IF t \in tls
     THEN /\ handles' = [handles EXCEPT ![t] = Closed(t)]
          /\ inited' = inited \ {t}
          /\ SetConn(t, "none")
          /\ tls' = tls \ {t}
          /\ UNCHANGED stranded
     ELSE UNCHANGED threadVars
  /\ Goto(t, "exited")
  /\ UNCHANGED <<up, stmt, result, crashed, ran>>

-----------------------------------------------------------------------------
(* The database server. *)

\* One connection breaks: wait_timeout, a killed session, the network.
Break(t) ==
  /\ ServerFails /\ conn[t] = "open"
  /\ SetConn(t, "broken")
  /\ UNCHANGED <<up, inited, stranded, tls, handles, pc, stmt, result, crashed, ran>>

Down ==
  /\ ServerFails /\ up
  /\ up' = FALSE
  /\ conn' = [t \in Threads |-> IF conn[t] = "open" THEN "broken" ELSE conn[t]]
  /\ UNCHANGED <<inited, stranded, tls, handles, pc, stmt, result, crashed, ran>>

Up ==
  /\ ~up
  /\ up' = TRUE
  /\ UNCHANGED <<threadVars, pc, stmt, result, crashed, ran>>

-----------------------------------------------------------------------------
Init ==
  /\ up \in BOOLEAN /\ (up \/ ServerFails)
  /\ inited = {} /\ tls = {} /\ stranded = {}
  /\ conn = [t \in Threads |-> "none"] /\ handles = [t \in Threads |-> 0]
  /\ pc = [t \in Threads |-> "idle"] /\ stmt = [t \in Threads |-> "none"]
  /\ result = [t \in Threads |-> "none"]
  /\ crashed = FALSE
  /\ ran = [t \in Threads |-> 0]

\* A thread inside db.c runs on; nothing in it waits for another thread.
Statement(t) ==
  \/ ThreadInit(t) \/ Malloc(t) \/ MysqlInit(t) \/ Connect(t)
  \/ Ping(t) \/ Reinit(t) \/ Reconnect(t) \/ Query(t) \/ StoreResult(t) \/ Copy(t)

Next ==
  \/ \E t \in Threads : Statement(t) \/ Enter(t) \/ Call(t) \/ Leave(t) \/ Exit(t) \/ Break(t)
  \/ Down \/ Up

Spec == Init /\ [][Next]_vars

FairSpec == Spec /\ \A t \in Threads : WF_vars(Statement(t))

-----------------------------------------------------------------------------
TypeOK ==
  /\ up \in BOOLEAN /\ crashed \in BOOLEAN
  /\ inited \subseteq Threads /\ tls \subseteq Threads /\ stranded \subseteq Threads
  /\ conn \in [Threads -> Conns] /\ pc \in [Threads -> Labels]
  /\ stmt \in [Threads -> Kinds \cup {"none"}]
  /\ result \in [Threads -> {"none", "ok", "failed"}]
  /\ handles \in [Threads -> Nat] /\ ran \in [Threads -> Nat]

(* db_destroy and the failure paths (db.c:20-31, 83-98, 112-126): a thread *)
(* owns exactly the MYSQL object its db_conn_t points to, whatever failed  *)
(* or broke on the way, and none once it has exited.                       *)
HandlesAccounted ==
  \A t \in Threads :
    /\ handles[t] = IF conn[t] \in {"none", "null"} THEN 0 ELSE 1
    /\ pc[t] = "exited" => conn[t] = "none"

(* What a handler may conclude from a statement's result: executed once    *)
(* when it is reported done; never twice, whatever was reported; and a     *)
(* write that is reported failed was executed only if the connection broke *)
(* under it (db.c:146-149, 236-239, 251-254): no later step of its own can *)
(* fail.  A read that returns NULL may have been executed on a connection  *)
(* that is sound (166-171, 269-274), and has changed nothing.  This is     *)
(* what EmployeeServer takes as a statement's outcomes.                    *)
StatementOutcome ==
  \A t \in Threads :
    /\ ran[t] <= 1
    /\ result[t] = "ok" => ran[t] = 1
    /\ stmt[t] = "write" /\ result[t] = "failed" /\ ran[t] = 1 => conn[t] = "broken"

(* mysql_thread_init and mysql_thread_end are paired over all the paths of *)
(* db.c:63-128 and the destructor (17-31), however often a thread's        *)
(* connection fails and is created anew: a thread exits without the second *)
(* only when its malloc failed, the early return of db.c:80.               *)
ThreadEnded == \A t \in Threads : pc[t] = "exited" /\ t \in inited => t \in stranded

(* "behaves gracefully if connection cannot be obtained", db.c:130-134: a  *)
(* statement on a connection that could not be restored fails, and does    *)
(* not take the process down.                                              *)
Graceful == ~crashed

(* Every statement returns to its handler, or the process is gone.         *)
StatementReturns == \A t \in Threads : pc[t] = "ping" ~> pc[t] = "ready" \/ crashed
=============================================================================
