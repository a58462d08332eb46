------------------------- MODULE DbConnectionProofs -------------------------
(***************************************************************************)
(* Theorems of DbConnection, for any number of threads and any failures.   *)
(***************************************************************************)
EXTENDS DbConnection, TLAPS

(***************************************************************************)
(* What a thread holds at each label of db.c.  HandlesAccounted alone is   *)
(* not inductive: that a connection is replaced only when there is one,    *)
(* and that an exiting thread has no db_conn_t outside its thread-local    *)
(* storage, are facts about where the thread is.                           *)
(***************************************************************************)
Holds(t) ==
  /\ pc[t] \in {"thread_init", "malloc", "exited"} => conn[t] = "none" /\ t \notin tls
  /\ pc[t] = "idle" => (t \in tls <=> conn[t] # "none") /\ conn[t] # "new"
  /\ pc[t] = "init" => conn[t] = "null" /\ t \notin tls
  /\ pc[t] = "connect" => conn[t] = "new" /\ t \notin tls
  /\ pc[t] \in {"ready", "ping"} => conn[t] \in {"null", "open", "broken"} /\ t \in tls
  /\ pc[t] = "reinit" => conn[t] = "broken" /\ t \in tls
  /\ pc[t] = "reconnect" => conn[t] = "new" /\ t \in tls
  /\ pc[t] \in {"query", "store", "copy"} => conn[t] \in {"open", "broken"} /\ t \in tls

\* Until a statement returns it has no result; what has run by then is a read
\* whose rows are still to be stored and copied.
Unanswered(t) ==
  /\ pc[t] # "ready" => result[t] = "none"
  /\ pc[t] \in {"store", "copy"} => ran[t] = 1 /\ stmt[t] \in {"row", "ids"}
  /\ pc[t] \notin {"ready", "store", "copy"} => ran[t] = 0
  /\ pc[t] \in {"ping", "reinit", "reconnect", "query"} => stmt[t] \in Kinds

\* mysql_thread_end is owed by a thread with a connection, on its way to
\* one, or stranded.
Owing(t) ==
  t \in inited => t \in tls \/ t \in stranded \/ pc[t] \in {"malloc", "init", "connect"}

DbInv ==
  /\ TypeOK /\ HandlesAccounted /\ StatementOutcome
  /\ \A t \in Threads : Holds(t) /\ Unanswered(t) /\ Owing(t)

\* Nothing is held before the threads start.
LEMMA DbInit == Init => DbInv
<1> SUFFICES ASSUME Init
             PROVE  DbInv
  OBVIOUS
<1>1. up \in BOOLEAN /\ crashed \in BOOLEAN
  BY DEF Init
<1> QED
  BY <1>1 DEF Init, DbInv, TypeOK, HandlesAccounted, StatementOutcome, Holds,
     Unanswered, Owing, Conns, Labels, Kinds

\* Every step of a thread keeps the handles and outcomes accounted for.
LEMMA DbStep == DbInv /\ [Next]_vars => DbInv'
<1> SUFFICES ASSUME DbInv, [Next]_vars
             PROVE  DbInv'
  OBVIOUS
<1> USE DEF DbInv, TypeOK, HandlesAccounted, StatementOutcome, Holds, Unanswered,
            Owing, Conns, Labels, Kinds, At, Goto, SetConn, threadVars
<1>1. ASSUME NEW t \in Threads, Enter(t) PROVE DbInv'
  BY <1>1 DEF Enter
<1>2. ASSUME NEW t \in Threads, ThreadInit(t) PROVE DbInv'
  BY <1>2 DEF ThreadInit
<1>3. ASSUME NEW t \in Threads, Malloc(t) PROVE DbInv'
  BY <1>3 DEF Malloc
<1>4. ASSUME NEW t \in Threads, MysqlInit(t) PROVE DbInv'
  BY <1>4 DEF MysqlInit, GiveUp, Closed
<1>5. ASSUME NEW t \in Threads, Connect(t) PROVE DbInv'
  BY <1>5 DEF Connect, GiveUp, Closed
<1>6. ASSUME NEW t \in Threads, Call(t) PROVE DbInv'
  BY <1>6 DEF Call
<1>7. ASSUME NEW t \in Threads, Leave(t) PROVE DbInv'
  BY <1>7 DEF Leave
<1>8. ASSUME NEW t \in Threads, Ping(t) PROVE DbInv'
  <2>1. crashed' \in BOOLEAN /\ up' \in BOOLEAN
    BY <1>8 DEF Ping
  <2>2. CASE conn[t] = "null"
    BY <1>8, <2>1, <2>2 DEF Ping
  <2>3. CASE conn[t] # "null"
    BY <1>8, <2>1, <2>3 DEF Ping
  <2> QED
    BY <2>2, <2>3
<1>9. ASSUME NEW t \in Threads, Reinit(t) PROVE DbInv'
  BY <1>9 DEF Reinit, Closed, Fail
<1>10. ASSUME NEW t \in Threads, Reconnect(t) PROVE DbInv'
  BY <1>10 DEF Reconnect, Closed, Fail
<1>11. ASSUME NEW t \in Threads, Query(t) PROVE DbInv'
  <2>1. CASE Proceed(t) /\ Ran(t) /\ conn[t] = "open" /\ UNCHANGED conn
    <3>1. /\ pc[t] = "query" /\ ~crashed /\ ran' = [ran EXCEPT ![t] = @ + 1]
          /\ UNCHANGED <<up, inited, stranded, tls, conn, handles, stmt, crashed>>
      BY <1>11, <2>1 DEF Query, Ran
    <3>2. CASE stmt[t] = "write"
      <4>1. pc' = [pc EXCEPT ![t] = "ready"] /\ result' = [result EXCEPT ![t] = "ok"]
        BY <2>1, <3>2 DEF Proceed, Done
      <4> QED
        BY <2>1, <3>1, <3>2, <4>1
    <3>3. CASE stmt[t] # "write"
      <4>1. pc' = [pc EXCEPT ![t] = "store"] /\ result' = result
        BY <2>1, <3>3 DEF Proceed
      <4>2. stmt[t] \in {"row", "ids"}
        BY <3>1, <3>3
      <4> QED
        BY <2>1, <3>1, <4>1, <4>2
    <3> QED
      BY <3>2, <3>3
  <2>2. CASE conn[t] = "open" /\ Ran(t) /\ SetConn(t, "broken") /\ Fail(t)
    <3>1. /\ pc[t] = "query" /\ pc' = [pc EXCEPT ![t] = "ready"]
          /\ ran' = [ran EXCEPT ![t] = @ + 1]
          /\ conn' = [conn EXCEPT ![t] = "broken"]
          /\ result' = [result EXCEPT ![t] = "failed"]
          /\ UNCHANGED <<up, inited, stranded, tls, handles, stmt, crashed>>
      BY <1>11, <2>2 DEF Query, Ran, Fail
    <3> QED
      BY <2>2, <3>1
  <2>3. CASE Fail(t) /\ UNCHANGED <<conn, ran>>
    <3>1. /\ pc[t] = "query" /\ pc' = [pc EXCEPT ![t] = "ready"]
          /\ result' = [result EXCEPT ![t] = "failed"]
          /\ UNCHANGED <<up, inited, stranded, tls, handles, stmt, crashed, conn, ran>>
      BY <1>11, <2>3 DEF Query, Fail
    <3> QED
      BY <3>1
  <2>4. \/ Proceed(t) /\ Ran(t) /\ conn[t] = "open" /\ UNCHANGED conn
        \/ conn[t] = "open" /\ Ran(t) /\ SetConn(t, "broken") /\ Fail(t)
        \/ Fail(t) /\ UNCHANGED <<conn, ran>>
    BY <1>11 DEF Query
  <2> QED
    BY <2>1, <2>2, <2>3, <2>4
<1>17. ASSUME NEW t \in Threads, StoreResult(t) PROVE DbInv'
  BY <1>17 DEF StoreResult, Fail
<1>18. ASSUME NEW t \in Threads, Copy(t) PROVE DbInv'
  <2>1. crashed' \in BOOLEAN
    BY <1>18 DEF Copy
  <2> QED
    BY <1>18, <2>1 DEF Copy, Fail, Done
<1>12. ASSUME NEW t \in Threads, Exit(t) PROVE DbInv'
  BY <1>12 DEF Exit, Closed
<1>13. ASSUME NEW t \in Threads, Break(t) PROVE DbInv'
  BY <1>13 DEF Break
<1>14. CASE Down
  BY <1>14 DEF Down
<1>15. CASE Up
  BY <1>15 DEF Up
<1>16. CASE UNCHANGED vars
  BY <1>16 DEF vars
<1> QED
  BY <1>1, <1>2, <1>3, <1>4, <1>5, <1>6, <1>7, <1>8, <1>9, <1>10, <1>11, <1>12,
     <1>13, <1>14, <1>15, <1>16, <1>17, <1>18 DEF Next, Statement

\* What a thread holds at each place of db_connect, execute_query and the thread's
\* destructor is an invariant.
THEOREM DbInvariant == Spec => []DbInv
  BY DbInit, DbStep, PTL DEF Spec

(* The types of db.c's state hold in every reachable state.                *)
THEOREM DbTypes == Spec => []TypeOK
<1>1. DbInv => TypeOK
  BY DEF DbInv
<1> QED
  BY <1>1, DbInvariant, PTL

(* Every MYSQL object is accounted for by a db_conn_t and closed with it.  *)
THEOREM NoHandleLeaks == Spec => []HandlesAccounted
<1>1. DbInv => HandlesAccounted
  BY DEF DbInv
<1> QED
  BY <1>1, DbInvariant, PTL

(* A statement is executed at most once, and exactly once when it is       *)
(* reported done; a write that was executed and is reported failed lost    *)
(* its connection.                                                         *)
THEOREM StatementOutcomes == Spec => []StatementOutcome
<1>1. DbInv => StatementOutcome
  BY DEF DbInv
<1> QED
  BY <1>1, DbInvariant, PTL

(* The client library's thread state is ended at the latest when its       *)
(* thread exits, except after a failed malloc.                             *)
THEOREM ThreadsEnd == Spec => []ThreadEnded
<1>1. DbInv => ThreadEnded
  BY DEF DbInv, Owing, Holds, ThreadEnded
<1> QED
  BY <1>1, DbInvariant, PTL
=============================================================================
