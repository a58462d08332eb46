--------------------------- MODULE ServerLifecycle ---------------------------
(***************************************************************************)
(* main of server.c around CivetWeb's thread pool: the client library and  *)
(* the cache are created, mg_start starts the pool or fails, the handlers  *)
(* are registered while it already accepts, and after mg_stop the cache    *)
(* and the library are released.  A worker's database connection goes with *)
(* its thread.                                                             *)
(***************************************************************************)
EXTENDS WorkerPool, Handlers

CONSTANTS Uri,         \* the URI that is requested on each connection
          StartMayFail \* whether mg_start may return NULL

ASSUME LifecycleAssumption ==
  /\ Sockets \subseteq DOMAIN Uri /\ \A s \in Sockets : Uri[s] \in Seq(STRING)
  /\ StartMayFail \in BOOLEAN

VARIABLES
  main,      \* where main is
  ctx,       \* "none", "server", "null", or "deaf": a context without a master
  list,      \* the handlers registered so far
  library,   \* MySQL client library: "none", "live", "ended"
  g_cache,   \* "none", "live", "freed"
  found,     \* the handler that each worker has looked up, or -1
  tls        \* whether it has a db_conn_t

program == <<main, ctx, list, library, g_cache>>
serving == <<found, tls>>
allvars == <<vars, program, serving>>

-----------------------------------------------------------------------------
(* main *)

Setup ==
  /\ main = "setup" /\ main' = "start"
  /\ library' = "live" /\ g_cache' = "live"
  /\ UNCHANGED <<vars, ctx, list, serving>>

\* That the master thread cannot be created goes unnoticed.
MgStart ==
  /\ main = "start" /\ main' = "register"
  /\ \/ ctx' = "server"
     \/ StartMayFail /\ ctx' = "null"
     \/ StartMayFail /\ ctx' = "deaf"
  /\ UNCHANGED <<vars, list, library, g_cache, serving>>

\* mg_set_request_handler does nothing without a context.
Register ==
  /\ main = "register"
  /\ IF ctx # "null" /\ Len(list) < Len(Registered)
     THEN list' = Append(list, Registered[Len(list) + 1]) /\ UNCHANGED main
     ELSE main' = "running" /\ UNCHANGED list
  /\ UNCHANGED <<vars, ctx, library, g_cache, serving>>

\* Enter: mg_stop, which returns at once without a context or a master.
MgStop ==
  /\ main = "running" /\ main' = "stop"
  /\ IF ctx = "server" THEN Stop ELSE UNCHANGED vars
  /\ UNCHANGED <<ctx, list, library, g_cache, serving>>

MgStopReturns ==
  /\ main = "stop" /\ main' = "destroy"
  /\ IF ctx = "server" THEN Free ELSE UNCHANGED vars
  /\ UNCHANGED <<ctx, list, library, g_cache, serving>>

\* Mutant: the cache is destroyed as soon as the stop was asked for.
Destroy_Early ==
  /\ main = "stop" /\ g_cache = "live" /\ g_cache' = "freed"
  /\ UNCHANGED <<vars, main, ctx, list, library, serving>>

Destroy ==
  /\ main = "destroy" /\ main' = "cleanup"
  /\ g_cache' = "freed"
  /\ UNCHANGED <<vars, ctx, list, library, serving>>

Cleanup ==
  /\ main = "cleanup" /\ main' = "ended"
  /\ library' = "ended"
  /\ UNCHANGED <<vars, ctx, list, g_cache, serving>>

Main == Setup \/ MgStart \/ Register \/ MgStop \/ MgStopReturns \/ Destroy \/ Cleanup

-----------------------------------------------------------------------------
(* The pool, whose process_new_connection looks the handler up and calls it *)

LookUp(w) ==
  /\ pc[w] = "serve" /\ found[w] = -1
  /\ found' = [found EXCEPT ![w] = Find(list, Uri[sock[w]])]
  /\ UNCHANGED <<vars, program, tls>>

\* handle_employee opens the thread's connection, unless that fails.
Handle(w) ==
  /\ found[w] # -1 /\ Serve(w)
  /\ found' = [found EXCEPT ![w] = -1]
  /\ \/ UNCHANGED tls
     \/ found[w] \in {1, 2} /\ tls' = [tls EXCEPT ![w] = TRUE]
  /\ UNCHANGED program

\* db_destroy, the destructor of the thread's db_conn_t.
ThreadExit(w) ==
  /\ Exit(w)
  /\ tls' = [tls EXCEPT ![w] = FALSE]
  /\ UNCHANGED <<program, found>>

\* The other steps of a worker, and of the master.
Pool(A) == ctx = "server" /\ A /\ UNCHANGED <<program, serving>>

Obtain(w) == Pool(Enter(w) \/ Relock(w))

ThreadStep(w) ==
  \/ Obtain(w) \/ LookUp(w) \/ Handle(w) \/ ThreadExit(w)
  \/ Pool(Begin(w) \/ Test(w) \/ Sleep(w) \/ Take(w) \/ Leave(w))

LifecycleInit ==
  /\ Init
  /\ main = "setup" /\ ctx = "none" /\ list = <<>>
  /\ library = "none" /\ g_cache = "none"
  /\ found = [w \in Threads |-> -1] /\ tls = [w \in Threads |-> FALSE]

LifecycleNext ==
  \/ Main \/ Pool(Accept) \/ Pool(MasterStep)
  \/ \E w \in Threads : ThreadStep(w) \/ Pool(Wake(w))

(* Threads run on, a lock that is free again and again is obtained, and    *)
(* process_new_connection returns (it reads under request_timeout_ms, and  *)
(* its handlers count down the steps that EmployeeServer gives them).      *)
(* Clients need not come, and nobody need press ENTER.                     *)
LifecycleSpec ==
  /\ LifecycleInit /\ [][LifecycleNext]_allvars
  /\ \A w \in Threads : SF_allvars(Obtain(w)) /\ WF_allvars(ThreadStep(w))
  /\ SF_allvars(Pool(MasterStep)) /\ WF_allvars(MgStopReturns)

-----------------------------------------------------------------------------
(* server.c:268-272: mg_stop has joined every worker before the cache and  *)
(* the client library are released: no handler runs without the cache, and *)
(* no thread-local connection is closed after mysql_library_end.           *)
LiveWhenUsed ==
  \A w \in Threads : /\ found[w] # -1 => g_cache = "live" /\ library = "live"
                     /\ tls[w] => library = "live"

\* The handlers that a URI is for: its own, or those whose text begins it.
Own(uri) ==
  LET exact == {i \in DOMAIN Registered : Registered[i] = uri}
  IN  IF exact # {} THEN exact
      ELSE {i \in DOMAIN Registered : PatternMatch(Registered[i], uri)}

(* server.c:257-261, civetweb.c:14932-14979: a request that is looked up   *)
(* after the last registration gets the handler of its own URI, although   *)
(* /metrics stands before /metrics/reset in the list and begins it.        *)
(* Before that it may also find none, or one whose URI begins its own.     *)
RoutedOnceRegistered ==
  [][\A w \in Threads : found[w] = -1 /\ found'[w] # -1 =>
       LET uri == Uri[sock[w]]
           Short == Len(list) < Len(Registered)
       IN  \/ found'[w] \in Own(uri)
           \/ found'[w] = 0 /\ (Own(uri) = {} \/ Short)
           \/ found'[w] > 0 /\ Short /\ SeqExt!IsStrictPrefix(Registered[found'[w]], uri)]_allvars
=============================================================================
