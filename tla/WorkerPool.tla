----------------------------- MODULE WorkerPool ------------------------------
(***************************************************************************)
(* CivetWeb's thread pool as server.c runs it: a master thread accepts     *)
(* connections into the ring squeue, starts workers when too few are idle, *)
(* and joins them when mg_stop has set stop_flag.  thread_mutex guards the *)
(* ring and the idle counter; stop_flag is read and written without it.    *)
(***************************************************************************)
EXTENDS Integers, FiniteSets, Sequences

CONSTANTS Connections,  \* bound: the connections that clients open
          MaxWorkers,   \* cfg_max_worker_threads (num_threads, 8 in server.c:248)
          Size,         \* sq_size (connection_queue, 20 by default)
          CreateFails,  \* whether pthread_create may fail
          StartFails    \* whether a worker may end before it first consumes

ASSUME PoolAssumption ==
  /\ Connections \in Nat
  /\ MaxWorkers \in Nat \ {0} /\ Size \in Nat \ {0}
  /\ CreateFails \in BOOLEAN /\ StartFails \in BOOLEAN

\* Connections are named by their place in the order of acceptance.
Sockets  == 1..Connections
NoSocket == 0

Threads == 1..MaxWorkers
Master  == 0
Nobody  == -1

VARIABLES
  pc,         \* where each worker thread is
  sock,       \* conn->client of each worker
  first,      \* first_call_to_consume_socket
  mpc,        \* where the master thread is
  msock,      \* the connection that it has accepted
  spc,        \* where mg_stop is
  squeue, sq_head, sq_tail,
  idle,       \* idle_worker_thread_count
  spawned,    \* spawned_worker_threads
  stop_flag,
  mutex,      \* the thread that holds thread_mutex, or Nobody
  \* History variables, read by no guard but the bound.
  accepted,   \* connections accepted so far, as their number
  answered,
  shortfall   \* a thread could not be created or started

ring    == <<squeue, sq_head, sq_tail>>
worker  == <<pc, sock, first>>
history == <<accepted, answered, shortfall>>
vars    == <<worker, mpc, msock, spc, ring, idle, spawned, stop_flag, mutex, history>>

Queued == sq_head - sq_tail
Goto(w, label) == pc' = [pc EXCEPT ![w] = label]
Acquire(t) == mutex = Nobody /\ mutex' = t
Holds(t)   == mutex = t
Release    == mutex' = Nobody

\* Workers in pthread_cond_wait(sq_full); the master waits for sq_empty alone.
Sleepers == {w \in Threads : pc[w] = "wait"}

-----------------------------------------------------------------------------
(* worker_thread_run and consume_socket *)

\* The request buffer or the mutex may be refused: the thread ends.
Begin(w) ==
  /\ pc[w] = "start"
  /\ \/ Goto(w, "enter") /\ UNCHANGED shortfall
     \/ StartFails /\ Goto(w, "failed") /\ shortfall' = TRUE
  /\ UNCHANGED <<sock, first, mpc, msock, spc, ring, idle, spawned, stop_flag, mutex,
                 accepted, answered>>

\* Mutant: the worker that the master has counted counts itself again.
Enter_CountsFirst(w) ==
  /\ pc[w] = "enter" /\ Acquire(w)
  /\ idle' = idle + 1
  /\ first' = [first EXCEPT ![w] = FALSE]
  /\ Goto(w, "test")
  /\ UNCHANGED <<sock, mpc, msock, spc, ring, spawned, stop_flag, history>>

Enter(w) ==
  /\ pc[w] = "enter" /\ Acquire(w)
  /\ idle' = IF first[w] THEN idle ELSE idle + 1
  /\ first' = [first EXCEPT ![w] = FALSE]
  /\ Goto(w, "test")
  /\ UNCHANGED <<sock, mpc, msock, spc, ring, spawned, stop_flag, history>>

Test(w) ==
  /\ pc[w] = "test"
  /\ Goto(w, IF Queued = 0 /\ stop_flag = 0 THEN "sleep" ELSE "take")
  /\ UNCHANGED <<sock, first, mpc, msock, spc, ring, idle, spawned, stop_flag, mutex, history>>

Sleep(w) ==
  /\ pc[w] = "sleep" /\ Release
  /\ Goto(w, "wait")
  /\ UNCHANGED <<sock, first, mpc, msock, spc, ring, idle, spawned, stop_flag, history>>

\* A waiting thread may return without a signal.
Wake(w) ==
  /\ pc[w] = "wait"
  /\ Goto(w, "relock")
  /\ UNCHANGED <<sock, first, mpc, msock, spc, ring, idle, spawned, stop_flag, mutex, history>>

\* Mutant: if instead of while, a woken worker does not test again.
Relock_NoTest(w) ==
  /\ pc[w] = "relock" /\ Acquire(w)
  /\ Goto(w, "take")
  /\ UNCHANGED <<sock, first, mpc, msock, spc, ring, idle, spawned, stop_flag, history>>

Relock(w) ==
  /\ pc[w] = "relock" /\ Acquire(w)
  /\ Goto(w, "test")
  /\ UNCHANGED <<sock, first, mpc, msock, spc, ring, idle, spawned, stop_flag, history>>

\* Mutant: head and tail wrap separately.
Advance_TailOnly ==
  LET tail == sq_tail + 1
  IN  sq_tail' = (IF tail > Size THEN tail - Size ELSE tail) /\ sq_head' = sq_head

\* The wrap of both pointers once the tail has passed the end.
Advance ==
  LET tail == sq_tail + 1
      past == IF tail > Size THEN Size ELSE 0
  IN  sq_tail' = tail - past /\ sq_head' = sq_head - past

\* Mutant: the master is not told that there is room.
SignalEmpty_Never == UNCHANGED mpc

\* pthread_cond_signal(sq_empty).
SignalEmpty == mpc' = IF mpc = "full" THEN "refill" ELSE mpc

Take(w) ==
  /\ pc[w] = "take" /\ Release
  /\ IF Queued > 0
     THEN sock' = [sock EXCEPT ![w] = squeue[sq_tail % Size]] /\ Advance
     ELSE UNCHANGED <<sock, sq_head, sq_tail>>
  /\ SignalEmpty
  /\ idle' = idle - 1
  /\ Goto(w, "leave")
  /\ UNCHANGED <<first, msock, spc, squeue, spawned, stop_flag, history>>

\* consume_socket returns; a connection taken while stopping is let go.
Leave(w) ==
  /\ pc[w] = "leave"
  /\ Goto(w, IF stop_flag = 0 THEN "serve" ELSE "exit")
  /\ UNCHANGED <<sock, first, mpc, msock, spc, ring, idle, spawned, stop_flag, mutex, history>>

\* process_new_connection: the request is answered, the connection closed.
Serve(w) ==
  /\ pc[w] = "serve"
  /\ answered' = answered \cup {sock[w]}
  /\ sock' = [sock EXCEPT ![w] = NoSocket]
  /\ Goto(w, "enter")
  /\ UNCHANGED <<first, mpc, msock, spc, ring, idle, spawned, stop_flag, mutex, accepted, shortfall>>

\* The end of the thread, with its thread-local destructors.
Exit(w) ==
  /\ pc[w] = "exit"
  /\ Goto(w, "done")
  /\ UNCHANGED <<sock, first, mpc, msock, spc, ring, idle, spawned, stop_flag, mutex, history>>

Worker(w) ==
  \/ Begin(w) \/ Enter(w) \/ Test(w) \/ Sleep(w) \/ Relock(w)
  \/ Take(w) \/ Leave(w) \/ Serve(w) \/ Exit(w)

-----------------------------------------------------------------------------
(* master_thread_run, produce_socket and mg_start_worker_thread *)

MasterGoto(label) == mpc' = label

Accept ==
  /\ mpc = "poll" /\ stop_flag = 0 /\ accepted < Connections
  /\ accepted' = accepted + 1 /\ msock' = accepted + 1
  /\ MasterGoto("produce")
  /\ UNCHANGED <<worker, spc, ring, idle, spawned, stop_flag, mutex, answered, shortfall>>

\* Entered, or woken in pthread_cond_wait(sq_empty).
ProduceLock ==
  /\ mpc \in {"produce", "refill"} /\ Acquire(Master)
  /\ MasterGoto("test")
  /\ UNCHANGED <<worker, msock, spc, ring, idle, spawned, stop_flag, history>>

ProduceFull ==
  /\ mpc = "test" /\ stop_flag = 0 /\ Queued >= Size
  /\ MasterGoto("sleep")
  /\ UNCHANGED <<worker, msock, spc, ring, idle, spawned, stop_flag, mutex, history>>

ProduceSleep ==
  /\ mpc = "sleep" /\ Release
  /\ MasterGoto("full")
  /\ UNCHANGED <<worker, msock, spc, ring, idle, spawned, stop_flag, history>>

\* pthread_cond_signal(sq_full) wakes one of those that wait.
SignalFull ==
  IF Sleepers = {} THEN UNCHANGED pc
                   ELSE \E w \in Sleepers : Goto(w, "relock")

\* Mutant: the end of the wait is taken for room in the queue.
Put_Unbounded ==
  /\ squeue' = [squeue EXCEPT ![sq_head % Size] = msock]
  /\ sq_head' = sq_head + 1

\* When stopping ends the wait on a full queue the connection is let go.
Put ==
  IF Queued < Size
  THEN /\ squeue' = [squeue EXCEPT ![sq_head % Size] = msock]
       /\ sq_head' = sq_head + 1
  ELSE UNCHANGED <<squeue, sq_head>>

\* Mutant: a full queue is not waited for.
Produce_NoWait ==
  /\ mpc = "test"
  /\ Put /\ SignalFull /\ Release
  /\ msock' = NoSocket
  /\ MasterGoto("spawn")
  /\ UNCHANGED <<sock, first, spc, sq_tail, idle, spawned, stop_flag, history>>

Produce ==
  /\ mpc = "test" /\ (stop_flag # 0 \/ Queued < Size)
  /\ Put /\ SignalFull /\ Release
  /\ msock' = NoSocket
  /\ MasterGoto("spawn")
  /\ UNCHANGED <<sock, first, spc, sq_tail, idle, spawned, stop_flag, history>>

\* Mutant: one idle worker is enough, however many connections wait.
EnoughIdle_One == idle > 0

EnoughIdle == idle > Queued

\* The slot is read before the lock; only this thread changes it.
Spawn ==
  /\ mpc = "spawn"
  /\ \/ spawned >= MaxWorkers /\ MasterGoto("poll") /\ UNCHANGED <<idle, mutex>>
     \/ spawned < MaxWorkers /\ mutex = Nobody /\ UNCHANGED mutex
        /\ \/ EnoughIdle /\ MasterGoto("poll") /\ UNCHANGED idle
           \/ ~EnoughIdle /\ MasterGoto("create") /\ idle' = idle + 1
  /\ UNCHANGED <<worker, msock, spc, ring, spawned, stop_flag, history>>

Create ==
  /\ mpc = "create"
  /\ \/ /\ Goto(spawned + 1, "start") /\ spawned' = spawned + 1
        /\ MasterGoto("poll") /\ UNCHANGED shortfall
     \/ /\ CreateFails /\ MasterGoto("rollback")
        /\ shortfall' = TRUE /\ UNCHANGED <<pc, spawned>>
  /\ UNCHANGED <<sock, first, msock, spc, ring, idle, stop_flag, mutex, accepted, answered>>

RollBack ==
  /\ mpc = "rollback" /\ mutex = Nobody
  /\ idle' = idle - 1
  /\ MasterGoto("poll")
  /\ UNCHANGED <<worker, msock, spc, ring, spawned, stop_flag, mutex, history>>

\* The end of the accept loop: the listening sockets are closed.
CloseListeners ==
  /\ mpc = "poll" /\ stop_flag # 0
  /\ MasterGoto("broadcast")
  /\ UNCHANGED <<worker, msock, spc, ring, idle, spawned, stop_flag, mutex, history>>

\* Mutant: the workers are woken without the mutex.
Broadcast_NoLock ==
  /\ mpc = "broadcast"
  /\ pc' = [w \in Threads |-> IF w \in Sleepers THEN "relock" ELSE pc[w]]
  /\ MasterGoto("join")
  /\ UNCHANGED <<sock, first, msock, spc, ring, idle, spawned, stop_flag, mutex, history>>

Broadcast ==
  /\ mpc = "broadcast" /\ mutex = Nobody
  /\ pc' = [w \in Threads |-> IF w \in Sleepers THEN "relock" ELSE pc[w]]
  /\ MasterGoto("join")
  /\ UNCHANGED <<sock, first, msock, spc, ring, idle, spawned, stop_flag, mutex, history>>

Ended(w) == pc[w] \in {"done", "failed"}

\* Mutant: the master waits for the workers that are idle, not for all.
Join_Idle ==
  /\ mpc = "join" /\ \A w \in 1..spawned : Ended(w) \/ pc[w] \in {"serve", "leave"}
  /\ stop_flag' = 2 /\ MasterGoto("ended")
  /\ UNCHANGED <<worker, msock, spc, ring, idle, spawned, mutex, history>>

Join ==
  /\ mpc = "join" /\ \A w \in 1..spawned : Ended(w)
  /\ stop_flag' = 2 /\ MasterGoto("ended")
  /\ UNCHANGED <<worker, msock, spc, ring, idle, spawned, mutex, history>>

MasterStep ==
  \/ ProduceLock \/ ProduceFull \/ ProduceSleep \/ Produce \/ Spawn \/ Create
  \/ RollBack \/ CloseListeners \/ Broadcast \/ Join

-----------------------------------------------------------------------------
(* mg_stop, in the thread of main *)

Stop ==
  /\ spc = "running" /\ spc' = "stopping"
  /\ stop_flag' = 1
  /\ UNCHANGED <<worker, mpc, msock, ring, idle, spawned, mutex, history>>

\* The flag has become 2, the master is joined, free_context.
Free ==
  /\ spc = "stopping" /\ stop_flag = 2 /\ mpc = "ended"
  /\ spc' = "freed"
  /\ UNCHANGED <<worker, mpc, msock, ring, idle, spawned, stop_flag, mutex, history>>

-----------------------------------------------------------------------------
\* mg_start: no worker is started before the first connection.
Init ==
  /\ pc = [w \in Threads |-> "none"] /\ sock = [w \in Threads |-> NoSocket]
  /\ first = [w \in Threads |-> TRUE]
  /\ mpc = "poll" /\ msock = NoSocket /\ spc = "running"
  /\ squeue = [i \in 0..(Size - 1) |-> NoSocket] /\ sq_head = 0 /\ sq_tail = 0
  /\ idle = 0 /\ spawned = 0 /\ stop_flag = 0 /\ mutex = Nobody
  /\ accepted = 0 /\ answered = {} /\ shortfall = FALSE

-----------------------------------------------------------------------------
WorkerLabels == {"none", "start", "enter", "test", "sleep", "wait", "relock", "take",
                 "leave", "serve", "exit", "done", "failed"}
MasterLabels == {"poll", "produce", "refill", "test", "sleep", "full", "spawn", "create",
                 "rollback", "broadcast", "join", "ended"}

TypeOK ==
  /\ pc \in [Threads -> WorkerLabels] /\ first \in [Threads -> BOOLEAN]
  /\ sock \in [Threads -> Sockets \cup {NoSocket}]
  /\ mpc \in MasterLabels /\ msock \in Sockets \cup {NoSocket}
  /\ spc \in {"running", "stopping", "freed"}
  /\ squeue \in [0..(Size - 1) -> Sockets \cup {NoSocket}]
  /\ sq_tail \in 0..Size /\ sq_head \in sq_tail..(sq_tail + Size)
  /\ idle \in 0..(2 * MaxWorkers) /\ spawned \in 0..MaxWorkers /\ stop_flag \in 0..2
  /\ mutex \in Threads \cup {Master, Nobody}
  /\ accepted \in 0..Connections /\ answered \subseteq Sockets /\ shortfall \in BOOLEAN

Waiting == [i \in 1..Queued |-> squeue[(sq_tail + i - 1) % Size]]

(* civetweb.c:20192-20259: the ring with its two pointers, wrapped only    *)
(* when the tail passes its end, is a bounded queue in the order of        *)
(* acceptance: no connection is overtaken, taken twice or overwritten.     *)
AQ == INSTANCE AcceptQueue WITH queue <- Waiting, hand <- sock
ImplementsQueue == AQ!Spec

\* A worker that has consumed for the last time holds what it lets go.
InHand == {sock[w] : w \in Threads} \cup {msock}
InQueue == {Waiting[i] : i \in 1..Queued}

(* civetweb.c:20232-20250, 20217: an accepted connection is with the       *)
(* master, in the queue, with a worker or answered; it is lost only to     *)
(* mg_stop.                                                                *)
NoneLost == stop_flag = 0 => 1..accepted \subseteq InHand \cup InQueue \cup answered

\* A worker serves only a connection that it has taken from the queue.
ServesTaken == \A w \in Threads : pc[w] = "serve" => sock[w] # NoSocket

CountedIdle == {w \in Threads : \/ pc[w] \in {"start", "test", "sleep", "wait", "relock", "take"}
                                \/ pc[w] = "enter" /\ first[w]}

\* Threads that ended before they first consumed.
NeverBegan == {w \in Threads : pc[w] = "failed"}

\* The worker that the master has counted and not yet created.
Promised == IF mpc \in {"create", "rollback"} THEN 1 ELSE 0

(* civetweb.c:21171-21188, 20185-20214: idle_worker_thread_count, moved by *)
(* the master before a worker exists and by the worker afterwards, counts  *)
(* the workers that will take a connection or wait for one, and those that *)
(* ended at the start.                                                     *)
IdleCounts == idle = Cardinality(CountedIdle) + Cardinality(NeverBegan) + Promised

(* "will start a worker-thread only if there aren't currently any idle     *)
(* worker-threads", civetweb.c:20262-20264: when the master waits for the  *)
(* next connection, every connection in the queue has an idle worker to    *)
(* take it, or no more workers can be had.                                 *)
QueuedHasWorker ==
  mpc = "poll" /\ stop_flag = 0 =>
    Queued <= Cardinality(CountedIdle) \/ spawned = MaxWorkers \/ shortfall

(* civetweb.c:20192-20260: the accepted connections are answered, unless   *)
(* the server is stopped: a full queue, a worker between its test and its  *)
(* wait, or two workers woken for one connection cannot leave one behind.  *)
(* (As no more than Connections come, this says it of each.)               *)
Answered == []<>(1..accepted \subseteq answered \/ stop_flag # 0 \/ shortfall)

(* "Call consume_socket() even when ctx->stop_flag > 0, to let it signal   *)
(* sq_empty condvar to wake up the master", civetweb.c:20339-20341: mg_stop *)
(* returns, also when it is called while workers are about to wait on an   *)
(* empty queue, the master is about to accept, or it waits on a full queue *)
(* while a worker serves.  A master that waits on a full queue is left     *)
(* behind only if there is no worker to take from it: all had taken a      *)
(* connection and not yet read the flag, or none could be started or have  *)
(* the memory to begin.                                                    *)
AllLeft == mpc = "full" /\ \A w \in Threads : pc[w] = "none" \/ Ended(w)
StopReturnsOrAllLeft == (spc = "stopping") ~> (spc = "freed" \/ AllLeft)
=============================================================================
