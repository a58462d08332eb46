------------------------ MODULE ServerLifecycleProofs ------------------------
(***************************************************************************)
(* The thread pool, and main around it, for every number of workers and    *)
(* connections and every size of the queue.                                *)
(***************************************************************************)
EXTENDS ServerLifecycle, FiniteSetTheorems, TLAPS

-----------------------------------------------------------------------------
(* The pool's steps among those of the program *)

MasterAct    == Accept \/ MasterStep \/ Stop \/ Free
WorkerAct(w) == Worker(w) \/ Wake(w)
PoolStep     == MasterAct \/ \E w \in Threads : WorkerAct(w)

\* A step of the program is a step of the pool or leaves it alone.
LEMMA PoolSteps == [LifecycleNext]_allvars => [PoolStep]_vars
<1>1. Main => PoolStep \/ UNCHANGED vars
  BY DEF Main, Setup, MgStart, Register, MgStop, MgStopReturns, Destroy, Cleanup, PoolStep,
         MasterAct
<1>2. Pool(Accept) \/ Pool(MasterStep) => PoolStep
  BY DEF Pool, PoolStep, MasterAct
<1>3. ASSUME NEW w \in Threads, ThreadStep(w) \/ Pool(Wake(w))
      PROVE  PoolStep \/ UNCHANGED vars
  BY <1>3 DEF ThreadStep, Pool, Obtain, LookUp, Handle, ThreadExit, PoolStep, WorkerAct, Worker
<1>4. QED
  BY <1>1, <1>2, <1>3 DEF LifecycleNext, allvars

-----------------------------------------------------------------------------
(* Types *)

(* The types that the steps keep of themselves: the bounds of the idle     *)
(* counter follow from what it counts.                                     *)
PoolTypes ==
  /\ pc \in [Threads -> WorkerLabels] /\ first \in [Threads -> BOOLEAN]
  /\ sock \in [Threads -> Sockets \cup {NoSocket}]
  /\ mpc \in MasterLabels /\ msock \in Sockets \cup {NoSocket}
  /\ spc \in {"running", "stopping", "freed"}
  /\ squeue \in [0..(Size - 1) -> Sockets \cup {NoSocket}]
  /\ sq_tail \in 0..Size /\ sq_head \in sq_tail..(sq_tail + Size)
  /\ idle \in Int /\ spawned \in 0..MaxWorkers /\ stop_flag \in 0..2
  /\ mutex \in Threads \cup {Master, Nobody}
  /\ accepted \in 0..Connections /\ answered \subseteq Sockets \cup {NoSocket}
  /\ shortfall \in BOOLEAN
  /\ mpc = "create" => spawned < MaxWorkers

\* A place in the ring, of the places that its pointers reach.
LEMMA ModSmall == \A n \in Nat \ {0} : \A x \in 0..(n - 1) : x % n = x
  OBVIOUS

\* The remainder of a number between n and 2n.
LEMMA ModLarge == \A n \in Nat \ {0} : \A x \in n..(2 * n - 1) : x % n = x - n
  OBVIOUS

\* A remainder is an index of the ring.
LEMMA ModRange == \A n \in Nat \ {0} : \A x \in Nat : x % n \in 0..(n - 1)
  OBVIOUS

\* pthread_cond_signal and pthread_cond_broadcast wake threads that wait.
Woken(u) == pc'[u] = pc[u] \/ (pc[u] = "wait" /\ pc'[u] = "relock")

\* A signal or broadcast moves sleepers only to the place where they take the lock again.
LEMMA SignalWakes ==
  ASSUME PoolTypes, SignalFull \/ Broadcast
  PROVE  pc' \in [Threads -> WorkerLabels] /\ \A u \in Threads : Woken(u)
<1>1. CASE UNCHANGED pc
  BY <1>1 DEF PoolTypes, Woken
<1>2. ASSUME NEW w \in Sleepers, Goto(w, "relock")
      PROVE  pc' \in [Threads -> WorkerLabels] /\ \A u \in Threads : Woken(u)
  BY <1>2 DEF PoolTypes, Sleepers, Goto, WorkerLabels, Woken
<1>3. CASE Broadcast
  BY <1>3 DEF PoolTypes, Sleepers, Broadcast, WorkerLabels, Woken
<1> QED
  BY <1>1, <1>2, <1>3 DEF SignalFull

\* A worker's step keeps the types.
LEMMA WorkerTypes ==
  ASSUME PoolTypes, NEW w \in Threads, WorkerAct(w) PROVE PoolTypes'
<1> USE PoolAssumption DEF PoolTypes, ring, history, WorkerLabels, MasterLabels, Goto, Acquire, Release
<1>1. CASE Begin(w)
  <2>1. /\ UNCHANGED <<sock, first, mpc, msock, spc, ring, idle, spawned, stop_flag, mutex,
                       accepted, answered>>
        /\ shortfall' \in {shortfall, TRUE}
        /\ pc' = [pc EXCEPT ![w] = "enter"] \/ pc' = [pc EXCEPT ![w] = "failed"]
    BY <1>1 DEF Begin
  <2>2. pc' \in [Threads -> WorkerLabels]
    BY <2>1
  <2> QED
    BY <2>1, <2>2
<1>2. CASE Enter(w)
  BY <1>2 DEF Enter
<1>3. CASE Test(w)
  BY <1>3 DEF Test
<1>4. CASE Sleep(w)
  BY <1>4 DEF Sleep
<1>5. CASE Wake(w) \/ Relock(w)
  BY <1>5 DEF Wake, Relock
<1>6. CASE Take(w)
  <2>1. sq_tail' \in 0..Size /\ sq_head' \in sq_tail'..(sq_tail' + Size)
    BY <1>6 DEF Take, Advance, Queued
  <2>2. sock' \in [Threads -> Sockets \cup {NoSocket}]
    <3>1. squeue[sq_tail % Size] \in Sockets \cup {NoSocket}
      BY ModRange
    <3> QED
      BY <1>6, <3>1 DEF Take
  <2>3. mpc' \in MasterLabels /\ pc' \in [Threads -> WorkerLabels]
    BY <1>6 DEF Take, SignalEmpty
  <2>4. /\ mutex' = Nobody /\ idle' \in Int
        /\ mpc' # "create" \/ mpc = "create"
        /\ UNCHANGED <<first, msock, spc, squeue, spawned, stop_flag, history>>
    BY <1>6 DEF Take, SignalEmpty
  <2> HIDE DEF Goto, Acquire, Release, WorkerLabels, MasterLabels
  <2> QED
    BY <2>1, <2>2, <2>3, <2>4
<1>7. CASE Leave(w)
  BY <1>7 DEF Leave
<1>8. CASE Serve(w)
  BY <1>8 DEF Serve
<1>9. CASE Exit(w)
  BY <1>9 DEF Exit
<1> QED
  BY <1>1, <1>2, <1>3, <1>4, <1>5, <1>6, <1>7, <1>8, <1>9 DEF WorkerAct, Worker

\* A step of the master or of main keeps the types.
LEMMA MasterTypes == PoolTypes /\ MasterAct => PoolTypes'
<1> SUFFICES ASSUME PoolTypes, MasterAct PROVE PoolTypes'
  OBVIOUS
<1> USE PoolAssumption DEF PoolTypes, ring, worker, history, WorkerLabels, MasterLabels, MasterGoto,
        Acquire, Release
<1>1. CASE Accept
  BY <1>1 DEF Accept, Sockets
<1>2. CASE ProduceLock \/ ProduceFull \/ ProduceSleep
  BY <1>2 DEF ProduceLock, ProduceFull, ProduceSleep, Master
<1>3. CASE Produce
  <2>1. /\ squeue' \in [0..(Size - 1) -> Sockets \cup {NoSocket}]
        /\ sq_head' \in sq_tail..(sq_tail + Size) /\ sq_tail' = sq_tail
    <3>1. sq_head % Size \in 0..(Size - 1)
      BY ModRange
    <3> QED
      BY <1>3, <3>1 DEF Produce, Put, Queued
  <2>2. pc' \in [Threads -> WorkerLabels]
    BY <1>3, SignalWakes DEF Produce
  <2> QED
    BY <1>3, <2>1, <2>2 DEF Produce
<1>4. CASE Spawn
  BY <1>4 DEF Spawn
<1>5. CASE Create
  <2>1. pc' \in [Threads -> WorkerLabels]
    BY <1>5 DEF Create, Goto
  <2>2. spawned' \in 0..MaxWorkers
    BY <1>5 DEF Create
  <2>3. /\ mpc' \in {"poll", "rollback"} /\ shortfall' \in BOOLEAN
        /\ UNCHANGED <<sock, first, msock, spc, squeue, sq_head, sq_tail, idle, stop_flag, mutex,
                       accepted, answered>>
    BY <1>5 DEF Create
  <2> QED
    BY <2>1, <2>2, <2>3
<1>6. CASE RollBack \/ CloseListeners \/ Join
  BY <1>6 DEF RollBack, CloseListeners, Join
<1>7. CASE Broadcast
  BY <1>7, SignalWakes DEF Broadcast
<1>8. CASE Stop \/ Free
  BY <1>8 DEF Stop, Free
<1> QED
  BY <1>1, <1>2, <1>3, <1>4, <1>5, <1>6, <1>7, <1>8 DEF MasterAct, MasterStep

\* Every step keeps the types.
LEMMA TypesStep == PoolTypes /\ [PoolStep]_vars => PoolTypes'
<1>1. PoolTypes /\ UNCHANGED vars => PoolTypes'
  BY DEF PoolTypes, vars, worker, ring, history
<1> QED
  BY <1>1, WorkerTypes, MasterTypes DEF PoolStep

-----------------------------------------------------------------------------
(* The threads that exist *)

\* Slots are filled in order, and the master ends after every thread.
Spawned ==
  /\ \A w \in Threads : w > spawned <=> pc[w] = "none"
  /\ \A w \in Threads :
       /\ pc[w] \in {"none", "start"} => first[w]
       /\ pc[w] \in {"test", "sleep", "wait", "relock", "take", "leave", "serve"} => ~first[w]
  /\ mpc \in {"broadcast", "join", "ended"} => stop_flag # 0
  /\ mpc = "ended" => \A w \in Threads : pc[w] = "none" \/ Ended(w)
  /\ stop_flag = 2 => mpc = "ended"
  /\ spc # "running" <=> stop_flag # 0
  /\ spc = "freed" => mpc = "ended"

\* A worker's step keeps the spawned threads a prefix of the array.
LEMMA WorkerSpawned ==
  ASSUME PoolTypes, Spawned, NEW w \in Threads, WorkerAct(w) PROVE Spawned'
<1> USE DEF Spawned, WorkerAct, Worker, Begin, Enter, Test, Sleep, Wake, Relock, Take, Leave, Serve,
            Exit, Goto, PoolTypes
<1>1. /\ pc[w] # "none" /\ ~Ended(w) /\ pc'[w] \notin {"none", "start"}
      /\ \A u \in Threads \ {w} : pc'[u] = pc[u] /\ first'[u] = first[u]
  BY DEF Ended
<1>2. UNCHANGED <<spawned, stop_flag, spc>>
  OBVIOUS
<1>3. mpc # "ended"
  BY <1>1
<1>4. mpc' = mpc \/ mpc' = "refill"
  BY DEF SignalEmpty
<1>5. stop_flag # 2 /\ spc # "freed"
  BY <1>3
<1> QED
  BY <1>1, <1>2, <1>3, <1>4, <1>5

\* So does a step of the master: the roll-back takes away the last thread only.
LEMMA MasterSpawned == PoolTypes /\ Spawned /\ MasterAct => Spawned'
<1> SUFFICES ASSUME PoolTypes, Spawned, MasterAct PROVE Spawned'
  OBVIOUS
<1> USE DEF Spawned, MasterGoto, PoolTypes, worker, Ended
<1>1. CASE Accept \/ ProduceLock \/ ProduceFull \/ ProduceSleep \/ Spawn \/ RollBack \/ CloseListeners
  BY <1>1 DEF Accept, ProduceLock, ProduceFull, ProduceSleep, Spawn, RollBack, CloseListeners
<1>2. CASE Produce
  <2>1. \A u \in Threads : Woken(u)
    BY <1>2, SignalWakes DEF Produce
  <2>2. UNCHANGED <<first, spawned, stop_flag, spc>> /\ mpc = "test" /\ mpc' = "spawn"
    BY <1>2 DEF Produce
  <2> QED
    BY <2>1, <2>2 DEF Woken
<1>3. CASE Create
  <2>1. CASE Goto(spawned + 1, "start") /\ spawned' = spawned + 1
    <3>1. spawned + 1 \in Threads
      BY <1>3, PoolAssumption DEF Create, Threads
    <3>2. pc[spawned + 1] = "none" /\ pc'[spawned + 1] = "start"
          /\ \A u \in Threads \ {spawned + 1} : pc'[u] = pc[u]
      BY <2>1, <3>1 DEF Goto
    <3>3. first' = first /\ spc' = spc /\ stop_flag' = stop_flag /\ mpc = "create" /\ mpc' = "poll"
      BY <1>3, <2>1, <3>2 DEF Create
    <3>4. \A u \in Threads : u > spawned' <=> pc'[u] = "none"
      BY <2>1, <3>1, <3>2 DEF Threads
    <3> QED
      BY <3>1, <3>2, <3>3, <3>4
  <2>2. CASE pc' = pc /\ spawned' = spawned
    BY <1>3, <2>2 DEF Create
  <2> QED
    BY <1>3, <2>1, <2>2 DEF Create
<1>4. CASE Broadcast
  <2>1. \A u \in Threads : Woken(u)
    BY <1>4, SignalWakes
  <2>2. UNCHANGED <<first, spawned, stop_flag, spc>> /\ mpc = "broadcast" /\ mpc' = "join"
    BY <1>4 DEF Broadcast
  <2> QED
    BY <2>1, <2>2 DEF Woken
<1>5. CASE Join
  <2>1. \A u \in Threads : pc[u] = "none" \/ pc[u] \in {"done", "failed"}
    BY <1>5 DEF Join, Threads
  <2> QED
    BY <1>5, <2>1 DEF Join
<1>6. CASE Stop \/ Free
  BY <1>6 DEF Stop, Free
<1> QED
  BY <1>1, <1>2, <1>3, <1>4, <1>5, <1>6 DEF MasterAct, MasterStep

-----------------------------------------------------------------------------
(* The mutex, and what it protects *)

Inside(w) == pc[w] \in {"test", "sleep", "take"}

\* A thread between its pthread_mutex_lock and its unlock or wait holds it.
LockHeld ==
  /\ \A w \in Threads : Inside(w) => mutex = w
  /\ mpc \in {"test", "sleep"} => mutex = Master

\* What each worker's place says of the connection in its hands.
HandOf(w) ==
  /\ pc[w] \in {"none", "start", "failed", "enter", "test", "sleep", "wait", "relock", "take"} =>
       sock[w] = NoSocket
  /\ pc[w] = "take" => Queued > 0 \/ stop_flag # 0
  /\ pc[w] = "leave" => sock[w] # NoSocket \/ stop_flag # 0
  /\ pc[w] = "serve" => sock[w] # NoSocket

\* The master holds the connection that it has accepted, and no other.
MasterHand ==
  mpc \in {"produce", "refill", "test", "sleep", "full"} <=> msock # NoSocket

\* Every place between the two pointers holds a connection.
RingFull == \A x \in sq_tail..(sq_head - 1) : squeue[x % Size] # NoSocket

Hands == LockHeld /\ MasterHand /\ RingFull /\ \A w \in Threads : HandOf(w)

\* A worker's step keeps each socket in one place.
LEMMA WorkerHands ==
  ASSUME PoolTypes, Hands, NEW w \in Threads, WorkerAct(w) PROVE Hands'
<1> USE DEF Hands
<1>0. \A u \in Threads \ {w} : pc'[u] = pc[u] /\ sock'[u] = sock[u]
  BY DEF WorkerAct, Worker, Begin, Enter, Test, Sleep, Wake, Relock, Take, Leave, Serve, Exit, Goto,
         PoolTypes
<1>1. Nobody \notin Threads /\ Nobody # Master /\ Master \notin Threads
  BY DEF Nobody, Master, Threads
<1>2. stop_flag' = stop_flag
  BY DEF WorkerAct, Worker, Begin, Enter, Test, Sleep, Wake, Relock, Take, Leave, Serve, Exit
<1>3. LockHeld'
  <2> USE <1>0, <1>1 DEF LockHeld, Inside, Goto, PoolTypes, Acquire, Release
  <2>1. CASE Begin(w) \/ Test(w) \/ Wake(w) \/ Leave(w) \/ Serve(w) \/ Exit(w)
    BY <2>1 DEF Begin, Test, Wake, Leave, Serve, Exit
  <2>2. CASE Enter(w) \/ Relock(w)
    BY <2>2 DEF Enter, Relock
  <2>3. CASE Sleep(w)
    BY <2>3 DEF Sleep
  <2>4. CASE Take(w)
    BY <2>4 DEF Take, SignalEmpty
  <2> QED
    BY <2>1, <2>2, <2>3, <2>4 DEF WorkerAct, Worker
<1>4. CASE Take(w)
  <2>1. mutex = w
    BY <1>4 DEF LockHeld, Inside, Take
  <2>2. \A u \in Threads \ {w} : pc[u] # "take"
    BY <2>1 DEF LockHeld, Inside
  <2>3. MasterHand'
    BY <1>4 DEF Take, SignalEmpty, MasterHand
  <2>4. CASE Queued > 0
    <3>1. squeue[sq_tail % Size] # NoSocket
      BY <2>4 DEF RingFull, Queued, PoolTypes
    <3>2. sock'[w] = squeue[sq_tail % Size] /\ pc'[w] = "leave" /\ squeue' = squeue
      BY <1>4, <2>4 DEF Take, PoolTypes, Goto
    <3>3. \A u \in Threads : HandOf(u)'
      BY <1>0, <1>2, <2>2, <3>1, <3>2 DEF HandOf
    <3>4. RingFull'
      <4>1. SUFFICES ASSUME NEW x \in sq_tail'..(sq_head' - 1)
                     PROVE  squeue[x % Size] # NoSocket
        BY <3>2 DEF RingFull
      <4>2. CASE sq_tail + 1 <= Size
        BY <1>4, <2>4, <4>1, <4>2, PoolAssumption DEF Take, Advance, RingFull, PoolTypes
      <4>3. CASE sq_tail + 1 > Size
        <5>1. /\ x \in 1..(Size - 1) \/ (x \in Size..(2 * Size - 1) /\ x <= Size)
              /\ x + Size \in sq_tail..(sq_head - 1)
          BY <1>4, <2>4, <4>1, <4>3, PoolAssumption DEF Take, Advance, PoolTypes
        <5>2. (x + Size) % Size = x % Size
          BY <5>1, PoolAssumption
        <5> QED
          BY <5>1, <5>2 DEF RingFull
      <4> QED
        BY <4>2, <4>3, PoolAssumption DEF PoolTypes
    <3> QED
      BY <1>3, <2>3, <3>3, <3>4
  <2>5. CASE ~(Queued > 0)
    <3>1. stop_flag # 0 /\ pc'[w] = "leave" /\ UNCHANGED <<sock, squeue, sq_head, sq_tail>>
      BY <1>4, <2>5 DEF Take, HandOf, Goto, PoolTypes
    <3>2. \A u \in Threads : HandOf(u)'
      BY <1>0, <1>2, <2>2, <3>1 DEF HandOf
    <3> QED
      BY <1>3, <2>3, <3>1, <3>2 DEF RingFull
  <2> QED
    BY <2>4, <2>5
<1>5. CASE ~Take(w)
  <2>1. UNCHANGED <<mpc, msock, squeue, sq_head, sq_tail>>
    BY <1>5 DEF WorkerAct, Worker, Begin, Enter, Test, Sleep, Wake, Relock, Leave, Serve, Exit, ring
  <2>2. Queued' = Queued
    BY <2>1 DEF Queued
  <2>3. HandOf(w)'
    <3> USE <1>2, <2>2 DEF HandOf, Goto, PoolTypes
    <3>1. CASE Begin(w) \/ Enter(w) \/ Sleep(w) \/ Wake(w) \/ Relock(w) \/ Exit(w)
      BY <3>1 DEF Begin, Enter, Sleep, Wake, Relock, Exit
    <3>2. CASE Test(w)
      <4>1. Queued \in Nat
        BY PoolAssumption DEF Queued
      <4> QED
        BY <3>2, <4>1 DEF Test
    <3>3. CASE Leave(w)
      BY <3>3 DEF Leave
    <3>4. CASE Serve(w)
      BY <3>4 DEF Serve
    <3> QED
      BY <1>5, <3>1, <3>2, <3>3, <3>4 DEF WorkerAct, Worker
  <2>4. \A u \in Threads : HandOf(u)'
    BY <1>0, <1>2, <2>2, <2>3 DEF HandOf
  <2> QED
    BY <1>3, <2>1, <2>4 DEF MasterHand, RingFull
<1> QED
  BY <1>4, <1>5

\* A step of the master keeps each socket in one place.
LEMMA MasterHands == PoolTypes /\ Spawned /\ Hands /\ MasterAct => Hands'
<1> SUFFICES ASSUME PoolTypes, Spawned, Hands, MasterAct PROVE Hands'
  OBVIOUS
<1> USE DEF Hands
<1>1. Nobody \notin Threads /\ Nobody # Master /\ Master \notin Threads
  BY DEF Nobody, Master, Threads
<1>2. LockHeld'
  <2> USE <1>1 DEF LockHeld, Inside, MasterGoto, PoolTypes, Acquire, Release, worker
  <2>1. CASE Accept \/ ProduceFull \/ Spawn \/ RollBack \/ CloseListeners \/ Join \/ Stop \/ Free
    BY <2>1 DEF Accept, ProduceFull, Spawn, RollBack, CloseListeners, Join, Stop, Free
  <2>2. CASE ProduceLock \/ ProduceSleep
    BY <2>2 DEF ProduceLock, ProduceSleep
  <2>3. CASE Produce
    BY <2>3 DEF Produce, SignalFull, Sleepers, Goto
  <2>4. CASE Create
    BY <2>4 DEF Create, Goto
  <2>5. CASE Broadcast
    BY <2>5 DEF Broadcast
  <2> QED
    BY <2>1, <2>2, <2>3, <2>4, <2>5 DEF MasterAct, MasterStep
<1>3. MasterHand'
  <2>1. CASE Accept
    BY <2>1, PoolAssumption DEF Accept, MasterHand, MasterGoto, NoSocket, PoolTypes
  <2>2. CASE MasterStep
    BY <2>2 DEF MasterStep, ProduceLock, ProduceFull, ProduceSleep, Produce, Spawn, Create, RollBack,
                CloseListeners, Broadcast, Join, MasterHand, MasterGoto
  <2>3. CASE Stop \/ Free
    BY <2>3 DEF Stop, Free, MasterHand
  <2> QED
    BY <2>1, <2>2, <2>3 DEF MasterAct
<1>4. CASE Produce
  <2>1. mutex = Master /\ \A u \in Threads : pc[u] # "take"
    BY <1>1, <1>4 DEF LockHeld, Inside, Produce
  <2>2. \A u \in Threads : Woken(u)
    BY <1>4, SignalWakes DEF Produce
  <2>3. \A u \in Threads : HandOf(u)'
    BY <1>4, <2>1, <2>2 DEF HandOf, Produce, Woken
  <2>4. RingFull'
    <3>1. CASE Queued < Size
      <4>1. /\ squeue' = [squeue EXCEPT ![sq_head % Size] = msock] /\ msock # NoSocket
            /\ sq_head' = sq_head + 1 /\ sq_tail' = sq_tail
        BY <1>4, <3>1 DEF Produce, Put, MasterHand
      <4>2. ASSUME NEW x \in sq_tail..sq_head PROVE squeue'[x % Size] # NoSocket
        <5>1. sq_head % Size \in 0..(Size - 1) /\ x % Size \in 0..(Size - 1)
          BY PoolAssumption, ModRange DEF PoolTypes
        <5>2. CASE x % Size = sq_head % Size
          BY <4>1, <5>1, <5>2 DEF PoolTypes
        <5>3. CASE x % Size # sq_head % Size
          <6>1. x \in sq_tail..(sq_head - 1)
            BY <5>3 DEF PoolTypes
          <6> QED
            BY <4>1, <5>1, <5>3, <6>1 DEF RingFull, PoolTypes
        <5> QED
          BY <5>2, <5>3
      <4> QED
        BY <4>1, <4>2 DEF RingFull, PoolTypes
    <3>2. CASE ~(Queued < Size)
      BY <1>4, <3>2 DEF Produce, Put, RingFull
    <3> QED
      BY <3>1, <3>2
  <2> QED
    BY <1>2, <1>3, <2>3, <2>4
<1>5. CASE ~Produce
  <2>1. /\ UNCHANGED <<sock, squeue, sq_head, sq_tail>>
        /\ stop_flag # 0 => stop_flag' # 0
    BY <1>5 DEF MasterAct, MasterStep, Accept, ProduceLock, ProduceFull, ProduceSleep, Spawn, Create,
                RollBack, CloseListeners, Broadcast, Join, Stop, Free, ring, worker
  <2>2. \A u \in Threads : Woken(u) \/ (pc[u] = "none" /\ pc'[u] = "start")
    <3> USE DEF Woken
    <3>1. CASE Create
      <4>1. spawned + 1 \in Threads
        BY <3>1, PoolAssumption DEF Create, PoolTypes, Threads
      <4>2. pc[spawned + 1] = "none"
        BY <4>1 DEF Spawned, PoolTypes
      <4> QED
        BY <3>1, <4>1, <4>2 DEF Create, Goto, PoolTypes
    <3>2. CASE Broadcast
      BY <3>2, SignalWakes
    <3> QED
      BY <1>5, <3>1, <3>2
         DEF MasterAct, MasterStep, Accept, ProduceLock, ProduceFull, ProduceSleep, Spawn,
             RollBack, CloseListeners, Join, Stop, Free, worker
  <2>3. \A u \in Threads : HandOf(u)'
    BY <2>1, <2>2 DEF HandOf, Queued, Woken
  <2> QED
    BY <1>2, <1>3, <2>1, <2>3 DEF RingFull
<1> QED
  BY <1>4, <1>5

-----------------------------------------------------------------------------
(* The pool's invariant *)

PoolInv == PoolTypes /\ Spawned /\ Hands

\* The pool starts with its invariant.
LEMMA InitPool == Init => PoolInv
<1> SUFFICES ASSUME Init PROVE PoolInv
  OBVIOUS
<1> USE PoolAssumption DEF Init
<1>1. PoolTypes
  <2>1. /\ pc \in [Threads -> WorkerLabels] /\ first \in [Threads -> BOOLEAN]
        /\ sock \in [Threads -> Sockets \cup {NoSocket}]
        /\ squeue \in [0..(Size - 1) -> Sockets \cup {NoSocket}]
    BY DEF WorkerLabels
  <2>2. /\ mpc \in MasterLabels /\ mpc # "create" /\ msock \in Sockets \cup {NoSocket}
        /\ spc \in {"running", "stopping", "freed"} /\ shortfall \in BOOLEAN
        /\ mutex \in Threads \cup {Master, Nobody} /\ answered \subseteq Sockets \cup {NoSocket}
    BY DEF MasterLabels
  <2>3. /\ sq_tail \in 0..Size /\ sq_head \in sq_tail..(sq_tail + Size)
        /\ idle \in Int /\ spawned \in 0..MaxWorkers /\ stop_flag \in 0..2
        /\ accepted \in 0..Connections
    OBVIOUS
  <2> QED
    BY <2>1, <2>2, <2>3 DEF PoolTypes
<1>2. Spawned
  BY DEF Spawned, Threads, Ended
<1>3. Hands
  BY DEF Hands, LockHeld, Inside, MasterHand, RingFull, HandOf
<1> QED
  BY <1>1, <1>2, <1>3 DEF PoolInv

\* Every step of the pool keeps the invariant.
LEMMA PoolInvStep == PoolInv /\ [PoolStep]_vars => PoolInv'
<1> SUFFICES ASSUME PoolInv, [PoolStep]_vars PROVE PoolInv'
  OBVIOUS
<1> USE DEF PoolInv
<1>1. PoolTypes'
  BY TypesStep
<1>2. CASE UNCHANGED vars
  BY <1>1, <1>2 DEF vars, worker, ring, history, Spawned, Ended, Hands, LockHeld, Inside, MasterHand,
                    RingFull, HandOf, Queued
<1>3. CASE MasterAct
  BY <1>1, <1>3, MasterSpawned, MasterHands
<1>4. ASSUME NEW w \in Threads, WorkerAct(w) PROVE PoolInv'
  BY <1>1, <1>4, WorkerSpawned, WorkerHands
<1> QED
  BY <1>2, <1>3, <1>4 DEF PoolStep

\* The life cycle's behaviours are behaviours of the pool.
LEMMA LifecyclePool == LifecycleInit /\ [][LifecycleNext]_allvars => Init /\ [][PoolStep]_vars
  BY PoolSteps, PTL DEF LifecycleInit

\* The pool's invariant holds throughout the server's life.
LEMMA AlwaysPool == LifecycleSpec => []PoolInv
  BY LifecyclePool, InitPool, PoolInvStep, PTL DEF LifecycleSpec

\* A worker serves only what it has taken: civetweb.c:20192-20217.
THEOREM WorkersServeTaken == LifecycleSpec => []ServesTaken
<1>1. PoolInv => ServesTaken
  BY DEF PoolInv, Hands, HandOf, ServesTaken
<1> QED
  BY <1>1, AlwaysPool, PTL

-----------------------------------------------------------------------------
(* The idle counter *)

\* The workers the idle counter counts are finitely many.
LEMMA ThreadSets ==
  /\ IsFiniteSet(CountedIdle) /\ IsFiniteSet(NeverBegan)
  /\ Cardinality(CountedIdle) \in Nat /\ Cardinality(NeverBegan) \in Nat
<1>1. IsFiniteSet(Threads)
  BY FS_Interval, PoolAssumption DEF Threads
<1>2. CountedIdle \subseteq Threads /\ NeverBegan \subseteq Threads
  BY DEF CountedIdle, NeverBegan
<1> QED
  BY <1>1, <1>2, FS_Subset, FS_CardinalityType

\* A step that moves no worker into or out of the sets, and no count.
LEMMA CountKept ==
  ASSUME IdleCounts, CountedIdle' = CountedIdle, NeverBegan' = NeverBegan, idle' = idle,
         Promised' = Promised
  PROVE  IdleCounts'
  BY DEF IdleCounts

\* A worker changes idle exactly when it enters or leaves the set counted.
LEMMA WorkerCounts ==
  ASSUME PoolInv, IdleCounts, NEW w \in Threads, WorkerAct(w) PROVE IdleCounts'
<1> USE DEF PoolInv, PoolTypes
<1>0. \A u \in Threads \ {w} : pc'[u] = pc[u] /\ first'[u] = first[u]
  BY DEF WorkerAct, Worker, Begin, Enter, Test, Sleep, Wake, Relock, Take, Leave, Serve, Exit, Goto
<1>1. Promised' = Promised
  BY DEF WorkerAct, Worker, Begin, Enter, Test, Sleep, Wake, Relock, Take, Leave, Serve, Exit,
         SignalEmpty, Promised
<1>2. idle = Cardinality(CountedIdle) + Cardinality(NeverBegan) + Promised /\ Promised \in Nat
  BY DEF IdleCounts, Promised
<1>3. SUFFICES idle' = Cardinality(CountedIdle') + Cardinality(NeverBegan') + Promised
  BY <1>1 DEF IdleCounts
<1>4. CASE Begin(w)
  <2>1. pc[w] = "start" /\ first[w] /\ first' = first /\ idle' = idle
    BY <1>4 DEF Begin, Spawned
  <2>2. CASE pc'[w] = "enter"
    <3>1. CountedIdle' = CountedIdle /\ NeverBegan' = NeverBegan
      BY <1>0, <2>1, <2>2 DEF CountedIdle, NeverBegan
    <3> QED
      BY <1>2, <2>1, <3>1
  <2>3. CASE pc'[w] = "failed"
    <3>1. /\ CountedIdle' = CountedIdle \ {w} /\ w \in CountedIdle
          /\ NeverBegan' = NeverBegan \cup {w} /\ w \notin NeverBegan
      BY <1>0, <2>1, <2>3 DEF CountedIdle, NeverBegan
    <3>2. Cardinality(CountedIdle') = Cardinality(CountedIdle) - 1
      BY <3>1, ThreadSets, FS_RemoveElement
    <3>3. Cardinality(NeverBegan') = Cardinality(NeverBegan) + 1
      BY <3>1, ThreadSets, FS_AddElement
    <3> QED
      BY <1>2, <2>1, <3>2, <3>3, ThreadSets
  <2> QED
    BY <1>4, <2>2, <2>3 DEF Begin, Goto
<1>5. CASE Enter(w)
  <2>1. /\ pc[w] = "enter" /\ pc'[w] = "test"
        /\ idle' = IF first[w] THEN idle ELSE idle + 1
    BY <1>5 DEF Enter, Goto
  <2>2. NeverBegan' = NeverBegan
    BY <1>0, <2>1 DEF NeverBegan
  <2>3. CASE first[w]
    <3>1. CountedIdle' = CountedIdle
      BY <1>0, <2>1, <2>3 DEF CountedIdle
    <3> QED
      BY <1>2, <2>1, <2>2, <2>3, <3>1
  <2>4. CASE ~first[w]
    <3>1. CountedIdle' = CountedIdle \cup {w} /\ w \notin CountedIdle
      BY <1>0, <2>1, <2>4 DEF CountedIdle
    <3>2. Cardinality(CountedIdle') = Cardinality(CountedIdle) + 1
      BY <3>1, ThreadSets, FS_AddElement
    <3> QED
      BY <1>2, <2>1, <2>2, <2>4, <3>2, ThreadSets
  <2> QED
    BY <2>3, <2>4
<1>6. CASE Take(w)
  <2>1. pc[w] = "take" /\ pc'[w] = "leave" /\ idle' = idle - 1
    BY <1>6 DEF Take, Goto
  <2>2. NeverBegan' = NeverBegan /\ CountedIdle' = CountedIdle \ {w} /\ w \in CountedIdle
    BY <1>0, <2>1 DEF NeverBegan, CountedIdle
  <2>3. Cardinality(CountedIdle') = Cardinality(CountedIdle) - 1
    BY <2>2, ThreadSets, FS_RemoveElement
  <2> QED
    BY <1>2, <2>1, <2>2, <2>3, ThreadSets
<1>7. CASE Test(w) \/ Sleep(w) \/ Wake(w) \/ Relock(w)
  <2>1. /\ pc[w] \in {"test", "sleep", "wait", "relock"}
        /\ pc'[w] \in {"test", "sleep", "wait", "relock", "take"} /\ idle' = idle
    BY <1>7 DEF Test, Sleep, Wake, Relock, Goto
  <2>2. NeverBegan' = NeverBegan /\ CountedIdle' = CountedIdle
    BY <1>0, <2>1 DEF NeverBegan, CountedIdle
  <2> QED
    BY <1>2, <2>1, <2>2
<1>8. CASE Leave(w) \/ Serve(w) \/ Exit(w)
  <2>1. /\ pc[w] \in {"leave", "serve", "exit"} /\ idle' = idle
        /\ pc'[w] \in {"serve", "exit", "done"} \/ (pc'[w] = "enter" /\ ~first'[w])
    BY <1>8 DEF Leave, Serve, Exit, Goto, Spawned
  <2>2. NeverBegan' = NeverBegan /\ CountedIdle' = CountedIdle
    BY <1>0, <2>1 DEF NeverBegan, CountedIdle
  <2> QED
    BY <1>2, <2>1, <2>2
<1> QED
  BY <1>4, <1>5, <1>6, <1>7, <1>8 DEF WorkerAct, Worker

\* The master changes idle exactly when it promises, creates or rolls back a thread.
LEMMA MasterCounts == PoolInv /\ IdleCounts /\ MasterAct => IdleCounts'
<1> SUFFICES ASSUME PoolInv, IdleCounts, MasterAct PROVE IdleCounts'
  OBVIOUS
<1> USE DEF PoolInv, PoolTypes
<1>1. idle = Cardinality(CountedIdle) + Cardinality(NeverBegan) + Promised
  BY DEF IdleCounts
<1>2. CASE UNCHANGED <<pc, first, idle>> /\ Promised' = Promised
  BY <1>2, CountKept DEF CountedIdle, NeverBegan
<1>3. CASE Produce \/ Broadcast
  <2>1. \A u \in Threads : Woken(u)
    BY <1>3, SignalWakes DEF Produce
  <2>2. UNCHANGED <<first, idle>> /\ Promised' = Promised
    BY <1>3 DEF Produce, Broadcast, Promised, MasterGoto
  <2>3. CountedIdle' = CountedIdle /\ NeverBegan' = NeverBegan
    BY <2>1, <2>2 DEF Woken, CountedIdle, NeverBegan
  <2> QED
    BY <2>2, <2>3, CountKept
<1>4. CASE Spawn
  <2>1. CountedIdle' = CountedIdle /\ NeverBegan' = NeverBegan
    BY <1>4 DEF Spawn, worker, CountedIdle, NeverBegan
  <2>2. idle' = idle + Promised' /\ Promised = 0 /\ Promised' \in {0, 1}
    BY <1>4 DEF Spawn, Promised, MasterGoto
  <2>3. idle' = Cardinality(CountedIdle') + Cardinality(NeverBegan') + Promised'
    BY <1>1, <2>1, <2>2, ThreadSets
  <2> QED
    BY <2>3 DEF IdleCounts
<1>5. CASE Create
  <2>1. CASE Goto(spawned + 1, "start") /\ MasterGoto("poll")
    <3>1. spawned + 1 \in Threads
      BY <1>5, PoolAssumption DEF Create, Threads
    <3>2. pc[spawned + 1] = "none"
      BY <3>1 DEF Spawned
    <3>3. /\ pc'[spawned + 1] = "start" /\ \A u \in Threads \ {spawned + 1} : pc'[u] = pc[u]
          /\ first' = first /\ idle' = idle
      BY <1>5, <2>1, <3>1 DEF Create, Goto
    <3>4. Promised = 1 /\ Promised' = 0
      BY <1>5, <2>1 DEF Create, Promised, MasterGoto
    <3>5. /\ CountedIdle' = CountedIdle \cup {spawned + 1} /\ spawned + 1 \notin CountedIdle
          /\ NeverBegan' = NeverBegan
      BY <3>1, <3>2, <3>3 DEF CountedIdle, NeverBegan
    <3>6. Cardinality(CountedIdle') = Cardinality(CountedIdle) + 1
      BY <3>5, ThreadSets, FS_AddElement
    <3>7. idle' = Cardinality(CountedIdle') + Cardinality(NeverBegan') + Promised'
      BY <1>1, <3>3, <3>4, <3>5, <3>6, ThreadSets
    <3> QED
      BY <3>7 DEF IdleCounts
  <2>2. CASE UNCHANGED pc /\ MasterGoto("rollback")
    <3>1. UNCHANGED <<pc, first, idle>> /\ Promised' = Promised
      BY <1>5, <2>2 DEF Create, Promised, MasterGoto
    <3> QED
      BY <1>2, <3>1
  <2> QED
    BY <1>5, <2>1, <2>2 DEF Create
<1>6. CASE RollBack
  <2>1. CountedIdle' = CountedIdle /\ NeverBegan' = NeverBegan
    BY <1>6 DEF RollBack, worker, CountedIdle, NeverBegan
  <2>2. idle' = idle - 1 /\ Promised = 1 /\ Promised' = 0
    BY <1>6 DEF RollBack, Promised, MasterGoto
  <2>3. idle' = Cardinality(CountedIdle') + Cardinality(NeverBegan') + Promised'
    BY <1>1, <2>1, <2>2, ThreadSets
  <2> QED
    BY <2>3 DEF IdleCounts
<1>7. CASE Accept \/ ProduceLock \/ ProduceFull \/ ProduceSleep \/ CloseListeners \/ Join \/ Stop \/ Free
  <2>1. UNCHANGED <<pc, first, idle>> /\ Promised' = Promised
    BY <1>7 DEF Accept, ProduceLock, ProduceFull, ProduceSleep, CloseListeners, Join, Stop, Free,
                worker, MasterGoto, Promised
  <2> QED
    BY <1>2, <2>1
<1> QED
  BY <1>3, <1>4, <1>5, <1>6, <1>7 DEF MasterAct, MasterStep

\* mg_start counts each thread it creates as idle.
LEMMA InitCounts == Init => IdleCounts
<1> SUFFICES ASSUME Init PROVE IdleCounts
  OBVIOUS
<1>1. CountedIdle = {} /\ NeverBegan = {} /\ Promised = 0 /\ idle = 0
  BY DEF Init, CountedIdle, NeverBegan, Promised
<1>2. Cardinality(CountedIdle) = 0 /\ Cardinality(NeverBegan) = 0
  BY <1>1, FS_EmptySet
<1> QED
  BY <1>1, <1>2 DEF IdleCounts

\* Every step keeps idle the number it stands for.
LEMMA CountsStep == PoolInv /\ IdleCounts /\ [PoolStep]_vars => IdleCounts'
<1>1. PoolInv /\ IdleCounts /\ UNCHANGED vars => IdleCounts'
  BY CountKept DEF vars, worker, CountedIdle, NeverBegan, Promised
<1> QED
  BY <1>1, WorkerCounts, MasterCounts DEF PoolStep

(* civetweb.c:21171-21188, 20185-20214: whatever the master and the        *)
(* workers interleave, idle_worker_thread_count is the number of workers   *)
(* that take a connection or wait for one, plus those that never began.    *)
THEOREM IdleCounterCounts == LifecycleSpec => []IdleCounts
  BY LifecyclePool, AlwaysPool, InitCounts, CountsStep, PTL DEF LifecycleSpec

-----------------------------------------------------------------------------
(* The types, with the bounds of the idle counter *)

AnsweredReal == answered \subseteq Sockets

\* Only connections that were accepted are answered.
LEMMA AnsweredStep == PoolInv /\ AnsweredReal /\ [PoolStep]_vars => AnsweredReal'
<1> SUFFICES ASSUME PoolInv, AnsweredReal, [PoolStep]_vars PROVE AnsweredReal'
  OBVIOUS
<1>1. ASSUME NEW w \in Threads, Serve(w) PROVE AnsweredReal'
  <2>1. sock[w] \in Sockets
    BY <1>1 DEF Serve, PoolInv, PoolTypes, Hands, HandOf
  <2> QED
    BY <1>1, <2>1 DEF Serve, AnsweredReal
<1>2. CASE UNCHANGED answered
  BY <1>2 DEF AnsweredReal
<1> QED
  BY <1>1, <1>2 DEF PoolStep, MasterAct, MasterStep, WorkerAct, Worker, Begin, Enter, Test, Sleep, Wake,
     Relock, Take, Leave, Exit, Accept, ProduceLock, ProduceFull, ProduceSleep, Produce, Spawn,
     Create, RollBack, CloseListeners, Broadcast, Join, Stop, Free, history, vars

\* At most one idle worker per thread, and the one that is promised.
LEMMA BoundedIdle == PoolInv /\ IdleCounts => idle \in 0..(2 * MaxWorkers)
<1> SUFFICES ASSUME PoolInv, IdleCounts PROVE idle \in 0..(2 * MaxWorkers)
  OBVIOUS
<1>1. IsFiniteSet(Threads) /\ Cardinality(Threads) = MaxWorkers
  BY FS_Interval, PoolAssumption DEF Threads
<1>2. CountedIdle \cup NeverBegan \subseteq Threads /\ CountedIdle \cap NeverBegan = {}
  BY DEF CountedIdle, NeverBegan
<1>3. Cardinality(CountedIdle \cup NeverBegan) = Cardinality(CountedIdle) + Cardinality(NeverBegan)
  <2>1. Cardinality(CountedIdle \cap NeverBegan) = 0
    BY <1>2, FS_EmptySet
  <2>2. Cardinality(CountedIdle \cup NeverBegan)
          = Cardinality(CountedIdle) + Cardinality(NeverBegan)
              - Cardinality(CountedIdle \cap NeverBegan)
    BY ThreadSets, FS_Union, Zenon
  <2> QED
    BY <2>1, <2>2, ThreadSets
<1>4. Cardinality(CountedIdle \cup NeverBegan) <= MaxWorkers
  BY <1>1, <1>2, FS_Subset
<1>5. Promised \in {0, 1}
  BY DEF Promised
<1> QED
  BY <1>3, <1>4, <1>5, ThreadSets, PoolAssumption DEF IdleCounts

\* The pool's variables keep their types, the counters their bounds.
THEOREM PoolIsTyped == LifecycleSpec => []TypeOK
<1>1. Init => AnsweredReal
  BY DEF Init, AnsweredReal
<1>2. PoolInv /\ IdleCounts /\ AnsweredReal => TypeOK
  BY BoundedIdle DEF PoolInv, PoolTypes, AnsweredReal, TypeOK
<1>3. LifecycleSpec => []AnsweredReal
  BY <1>1, LifecyclePool, AlwaysPool, AnsweredStep, PTL DEF LifecycleSpec
<1> QED
  BY <1>2, <1>3, AlwaysPool, IdleCounterCounts, PTL

-----------------------------------------------------------------------------
(* The ring is a queue *)

\* The ring read from its tail is a sequence.
LEMMA WaitingIsSeq ==
  ASSUME PoolInv
  PROVE  /\ Queued \in 0..Size /\ Waiting \in Seq(Sockets) /\ Len(Waiting) = Queued
         /\ \A i \in 1..Queued : Waiting[i] = squeue[(sq_tail + i - 1) % Size]
<1>1. Queued \in 0..Size
  BY PoolAssumption DEF PoolInv, PoolTypes, Queued
<1>2. ASSUME NEW i \in 1..Queued PROVE squeue[(sq_tail + i - 1) % Size] \in Sockets
  <2>1. sq_tail + i - 1 \in sq_tail..(sq_head - 1) /\ sq_tail + i - 1 \in Nat
    BY <1>2, <1>1, PoolAssumption DEF PoolInv, PoolTypes, Queued
  <2>2. (sq_tail + i - 1) % Size \in 0..(Size - 1)
    BY <2>1, PoolAssumption, ModRange
  <2> QED
    BY <2>1, <2>2 DEF PoolInv, PoolTypes, Hands, RingFull
<1>3. Waiting \in [1..Queued -> Sockets] /\ Queued \in Nat
  BY <1>1, <1>2 DEF Waiting
<1> QED
  BY <1>1, <1>3 DEF Waiting

\* The same of the next state.
LEMMA WaitingIsSeqNext ==
  ASSUME PoolInv'
  PROVE  Queued' \in 0..Size /\ Waiting' \in Seq(Sockets) /\ Len(Waiting') = Queued'
<1>1. (Queued \in 0..Size /\ Waiting \in Seq(Sockets) /\ Len(Waiting) = Queued)'
  BY WaitingIsSeq, PTL
<1> QED
  BY <1>1

\* Put appends to the queue that waits.
LEMMA PutAppends ==
  ASSUME PoolInv, Put, Queued < Size, sq_tail' = sq_tail, msock \in Sockets, PoolInv'
  PROVE  Waiting' = Append(Waiting, msock)
<1> DEFINE W == Waiting  V == Waiting'  q == Queued
<1>1. /\ squeue' = [squeue EXCEPT ![sq_head % Size] = msock] /\ sq_head' = sq_head + 1
      /\ q \in Nat /\ Queued' = q + 1 /\ sq_head = sq_tail + q /\ sq_tail \in Nat
  BY PoolAssumption DEF Put, Queued, PoolInv, PoolTypes
<1>2. /\ W \in Seq(Sockets) /\ Len(W) = q
      /\ \A i \in 1..q : W[i] = squeue[(sq_tail + i - 1) % Size]
  BY WaitingIsSeq
<1>3. /\ V \in Seq(Sockets) /\ Len(V) = q + 1
      /\ \A i \in 1..(q + 1) : V[i] = squeue'[(sq_tail + i - 1) % Size]
  <2>1. V = [i \in 1..Queued' |-> squeue'[(sq_tail' + i - 1) % Size]]
    BY DEF Waiting
  <2>2. /\ Queued' \in 0..Size /\ Waiting' \in Seq(Sockets) /\ Len(Waiting') = Queued'
    BY WaitingIsSeqNext
  <2> QED
    BY <1>1, <2>1, <2>2
<1>4. V[q + 1] = msock
  <2>1. sq_head % Size \in 0..(Size - 1)
    BY <1>1, PoolAssumption, ModRange
  <2>2. sq_tail + (q + 1) - 1 = sq_head
    BY <1>1
  <2> QED
    BY <1>1, <1>3, <2>1, <2>2 DEF PoolInv, PoolTypes
<1>5. ASSUME NEW i \in 1..q PROVE V[i] = W[i]
  <2>1. /\ sq_tail + i - 1 \in 0..(2 * Size - 1) /\ sq_head \in 0..(2 * Size - 1)
        /\ sq_tail + i - 1 < sq_head /\ sq_head - (sq_tail + i - 1) < Size
    BY <1>1, <1>5, PoolAssumption DEF PoolInv, PoolTypes
  <2>2. (sq_tail + i - 1) % Size # sq_head % Size
    BY <2>1, PoolAssumption, ModSmall, ModLarge
  <2>3. (sq_tail + i - 1) % Size \in 0..(Size - 1)
    <3>1. sq_tail + i - 1 \in Nat
      BY <1>1, <1>5
    <3> QED
      BY <3>1, PoolAssumption, ModRange
  <2> QED
    BY <1>1, <1>2, <1>3, <1>5, <2>2, <2>3 DEF PoolInv, PoolTypes
<1> HIDE DEF W, V, q
<1>6. V = Append(W, msock)
  BY <1>1, <1>2, <1>3, <1>4, <1>5
<1> QED
  BY <1>6 DEF W, V

\* Advance, after the head is read, takes the head off it.
LEMMA AdvanceTakes ==
  ASSUME PoolInv, Advance, Queued > 0, squeue' = squeue, PoolInv'
  PROVE  /\ Waiting # <<>> /\ Head(Waiting) = squeue[sq_tail % Size]
         /\ Waiting' = Tail(Waiting)
<1> DEFINE W == Waiting  V == Waiting'  q == Queued
<1>1. /\ q \in Nat /\ q > 0 /\ Queued' = q - 1 /\ sq_head = sq_tail + q /\ sq_tail \in Nat
      /\ sq_tail' = IF sq_tail + 1 > Size THEN sq_tail + 1 - Size ELSE sq_tail + 1
  BY PoolAssumption DEF Advance, Queued, PoolInv, PoolTypes
<1>2. /\ W \in Seq(Sockets) /\ Len(W) = q
      /\ \A i \in 1..q : W[i] = squeue[(sq_tail + i - 1) % Size]
  BY WaitingIsSeq
<1>3. /\ V \in Seq(Sockets) /\ Len(V) = q - 1
      /\ \A i \in 1..(q - 1) : V[i] = squeue[(sq_tail' + i - 1) % Size]
  <2>1. V = [i \in 1..Queued' |-> squeue'[(sq_tail' + i - 1) % Size]]
    BY DEF Waiting
  <2>2. /\ Queued' \in 0..Size /\ Waiting' \in Seq(Sockets) /\ Len(Waiting') = Queued'
    BY WaitingIsSeqNext
  <2> QED
    BY <1>1, <2>1, <2>2
<1>4. ASSUME NEW i \in 1..(q - 1) PROVE V[i] = W[i + 1]
  <2>1. W[i + 1] = squeue[(sq_tail + i) % Size]
    BY <1>1, <1>2, <1>4
  <2>2. (sq_tail' + i - 1) % Size = (sq_tail + i) % Size
    <3>1. CASE sq_tail + 1 > Size
      <4>1. sq_tail = Size /\ sq_tail' = 1
        BY <1>1, <3>1, PoolAssumption DEF PoolInv, PoolTypes
      <4>2. i \in 0..(Size - 1)
        BY <1>1, <1>4, PoolAssumption DEF PoolInv, PoolTypes
      <4>3. i % Size = i /\ (Size + i) % Size = i
        BY <4>2, PoolAssumption, ModSmall, ModLarge
      <4> QED
        BY <4>1, <4>2, <4>3
    <3>2. CASE ~(sq_tail + 1 > Size)
      BY <1>1, <3>2
    <3> QED
      BY <3>1, <3>2
  <2> QED
    BY <1>3, <1>4, <2>1, <2>2
<1>5. W[1] = squeue[sq_tail % Size]
  <2>1. 1 \in 1..q /\ sq_tail + 1 - 1 = sq_tail
    BY <1>1
  <2> QED
    BY <1>2, <2>1
<1> HIDE DEF W, V, q
<1>6. W # <<>> /\ Head(W) = W[1] /\ V = Tail(W)
  BY <1>1, <1>2, <1>3, <1>4
<1> QED
  BY <1>5, <1>6 DEF W, V

\* Every step of the pool is a step of the queue, or none.
LEMMA QueueStep ==
  PoolInv /\ PoolInv' /\ [PoolStep]_vars => [AQ!Next]_<<Waiting, sock>>
<1> SUFFICES ASSUME PoolInv, PoolInv', [PoolStep]_vars
             PROVE  AQ!Next \/ (Waiting' = Waiting /\ sock' = sock)
  BY DEF AQ!Next
<1>1. ASSUME UNCHANGED <<squeue, sq_head, sq_tail>> PROVE Waiting' = Waiting
  BY <1>1 DEF Waiting, Queued
<1>2. CASE Produce
  <2>1. sock' = sock /\ sq_tail' = sq_tail /\ Put
    BY <1>2 DEF Produce
  <2>2. CASE Queued < Size
    <3>1. msock \in Sockets
      BY <1>2 DEF Produce, PoolInv, PoolTypes, Hands, MasterHand
    <3>2. Waiting' = Append(Waiting, msock)
      BY <2>1, <2>2, <3>1, PutAppends
    <3>3. Len(Waiting) < Size
      BY <2>2, WaitingIsSeq
    <3> QED
      BY <2>1, <3>1, <3>2, <3>3 DEF AQ!Next, AQ!Put
  <2>3. CASE ~(Queued < Size)
    BY <1>1, <2>1, <2>3 DEF Put
  <2> QED
    BY <2>2, <2>3
<1>3. ASSUME NEW w \in Threads, Take(w) PROVE AQ!Next \/ (Waiting' = Waiting /\ sock' = sock)
  <2>1. sock[w] = NoSocket
    BY <1>3 DEF Take, PoolInv, Hands, HandOf
  <2>2. CASE Queued > 0
    <3>1. sock' = [sock EXCEPT ![w] = squeue[sq_tail % Size]] /\ Advance /\ squeue' = squeue
      BY <1>3, <2>2 DEF Take
    <3>2. Waiting # <<>> /\ Head(Waiting) = squeue[sq_tail % Size] /\ Waiting' = Tail(Waiting)
      BY <2>2, <3>1, AdvanceTakes
    <3> QED
      BY <2>1, <3>1, <3>2 DEF AQ!Next, AQ!Take
  <2>3. CASE ~(Queued > 0)
    BY <1>1, <1>3, <2>3 DEF Take
  <2> QED
    BY <2>2, <2>3
<1>4. ASSUME NEW w \in Threads, Serve(w) PROVE AQ!Next
  <2>1. sock[w] # NoSocket
    BY <1>4 DEF Serve, PoolInv, Hands, HandOf
  <2>2. Waiting' = Waiting /\ sock' = [sock EXCEPT ![w] = NoSocket]
    BY <1>1, <1>4 DEF Serve, ring
  <2> QED
    BY <2>1, <2>2 DEF AQ!Next, AQ!Finish
<1>5. CASE UNCHANGED <<squeue, sq_head, sq_tail, sock>>
  BY <1>1, <1>5
<1> QED
  BY <1>2, <1>3, <1>4, <1>5
     DEF PoolStep, MasterAct, MasterStep, WorkerAct, Worker, Begin, Enter, Test, Sleep, Wake, Relock,
         Leave, Exit, Accept, ProduceLock, ProduceFull, ProduceSleep, Spawn, Create, RollBack,
         CloseListeners, Broadcast, Join, Stop, Free, ring, worker, vars

(* civetweb.c:20192-20259: for every size of the ring and every number of  *)
(* workers, squeue with its two pointers is the bounded queue AcceptQueue. *)
THEOREM RingIsQueue == LifecycleSpec => ImplementsQueue
<1>1. Init => AQ!Init
  <2> SUFFICES ASSUME Init PROVE Waiting = <<>> /\ sock = [w \in Threads |-> NoSocket]
    BY DEF AQ!Init
  <2>1. Queued = 0
    BY DEF Init, Queued
  <2> QED
    BY <2>1 DEF Waiting, Init
<1> QED
  BY <1>1, LifecyclePool, AlwaysPool, QueueStep, PTL DEF LifecycleSpec, ImplementsQueue, AQ!Spec, AQ!vars

-----------------------------------------------------------------------------
(* No connection is lost *)

Kept == InHand \cup InQueue \cup answered

\* What is in the queue, in terms of the sequence.
LEMMA QueueElements == ASSUME PoolInv PROVE InQueue = {Waiting[i] : i \in 1..Len(Waiting)}
  BY WaitingIsSeq DEF InQueue

\* The sockets of the ring are those of the sequence after a step as before.
LEMMA QueueElementsNext == ASSUME PoolInv' PROVE InQueue' = {Waiting'[i] : i \in 1..Len(Waiting')}
  BY WaitingIsSeqNext DEF InQueue

\* No step drops a connection the pool has accepted.
LEMMA LostStep == PoolInv /\ PoolInv' /\ NoneLost /\ [PoolStep]_vars => NoneLost'
<1> SUFFICES ASSUME PoolInv, PoolInv', NoneLost, [PoolStep]_vars, stop_flag' = 0,
                    NEW s \in 1..accepted'
             PROVE  s \in Kept'
  BY DEF NoneLost, Kept
<1>1. stop_flag = 0
  BY DEF PoolStep, MasterAct, MasterStep, WorkerAct, Worker, Begin, Enter, Test, Sleep, Wake, Relock,
         Take, Leave, Serve, Exit, Accept, ProduceLock, ProduceFull, ProduceSleep, Produce, Spawn,
         Create, RollBack, CloseListeners, Broadcast, Join, Stop, Free, vars, PoolInv, PoolTypes
<1>2. s \in 1..accepted => s \in Kept
  BY <1>1 DEF NoneLost, Kept
<1>3. ASSUME UNCHANGED <<squeue, sq_head, sq_tail>> PROVE InQueue' = InQueue
  BY <1>3 DEF InQueue, Waiting, Queued
<1>4. CASE Accept
  <2>1. msock = NoSocket /\ accepted' = accepted + 1 /\ msock' = accepted + 1
    BY <1>4 DEF Accept, PoolInv, Hands, MasterHand
  <2>2. sock' = sock /\ InQueue' = InQueue /\ answered' = answered
    BY <1>3, <1>4 DEF Accept, ring, worker
  <2>3. s \in 1..accepted \/ s = msock'
    BY <2>1 DEF PoolInv, PoolTypes
  <2>4. s # NoSocket
    BY DEF NoSocket
  <2> QED
    BY <1>2, <2>1, <2>2, <2>3, <2>4 DEF Kept, InHand
<1>5. CASE Produce
  <2>1. sock' = sock /\ sq_tail' = sq_tail /\ Put /\ accepted' = accepted /\ answered' = answered
    BY <1>5 DEF Produce, history
  <2>2. Queued < Size /\ msock \in Sockets
    BY <1>1, <1>5 DEF Produce, PoolInv, PoolTypes, Hands, MasterHand
  <2>3. Waiting' = Append(Waiting, msock)
    BY <2>1, <2>2, PutAppends
  <2>4. InQueue \subseteq InQueue' /\ msock \in InQueue'
    <3>1. Waiting \in Seq(Sockets)
      BY WaitingIsSeq
    <3>2. /\ Len(Waiting') = Len(Waiting) + 1 /\ Waiting'[Len(Waiting) + 1] = msock
          /\ \A i \in 1..Len(Waiting) : Waiting'[i] = Waiting[i]
          /\ Len(Waiting) \in Nat
      BY <2>2, <2>3, <3>1
    <3> QED
      BY <3>2, QueueElements, QueueElementsNext
  <2> QED
    BY <1>2, <2>1, <2>4 DEF Kept, InHand
<1>6. ASSUME NEW w \in Threads, Take(w) PROVE s \in Kept'
  <2>1. sock[w] = NoSocket /\ Queued > 0
    BY <1>1, <1>6 DEF Take, PoolInv, Hands, HandOf
  <2>2. /\ sock' = [sock EXCEPT ![w] = squeue[sq_tail % Size]] /\ Advance /\ squeue' = squeue
        /\ msock' = msock /\ accepted' = accepted /\ answered' = answered
    BY <1>6, <2>1 DEF Take, history
  <2>3. Waiting # <<>> /\ Head(Waiting) = squeue[sq_tail % Size] /\ Waiting' = Tail(Waiting)
    BY <2>1, <2>2, AdvanceTakes
  <2>4. InQueue \subseteq InQueue' \cup {squeue[sq_tail % Size]}
    <3>1. Waiting \in Seq(Sockets)
      BY WaitingIsSeq
    <3>2. /\ Len(Waiting) \in Nat /\ Len(Waiting') = Len(Waiting) - 1
          /\ Waiting[1] = squeue[sq_tail % Size]
          /\ \A i \in 2..Len(Waiting) : Waiting[i] = Waiting'[i - 1]
      BY <2>3, <3>1
    <3>3. ASSUME NEW i \in 1..Len(Waiting)
          PROVE  Waiting[i] \in InQueue' \/ Waiting[i] = squeue[sq_tail % Size]
      <4>1. CASE i = 1
        BY <3>2, <4>1
      <4>2. CASE i # 1
        <5>1. i - 1 \in 1..Len(Waiting') /\ Waiting[i] = Waiting'[i - 1]
          BY <3>2, <3>3, <4>2
        <5> QED
          BY <5>1, QueueElementsNext
      <4> QED
        BY <4>1, <4>2
    <3> QED
      BY <3>3, QueueElements
  <2>5. squeue[sq_tail % Size] \in InHand'
    BY <2>2 DEF InHand, PoolInv, PoolTypes
  <2>6. \A u \in Threads \ {w} : sock'[u] = sock[u]
    BY <2>2 DEF PoolInv, PoolTypes
  <2>7. s # NoSocket
    BY DEF NoSocket
  <2> QED
    BY <1>2, <2>1, <2>2, <2>4, <2>5, <2>6, <2>7 DEF Kept, InHand
<1>7. ASSUME NEW w \in Threads, Serve(w) PROVE s \in Kept'
  <2>1. /\ answered' = answered \cup {sock[w]} /\ \A u \in Threads \ {w} : sock'[u] = sock[u]
        /\ msock' = msock /\ accepted' = accepted
    BY <1>7 DEF Serve, PoolInv, PoolTypes
  <2>2. InQueue' = InQueue
    BY <1>3, <1>7 DEF Serve, ring
  <2> QED
    BY <1>2, <2>1, <2>2 DEF Kept, InHand
<1>8. CASE UNCHANGED <<squeue, sq_head, sq_tail, sock, msock, accepted, answered>>
  BY <1>2, <1>3, <1>8 DEF Kept, InHand
<1> QED
  BY <1>4, <1>5, <1>6, <1>7, <1>8
     DEF PoolStep, MasterAct, MasterStep, WorkerAct, Worker, Begin, Enter, Test, Sleep, Wake, Relock,
         Leave, Exit, ProduceLock, ProduceFull, ProduceSleep, Spawn, Create, RollBack,
         CloseListeners, Broadcast, Join, Stop, Free, ring, worker, history, vars

(* civetweb.c:20232-20250: until the server is stopped every connection    *)
(* that was accepted is on its way or answered.                            *)
THEOREM ConnectionsAreKept == LifecycleSpec => []NoneLost
<1>1. Init => NoneLost
  BY DEF Init, NoneLost
<1> QED
  BY <1>1, LifecyclePool, AlwaysPool, LostStep, PTL DEF LifecycleSpec

-----------------------------------------------------------------------------
(* A queued connection has a worker *)

\* The master has put a connection into the queue and not yet seen to it.
Owed == IF mpc \in {"spawn", "create"} THEN 1 ELSE 0

(* In terms of the idle counter, which is the number of idle workers as    *)
(* long as every one could be created and started.                         *)
Supplied ==
  /\ stop_flag = 0 /\ ~shortfall /\ spawned < MaxWorkers => Queued + Promised <= idle + Owed
  /\ mpc = "rollback" => shortfall
  /\ \A w \in Threads : pc[w] = "failed" => shortfall

\* A worker's step leaves enough idle workers for the queue.
LEMMA WorkerSupplied ==
  ASSUME PoolInv, Supplied, NEW w \in Threads, WorkerAct(w) PROVE Supplied'
<1> USE DEF Supplied, PoolInv, PoolTypes
<1>1. /\ mpc' = mpc \/ (mpc = "full" /\ mpc' = "refill")
      /\ stop_flag' = stop_flag /\ spawned' = spawned
      /\ \A u \in Threads \ {w} : pc'[u] = pc[u]
  BY DEF WorkerAct, Worker, Begin, Enter, Test, Sleep, Wake, Relock, Take, Leave, Serve, Exit,
         SignalEmpty, Goto
<1>2. Promised' = Promised /\ Owed' = Owed /\ Promised \in {0, 1} /\ Owed \in {0, 1}
  BY <1>1 DEF Promised, Owed
<1>3. Queued \in Nat
  BY PoolAssumption DEF Queued
<1>4. CASE Begin(w)
  <2>1. CASE pc'[w] = "enter" /\ shortfall' = shortfall
    BY <1>1, <1>2, <1>4, <2>1 DEF Begin, ring, Queued
  <2>2. CASE shortfall' = TRUE
    BY <1>1, <2>2
  <2> QED
    BY <1>4, <2>1, <2>2 DEF Begin, Goto
<1>5. CASE Take(w)
  <2>1. stop_flag = 0 => Queued > 0
    BY <1>5 DEF Take, Hands, HandOf
  <2>2. stop_flag = 0 => Queued' = Queued - 1
    BY <1>5, <2>1, PoolAssumption DEF Take, Advance, Queued
  <2>3. idle' = idle - 1 /\ pc'[w] = "leave" /\ shortfall' = shortfall
    BY <1>5 DEF Take, Goto, history
  <2> QED
    BY <1>1, <1>2, <1>3, <2>2, <2>3
<1>6. CASE ~Begin(w) /\ ~Take(w)
  <2>1. /\ pc'[w] # "failed" /\ shortfall' = shortfall /\ idle' \in {idle, idle + 1}
        /\ UNCHANGED <<sq_head, sq_tail>>
    BY <1>6 DEF WorkerAct, Worker, Enter, Test, Sleep, Wake, Relock, Leave, Serve, Exit, Goto, ring,
                history
  <2>2. Queued' = Queued
    BY <2>1 DEF Queued
  <2>3. (stop_flag = 0 /\ ~shortfall /\ spawned < MaxWorkers => Queued + Promised <= idle + Owed)'
    <3> SUFFICES ASSUME stop_flag = 0, ~shortfall, spawned < MaxWorkers
                 PROVE  Queued + Promised <= idle' + Owed
      BY <1>1, <1>2, <2>1, <2>2
    <3>1. Queued + Promised <= idle + Owed
      OBVIOUS
    <3>2. Queued + Promised <= idle + 1 + Owed
      BY <1>2, <1>3, <3>1
    <3> QED
      BY <2>1, <3>1, <3>2
  <2> QED
    BY <1>1, <2>1, <2>3
<1> QED
  BY <1>4, <1>5, <1>6

\* So does the master: an enqueued connection is followed by the check of idle.
LEMMA MasterSupplied == PoolInv /\ IdleCounts /\ Supplied /\ MasterAct => Supplied'
<1> SUFFICES ASSUME PoolInv, IdleCounts, Supplied, MasterAct PROVE Supplied'
  OBVIOUS
<1> USE DEF Supplied, PoolInv, PoolTypes
<1>1. Queued \in Nat
  BY PoolAssumption DEF Queued
<1>2. Promised \in {0, 1} /\ Owed \in {0, 1} /\ Promised' \in {0, 1} /\ Owed' \in {0, 1}
  BY DEF Promised, Owed
<1>3. stop_flag' = 0 => stop_flag = 0
  BY DEF MasterAct, MasterStep, Accept, ProduceLock, ProduceFull, ProduceSleep, Produce, Spawn, Create,
         RollBack, CloseListeners, Broadcast, Join, Stop, Free
<1>4. CASE Produce
  <2>1. \A u \in Threads : Woken(u)
    BY <1>4, SignalWakes DEF Produce
  <2>2. /\ Promised' = 0 /\ Promised = 0 /\ Owed = 0 /\ Owed' = 1
        /\ UNCHANGED <<idle, spawned, shortfall>> /\ mpc' = "spawn"
    BY <1>4 DEF Produce, Promised, Owed, MasterGoto, history
  <2>3. Queued' \in {Queued, Queued + 1}
    BY <1>4, PoolAssumption DEF Produce, Put, Queued
  <2>4. (stop_flag = 0 /\ ~shortfall /\ spawned < MaxWorkers => Queued + Promised <= idle + Owed)'
    <3> SUFFICES ASSUME stop_flag' = 0, ~shortfall', spawned' < MaxWorkers
                 PROVE  Queued' + Promised' <= idle' + Owed'
      OBVIOUS
    <3>0. stop_flag = 0 /\ ~shortfall /\ spawned < MaxWorkers
      BY <1>3, <2>2
    <3>1. Queued <= idle
      BY <1>1, <2>2, <3>0
    <3>2. Queued <= idle + 1 /\ Queued + 1 <= idle + 1
      BY <1>1, <3>1
    <3>3. Queued' <= idle + 1
      BY <2>3, <3>2
    <3>4. PICK q \in Nat : Queued' = q /\ q <= idle + 1
      BY <1>1, <2>3, <3>3
    <3>5. Queued' + Promised' = q
      BY <2>2, <3>4
    <3>6. idle \in Int /\ idle' + Owed' = idle + 1
      BY <2>2
    <3> QED
      BY <3>4, <3>5, <3>6
  <2> QED
    BY <2>1, <2>2, <2>4 DEF Woken
<1>5. CASE Broadcast
  <2>1. \A u \in Threads : Woken(u)
    BY <1>5, SignalWakes
  <2>2. stop_flag' # 0 /\ mpc' = "join" /\ shortfall' = shortfall
    BY <1>5 DEF Broadcast, MasterGoto, history, Spawned
  <2> QED
    BY <2>1, <2>2 DEF Woken
<1>6. CASE Spawn
  <2>1. /\ UNCHANGED <<pc, spawned, shortfall>> /\ Queued' = Queued /\ Promised = 0 /\ Owed = 1
    BY <1>6 DEF Spawn, Promised, Owed, worker, ring, history, Queued
  <2>2. CASE spawned >= MaxWorkers /\ mpc' = "poll"
    BY <2>1, <2>2, PoolAssumption
  <2>3. CASE EnoughIdle /\ mpc' = "poll" /\ idle' = idle
    <3>1. Promised' = 0 /\ Owed' = 0 /\ idle > Queued
      BY <2>3 DEF Promised, Owed, EnoughIdle
    <3> QED
      BY <1>1, <2>1, <2>3, <3>1
  <2>4. CASE mpc' = "create" /\ idle' = idle + 1
    <3>1. Promised' = 1 /\ Owed' = 1
      BY <2>4 DEF Promised, Owed
    <3> QED
      BY <1>1, <1>3, <2>1, <2>4, <3>1
  <2> QED
    BY <1>6, <2>2, <2>3, <2>4 DEF Spawn, MasterGoto
<1>7. CASE Create
  <2>1. /\ Promised = 1 /\ Owed = 1 /\ idle' = idle /\ Queued' = Queued
    BY <1>7 DEF Create, Promised, Owed, ring, Queued
  <2>2. CASE Goto(spawned + 1, "start") /\ spawned' = spawned + 1 /\ MasterGoto("poll")
             /\ shortfall' = shortfall
    <3>1. Promised' = 0 /\ Owed' = 0 /\ mpc' = "poll"
      BY <2>2 DEF Promised, Owed, MasterGoto
    <3>2. \A u \in Threads : pc'[u] \in {pc[u], "start"}
      BY <2>2 DEF Goto
    <3>3. (stop_flag = 0 /\ ~shortfall /\ spawned < MaxWorkers => Queued + Promised <= idle + Owed)'
      <4> SUFFICES ASSUME stop_flag = 0, ~shortfall, spawned + 1 < MaxWorkers
                   PROVE  Queued <= idle
        BY <1>1, <1>3, <2>1, <2>2, <3>1
      <4>1. Queued + 1 <= idle + 1
        BY <2>1, PoolAssumption
      <4> QED
        BY <1>1, <4>1
    <3> QED
      BY <2>2, <3>1, <3>2, <3>3
  <2>3. CASE shortfall' = TRUE
    BY <2>3
  <2> QED
    BY <1>7, <2>2, <2>3 DEF Create
<1>8. CASE RollBack
  <2>1. mpc = "rollback" /\ shortfall /\ shortfall' = shortfall
    BY <1>8 DEF RollBack, history
  <2> QED
    BY <2>1
<1>9. CASE Accept \/ ProduceLock \/ ProduceFull \/ ProduceSleep \/ CloseListeners \/ Join \/ Stop \/ Free
  <2>1. /\ UNCHANGED <<pc, idle, spawned, shortfall>> /\ Queued' = Queued
        /\ mpc' # "rollback" \/ mpc = "rollback"
        /\ Promised' = Promised /\ Owed' = Owed
    BY <1>9 DEF Accept, ProduceLock, ProduceFull, ProduceSleep, CloseListeners, Join, Stop, Free,
                worker, ring, history, MasterGoto, Promised, Owed, Queued
  <2> QED
    BY <1>3, <2>1
<1> QED
  BY <1>4, <1>5, <1>6, <1>7, <1>8, <1>9 DEF MasterAct, MasterStep

\* Every step leaves enough idle workers for the queue.
LEMMA SuppliedStep == PoolInv /\ IdleCounts /\ Supplied /\ [PoolStep]_vars => Supplied'
<1>1. PoolInv /\ Supplied /\ UNCHANGED vars => Supplied'
  BY DEF vars, worker, ring, history, Supplied, Queued, Promised, Owed
<1> QED
  BY <1>1, WorkerSupplied, MasterSupplied DEF PoolStep

\* With idle counted exactly, enough idle workers means a worker that will come.
LEMMA SuppliedEnough == PoolInv /\ IdleCounts /\ Supplied => QueuedHasWorker
<1> SUFFICES ASSUME PoolInv, IdleCounts, Supplied, mpc = "poll", stop_flag = 0, ~shortfall,
                    spawned # MaxWorkers
             PROVE  Queued <= Cardinality(CountedIdle)
  BY DEF QueuedHasWorker
<1>1. NeverBegan = {} /\ Promised = 0 /\ Owed = 0 /\ spawned < MaxWorkers
  BY PoolAssumption DEF NeverBegan, Promised, Owed, Supplied, PoolInv, PoolTypes
<1>2. Cardinality(NeverBegan) = 0
  BY <1>1, FS_EmptySet
<1>3. idle = Cardinality(CountedIdle)
  BY <1>1, <1>2, ThreadSets DEF IdleCounts
<1>4. Queued \in Nat
  BY PoolAssumption DEF Queued, PoolInv, PoolTypes
<1> QED
  BY <1>1, <1>3, <1>4, ThreadSets DEF Supplied

(* "will start a worker-thread only if there aren't currently any idle     *)
(* worker-threads", civetweb.c:20262: with any number of workers, no       *)
(* connection waits for a worker that could still be started.              *)
THEOREM QueuedHaveWorkers == LifecycleSpec => []QueuedHasWorker
<1>1. Init => Supplied
  BY PoolAssumption DEF Init, Supplied, Queued, Promised, Owed
<1> QED
  BY <1>1, LifecyclePool, AlwaysPool, IdleCounterCounts, SuppliedStep, SuppliedEnough, PTL
     DEF LifecycleSpec

-----------------------------------------------------------------------------
(* What main owns is there while it is used *)

(* Where main is tells what is live, and whether the pool runs: it runs    *)
(* only in a context with a master, which has ended when main goes on.     *)
Owned ==
  /\ main \in {"setup", "start", "register", "running", "stop", "destroy", "cleanup", "ended"}
  /\ main \in {"setup", "start"} => ctx = "none"
  /\ main \notin {"setup", "ended"} => library = "live"
  /\ main \notin {"setup", "cleanup", "ended"} => g_cache = "live"
  /\ main \in {"destroy", "cleanup", "ended"} /\ ctx = "server" => mpc = "ended"
  /\ ctx # "server" => \A w \in Threads : pc[w] = "none"

\* A handler runs, or a connection is open, only in a thread that lives.
Serving ==
  \A w \in Threads :
    /\ found[w] # -1 => pc[w] = "serve"
    /\ tls[w] => pc[w] \notin {"none", "start", "done", "failed"}

ServingTyped == DOMAIN found = Threads /\ tls \in [Threads -> BOOLEAN]

LifeInv == Owned /\ Serving /\ ServingTyped

\* Nothing has been released when main begins.
LEMMA InitLife == LifecycleInit => LifeInv
  BY DEF LifecycleInit, Init, LifeInv, Owned, Serving, ServingTyped

\* mpc ends once.
LEMMA EndedStays == PoolInv /\ mpc = "ended" /\ [PoolStep]_vars => mpc' = "ended"
  BY DEF PoolStep, MasterAct, MasterStep, WorkerAct, Worker, Begin, Enter, Test, Sleep, Wake, Relock,
         Take, SignalEmpty, Leave, Serve, Exit, Accept, ProduceLock, ProduceFull, ProduceSleep,
         Produce, Spawn, Create, RollBack, CloseListeners, Broadcast, Join, Stop, Free, vars

\* A step of main's own.
LEMMA MainLife == ASSUME PoolInv, LifeInv, Main PROVE LifeInv'
<1> USE DEF LifeInv
<1>1. UNCHANGED <<found, tls, pc>>
  BY DEF Main, Setup, MgStart, Register, MgStop, MgStopReturns, Destroy, Cleanup, serving, vars, worker,
         Stop, Free
<1>2. Serving' /\ ServingTyped'
  BY <1>1 DEF Serving, ServingTyped
<1>3. Owned'
  <2> USE <1>1 DEF Owned
  <2>1. CASE Setup \/ MgStart \/ Register \/ Destroy \/ Cleanup
    <3>1. mpc' = mpc
      BY <2>1 DEF Setup, MgStart, Register, Destroy, Cleanup, vars
    <3>2. CASE Setup
      BY <3>1, <3>2 DEF Setup
    <3>3. CASE MgStart
      BY <3>1, <3>3 DEF MgStart
    <3>4. CASE Register
      BY <3>1, <3>4 DEF Register
    <3>5. CASE Destroy
      BY <3>1, <3>5 DEF Destroy
    <3>6. CASE Cleanup
      BY <3>1, <3>6 DEF Cleanup
    <3> QED
      BY <2>1, <3>2, <3>3, <3>4, <3>5, <3>6
  <2>2. CASE MgStop
    BY <2>2 DEF MgStop
  <2>3. CASE MgStopReturns
    <3>1. ctx = "server" => mpc' = "ended"
      BY <2>3 DEF MgStopReturns, Free
    <3> QED
      BY <2>3, <3>1 DEF MgStopReturns
  <2> QED
    BY <2>1, <2>2, <2>3 DEF Main
<1> QED
  BY <1>2, <1>3

\* A thread that is not in a handler and does not end here.
Elsewhere(u) ==
  \/ Woken(u)
  \/ /\ pc[u] \notin {"serve", "exit"}
     /\ pc'[u] \in {"none", "start", "failed", "done"} => pc[u] \in {"none", "start"}

\* A worker in a handler is still a thread that mg_stop has to join.
LEMMA ElsewhereServing ==
  ASSUME Serving, ServingTyped, found' = found, tls' = tls, \A u \in Threads : Elsewhere(u)
  PROVE  Serving' /\ ServingTyped'
<1>1. ServingTyped'
  BY DEF ServingTyped
<1>2. \A u \in Threads : found'[u] # -1 => pc'[u] = "serve"
  BY DEF Serving, Elsewhere, Woken
<1>3. \A u \in Threads : tls'[u] => pc'[u] \notin {"none", "start", "done", "failed"}
  BY DEF Serving, ServingTyped, Elsewhere, Woken
<1> QED
  BY <1>1, <1>2, <1>3 DEF Serving

\* A step of the pool's threads.
LEMMA ThreadLife ==
  ASSUME PoolInv, LifeInv, [LifecycleNext]_allvars, ~Main PROVE LifeInv'
<1> USE DEF LifeInv
<1>1. [PoolStep]_vars
  BY PoolSteps
<1>2. UNCHANGED program
  BY DEF LifecycleNext, Pool, ThreadStep, Obtain, LookUp, Handle, ThreadExit, allvars
<1>3. mpc = "ended" => mpc' = "ended"
  BY <1>1, EndedStays
<1>4. CASE ctx # "server"
  <2>1. \A w \in Threads : pc[w] = "none"
    BY <1>4 DEF Owned
  <2>2. UNCHANGED <<vars, serving>>
    BY <1>4, <2>1 DEF LifecycleNext, Pool, ThreadStep, Obtain, LookUp, Handle, ThreadExit, Exit, Serve,
       Serving, allvars
  <2> QED
    BY <1>2, <1>3, <2>1, <2>2
       DEF Owned, Serving, ServingTyped, program, serving, vars, worker
<1>5. CASE ctx = "server"
  <2>1. Owned'
    BY <1>2, <1>3, <1>5 DEF Owned, program
  <2>3. CASE Pool(Accept) \/ Pool(MasterStep)
    <3>0. found' = found /\ tls' = tls
      BY <2>3 DEF Pool, serving
    <3>1. CASE Produce \/ Broadcast
      <4>1. \A u \in Threads : Woken(u)
        BY <3>1, SignalWakes DEF Produce, PoolInv
      <4> QED
        BY <2>1, <3>0, <4>1, ElsewhereServing DEF Elsewhere, Woken
    <3>2. CASE Create
      <4>1. \A u \in Threads : pc'[u] = pc[u] \/ (pc[u] = "none" /\ pc'[u] = "start")
        <5>1. spawned + 1 \in Threads
          BY <3>2, PoolAssumption DEF Create, PoolInv, PoolTypes, Threads
        <5>2. pc[spawned + 1] = "none"
          BY <5>1 DEF Spawned, PoolInv, PoolTypes
        <5> QED
          BY <3>2, <5>1, <5>2 DEF Create, Goto, PoolInv, PoolTypes
      <4> QED
        BY <2>1, <3>0, <4>1, ElsewhereServing DEF Elsewhere, Woken
    <3>3. CASE UNCHANGED pc
      BY <2>1, <3>0, <3>3, ElsewhereServing DEF Elsewhere, Woken
    <3> QED
      BY <2>3, <3>1, <3>2, <3>3 DEF Pool, Accept, MasterStep, ProduceLock, ProduceFull, ProduceSleep,
         Spawn, RollBack, CloseListeners, Join, worker
  <2>4. ASSUME NEW w \in Threads, ThreadStep(w) \/ Pool(Wake(w))
        PROVE  Serving' /\ ServingTyped'
    <3> USE DEF PoolInv, PoolTypes, Goto
    <3>1. CASE Obtain(w) \/ Pool(Begin(w) \/ Test(w) \/ Sleep(w) \/ Take(w)) \/ Pool(Wake(w))
      <4>1. /\ \A u \in Threads \ {w} : pc'[u] = pc[u]
            /\ pc[w] \notin {"serve", "exit"}
            /\ pc'[w] \in {"none", "start", "failed", "done"} => pc[w] \in {"none", "start"}
            /\ found' = found /\ tls' = tls
        BY <3>1 DEF Obtain, Pool, Begin, Enter, Relock, Test, Sleep, Take, Wake, serving
      <4>2. \A u \in Threads : Elsewhere(u)
        BY <4>1 DEF Elsewhere, Woken
      <4> QED
        BY <4>1, <4>2, ElsewhereServing
    <3>2. CASE Pool(Leave(w))
      <4>1. /\ \A u \in Threads \ {w} : pc'[u] = pc[u]
            /\ pc[w] = "leave" /\ pc'[w] \in {"serve", "exit"} /\ UNCHANGED serving
        BY <3>2 DEF Pool, Leave
      <4> QED
        BY <4>1 DEF Serving, ServingTyped, serving
    <3>3. CASE LookUp(w)
      BY <3>3 DEF LookUp, Serving, ServingTyped, vars, worker
    <3>4. CASE Handle(w)
      <4>1. /\ \A u \in Threads \ {w} : pc'[u] = pc[u]
            /\ pc'[w] = "enter" /\ found' = [found EXCEPT ![w] = -1]
            /\ \/ tls' = tls
               \/ tls' = [tls EXCEPT ![w] = TRUE]
        BY <3>4 DEF Handle, Serve
      <4> QED
        BY <4>1 DEF Serving, ServingTyped
    <3>5. CASE ThreadExit(w)
      <4>1. /\ \A u \in Threads \ {w} : pc'[u] = pc[u]
            /\ pc[w] = "exit" /\ pc'[w] = "done" /\ found' = found /\ tls' = [tls EXCEPT ![w] = FALSE]
        BY <3>5 DEF ThreadExit, Exit
      <4> QED
        BY <4>1 DEF Serving, ServingTyped
    <3> QED
      BY <2>4, <3>1, <3>2, <3>3, <3>4, <3>5 DEF ThreadStep, Pool
  <2>5. CASE UNCHANGED allvars
    BY <2>1, <2>5 DEF allvars, vars, worker, serving, Serving, ServingTyped
  <2> QED
    BY <2>1, <2>3, <2>4, <2>5 DEF LifecycleNext
<1> QED
  BY <1>4, <1>5

\* Every step keeps what main, the master and the workers own.
LEMMA LifeStep == PoolInv /\ LifeInv /\ [LifecycleNext]_allvars => LifeInv'
  BY MainLife, ThreadLife

\* What a thread is about to use is what it owns.
LEMMA LifeSafe == PoolInv /\ LifeInv => LiveWhenUsed
<1> SUFFICES ASSUME PoolInv, LifeInv, NEW w \in Threads, found[w] # -1 \/ tls[w]
             PROVE  library = "live" /\ (found[w] # -1 => g_cache = "live")
  BY DEF LiveWhenUsed
<1>1. pc[w] \notin {"none", "start", "done", "failed"}
  BY DEF LifeInv, Serving
<1>2. ctx = "server" /\ mpc # "ended"
  BY <1>1 DEF LifeInv, Owned, PoolInv, Spawned, Ended
<1>3. main \in {"register", "running", "stop"}
  BY <1>2 DEF LifeInv, Owned
<1> QED
  BY <1>3 DEF LifeInv, Owned

(* server.c:268-272: with any number of workers, whatever the server is    *)
(* doing when mg_stop is called, no handler runs without the cache and no  *)
(* connection is closed after mysql_library_end.                           *)
THEOREM ReleasedAfterUse == LifecycleSpec => []LiveWhenUsed
  BY InitLife, AlwaysPool, LifeStep, LifeSafe, PTL DEF LifecycleSpec

-----------------------------------------------------------------------------
(* The handlers of the URIs *)

\* The texts of segments.
Texts == STRING \cup {"employee", "", "metrics", "reset"}

\* A length of a registered URI and a larger one.
LEMMA Lengths ==
  ASSUME NEW l \in 1..2, NEW m \in Nat, l < m
  PROVE  l <= m /\ 1 \in 1..l /\ l \in 1..l
OBVIOUS

\* One sequence begins another if it is not longer and agrees with it.
LEMMA PrefixIs ==
  ASSUME NEW s \in Seq(Texts), NEW t \in Seq(Texts)
  PROVE  SeqExt!IsPrefix(s, t) <=> Len(s) <= Len(t) /\ \A i \in 1..Len(s) : s[i] = t[i]
<1> DEFINE a == SubSeq(s, 1, Len(s))
           b == SubSeq(t, 1, Len(s))
<1>1. CASE ~(Len(s) <= Len(t))
  BY <1>1 DEF SeqExt!IsPrefix
<1>2. CASE Len(s) <= Len(t)
  <2>1. a = [i \in 1..Len(s) |-> s[i]] /\ b = [i \in 1..Len(s) |-> t[i]]
    BY <1>2
  <2>2. SeqExt!IsPrefix(s, t) <=> a = b
    BY <1>2 DEF SeqExt!IsPrefix
  <2> HIDE DEF a, b
  <2>3. a = b <=> \A i \in 1..Len(s) : s[i] = t[i]
    BY <2>1
  <2> QED
    BY <1>2, <2>2, <2>3
<1> QED
  BY <1>1, <1>2

\* A text of one segment.
LEMMA OneSegment ==
  ASSUME NEW a \in Texts
  PROVE  Len(<<a>>) = 1 /\ <<a>>[1] = a /\ <<a>> \in Seq(Texts)
OBVIOUS

\* A text of two.
LEMMA TwoSegments ==
  ASSUME NEW a \in Texts, NEW b \in Texts
  PROVE  Len(<<a, b>>) = 2 /\ <<a, b>>[1] = a /\ <<a, b>>[2] = b /\ <<a, b>> \in Seq(Texts)
OBVIOUS

\* The registered URIs and their segments.
LEMMA RegisteredAre ==
  /\ Len(Registered) = 4 /\ DOMAIN Registered = 1..4
  /\ Len(Registered[1]) = 1 /\ Registered[1][1] = "employee"
  /\ Len(Registered[2]) = 2 /\ Registered[2][1] = "employee" /\ Registered[2][2] = ""
  /\ Len(Registered[3]) = 1 /\ Registered[3][1] = "metrics"
  /\ Len(Registered[4]) = 2 /\ Registered[4][1] = "metrics" /\ Registered[4][2] = "reset"
  /\ \A i \in 1..4 : Registered[i] \in Seq(Texts) /\ Len(Registered[i]) \in 1..2
<1>1. Len(Registered) = 4
  BY DEF Registered
<1>2. DOMAIN Registered = 1..4
  BY DEF Registered
<1>3. Registered[1] = <<"employee">>
  BY DEF Registered
<1>4. Registered[2] = <<"employee", "">>
  BY DEF Registered
<1>5. Registered[3] = <<"metrics">>
  BY DEF Registered
<1>6. Registered[4] = <<"metrics", "reset">>
  BY DEF Registered
<1>7. "employee" \in Texts /\ "" \in Texts /\ "metrics" \in Texts /\ "reset" \in Texts
  BY DEF Texts
<1>8. /\ Len(Registered[1]) = 1 /\ Registered[1][1] = "employee" /\ Registered[1] \in Seq(Texts)
      /\ Len(Registered[3]) = 1 /\ Registered[3][1] = "metrics" /\ Registered[3] \in Seq(Texts)
  BY <1>3, <1>5, <1>7, OneSegment
<1>9. /\ Len(Registered[2]) = 2 /\ Registered[2][1] = "employee" /\ Registered[2][2] = ""
      /\ Registered[2] \in Seq(Texts)
  <2>1. /\ Len(<<"employee", "">>) = 2 /\ <<"employee", "">>[1] = "employee"
        /\ <<"employee", "">>[2] = "" /\ <<"employee", "">> \in Seq(Texts)
    BY <1>7, TwoSegments
  <2> QED
    BY <1>4, <2>1, Zenon
<1>10. /\ Len(Registered[4]) = 2 /\ Registered[4][1] = "metrics" /\ Registered[4][2] = "reset"
       /\ Registered[4] \in Seq(Texts)
  <2>1. /\ Len(<<"metrics", "reset">>) = 2 /\ <<"metrics", "reset">>[1] = "metrics"
        /\ <<"metrics", "reset">>[2] = "reset" /\ <<"metrics", "reset">> \in Seq(Texts)
    BY <1>7, TwoSegments
  <2> QED
    BY <1>6, <2>1, Zenon
<1>11. \A i \in 1..4 : i = 1 \/ i = 2 \/ i = 3 \/ i = 4
  OBVIOUS
<1>12. \A i \in 1..4 : Registered[i] \in Seq(Texts) /\ Len(Registered[i]) \in 1..2
  <2> SUFFICES ASSUME NEW i \in 1..4
               PROVE  Registered[i] \in Seq(Texts) /\ Len(Registered[i]) \in 1..2
    OBVIOUS
  <2>1. 1 \in 1..2 /\ 2 \in 1..2
    OBVIOUS
  <2> QED
    BY <1>8, <1>9, <1>10, <1>11, <2>1, Zenon
<1> QED
  BY <1>1, <1>2, <1>8, <1>9, <1>10, <1>12

\* A pattern: all its segments but the last, and the beginning of that.
LEMMA PatternIs ==
  ASSUME NEW i \in 1..4, NEW uri \in Seq(Texts)
  PROVE  PatternMatch(Registered[i], uri) <=>
           /\ Len(Registered[i]) <= Len(uri)
           /\ Len(Registered[i]) = 2 => SameText(uri[1], Registered[i][1])
           /\ BeginsWith(uri[Len(Registered[i])], Registered[i][Len(Registered[i])])
<1> DEFINE h == Registered[i]
           l == Len(h)
<1>1. l \in 1..2
  BY RegisteredAre
<1> HIDE DEF h, l
<1>2. CASE l = 1
  BY <1>2 DEF PatternMatch, h, l
<1>3. CASE l = 2
  <2>1. 1..(l - 1) = {1}
    BY <1>3
  <2> QED
    BY <1>3, <2>1 DEF PatternMatch, h, l
<1> QED
  BY <1>1, <1>2, <1>3

\* A URI that goes on after a registered one is of its pattern, and begun by it.
LEMMA PartialIsPattern ==
  ASSUME NEW i \in 1..4, NEW uri \in Seq(Texts), PartialMatch(Registered[i], uri)
  PROVE  PatternMatch(Registered[i], uri) /\ SeqExt!IsStrictPrefix(Registered[i], uri)
<1> DEFINE h == Registered[i]
<1>1. h \in Seq(Texts) /\ Len(h) \in 1..2 /\ Len(h) < Len(uri) /\ SeqExt!IsPrefix(h, uri)
  BY RegisteredAre DEF PartialMatch
<1> HIDE DEF h
<1>2. \A j \in 1..Len(h) : h[j] = uri[j]
  BY <1>1, PrefixIs
<1>3. Len(h) <= Len(uri) /\ 1 \in 1..Len(h) /\ Len(h) \in 1..Len(h)
  <2>1. Len(uri) \in Nat
    OBVIOUS
  <2> QED
    BY <1>1, <2>1, Lengths, Zenon
<1>4. SameText(uri[1], h[1]) /\ BeginsWith(uri[Len(h)], h[Len(h)])
  BY <1>2, <1>3 DEF SameText, BeginsWith
<1>5. SeqExt!IsStrictPrefix(h, uri)
  BY <1>1 DEF SeqExt!IsStrictPrefix
<1>6. PatternMatch(h, uri)
  BY <1>3, <1>4, PatternIs DEF h
<1> QED
  BY <1>5, <1>6 DEF h

\* A registered URI of another's pattern goes on after it.
LEMMA PatternsOfRegistered ==
  ASSUME NEW i \in 1..4, NEW j \in 1..4, i # j, PatternMatch(Registered[i], Registered[j])
  PROVE  PartialMatch(Registered[i], Registered[j])
<1> DEFINE h == Registered[i]
           u == Registered[j]
<1>1. /\ Len(h) <= Len(u) /\ (Len(h) = 2 => SameText(u[1], h[1]))
      /\ BeginsWith(u[Len(h)], h[Len(h)])
  BY RegisteredAre, PatternIs
<1>2. (i = 1 /\ j = 2) \/ (i = 3 /\ j = 4)
  <2>1. i \in {1, 2, 3, 4} /\ j \in {1, 2, 3, 4}
    OBVIOUS
  <2>2. Len(h) = 2 => Len(u) = 2
    <3> DEFINE l == Len(h)
               m == Len(u)
    <3>1. l \in 1..2 /\ m \in 1..2 /\ l <= m
      BY <1>1, RegisteredAre
    <3> HIDE DEF l, m
    <3>2. l = 2 => m = 2
      BY <3>1
    <3> QED
      BY <3>2 DEF l, m
  <2>3. i # 2 /\ i # 4
    <3>1. i = 2 \/ i = 4 => j = 2 \/ j = 4
      BY <2>1, <2>2, RegisteredAre
    <3>2. i = 2 \/ i = 4 => BeginsWith(u[1], h[1])
      BY <1>1, RegisteredAre DEF SameText
    <3>3. h[1] \in {"employee", "metrics"} /\ u[1] \in {"employee", "metrics"}
      BY <2>1, RegisteredAre
    <3>4. i = 2 \/ i = 4 => h[1] = u[1]
      BY <3>2, <3>3, BeginsAssumption DEF BeginsWith
    <3>5. i = 2 => j = 4 /\ "employee" = "metrics"
      BY <3>1, <3>4, RegisteredAre
    <3>6. i = 4 => j = 2 /\ "employee" = "metrics"
      BY <3>1, <3>4, RegisteredAre
    <3>7. "employee" # "metrics"
      OBVIOUS
    <3> QED
      BY <3>5, <3>6, <3>7
  <2>4. CASE i = 1
    BY <1>1, <2>1, <2>4, RegisteredAre, BeginsAssumption DEF BeginsWith
  <2>5. CASE i = 3
    BY <1>1, <2>1, <2>5, RegisteredAre, BeginsAssumption DEF BeginsWith
  <2> QED
    BY <2>1, <2>3, <2>4, <2>5
<1>3. Len(h) = 1 /\ Len(u) = 2 /\ h[1] = u[1]
  BY <1>2, RegisteredAre
<1>4. SeqExt!IsPrefix(h, u)
  <2>1. h \in Seq(Texts) /\ u \in Seq(Texts)
    BY RegisteredAre
  <2> HIDE DEF h, u
  <2> QED
    <3>1. \A k \in 1..1 : k = 1
      OBVIOUS
    <3> QED
      BY <1>3, <2>1, <3>1, PrefixIs
<1> QED
  BY <1>3, <1>4 DEF PartialMatch

\* The first of the places that a pass finds is one of them.
LEMMA FirstIsOne ==
  ASSUME NEW X \in SUBSET (1..4)
  PROVE  /\ X = {} => FirstOf(X) = 0
         /\ X # {} => FirstOf(X) \in X /\ FirstOf(X) # 0
<1>1. CASE X = {}
  BY <1>1 DEF FirstOf
<1>2. CASE X # {}
  <2>1. \E x \in X : \A y \in X : x =< y
    <3>1. CASE 1 \in X
      BY <3>1
    <3>2. CASE 1 \notin X /\ 2 \in X
      BY <3>2
    <3>3. CASE 1 \notin X /\ 2 \notin X /\ 3 \in X
      BY <3>3
    <3>4. CASE 1 \notin X /\ 2 \notin X /\ 3 \notin X
      <4>1. \A x \in X : x = 4
        <5> SUFFICES ASSUME NEW x \in X PROVE x = 4
          OBVIOUS
        <5>1. x \in 1..4 /\ x # 1 /\ x # 2 /\ x # 3
          BY <3>4
        <5> QED
          BY <5>1
      <4> PICK x \in X : TRUE
        BY <1>2
      <4> WITNESS x \in X
      <4> QED
        BY <4>1
    <3> QED
      BY <3>1, <3>2, <3>3, <3>4
  <2>2. SeqExt!Min(X) \in X
    BY <2>1 DEF SeqExt!Min
  <2>3. FirstOf(X) = SeqExt!Min(X)
    BY <1>2 DEF FirstOf
  <2>4. \A x \in X : x # 0
    OBVIOUS
  <2> QED
    BY <1>2, <2>2, <2>3, <2>4
<1> QED
  BY <1>1, <1>2

UriTexts == Seq(Texts)

\* What appending does.
LEMMA Appends ==
  ASSUME NEW s \in Seq(UriTexts), NEW x \in UriTexts
  PROVE  /\ Append(s, x) \in Seq(UriTexts) /\ Len(Append(s, x)) = Len(s) + 1
         /\ DOMAIN Append(s, x) = 1..(Len(s) + 1)
         /\ Append(s, x)[Len(s) + 1] = x
         /\ \A i \in 1..Len(s) : Append(s, x)[i] = s[i]
OBVIOUS

\* A sequence over a set is one over a larger set.
LEMMA SeqLarger ==
  ASSUME NEW S, NEW T, S \subseteq T, NEW s \in Seq(S)
  PROVE  s \in Seq(T)
OBVIOUS

\* As many of the handlers are registered as main has come to.
Registering ==
  /\ list \in Seq(UriTexts) /\ Len(list) \in 0..4 /\ DOMAIN list = 1..Len(list)
  /\ \A i \in 1..Len(list) : list[i] = Registered[i]

\* What a lookup may find: RoutedOnceRegistered, of one URI.
Routed(uri, f) ==
  \/ f \in Own(uri)
  \/ f = 0 /\ (Own(uri) = {} \/ Len(list) < Len(Registered))
  \/ f > 0 /\ Len(list) < Len(Registered) /\ SeqExt!IsStrictPrefix(Registered[f], uri)

\* It finds that.
LEMMA LookUpRoutes ==
  ASSUME Registering, NEW uri \in Seq(Texts)
  PROVE  Routed(uri, Find(list, uri))
<1> DEFINE E == {i \in DOMAIN list : ExactMatch(list[i], uri)}
           P == {i \in DOMAIN list : PartialMatch(list[i], uri)}
           T == {i \in DOMAIN list : PatternMatch(list[i], uri)}
           A == {i \in DOMAIN Registered : Registered[i] = uri}
           f == Find(list, uri)
<1>1. /\ Len(list) \in 0..4 /\ \A i \in DOMAIN list : i \in 1..4 /\ list[i] = Registered[i]
      /\ DOMAIN list = 1..Len(list) /\ DOMAIN Registered = 1..4 /\ Len(Registered) = 4
  <2> DEFINE n == Len(list)
  <2>1. n \in 0..4 /\ DOMAIN list = 1..n /\ \A i \in 1..n : list[i] = Registered[i]
    BY DEF Registering
  <2> HIDE DEF n
  <2>2. \A i \in 1..n : i \in 1..4
    BY <2>1
  <2> QED
    BY <2>1, <2>2, RegisteredAre DEF n
<1>2. E \in SUBSET (1..4) /\ P \in SUBSET (1..4) /\ T \in SUBSET (1..4)
  BY <1>1
<1>3. /\ \A i \in E : i \in A
      /\ \A i \in P : i \in 1..4 /\ PartialMatch(Registered[i], uri)
      /\ \A i \in T : i \in 1..4 /\ PatternMatch(Registered[i], uri)
  BY <1>1 DEF ExactMatch
<1>4. f = IF FirstOf(E) # 0 THEN FirstOf(E) ELSE IF FirstOf(P) # 0 THEN FirstOf(P) ELSE FirstOf(T)
  BY DEF Find
<1>5. Own(uri) = IF A # {} THEN A ELSE {i \in DOMAIN Registered : PatternMatch(Registered[i], uri)}
  BY DEF Own
<1>6. E = {} /\ A # {} => Len(list) < 4
  BY <1>1 DEF ExactMatch
<1>7. Len(list) = 4 => A = E /\ T = {i \in DOMAIN Registered : PatternMatch(Registered[i], uri)}
  BY <1>1 DEF ExactMatch
<1>8. \A i \in T : \A j \in A : j \notin E => i \in P
  <2> SUFFICES ASSUME NEW i \in T, NEW j \in A, j \notin E PROVE i \in P
    OBVIOUS
  <2>1. i # j
    BY <1>1 DEF ExactMatch
  <2>2. PartialMatch(Registered[i], uri)
    BY <1>1, <1>3, <2>1, PatternsOfRegistered
  <2> QED
    BY <1>1, <2>2
<1>9. /\ f \in Own(uri) => Routed(uri, f)
      /\ f = 0 /\ Own(uri) = {} => Routed(uri, f)
      /\ f = 0 /\ Len(list) < 4 => Routed(uri, f)
      /\ f \in 1..4 /\ Len(list) < 4 /\ SeqExt!IsStrictPrefix(Registered[f], uri) => Routed(uri, f)
  <2> HIDE DEF f
  <2>1. f \in 1..4 => f > 0
    OBVIOUS
  <2> QED
    BY <1>1, <2>1 DEF Routed
<1>10. Len(list) = 4 \/ Len(list) < 4
  BY <1>1
<1> SUFFICES Routed(uri, f)
  OBVIOUS
<1> HIDE DEF E, P, T, A, f
<1>11. CASE E # {}
  <2>1. f \in E
    BY <1>2, <1>4, <1>11, FirstIsOne
  <2>2. f \in A
    BY <1>3, <2>1
  <2> QED
    BY <1>5, <1>9, <2>2
<1>12. CASE E = {} /\ P # {}
  <2>1. f \in P /\ f \in 1..4 /\ PartialMatch(Registered[f], uri)
    BY <1>2, <1>3, <1>4, <1>12, FirstIsOne
  <2>2. PatternMatch(Registered[f], uri) /\ SeqExt!IsStrictPrefix(Registered[f], uri)
    BY <2>1, PartialIsPattern
  <2>3. CASE A = {}
    BY <1>1, <1>5, <1>9, <2>1, <2>2, <2>3
  <2>4. CASE A # {}
    BY <1>6, <1>12, <1>9, <2>1, <2>2, <2>4
  <2> QED
    BY <2>3, <2>4
<1>13. CASE E = {} /\ P = {} /\ T # {}
  <2>1. f \in T /\ f \in 1..4 /\ PatternMatch(Registered[f], uri)
    BY <1>2, <1>3, <1>4, <1>13, FirstIsOne
  <2>2. A = {}
    BY <1>8, <1>13, <2>1
  <2> QED
    BY <1>1, <1>5, <1>9, <2>1, <2>2
<1>14. CASE E = {} /\ P = {} /\ T = {}
  <2>1. f = 0
    BY <1>2, <1>4, <1>14, FirstIsOne
  <2>2. Len(list) = 4 => Own(uri) = {}
    BY <1>5, <1>7, <1>14
  <2> QED
    BY <1>9, <1>10, <2>1, <2>2
<1> QED
  BY <1>11, <1>12, <1>13, <1>14

\* Main registers one handler after the other.
LEMMA RegisteringStep == Registering /\ [LifecycleNext]_allvars => Registering'
<1> SUFFICES ASSUME Registering, [LifecycleNext]_allvars PROVE Registering'
  OBVIOUS
<1>1. CASE UNCHANGED list
  BY <1>1 DEF Registering
<1>2. CASE list' = Append(list, Registered[Len(list) + 1]) /\ Len(list) < 4
  <2> DEFINE n == Len(list)
             x == Registered[n + 1]
  <2>1. /\ list \in Seq(UriTexts) /\ n \in 0..4 /\ n < 4
        /\ list' = Append(list, x) /\ \A i \in 1..n : list[i] = Registered[i]
    BY <1>2 DEF Registering
  <2>2. x \in UriTexts
    <3> HIDE DEF n
    <3>1. n + 1 \in 1..4
      BY <2>1
    <3> QED
      BY <3>1, RegisteredAre DEF UriTexts
  <2> HIDE DEF x
  <2>3. /\ list' \in Seq(UriTexts) /\ Len(list') = n + 1 /\ DOMAIN list' = 1..(n + 1)
        /\ list'[n + 1] = x /\ \A i \in 1..n : list'[i] = list[i]
    BY <2>1, <2>2, Appends
  <2> HIDE DEF n
  <2>4. \A i \in 1..(n + 1) : list'[i] = Registered[i]
    <3> SUFFICES ASSUME NEW i \in 1..(n + 1) PROVE list'[i] = Registered[i]
      OBVIOUS
    <3>1. i = n + 1 \/ i \in 1..n
      BY <2>1
    <3> QED
      BY <2>1, <2>3, <3>1 DEF x
  <2>5. n + 1 \in 0..4
    BY <2>1
  <2> QED
    BY <2>3, <2>4, <2>5, Zenon DEF Registering
<1>3. UNCHANGED list \/ (list' = Append(list, Registered[Len(list) + 1]) /\ Len(list) < 4)
  BY RegisteredAre DEF LifecycleNext, Main, Setup, MgStart, Register, MgStop, MgStopReturns, Destroy,
     Cleanup, Pool, ThreadStep, Obtain, LookUp, Handle, ThreadExit, program, allvars
<1> QED
  BY <1>1, <1>2, <1>3

(* server.c:257-261, civetweb.c:14932-14979: whatever the URIs and the     *)
(* workers, a request that is looked up after the last registration gets   *)
(* the handler of its own URI.                                             *)
THEOREM LookUpsRouted == LifecycleSpec => RoutedOnceRegistered
<1> DEFINE A == \A w \in Threads : found[w] = -1 /\ found'[w] # -1 => Routed(Uri[sock[w]], found'[w])
<1>1. LifecycleInit => Registering
  BY DEF LifecycleInit, Registering
<1>2. PoolInv /\ LifeInv /\ Registering /\ [LifecycleNext]_allvars => [A]_allvars
  <2> SUFFICES ASSUME PoolInv, LifeInv, Registering, LifecycleNext,
                      NEW w \in Threads, found[w] = -1, found'[w] # -1
               PROVE  Routed(Uri[sock[w]], found'[w])
    OBVIOUS
  <2>1. LookUp(w)
    <3>1. \A u \in Threads : Handle(u) => found'[w] = -1
      BY DEF Handle, LifeInv, ServingTyped
    <3>2. \A u \in Threads : LookUp(u) => u = w
      BY DEF LookUp, LifeInv, ServingTyped
    <3> QED
      BY <3>1, <3>2 DEF LifecycleNext, Main, Setup, MgStart, Register, MgStop, MgStopReturns, Destroy,
         Cleanup, Pool, ThreadStep, Obtain, ThreadExit, serving
  <2>2. found'[w] = Find(list, Uri[sock[w]])
    BY <2>1 DEF LookUp, LifeInv, ServingTyped
  <2>3. Uri[sock[w]] \in Seq(Texts)
    <3>1. sock[w] \in Sockets
      BY <2>1 DEF LookUp, PoolInv, PoolTypes, Hands, HandOf
    <3>2. STRING \subseteq Texts
      BY Zenon DEF Texts
    <3>3. Uri[sock[w]] \in Seq(STRING)
      BY <3>1, LifecycleAssumption, Zenon
    <3> QED
      BY <3>2, <3>3, SeqLarger, Zenon
  <2> QED
    BY <2>2, <2>3, LookUpRoutes
<1>3. [A]_allvars =>
        [\A w \in Threads : (found[w] = -1 /\ found'[w] # -1) =>
           LET uri == Uri[sock[w]]
               Short == Len(list) < Len(Registered)
           IN  \/ found'[w] \in Own(uri)
               \/ found'[w] = 0 /\ (Own(uri) = {} \/ Short)
               \/ found'[w] > 0 /\ Short /\ SeqExt!IsStrictPrefix(Registered[found'[w]], uri)]_allvars
  BY DEF Routed
<1> QED
  BY <1>1, <1>2, <1>3, AlwaysPool, InitLife, LifeStep, RegisteringStep, PTL
     DEF LifecycleSpec, RoutedOnceRegistered
=============================================================================
