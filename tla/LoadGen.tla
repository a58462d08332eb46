------------------------------- MODULE LoadGen -------------------------------
(***************************************************************************)
(* loadgen.c: closed-loop clients that share a counter of ids and the      *)
(* statistics of the run, against a server that answers one request on a   *)
(* connection and closes it (CivetWeb with keep-alive off, its default,    *)
(* which server.c:246-251 leaves).  The server is its table: a POST of an  *)
(* id that is there fails, a GET may find its employee, in the table or    *)
(* the cache, or not.                                                      *)
(***************************************************************************)
EXTENDS Integers, FiniteSets

CONSTANTS Clients,       \* the threads
          Methods,       \* of the workload: {"POST"}, {"GET"}, or a mix
          K,             \* the ids that GET and DELETE ask for are 1..K
          ServerFails,   \* whether connections are refused or closed unanswered
          MaxRequests    \* bound: the requests of a run

ASSUME LoadAssumption ==
  /\ IsFiniteSet(Clients) /\ Methods \subseteq {"POST", "GET", "DELETE"}
  /\ K \in Nat \ {0} /\ ServerFails \in BOOLEAN /\ MaxRequests \in Nat

VARIABLES
  pc,        \* where a client is in worker()
  link,      \* its connection: "none", "up", or "closed" by the server
  method,    \* its request
  id,
  reply,     \* the status of the response that waits in its socket
  rc,        \* what do_http has returned
  over,      \* the duration has passed
  global_id, total, success, failures,
  samples,   \* latencies added, as their number
  report,    \* the line that main prints
  table,     \* ids in the employees table
  \* History variable, read by the bound alone.
  started    \* requests begun

stats   == <<global_id, total, success, failures, samples>>
request == <<method, id, rc>>
vars    == <<pc, link, request, reply, over, stats, report, table, started>>

Goto(c, label) == pc' = [pc EXCEPT ![c] = label]
SetLink(c, l)  == link' = [link EXCEPT ![c] = l]
Return(c, r)   == rc' = [rc EXCEPT ![c] = r]

-----------------------------------------------------------------------------
(* worker() *)

(* open_connection: the first one, or the one after a failure.  A client   *)
(* that is refused leaves for good.                                        *)
Open(c) ==
  /\ pc[c] \in {"connect", "reconnect"}
  /\ \/ SetLink(c, "up") /\ Goto(c, "check")
     \/ ServerFails /\ SetLink(c, "none") /\ Goto(c, "done")
  /\ reply' = [reply EXCEPT ![c] = "none"]
  /\ UNCHANGED <<request, over, stats, report, table, started>>

\* while (time(NULL) < end), and the choice of a request.
Begin(c) ==
  /\ pc[c] = "check" /\ ~over /\ started < MaxRequests
  /\ \E m \in Methods :
       /\ method' = [method EXCEPT ![c] = m]
       /\ \/ m = "POST" /\ Goto(c, "take_id") /\ UNCHANGED id
          \/ m # "POST" /\ Goto(c, "send") /\ \E i \in 1..K : id' = [id EXCEPT ![c] = i]
  /\ started' = started + 1
  /\ UNCHANGED <<link, reply, rc, over, stats, report, table>>

Leave(c) ==
  /\ pc[c] = "check" /\ over
  /\ SetLink(c, "none") /\ Goto(c, "done")
  /\ UNCHANGED <<request, reply, over, stats, report, table, started>>

\* Mutant: the id is read, and the counter set in a step of the next client.
TakeId_NotAtomic(c) ==
  /\ pc[c] = "take_id"
  /\ id' = [id EXCEPT ![c] = global_id]
  /\ global_id' \in {global_id, global_id + 1}
  /\ Goto(c, "send")
  /\ UNCHANGED <<link, method, reply, rc, over, total, success, failures, samples, report,
                 table, started>>

\* atomic_fetch_add(&global_id, 1).
TakeId(c) ==
  /\ pc[c] = "take_id"
  /\ id' = [id EXCEPT ![c] = global_id]
  /\ global_id' = global_id + 1
  /\ Goto(c, "send")
  /\ UNCHANGED <<link, method, reply, rc, over, total, success, failures, samples, report,
                 table, started>>

(* send_all: on a connection that the server has closed the request is     *)
(* lost, and do_http fails now or when it reads.                           *)
Send(c) ==
  /\ pc[c] = "send"
  /\ IF link[c] = "up" THEN Goto(c, "recv") /\ UNCHANGED rc
                       ELSE Goto(c, "count") /\ Return(c, -1)
  /\ UNCHANGED <<link, method, id, reply, over, stats, report, table, started>>

\* Mutant: end of file does not end the reading.
Recv_LoopsOnEof(c) ==
  /\ pc[c] = "recv" /\ reply[c] # "none"
  /\ Return(c, IF reply[c] = "200" THEN 0 ELSE -1)
  /\ Goto(c, "count")
  /\ reply' = [reply EXCEPT ![c] = "none"]
  /\ UNCHANGED <<link, method, id, over, stats, report, table, started>>

\* read_http_response: any status but 2xx is a failure, like end of file.
Recv(c) ==
  /\ pc[c] = "recv" /\ (reply[c] # "none" \/ link[c] = "closed")
  /\ Return(c, IF reply[c] = "200" THEN 0 ELSE -1)
  /\ Goto(c, "count")
  /\ reply' = [reply EXCEPT ![c] = "none"]
  /\ UNCHANGED <<link, method, id, over, stats, report, table, started>>

Count(c) ==
  /\ pc[c] = "count"
  /\ total' = total + 1
  /\ Goto(c, "tally")
  /\ UNCHANGED <<link, request, reply, over, global_id, success, failures, samples, report,
                 table, started>>

\* success and failures are counted by a later atomic_fetch_add than total.
Tally(c) ==
  /\ pc[c] = "tally"
  /\ \/ rc[c] = 0 /\ success' = success + 1 /\ Goto(c, "latency") /\ UNCHANGED failures
     \/ rc[c] = -1 /\ failures' = failures + 1 /\ Goto(c, "reconnect") /\ UNCHANGED success
  /\ UNCHANGED <<link, request, reply, over, global_id, total, samples, report, table, started>>

Latency(c) ==
  /\ pc[c] = "latency"
  /\ samples' = samples + 1
  /\ Goto(c, "check")
  /\ UNCHANGED <<link, request, reply, over, global_id, total, success, failures, report,
                 table, started>>

Client(c) ==
  \/ Open(c) \/ Begin(c) \/ Leave(c) \/ TakeId(c) \/ Send(c) \/ Recv(c)
  \/ Count(c) \/ Tally(c) \/ Latency(c)

-----------------------------------------------------------------------------
(* The server: it reads one request, answers and closes. *)

\* Mutant: the server goes on to the next request on the connection.
Answer_KeepsAlive(c, status) ==
  /\ reply' = [reply EXCEPT ![c] = status]
  /\ UNCHANGED link

Answer(c, status) ==
  /\ reply' = [reply EXCEPT ![c] = status]
  /\ SetLink(c, "closed")

Waiting(c) == pc[c] = "recv" /\ link[c] = "up" /\ reply[c] = "none"

ServePost(c) ==
  /\ Waiting(c) /\ method[c] = "POST"
  /\ table' = table \cup {id[c]}
  /\ Answer(c, IF id[c] \in table THEN "500" ELSE "200")

\* An employee that is not in the table may still be cached.
ServeGet(c) ==
  /\ Waiting(c) /\ method[c] = "GET"
  /\ Answer(c, "200") \/ (id[c] \notin table /\ Answer(c, "404"))
  /\ UNCHANGED table

ServeDelete(c) ==
  /\ Waiting(c) /\ method[c] = "DELETE"
  /\ table' = table \ {id[c]}
  /\ Answer(c, "200")

Serve(c) ==
  /\ ServePost(c) \/ ServeGet(c) \/ ServeDelete(c)
  /\ UNCHANGED <<pc, request, over, stats, report, started>>

\* The server stops, or gives up waiting for the request.
Drop(c) ==
  /\ ServerFails /\ link[c] = "up"
  /\ SetLink(c, "closed")
  /\ UNCHANGED <<pc, request, reply, over, stats, report, table, started>>

-----------------------------------------------------------------------------
(* main() *)

Deadline ==
  /\ ~over /\ over' = TRUE
  /\ UNCHANGED <<pc, link, request, reply, stats, report, table, started>>

NoReport == [printed |-> FALSE, success |-> 0, total |-> 0, failures |-> 0, samples |-> 0]

\* Mutant: main reports when the duration is over.
Report_NoJoin ==
  /\ ~report.printed /\ over
  /\ report' = [printed |-> TRUE, success |-> success, total |-> total,
                failures |-> failures, samples |-> samples]
  /\ UNCHANGED <<pc, link, request, reply, over, stats, table, started>>

\* pthread_join of every thread, then the four loads.
Report ==
  /\ ~report.printed /\ \A c \in Clients : pc[c] = "done"
  /\ report' = [printed |-> TRUE, success |-> success, total |-> total,
                failures |-> failures, samples |-> samples]
  /\ UNCHANGED <<pc, link, request, reply, over, stats, table, started>>

-----------------------------------------------------------------------------
\* A new process: its counters begin anew, the table does not.
Start ==
  /\ pc = [c \in Clients |-> "connect"] /\ link = [c \in Clients |-> "none"]
  /\ method = [c \in Clients |-> "GET"] /\ id = [c \in Clients |-> 0]
  /\ reply = [c \in Clients |-> "none"] /\ rc = [c \in Clients |-> -1]
  /\ over = FALSE /\ report = NoReport
  /\ global_id = 1 /\ total = 0 /\ success = 0 /\ failures = 0 /\ samples = 0
  /\ started = 0

Init == Start /\ table = {}

Next ==
  \/ \E c \in Clients : Client(c) \/ Serve(c) \/ Drop(c)
  \/ Deadline \/ Report

Spec == Init /\ [][Next]_vars

\* Threads run on, the server answers what has reached it, and time passes.
FairSpec ==
  /\ Spec
  /\ \A c \in Clients : WF_vars(Client(c)) /\ WF_vars(Serve(c))
  /\ WF_vars(Deadline) /\ WF_vars(Report)

-----------------------------------------------------------------------------
(* loadgen.c:277-287: total, then success or failures, then the latency    *)
(* are counted by separate atomic operations of all threads; the line that *)
(* main prints after the joins adds up: SUCCESS + FAIL = TOTAL, and        *)
(* AVG_LATENCY divides as many latencies as SUCCESS counts.                *)
ReportAddsUp ==
  report.printed => /\ report.total = report.success + report.failures
                    /\ report.samples = report.success

(* loadgen.c:285-286 with civetweb's should_keep_alive: a connection       *)
(* carries one answered request, and the next one on it fails and opens    *)
(* another: however the clients interleave, the successes are at most one  *)
(* per client ahead of the failures.  (results/out_get_all_16.txt:         *)
(* SUCCESS=749981 FAIL=749967.)                                            *)
SuccessNeedsFailure == success <= failures + Cardinality(Clients)

(* loadgen.c:189, 248: no id is POSTed twice in a run, so a POST into a    *)
(* table that was empty at the start is never refused.                     *)
IdsNotRepeated == \A c \in Clients : reply[c] # "500"

(* The run ends: a client that is refused leaves, one that is waiting is   *)
(* answered or its connection closed, and main prints after the deadline.  *)
Finishes == <>report.printed
=============================================================================
