----------------------------- MODULE CacheMetrics -----------------------------
(***************************************************************************)
(* The counters of cache.c, CACHE_HITS and CACHE_MISSES, and the two       *)
(* endpoints of server.c that read and clear them.  cache_get adds to one  *)
(* of them under the cache's mutex; handle_metrics and                     *)
(* handle_metrics_reset use no lock and take the counters one at a time,   *)
(* so lookups, reports and resets of several workers interleave.           *)
(***************************************************************************)
EXTENDS Integers

CONSTANTS Monitors,     \* workers that serve /metrics and /metrics/reset
          MaxLookups    \* bound: the lookups of a behaviour

ASSUME MaxLookupsAssumption == MaxLookups \in Nat

VARIABLES
  count,    \* the counters: CACHE_HITS and CACHE_MISSES
  pc,       \* what a monitor is executing
  left,     \* the counters its handler has not come to yet
  got,      \* the counters' values its report has loaded
  \* History variables, read by no guard.
  done,     \* lookups that counted, ever
  begun,    \* done when the monitor's handler began
  floor,    \* since when the monitor's handler began
  since,    \* done when a reset began: of the resets that ended, the latest
  stored    \* done at the latest store of any reset

vars == <<count, pc, left, got, done, begun, floor, since, stored>>

Counters == {"hits", "misses"}
Zero     == [c \in Counters |-> 0]

-----------------------------------------------------------------------------
\* cache_get: one atomic_fetch_add per lookup, of one of the two counters.
Lookup(c) ==
  /\ done["hits"] + done["misses"] < MaxLookups
  /\ count' = [count EXCEPT ![c] = @ + 1]
  /\ done' = [done EXCEPT ![c] = @ + 1]
  /\ UNCHANGED <<pc, left, got, begun, floor, since, stored>>

\* A worker enters one of the two handlers.
Enter(m, handler) ==
  /\ pc[m] = "idle"
  /\ pc' = [pc EXCEPT ![m] = handler]
  /\ left' = [left EXCEPT ![m] = Counters]
  /\ begun' = [begun EXCEPT ![m] = done]
  /\ floor' = [floor EXCEPT ![m] = since]
  /\ UNCHANGED <<count, got, done, since, stored>>

Take(m, c) == left' = [left EXCEPT ![m] = @ \ {c}]

\* Mutant: the arguments of mg_printf in the other order.
Load_Swapped(m, c) ==
  /\ pc[m] = "report" /\ c \in left[m]
  /\ Take(m, c)
  /\ got' = [got EXCEPT ![m][CHOOSE d \in Counters : d # c] = count[c]]
  /\ UNCHANGED <<count, pc, done, begun, floor, since, stored>>

(* handle_metrics: the loads are two arguments of one call, so their order *)
(* is the compiler's.                                                      *)
Load(m, c) ==
  /\ pc[m] = "report" /\ c \in left[m]
  /\ Take(m, c)
  /\ got' = [got EXCEPT ![m][c] = count[c]]
  /\ UNCHANGED <<count, pc, done, begun, floor, since, stored>>

\* Mutant: the second atomic_store clears the hits again.
Store_HitsOnly(m, c) ==
  /\ pc[m] = "reset" /\ c \in left[m]
  /\ c = "misses" => "hits" \notin left[m]
  /\ Take(m, c)
  /\ count' = [count EXCEPT !["hits"] = 0]
  /\ stored' = done
  /\ UNCHANGED <<pc, got, done, begun, floor, since>>

\* handle_metrics_reset: the hits, then the misses.
Store(m, c) ==
  /\ pc[m] = "reset" /\ c \in left[m]
  /\ c = "misses" => "hits" \notin left[m]
  /\ Take(m, c)
  /\ count' = [count EXCEPT ![c] = 0]
  /\ stored' = done
  /\ UNCHANGED <<pc, got, done, begun, floor, since>>

\* done only grows, so of two of its values the greater is the later.
Later(f, g) == [c \in Counters |-> IF g[c] > f[c] THEN g[c] ELSE f[c]]

\* The response goes out and the handler returns.
Return(m) ==
  /\ pc[m] # "idle" /\ left[m] = {}
  /\ pc' = [pc EXCEPT ![m] = "idle"]
  /\ got' = [got EXCEPT ![m] = Zero]
  /\ since' = IF pc[m] = "reset" THEN Later(since, begun[m]) ELSE since
  /\ UNCHANGED <<count, left, done, begun, floor, stored>>

-----------------------------------------------------------------------------
Init ==
  /\ count = Zero /\ done = Zero /\ since = Zero /\ stored = Zero
  /\ pc = [m \in Monitors |-> "idle"] /\ left = [m \in Monitors |-> {}]
  /\ got = [m \in Monitors |-> Zero] /\ begun = [m \in Monitors |-> Zero]
  /\ floor = [m \in Monitors |-> Zero]

Next ==
  \/ \E c \in Counters : Lookup(c)
  \/ \E m \in Monitors :
       \/ Enter(m, "report") \/ Enter(m, "reset") \/ Return(m)
       \/ \E c \in Counters : Load(m, c) \/ Store(m, c)

Spec == Init /\ [][Next]_vars

-----------------------------------------------------------------------------
TypeOK ==
  /\ {count, done, since, stored} \subseteq [Counters -> Nat]
  /\ pc \in [Monitors -> {"idle", "report", "reset"}]
  /\ left \in [Monitors -> SUBSET Counters]
  /\ \A m \in Monitors : pc[m] = "idle" => left[m] = {}
  /\ got \in [Monitors -> [Counters -> Nat]] /\ begun \in [Monitors -> [Counters -> Nat]]
  /\ floor \in [Monitors -> [Counters -> Nat]]

(* handle_metrics_reset (server.c:32-37) without a lock: however resets    *)
(* overlap with lookups and with each other, the counters hold every       *)
(* lookup since the last store of a reset and none from before the latest  *)
(* reset that has ended.  A reset among idle workers is therefore exact,   *)
(* which is what run_experiments.sh:56-57 relies on.                       *)
CountsSinceReset ==
  \A c \in Counters : done[c] - stored[c] <= count[c] /\ count[c] <= done[c] - since[c]

(* handle_metrics (server.c:23-31): a report may pair counts of two        *)
(* different moments.  Each is still a count of this time: it holds every  *)
(* lookup from the last reset to the report's begin, none from after its   *)
(* end, and none from before the last reset that had ended when it began.  *)
ReportInWindow ==
  \A m \in Monitors, c \in Counters : pc[m] = "report" /\ c \notin left[m] =>
    begun[m][c] - stored[c] <= got[m][c] /\ got[m][c] <= done[c] - floor[m][c]
=============================================================================
