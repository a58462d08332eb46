-------------------------- MODULE CacheMetricsProofs --------------------------
(***************************************************************************)
(* The bounds of CacheMetrics, for every number of monitors and lookups.   *)
(***************************************************************************)
EXTENDS CacheMetrics, TLAPS

(* What the two properties need to be inductive: the marks of the past are *)
(* ordered, and a counter that a running reset has already cleared holds   *)
(* nothing from before that reset.                                         *)
MarksOrdered ==
  \A c \in Counters :
    /\ stored[c] <= done[c]
    /\ \A m \in Monitors : begun[m][c] <= done[c] /\ floor[m][c] <= since[c]

ClearedByReset ==
  \A m \in Monitors, c \in Counters :
    pc[m] = "reset" /\ c \notin left[m] => count[c] <= done[c] - begun[m][c]

MetricsInv == TypeOK /\ MarksOrdered /\ ClearedByReset /\ CountsSinceReset /\ ReportInWindow

\* The counters of handle_metrics are there before the first request.
LEMMA InitMetrics == Init => MetricsInv
  BY DEF Init, MetricsInv, TypeOK, MarksOrdered, ClearedByReset, CountsSinceReset,
         ReportInWindow, Counters, Zero

\* A lookup adds one to its counter and to the lookups that counted.
LEMMA LookupStep == ASSUME MetricsInv, NEW k \in Counters, Lookup(k) PROVE MetricsInv'
<1> USE DEF MetricsInv
<1>1. done'[k] = done[k] + 1 /\ count'[k] = count[k] + 1
  BY DEF Lookup, TypeOK
<1>2. \A c \in Counters \ {k} : done'[c] = done[c] /\ count'[c] = count[c]
  BY DEF Lookup, TypeOK
<1>3. TypeOK'
  BY DEF Lookup, TypeOK
<1>4. MarksOrdered' /\ ClearedByReset'
  BY <1>1, <1>2 DEF Lookup, TypeOK, MarksOrdered, ClearedByReset
<1>5. CountsSinceReset' /\ ReportInWindow'
  BY <1>1, <1>2 DEF Lookup, TypeOK, CountsSinceReset, ReportInWindow
<1>6. QED
  BY <1>3, <1>4, <1>5

\* A handler that begins finds all its counters still to come.
LEMMA EnterStep ==
  ASSUME MetricsInv, NEW m \in Monitors, NEW h \in {"report", "reset"}, Enter(m, h)
  PROVE  MetricsInv'
<1> USE DEF MetricsInv
<1>1. TypeOK'
  BY DEF Enter, TypeOK
<1>2. MarksOrdered'
  BY DEF Enter, TypeOK, MarksOrdered
<1>3. ClearedByReset' /\ ReportInWindow'
  BY DEF Enter, TypeOK, ClearedByReset, ReportInWindow
<1>4. CountsSinceReset'
  BY DEF Enter, TypeOK, CountsSinceReset
<1>5. QED
  BY <1>1, <1>2, <1>3, <1>4

\* A load takes a count that the resets so far leave in its window.
LEMMA LoadStep ==
  ASSUME MetricsInv, NEW m \in Monitors, NEW k \in Counters, Load(m, k)
  PROVE  MetricsInv'
<1> USE DEF MetricsInv
<1>1. TypeOK'
  BY DEF Load, Take, TypeOK
<1>2. MarksOrdered' /\ CountsSinceReset'
  BY DEF Load, TypeOK, MarksOrdered, CountsSinceReset
<1>3. ClearedByReset'
  BY DEF Load, Take, TypeOK, ClearedByReset
<1>4. begun[m][k] - stored[k] <= count[k] /\ count[k] <= done[k] - floor[m][k]
  BY DEF TypeOK, MarksOrdered, CountsSinceReset
<1>5. ReportInWindow'
  BY <1>4 DEF Load, Take, TypeOK, ReportInWindow
<1>6. QED
  BY <1>1, <1>2, <1>3, <1>5

\* A store moves the mark of the last store up to now.
LEMMA StoreStep ==
  ASSUME MetricsInv, NEW m \in Monitors, NEW k \in Counters, Store(m, k)
  PROVE  MetricsInv'
<1> USE DEF MetricsInv
<1>1. TypeOK'
  BY DEF Store, Take, TypeOK
<1>2. MarksOrdered'
  BY DEF Store, TypeOK, MarksOrdered
<1>3. \A c \in Counters : count'[c] \in Nat /\ count'[c] <= count[c]
  BY DEF Store, TypeOK
<1>4. ClearedByReset'
  BY <1>3 DEF Store, Take, TypeOK, ClearedByReset, MarksOrdered
<1>5. CountsSinceReset'
  BY <1>3 DEF Store, TypeOK, CountsSinceReset
<1>6. ReportInWindow'
  BY DEF Store, Take, TypeOK, ReportInWindow, MarksOrdered
<1>7. QED
  BY <1>1, <1>2, <1>4, <1>5, <1>6

\* A reset that ends has cleared both counters since it began.
LEMMA ReturnStep == ASSUME MetricsInv, NEW m \in Monitors, Return(m) PROVE MetricsInv'
<1> USE DEF MetricsInv
<1>1. since' \in [Counters -> Nat]
  BY DEF Return, Later, TypeOK
<1>2. \A c \in Counters : since[c] <= since'[c]
  BY DEF Return, Later, TypeOK
<1>3. \A c \in Counters : count[c] <= done[c] - since'[c]
  BY DEF Return, Later, TypeOK, CountsSinceReset, ClearedByReset
<1>4. TypeOK'
  BY <1>1 DEF Return, TypeOK, Zero
<1>5. MarksOrdered'
  BY <1>1, <1>2 DEF Return, TypeOK, MarksOrdered
<1>6. ClearedByReset' /\ ReportInWindow'
  BY DEF Return, TypeOK, ClearedByReset, ReportInWindow
<1>7. CountsSinceReset'
  BY <1>3 DEF Return, CountsSinceReset
<1>8. QED
  BY <1>4, <1>5, <1>6, <1>7

\* The strengthening is inductive.
THEOREM MetricsInductive == Spec => []MetricsInv
<1>1. MetricsInv /\ [Next]_vars => MetricsInv'
  <2> SUFFICES ASSUME MetricsInv, [Next]_vars PROVE MetricsInv'
    OBVIOUS
  <2>1. CASE UNCHANGED vars
    BY <2>1 DEF vars, MetricsInv, TypeOK, MarksOrdered, ClearedByReset, CountsSinceReset,
                ReportInWindow
  <2>2. CASE Next
    BY <2>2, LookupStep, EnterStep, LoadStep, StoreStep, ReturnStep DEF Next
  <2>3. QED
    BY <2>1, <2>2
<1>2. QED
  BY InitMetrics, <1>1, PTL DEF Spec

(* However many resets, reports and lookups of however many workers        *)
(* interleave, the counters hold exactly the lookups of a window that      *)
(* begins within the latest reset.                                         *)
THEOREM CountersSinceReset == Spec => []CountsSinceReset
  BY MetricsInductive, PTL DEF MetricsInv

\* Every count of a report belongs to the time the report was made in.
THEOREM ReportsInWindow == Spec => []ReportInWindow
  BY MetricsInductive, PTL DEF MetricsInv

\* The counters never go below zero, and no handler returns half-way.
THEOREM MetricsTypes == Spec => []TypeOK
  BY MetricsInductive, PTL DEF MetricsInv
=============================================================================
