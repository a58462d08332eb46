---------------------------- MODULE LoadGenProofs ----------------------------
(***************************************************************************)
(* The sums, the alternation and the ids of LoadGen, for every number of   *)
(* clients, every workload and every length of a run.                      *)
(***************************************************************************)
EXTENDS LoadGen, FiniteSetTheorems, TLAPS

Labels == {"connect", "reconnect", "check", "take_id", "send", "recv", "count", "tally",
           "latency", "done"}

Typed ==
  /\ pc \in [Clients -> Labels]
  /\ link \in [Clients -> {"none", "up", "closed"}]
  /\ method \in [Clients -> {"POST", "GET", "DELETE"}]
  /\ id \in [Clients -> Nat]
  /\ reply \in [Clients -> {"none", "200", "404", "500"}]
  /\ rc \in [Clients -> {0, -1}]
  /\ global_id \in Nat \ {0} /\ total \in Nat /\ success \in Nat /\ failures \in Nat
  /\ samples \in Nat
  /\ table \subseteq Nat

At(l) == {c \in Clients : pc[c] = l}

(* Between the atomic additions of a request the counters disagree, by the *)
(* clients that are between the two additions.                             *)
Sums ==
  /\ total = success + failures + Cardinality(At("tally"))
  /\ success = samples + Cardinality(At("latency"))

\* main prints when every client has left, and then no counter moves.
Reported ==
  report.printed =>
    /\ \A c \in Clients : pc[c] = "done"
    /\ report = [printed |-> TRUE, success |-> success, total |-> total,
                 failures |-> failures, samples |-> samples]

\* A client holds a successful reply only from a connection that is spent.
Spends ==
  \A c \in Clients :
    /\ reply[c] # "none" => pc[c] = "recv" /\ link[c] = "closed"
    /\ pc[c] \in {"count", "tally"} /\ rc[c] = 0 => link[c] = "closed"

\* The clients whose next request fails, or who send no other.
Spent ==
  {c \in Clients :
     \/ pc[c] = "done"
     \/ pc[c] \in {"latency", "check", "take_id", "send"} /\ link[c] = "closed"
     \/ pc[c] \in {"count", "tally"} /\ rc[c] = -1}

Alternates == success <= failures + Cardinality(Spent)

\* A POST is under way with an id that nobody else has or has had.
Posting(c) == method[c] = "POST" /\ (pc[c] = "send" \/ Waiting(c))

FreshIds ==
  /\ \A i \in table : i < global_id
  /\ \A c \in Clients : Posting(c) => id[c] < global_id /\ id[c] \notin table
  /\ \A c, d \in Clients : Posting(c) /\ Posting(d) /\ id[c] = id[d] => c = d

-----------------------------------------------------------------------------
(* Types *)

\* The generator starts with typed state.
LEMMA InitTyped == Init => Typed
  BY DEF Init, Start, Typed, Labels

\* Every step of a client, and of main, keeps the types.
LEMMA TypedStep == Typed /\ [Next]_vars => Typed'
<1> SUFFICES ASSUME Typed, [Next]_vars PROVE Typed'
  OBVIOUS
<1> USE DEF Typed, Labels, Goto, SetLink, Return, stats, request
<1>1. ASSUME NEW c \in Clients, Client(c) PROVE Typed'
  <2> USE LoadAssumption
  <2>1. CASE Open(c)
    BY <2>1 DEF Open
  <2>2. CASE Begin(c)
    BY <2>2 DEF Begin
  <2>3. CASE Leave(c)
    BY <2>3 DEF Leave
  <2>4. CASE TakeId(c)
    BY <2>4 DEF TakeId
  <2>5. CASE Send(c)
    BY <2>5 DEF Send
  <2>6. CASE Recv(c)
    BY <2>6 DEF Recv
  <2>7. CASE Count(c)
    BY <2>7 DEF Count
  <2>8. CASE Tally(c)
    BY <2>8 DEF Tally
  <2>9. CASE Latency(c)
    BY <2>9 DEF Latency
  <2>10. QED
    BY <1>1, <2>1, <2>2, <2>3, <2>4, <2>5, <2>6, <2>7, <2>8, <2>9 DEF Client
<1>2. ASSUME NEW c \in Clients, Serve(c) PROVE Typed'
  <2>1. UNCHANGED <<pc, request, stats>>
    BY <1>2 DEF Serve
  <2>2. CASE ServePost(c)
    <3> DEFINE x == IF id[c] \in table THEN "500" ELSE "200"
    <3>1. reply' = [reply EXCEPT ![c] = x]
      BY <2>2 DEF ServePost, Answer
    <3>2. x \in {"200", "500"}
      OBVIOUS
    <3> HIDE DEF x
    <3>3. reply' \in [Clients -> {"none", "200", "404", "500"}]
      BY <3>1, <3>2
    <3>4. link' \in [Clients -> {"none", "up", "closed"}] /\ table' \subseteq Nat
      BY <2>2 DEF ServePost, Answer
    <3> QED
      BY <2>1, <3>4, <3>3
  <2>3. CASE ServeGet(c)
    BY <2>1, <2>3 DEF ServeGet, Answer
  <2>4. CASE ServeDelete(c)
    BY <2>1, <2>4 DEF ServeDelete, Answer
  <2>5. QED
    BY <1>2, <2>2, <2>3, <2>4 DEF Serve
<1>3. ASSUME NEW c \in Clients, Drop(c) PROVE Typed'
  BY <1>3 DEF Drop
<1>4. CASE Deadline
  BY <1>4 DEF Deadline
<1>5. CASE Report
  BY <1>5 DEF Report
<1>6. CASE UNCHANGED vars
  BY <1>6 DEF vars
<1>7. QED
  BY <1>1, <1>2, <1>3, <1>4, <1>5, <1>6 DEF Next

\* The types hold throughout.
LEMMA AlwaysTyped == Spec => []Typed
  BY InitTyped, TypedStep, PTL DEF Spec

-----------------------------------------------------------------------------
(* The sums *)

\* The clients at a label are counted by a number.
LEMMA AtFinite == \A l : IsFiniteSet(At(l)) /\ Cardinality(At(l)) \in Nat
<1> TAKE l
<1>1. IsFiniteSet(Clients) /\ At(l) \subseteq Clients
  BY LoadAssumption DEF At
<1>2. QED
  BY <1>1, FS_Subset, FS_CardinalityType

\* A client that moves leaves one label and enters another.
LEMMA Moves ==
  ASSUME Typed, NEW c \in Clients, NEW m, Goto(c, m), NEW l
  PROVE  /\ pc[c] # l /\ m # l => At(l)' = At(l)
         /\ pc[c] # l /\ m = l => Cardinality(At(l)') = Cardinality(At(l)) + 1
         /\ pc[c] = l /\ m # l => Cardinality(At(l)') = Cardinality(At(l)) - 1
<1>1. /\ \A d \in Clients \ {c} : pc'[d] = pc[d]
      /\ pc'[c] = m
  BY DEF Goto, Typed
<1>2. pc[c] # l /\ m # l => At(l)' = At(l)
  BY <1>1 DEF At
<1>3. pc[c] # l /\ m = l => Cardinality(At(l)') = Cardinality(At(l)) + 1
  <2> HAVE pc[c] # l /\ m = l
  <2>1. At(l)' = At(l) \cup {c} /\ c \notin At(l)
    BY <1>1 DEF At
  <2>2. QED
    BY <2>1, AtFinite, FS_AddElement
<1>4. pc[c] = l /\ m # l => Cardinality(At(l)') = Cardinality(At(l)) - 1
  <2> HAVE pc[c] = l /\ m # l
  <2>1. At(l)' = At(l) \ {c} /\ c \in At(l)
    BY <1>1 DEF At
  <2>2. QED
    BY <2>1, AtFinite, FS_RemoveElement
<1>5. QED
  BY <1>2, <1>3, <1>4

\* Before the run every count is zero.
LEMMA InitSums == Init => Sums /\ Reported
<1> SUFFICES ASSUME Init PROVE Sums /\ Reported
  OBVIOUS
<1>1. At("tally") = {} /\ At("latency") = {}
  BY DEF At, Init, Start
<1>2. Sums
  BY <1>1, FS_EmptySet DEF Sums, Init, Start
<1>3. Reported
  BY DEF Reported, Init, Start, NoReport
<1>4. QED
  BY <1>2, <1>3

\* The steps of a client that count nothing.
LEMMA QuietStep ==
  ASSUME Typed, Sums, NEW c \in Clients, NEW m \in Labels \ {"tally", "latency"},
         Goto(c, m), pc[c] \notin {"tally", "latency"},
         UNCHANGED <<total, success, failures, samples>>
  PROVE  Sums'
<1>1. At("tally")' = At("tally") /\ At("latency")' = At("latency")
  BY Moves
<1>2. QED
  BY <1>1 DEF Sums

\* The three steps that count.
LEMMA CountStep == ASSUME Typed, Sums, NEW c \in Clients, Count(c) PROVE Sums'
<1>1. At("latency")' = At("latency")
  BY Moves DEF Count
<1>2. Cardinality(At("tally")') = Cardinality(At("tally")) + 1
  BY Moves DEF Count
<1>3. QED
  BY <1>1, <1>2, AtFinite DEF Count, Sums, Typed

\* Counting a response moves its client from one class of the sums to another.
LEMMA TallyStep == ASSUME Typed, Sums, NEW c \in Clients, Tally(c) PROVE Sums'
<1>1. Cardinality(At("tally")') = Cardinality(At("tally")) - 1
  BY Moves DEF Tally
<1>2. CASE rc[c] = 0 /\ success' = success + 1 /\ Goto(c, "latency") /\ UNCHANGED failures
  <2>1. Cardinality(At("latency")') = Cardinality(At("latency")) + 1
    BY <1>2, Moves DEF Tally
  <2>2. QED
    BY <1>1, <1>2, <2>1, AtFinite DEF Tally, Sums, Typed
<1>3. CASE rc[c] = -1 /\ failures' = failures + 1 /\ Goto(c, "reconnect") /\ UNCHANGED success
  <2>1. At("latency")' = At("latency")
    BY <1>3, Moves DEF Tally
  <2>2. QED
    BY <1>1, <1>3, <2>1, AtFinite DEF Tally, Sums, Typed
<1>4. QED
  BY <1>2, <1>3 DEF Tally

\* Adding a latency changes only what is counted beside the successes.
LEMMA LatencyStep == ASSUME Typed, Sums, NEW c \in Clients, Latency(c) PROVE Sums'
<1>1. At("tally")' = At("tally")
  BY Moves DEF Latency
<1>2. Cardinality(At("latency")') = Cardinality(At("latency")) - 1
  BY Moves DEF Latency
<1>3. QED
  BY <1>1, <1>2, AtFinite DEF Latency, Sums, Typed

\* Every step keeps the totals the sums of what the clients have counted.
LEMMA SumsStep == Typed /\ Sums /\ [Next]_vars => Sums'
<1> SUFFICES ASSUME Typed, Sums, [Next]_vars PROVE Sums'
  OBVIOUS
<1>1. ASSUME NEW c \in Clients, Client(c) PROVE Sums'
  <2>1. CASE Open(c)
    BY <2>1, QuietStep DEF Open, stats, Labels
  <2>2. CASE Begin(c)
    BY <2>2, QuietStep DEF Begin, stats, Labels
  <2>3. CASE Leave(c)
    BY <2>3, QuietStep DEF Leave, stats, Labels
  <2>4. CASE TakeId(c)
    BY <2>4, QuietStep DEF TakeId, stats, Labels
  <2>5. CASE Send(c)
    BY <2>5, QuietStep DEF Send, stats, Labels
  <2>6. CASE Recv(c)
    BY <2>6, QuietStep DEF Recv, stats, Labels
  <2>7. QED
    BY <1>1, <2>1, <2>2, <2>3, <2>4, <2>5, <2>6, CountStep, TallyStep, LatencyStep DEF Client
<1>2. ASSUME UNCHANGED <<pc, total, success, failures, samples>> PROVE Sums'
  BY <1>2 DEF Sums, At
<1>3. QED
  BY <1>1, <1>2 DEF Next, Serve, Drop, Deadline, Report, stats, vars

\* Once it is printed the clients are done, and so are the counters.
LEMMA ReportedStep == Typed /\ Reported /\ [Next]_vars => Reported'
<1> SUFFICES ASSUME Typed, Reported, [Next]_vars PROVE Reported'
  OBVIOUS
<1>1. ASSUME NEW c \in Clients, Client(c) PROVE Reported'
  <2>1. pc[c] # "done" /\ UNCHANGED report
    BY <1>1 DEF Client, Open, Begin, Leave, TakeId, Send, Recv, Count, Tally, Latency
  <2>2. QED
    BY <2>1 DEF Reported
<1>2. CASE Report
  BY <1>2 DEF Report, Reported, stats
<1>3. ASSUME UNCHANGED <<pc, stats, report>> PROVE Reported'
  BY <1>3 DEF Reported, stats
<1>4. QED
  BY <1>1, <1>2, <1>3 DEF Next, Serve, Drop, Deadline, vars

\* When main prints, no client is between two additions.
LEMMA DoneAddsUp == Typed /\ Sums /\ Reported => ReportAddsUp
<1> SUFFICES ASSUME Typed, Sums, Reported, report.printed
             PROVE  /\ report.total = report.success + report.failures
                    /\ report.samples = report.success
  BY DEF ReportAddsUp
<1>1. /\ \A c \in Clients : pc[c] = "done"
      /\ report = [printed |-> TRUE, success |-> success, total |-> total,
                   failures |-> failures, samples |-> samples]
  BY Zenon DEF Reported
<1>2. At("tally") = {} /\ At("latency") = {}
  BY <1>1 DEF At
<1>3. Cardinality(At("tally")) = 0 /\ Cardinality(At("latency")) = 0
  BY <1>2, FS_EmptySet
<1>4. total = success + failures /\ samples = success
  BY <1>3 DEF Sums, Typed
<1>5. /\ report.total = total /\ report.success = success
      /\ report.failures = failures /\ report.samples = samples
  BY <1>1
<1>6. QED
  BY <1>4, <1>5

\* The sums hold throughout, and so in the report main prints after the joins.
LEMMA AlwaysSums == Spec => [](Sums /\ Reported)
<1>1. Init => Sums /\ Reported
  BY InitSums
<1>2. QED
  BY <1>1, SumsStep, ReportedStep, AlwaysTyped, PTL DEF Spec

(* loadgen.c:277-287, 376-387: however the additions of the clients        *)
(* interleave, the line that main prints adds up.                          *)
THEOREM ReportAdds == Spec => []ReportAddsUp
  BY AlwaysTyped, AlwaysSums, DoneAddsUp, PTL

-----------------------------------------------------------------------------
(* A success needs a failure *)

\* No client holds a reply.
LEMMA InitSpends == Init => Spends
  BY DEF Init, Start, Spends

\* Every step keeps a successful reply and an open connection apart.
LEMMA SpendsStep == Typed /\ Spends /\ [Next]_vars => Spends'
<1> SUFFICES ASSUME Typed, Spends, [Next]_vars PROVE Spends'
  OBVIOUS
<1> USE DEF Typed, Spends, Goto, SetLink, Return
<1>1. ASSUME NEW c \in Clients, Client(c) PROVE Spends'
  <2>1. CASE Open(c)
    BY <2>1 DEF Open, request
  <2>2. CASE Begin(c)
    BY <2>2 DEF Begin
  <2>3. CASE Leave(c)
    BY <2>3 DEF Leave, request
  <2>4. CASE TakeId(c)
    BY <2>4 DEF TakeId
  <2>5. CASE Send(c)
    BY <2>5 DEF Send
  <2>6. CASE Recv(c)
    BY <2>6 DEF Recv
  <2>7. CASE Count(c)
    BY <2>7 DEF Count, request
  <2>8. CASE Tally(c)
    BY <2>8 DEF Tally, request
  <2>9. CASE Latency(c)
    BY <2>9 DEF Latency, request
  <2>10. QED
    BY <1>1, <2>1, <2>2, <2>3, <2>4, <2>5, <2>6, <2>7, <2>8, <2>9 DEF Client
<1>2. ASSUME NEW c \in Clients, Serve(c) PROVE Spends'
  BY <1>2 DEF Serve, ServePost, ServeGet, ServeDelete, Answer, Waiting, request
<1>3. ASSUME NEW c \in Clients, Drop(c) PROVE Spends'
  BY <1>3 DEF Drop, request
<1>4. ASSUME UNCHANGED <<pc, link, reply, rc>> PROVE Spends'
  BY <1>4
<1>5. QED
  BY <1>1, <1>2, <1>3, <1>4 DEF Next, Deadline, Report, vars, request

\* A successful reply comes from a connection that is spent.
LEMMA AlwaysSpends == Spec => []Spends
  BY InitSpends, SpendsStep, AlwaysTyped, PTL DEF Spec

\* The spent clients are counted by a number, at most that of all clients.
LEMMA SpentFinite ==
  /\ IsFiniteSet(Spent) /\ Cardinality(Spent) \in Nat
  /\ Cardinality(Spent) <= Cardinality(Clients) /\ Cardinality(Clients) \in Nat
<1>1. IsFiniteSet(Clients) /\ Spent \subseteq Clients
  BY LoadAssumption DEF Spent
<1>2. QED
  BY <1>1, FS_Subset, FS_CardinalityType

\* Clients are finitely many, so their spent connections can be counted.
LEMMA SpentFiniteNext == IsFiniteSet(Spent') /\ Cardinality(Spent') \in Nat
<1>1. IsFiniteSet(Clients) /\ Spent' \subseteq Clients
  BY LoadAssumption DEF Spent
<1>2. QED
  BY <1>1, FS_Subset, FS_CardinalityType

\* While no request is tallied no client becomes unspent.
LEMMA SpentGrows ==
  ASSUME Typed, Alternates, Spent \subseteq Spent', UNCHANGED <<success, failures>>
  PROVE  Alternates'
<1>1. Cardinality(Spent) <= Cardinality(Spent')
  BY SpentFiniteNext, FS_Subset
<1>2. QED
  BY <1>1, SpentFinite, SpentFiniteNext DEF Alternates, Typed

\* Counting a response keeps the bound: a success spends the connection, a failure adds one.
LEMMA TallySpends == ASSUME Typed, Spends, Alternates, NEW c \in Clients, Tally(c) PROVE Alternates'
<1>1. \A d \in Clients \ {c} : pc'[d] = pc[d]
  BY DEF Tally, Goto, Typed
<1>2. link' = link /\ rc' = rc
  BY DEF Tally, request
<1>3. CASE rc[c] = 0 /\ success' = success + 1 /\ Goto(c, "latency") /\ UNCHANGED failures
  <2>1. link[c] = "closed" /\ pc[c] = "tally"
    BY <1>3 DEF Spends, Tally
  <2>2. pc'[c] = "latency"
    BY <1>3 DEF Goto, Typed
  <2>3. c \notin Spent
    BY <1>3, <2>1 DEF Spent
  <2>4. Spent' = Spent \cup {c}
    BY <1>1, <1>2, <2>1, <2>2 DEF Spent
  <2>5. Cardinality(Spent') = Cardinality(Spent) + 1
    BY <2>3, <2>4, SpentFinite, FS_AddElement
  <2>6. QED
    BY <1>3, <2>5, SpentFinite DEF Alternates, Typed
<1>4. CASE rc[c] = -1 /\ failures' = failures + 1 /\ Goto(c, "reconnect") /\ UNCHANGED success
  <2>1. Spent \ {c} \subseteq Spent'
    BY <1>1, <1>2 DEF Spent
  <2>2. Cardinality(Spent \ {c}) <= Cardinality(Spent')
    BY <2>1, SpentFiniteNext, FS_Subset
  <2>3. Cardinality(Spent \ {c}) = Cardinality(Spent) - 1
    <3>1. c \in Spent
      BY <1>4 DEF Spent, Tally
    <3>2. QED
      BY <3>1, SpentFinite, FS_RemoveElement
  <2>4. Cardinality(Spent \ {c}) \in Nat
    BY SpentFinite, FS_RemoveElement, FS_CardinalityType
  <2>5. QED
    BY <1>4, <2>2, <2>3, <2>4, SpentFinite, SpentFiniteNext DEF Alternates, Typed
<1>5. QED
  BY <1>3, <1>4 DEF Tally

\* Every step keeps successes bounded by failures and fresh connections.
LEMMA AlternatesStep == Typed /\ Spends /\ Alternates /\ [Next]_vars => Alternates'
<1> SUFFICES ASSUME Typed, Spends, Alternates, [Next]_vars PROVE Alternates'
  OBVIOUS
<1>1. ASSUME NEW c \in Clients, Client(c) PROVE Alternates'
  <2> USE DEF Typed, Spent, Goto, SetLink, Return
  <2>1. CASE Open(c)
    <3>1. Spent \subseteq Spent'
      BY <2>1 DEF Open, request
    <3>2. QED
      BY <2>1, <3>1, SpentGrows DEF Open, stats
  <2>2. CASE Begin(c)
    <3>1. Spent \subseteq Spent'
      BY <2>2 DEF Begin
    <3>2. QED
      BY <2>2, <3>1, SpentGrows DEF Begin, stats
  <2>3. CASE Leave(c)
    <3>1. Spent \subseteq Spent'
      BY <2>3 DEF Leave, request
    <3>2. QED
      BY <2>3, <3>1, SpentGrows DEF Leave, stats
  <2>4. CASE TakeId(c)
    <3>1. Spent \subseteq Spent'
      BY <2>4 DEF TakeId
    <3>2. QED
      BY <2>4, <3>1, SpentGrows DEF TakeId, stats
  <2>5. CASE Send(c)
    <3>1. Spent \subseteq Spent'
      BY <2>5 DEF Send
    <3>2. QED
      BY <2>5, <3>1, SpentGrows DEF Send, stats
  <2>6. CASE Recv(c)
    <3>1. Spent \subseteq Spent'
      BY <2>6 DEF Recv
    <3>2. QED
      BY <2>6, <3>1, SpentGrows DEF Recv, stats
  <2>7. CASE Count(c)
    <3>1. Spent \subseteq Spent'
      BY <2>7 DEF Count, request
    <3>2. QED
      BY <2>7, <3>1, SpentGrows DEF Count
  <2>8. CASE Latency(c)
    <3>1. Spent \subseteq Spent'
      BY <2>8 DEF Latency, request
    <3>2. QED
      BY <2>8, <3>1, SpentGrows DEF Latency
  <2>9. QED
    BY <1>1, <2>1, <2>2, <2>3, <2>4, <2>5, <2>6, <2>7, <2>8, TallySpends DEF Client
<1>2. ASSUME NEW c \in Clients, Serve(c) \/ Drop(c) PROVE Alternates'
  <2>1. UNCHANGED <<pc, rc, success, failures>>
    BY <1>2 DEF Serve, Drop, request, stats
  <2>2. \A d \in Clients : link[d] = "closed" => link'[d] = "closed"
    BY <1>2 DEF Serve, ServePost, ServeGet, ServeDelete, Answer, Drop, SetLink, Typed
  <2>3. Spent \subseteq Spent'
    BY <2>1, <2>2 DEF Spent
  <2>4. QED
    BY <2>1, <2>3, SpentGrows
<1>3. ASSUME UNCHANGED <<pc, link, rc, success, failures>> PROVE Alternates'
  BY <1>3 DEF Alternates, Spent
<1>4. QED
  BY <1>1, <1>2, <1>3 DEF Next, Deadline, Report, vars, request, stats

\* Neither a success nor a failure has been counted.
LEMMA InitAlternates == Init => Alternates
<1>1. Init => success = 0 /\ failures = 0
  BY DEF Init, Start
<1>2. QED
  BY <1>1, SpentFinite DEF Alternates

\* Spent clients are clients.
LEMMA AlternatesEnough == Typed /\ Alternates => SuccessNeedsFailure
  BY SpentFinite DEF Typed, Alternates, SuccessNeedsFailure

(* loadgen.c:285-286: the server closes what the client asks to keep, so   *)
(* with any number of clients successes and failures alternate.            *)
THEOREM SuccessesAlternate == Spec => []SuccessNeedsFailure
<1>1. Spec => []Alternates
  BY InitAlternates, AlternatesStep, AlwaysTyped, AlwaysSpends, PTL DEF Spec
<1>2. QED
  BY <1>1, AlwaysTyped, AlternatesEnough, PTL

-----------------------------------------------------------------------------
(* The ids *)

\* No id has been taken.
LEMMA InitFresh == Init => FreshIds
  BY DEF Init, Start, FreshIds, Posting, Waiting

\* A step that posts nothing new keeps the ids fresh.
LEMMA FreshKept ==
  ASSUME Typed, FreshIds, UNCHANGED <<table, global_id>>,
         \A c \in Clients : Posting(c)' => Posting(c) /\ id'[c] = id[c]
  PROVE  FreshIds'
  BY DEF FreshIds

\* The fetch-and-add gives an id that nobody has had.
LEMMA TakeFresh == ASSUME Typed, FreshIds, NEW c \in Clients, TakeId(c) PROVE FreshIds'
<1>1. /\ id'[c] = global_id /\ global_id' = global_id + 1 /\ table' = table
      /\ \A d \in Clients \ {c} : id'[d] = id[d] /\ (Posting(d)' => Posting(d))
  BY DEF TakeId, Typed, Goto, Posting, Waiting
<1>2. \A d \in Clients \ {c} : Posting(d)' => id'[d] < global_id
  BY <1>1 DEF FreshIds
<1>3. \A d \in Clients \ {c} : id[d] \in Nat
  BY DEF Typed
<1>4. (\A i \in table : i < global_id /\ i \in Nat) /\ global_id \in Nat
  BY DEF FreshIds, Typed
<1>5. \A i \in table' : i < global_id'
  BY <1>1, <1>4
<1>6. \A d \in Clients : Posting(d)' => id'[d] < global_id' /\ id'[d] \notin table'
  BY <1>1, <1>2, <1>3, <1>4 DEF FreshIds
<1>7. \A d, e \in Clients : Posting(d)' /\ Posting(e)' /\ id'[d] = id'[e] => d = e
  BY <1>1, <1>2, <1>3, <1>4 DEF FreshIds
<1>8. QED
  BY <1>5, <1>6, <1>7 DEF FreshIds

\* An id enters the table as its POST ends.
LEMMA PostFresh ==
  ASSUME Typed, FreshIds, NEW c \in Clients, Serve(c), ServePost(c) PROVE FreshIds'
<1>1. Posting(c) /\ table' = table \cup {id[c]} /\ global_id' = global_id /\ id' = id
  BY DEF Serve, ServePost, Posting, Waiting, stats, request
<1>2. ~Posting(c)'
  BY DEF Serve, ServePost, Answer, SetLink, Posting, Waiting, Typed
<1>3. \A d \in Clients \ {c} : Posting(d)' => Posting(d)
  BY DEF Serve, ServePost, Answer, SetLink, Posting, Waiting, Typed, request
<1>4. QED
  BY <1>1, <1>2, <1>3 DEF FreshIds

\* Every step keeps the ids taken below the counter and distinct.
LEMMA FreshStep == Typed /\ FreshIds /\ [Next]_vars => FreshIds'
<1> SUFFICES ASSUME Typed, FreshIds, [Next]_vars PROVE FreshIds'
  OBVIOUS
<1>1. ASSUME NEW c \in Clients, Client(c) PROVE FreshIds'
  <2>1. ASSUME NEW d \in Clients, ~TakeId(c), Posting(d)' PROVE Posting(d) /\ id'[d] = id[d]
    <3> USE DEF Typed, Posting, Waiting, Goto, SetLink
    <3>1. CASE Open(c)
      BY <2>1, <3>1 DEF Open, request
    <3>2. CASE Begin(c)
      BY <2>1, <3>2 DEF Begin
    <3>3. CASE Leave(c)
      BY <2>1, <3>3 DEF Leave, request
    <3>4. CASE Send(c)
      BY <2>1, <3>4 DEF Send
    <3>5. CASE Recv(c)
      BY <2>1, <3>5 DEF Recv
    <3>6. CASE Count(c) \/ Tally(c) \/ Latency(c)
      BY <2>1, <3>6 DEF Count, Tally, Latency, request
    <3>7. QED
      BY <1>1, <2>1, <3>1, <3>2, <3>3, <3>4, <3>5, <3>6 DEF Client
  <2>2. ~TakeId(c) => UNCHANGED <<table, global_id>>
    BY <1>1 DEF Client, Open, Begin, Leave, Send, Recv, Count, Tally, Latency, stats
  <2>3. QED
    BY <2>1, <2>2, FreshKept, TakeFresh
<1>2. ASSUME NEW c \in Clients, Serve(c) PROVE FreshIds'
  <2>1. \A d \in Clients : Posting(d)' => Posting(d) /\ id'[d] = id[d]
    BY <1>2 DEF Serve, ServePost, ServeGet, ServeDelete, Answer, SetLink, Posting, Waiting,
                Typed, request
  <2>2. CASE ServeGet(c)
    BY <1>2, <2>1, <2>2, FreshKept DEF Serve, ServeGet, stats
  <2>3. CASE ServeDelete(c)
    <3>1. table' \subseteq table /\ UNCHANGED global_id
      BY <1>2, <2>3 DEF Serve, ServeDelete, stats
    <3>2. QED
      BY <2>1, <3>1 DEF FreshIds
  <2>4. QED
    BY <1>2, <2>2, <2>3, PostFresh DEF Serve
<1>3. ASSUME NEW c \in Clients, Drop(c) PROVE FreshIds'
  <2>1. \A d \in Clients : Posting(d)' => Posting(d) /\ id'[d] = id[d]
    BY <1>3 DEF Drop, SetLink, Posting, Waiting, Typed, request
  <2>2. QED
    BY <1>3, <2>1, FreshKept DEF Drop, stats
<1>4. ASSUME UNCHANGED <<pc, link, method, id, reply, table, global_id>> PROVE FreshIds'
  BY <1>4 DEF FreshIds, Posting, Waiting
<1>5. QED
  BY <1>1, <1>2, <1>3, <1>4 DEF Next, Deadline, Report, vars, request, stats

\* The ids stay distinct.
LEMMA AlwaysFresh == Spec => []FreshIds
  BY InitFresh, FreshStep, AlwaysTyped, PTL DEF Spec

\* A POST of an id that is not in the table is not refused.
LEMMA FreshAnswer ==
  Typed /\ FreshIds /\ IdsNotRepeated /\ [Next]_vars => IdsNotRepeated'
<1> SUFFICES ASSUME Typed, FreshIds, IdsNotRepeated, [Next]_vars PROVE IdsNotRepeated'
  OBVIOUS
<1>1. ASSUME NEW c \in Clients, Client(c) PROVE IdsNotRepeated'
  BY <1>1 DEF Client, Open, Begin, Leave, TakeId, Send, Recv, Count, Tally, Latency, Typed,
              IdsNotRepeated
<1>2. ASSUME NEW c \in Clients, Serve(c) PROVE IdsNotRepeated'
  <2>1. CASE ServePost(c)
    <3>1. id[c] \notin table
      BY <2>1 DEF ServePost, Posting, FreshIds
    <3>2. reply' = [reply EXCEPT ![c] = "200"]
      BY <2>1, <3>1 DEF ServePost, Answer
    <3>3. QED
      BY <3>2 DEF Typed, IdsNotRepeated
  <2>2. CASE ServeGet(c)
    BY <2>2 DEF ServeGet, Answer, Typed, IdsNotRepeated
  <2>3. CASE ServeDelete(c)
    BY <2>3 DEF ServeDelete, Answer, Typed, IdsNotRepeated
  <2>4. QED
    BY <1>2, <2>1, <2>2, <2>3 DEF Serve
<1>3. ASSUME UNCHANGED reply PROVE IdsNotRepeated'
  BY <1>3 DEF IdsNotRepeated
<1>4. QED
  BY <1>1, <1>2, <1>3 DEF Next, Drop, Deadline, Report, vars

(* loadgen.c:189, 248: the ids come from one atomic counter, so with any   *)
(* number of clients no POST into an empty table is refused.               *)
THEOREM PostsNotRefused == Spec => []IdsNotRepeated
<1>1. Init => IdsNotRepeated
  BY DEF Init, Start, IdsNotRepeated
<1>2. QED
  BY <1>1, FreshAnswer, AlwaysTyped, AlwaysFresh, PTL DEF Spec
=============================================================================
