----------------------------- MODULE AcceptQueue -----------------------------
(***************************************************************************)
(* What the queue between the master thread and the workers promises:      *)
(* connections are taken in the order in which the master put them there,  *)
(* at most Size of them wait, and each is taken by one worker.             *)
(***************************************************************************)
EXTENDS Naturals, Sequences

CONSTANTS Sockets, NoSocket, Threads, Size

VARIABLES queue,   \* connections that wait
          hand     \* the connection of each worker

vars == <<queue, hand>>

Init == queue = <<>> /\ hand = [w \in Threads |-> NoSocket]

Put ==
  /\ Len(queue) < Size
  /\ \E s \in Sockets : queue' = Append(queue, s)
  /\ UNCHANGED hand

Take(w) ==
  /\ queue # <<>> /\ hand[w] = NoSocket
  /\ hand' = [hand EXCEPT ![w] = Head(queue)]
  /\ queue' = Tail(queue)

Finish(w) ==
  /\ hand[w] # NoSocket
  /\ hand' = [hand EXCEPT ![w] = NoSocket]
  /\ UNCHANGED queue

Next == Put \/ \E w \in Threads : Take(w) \/ Finish(w)

Spec == Init /\ [][Next]_vars
=============================================================================
