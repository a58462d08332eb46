------------------------------ MODULE LRUCache ------------------------------
(***************************************************************************)
(* What cache.h promises the threads that share a cache_t: each call takes *)
(* effect in one step between its invocation and its return, and that step *)
(* does to the contents what LRU says.                                     *)
(***************************************************************************)
EXTENDS LRU

CONSTANT Threads

VARIABLES cache,   \* the contents
          call,    \* what each thread has called, NoCall outside a call
          reply    \* what it will return: <<>> until the call took effect

NoCall == [op |-> "none"]

Calls ==
       [op : {"get", "delete"}, key : Keys]
  \cup [op : {"put"}, key : Keys, val : Values]

Invoke(t, c) ==
  /\ call[t] = NoCall
  /\ call' = [call EXCEPT ![t] = c]
  /\ UNCHANGED <<cache, reply>>

Apply(c, contents) ==
  CASE c.op = "get"    -> cache_get(contents, c.key)
    [] c.op = "put"    -> cache_put(contents, c.key, c.val)
    [] c.op = "delete" -> cache_delete(contents, c.key)

TakeEffect(t) ==
  /\ call[t] # NoCall /\ reply[t] = <<>>
  /\ cache' = Apply(call[t], cache)
  /\ reply' = [reply EXCEPT ![t] =
                 <<IF call[t].op = "get" THEN cache.entry[call[t].key] ELSE NoValue>>]
  /\ UNCHANGED call

Return(t) ==
  /\ reply[t] # <<>>
  /\ call' = [call EXCEPT ![t] = NoCall]
  /\ reply' = [reply EXCEPT ![t] = <<>>]
  /\ UNCHANGED cache

CacheInit ==
  /\ cache = cache_create
  /\ call = [t \in Threads |-> NoCall]
  /\ reply = [t \in Threads |-> <<>>]

CacheNext ==
  \E t \in Threads : TakeEffect(t) \/ Return(t) \/ \E c \in Calls : Invoke(t, c)

CacheSpec == CacheInit /\ [][CacheNext]_<<cache, call, reply>>
=============================================================================
