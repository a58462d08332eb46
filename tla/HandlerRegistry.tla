--------------------------- MODULE HandlerRegistry ---------------------------
(***************************************************************************)
(* CivetWeb's list of request handlers: mg_set_request_handler adds,       *)
(* updates and removes them while workers look them up and call them.      *)
(* Each acquisition of the context's lock is one step.  A worker counts    *)
(* itself in the handler's refcount; a caller that finds the count not     *)
(* zero sleeps and tries again.  (How a URI finds its entry: Handlers.)    *)
(***************************************************************************)
EXTENDS Integers, Sequences, FiniteSets

SeqExt == INSTANCE SequencesExt

CONSTANTS Workers, Callers, Uris, Callbacks

ASSUME RegistryAssumption == IsFiniteSet(Workers) /\ IsFiniteSet(Uris)

NoNode == 0
Remove == "remove"   \* is_delete_request

\* Enough structures for every entry and every one still pointed to.
Nodes == 1..(Cardinality(Uris) + Cardinality(Workers))

VARIABLES
  list,     \* dom_ctx->handlers
  node,     \* the structures: uri, callback, refs, removing
  wpc,      \* each worker: "idle", "auth" or "call"
  info,     \* its handler_info
  called,   \* its callback_handler
  resource, \* its is_callback_resource
  op,       \* what each caller is at: uri and callback or Remove, or Idle
  \* History variable, read by no guard but the bound.
  twice     \* structures that a request has given back twice

worker == <<wpc, info, called, resource>>
vars   == <<list, node, worker, op, twice>>

Idle == [uri |-> "none", handler |-> "none"]

Entry(u, h) == [uri |-> u, handler |-> h, refs |-> 0, removing |-> FALSE]

Blank == Entry("none", "none")

Linked == {list[i] : i \in DOMAIN list}
At(u)  == {i \in DOMAIN list : node[list[i]].uri = u}

-----------------------------------------------------------------------------
(* mg_set_handler_type *)

Call(c) ==
  /\ op[c] = Idle
  /\ \E u \in Uris, h \in Callbacks \cup {Remove} :
       op' = [op EXCEPT ![c] = [uri |-> u, handler |-> h]]
  /\ UNCHANGED <<list, node, worker, twice>>

Return(c) == op' = [op EXCEPT ![c] = Idle]

\* Mutant: an entry in use is not told that it is to be removed.
Wait_Unmarked(c, n) ==
  /\ node[n].refs # 0
  /\ UNCHANGED <<list, node, op, twice>>

\* In use: a removal marks it, so that no request takes it any more.
Wait(c, n) ==
  /\ node[n].refs # 0
  /\ node' = [node EXCEPT ![n].removing = @ \/ op[c].handler = Remove]
  /\ UNCHANGED <<list, op, twice>>

\* Mutant: an update does not wait for the end of use.
Update_NoWait(c, n) ==
  /\ op[c].handler # Remove
  /\ node' = [node EXCEPT ![n].handler = op[c].handler]
  /\ Return(c) /\ UNCHANGED <<list, twice>>

Update(c, n) ==
  /\ node[n].refs = 0 /\ op[c].handler # Remove
  /\ node' = [node EXCEPT ![n].handler = op[c].handler]
  /\ Return(c) /\ UNCHANGED <<list, twice>>

Unlink(c, i) ==
  /\ node[list[i]].refs = 0 /\ op[c].handler = Remove
  /\ list' = SeqExt!RemoveAt(list, i)
  /\ node' = [node EXCEPT ![list[i]] = Blank]
  /\ Return(c) /\ UNCHANGED twice

\* Nothing to remove, or no memory for a new entry; or one at the end of the
\* list, in a structure that nothing points to: which makes no difference.
AddNew(c) ==
  /\ \/ UNCHANGED <<list, node, twice>>
     \/ LET n == CHOOSE m \in Nodes : m \notin Linked \cup {info[w] : w \in Workers}
        IN  /\ op[c].handler # Remove
            /\ list' = Append(list, n)
            /\ node' = [node EXCEPT ![n] = Entry(op[c].uri, op[c].handler)]
            /\ twice' = twice \ {n}
  /\ Return(c)

SetHandler(c) ==
  /\ op[c] # Idle
  /\ \/ At(op[c].uri) = {} /\ AddNew(c)
     \/ \E i \in At(op[c].uri) : \/ Wait(c, list[i])
                                 \/ Update(c, list[i])
                                 \/ Unlink(c, i)
  /\ UNCHANGED worker

-----------------------------------------------------------------------------
(* handle_request *)

\* get_request_handler; an entry that is being removed counts as none.
LookUp(w) ==
  /\ wpc[w] = "idle"
  /\ wpc' = [wpc EXCEPT ![w] = "auth"]
  /\ \E u \in Uris :
       LET usable == {list[i] : i \in {j \in At(u) : ~node[list[j]].removing}}
       IN  \/ /\ usable = {}
              /\ info' = [info EXCEPT ![w] = NoNode] /\ resource' = [resource EXCEPT ![w] = FALSE]
              /\ UNCHANGED <<node, called>>
           \/ \E n \in usable :
                /\ info' = [info EXCEPT ![w] = n] /\ resource' = [resource EXCEPT ![w] = TRUE]
                /\ called' = [called EXCEPT ![w] = node[n].handler]
                /\ node' = [node EXCEPT ![n].refs = @ + 1]
  /\ UNCHANGED <<list, op, twice>>

\* Mutant: the handler is not given back.
release_handler_ref_Not(w) == UNCHANGED node

release_handler_ref(w) ==
  IF info[w] = NoNode THEN UNCHANGED node
                      ELSE node' = [node EXCEPT ![info[w]].refs = @ - 1]

\* A reference is left over from a callback that declined.
Stale(w) == info[w] # NoNode /\ ~resource[w]

\* handle_request returns, and its variables are gone.
Finish(w) ==
  /\ wpc'      = [wpc EXCEPT ![w] = "idle"]
  /\ info'     = [info EXCEPT ![w] = NoNode]
  /\ called'   = [called EXCEPT ![w] = "none"]
  /\ resource' = [resource EXCEPT ![w] = FALSE]

(* The request is rejected: an auth handler, or no authorization for it.   *)
(* Bound: no structure is given back a second time more than once.         *)
Reject(w) ==
  /\ wpc[w] = "auth" /\ ~(Stale(w) /\ info[w] \in twice)
  /\ twice' = IF Stale(w) THEN twice \cup {info[w]} ELSE twice
  /\ release_handler_ref(w)
  /\ Finish(w)
  /\ UNCHANGED <<list, op>>

\* On to the files: read, put, or found to be none to put.
ServeFile(w) ==
  /\ wpc[w] = "auth" /\ ~resource[w]
  /\ Finish(w)
  /\ UNCHANGED <<list, node, op, twice>>

Authorize(w) ==
  /\ wpc[w] = "auth" /\ resource[w]
  /\ wpc' = [wpc EXCEPT ![w] = "call"]
  /\ UNCHANGED <<list, node, op, info, called, resource, twice>>

\* The callback served the request, or declines and leaves it to the files.
CallBack(w) ==
  /\ wpc[w] = "call"
  /\ release_handler_ref(w)
  /\ \/ Finish(w)
     \/ /\ wpc' = [wpc EXCEPT ![w] = "auth"]
        /\ called' = [called EXCEPT ![w] = "none"]
        /\ resource' = [resource EXCEPT ![w] = FALSE]
        /\ UNCHANGED info
  /\ UNCHANGED <<list, op, twice>>

HandleRequest(w) == Reject(w) \/ ServeFile(w) \/ Authorize(w) \/ CallBack(w)

-----------------------------------------------------------------------------
Init ==
  /\ list = <<>> /\ node = [n \in Nodes |-> Blank]
  /\ wpc = [w \in Workers |-> "idle"] /\ info = [w \in Workers |-> NoNode]
  /\ called = [w \in Workers |-> "none"] /\ resource = [w \in Workers |-> FALSE]
  /\ op = [c \in Callers |-> Idle] /\ twice = {}

Next ==
  \/ \E w \in Workers : LookUp(w) \/ HandleRequest(w)
  \/ \E c \in Callers : Call(c) \/ SetHandler(c)

Spec == Init /\ [][Next]_vars

\* A request that is looked up is finished; a caller tries again after mg_sleep.
FairSpec ==
  /\ Spec
  /\ \A w \in Workers : WF_vars(HandleRequest(w))
  /\ \A c \in Callers : WF_vars(SetHandler(c))

-----------------------------------------------------------------------------
Using(n) == {w \in Workers : info[w] = n /\ resource[w]}

(* civetweb.h:498, civetweb.c:14715-14746: while a request is between the  *)
(* lookup of its handler and the end of the call, the entry stays in the   *)
(* list with the callback that the request has read, whoever updates or    *)
(* removes it meanwhile, unless some request gave it back twice; and each  *)
(* URI has one entry.                                                      *)
StableInUse ==
  /\ \A w \in Workers : \A n \in Nodes \ twice :
       w \in Using(n) => n \in Linked /\ node[n].handler = called[w]
  /\ \A i, j \in DOMAIN list : node[list[i]].uri = node[list[j]].uri => i = j

(* civetweb.c:14967, 15038: the count that updates and removals wait for   *)
(* is the number of requests that use the entry, on every way a request    *)
(* can end but one: a callback that declines gives its reference back, and *)
(* the pointer that it leaves is given back again if the request is then   *)
(* rejected (15193-15230), which leaves the count one short.               *)
RefsExact ==
  \A n \in Linked :
    node[n].refs = Cardinality(Using(n)) - (IF n \in twice THEN 1 ELSE 0)

(* "This function waits until a removing/updating handler becomes unused", *)
(* civetweb.h:498: and then it ends.  A removal does, however many         *)
(* requests keep coming, unless the count of its entry is one short or     *)
(* another caller goes on removing and adding the same URI.                *)
RemoveReturns ==
  \A c \in Callers :
    (op[c].handler = Remove) ~>
      \/ op[c].handler # Remove
      \/ \E n \in twice : node[n].uri = op[c].uri
      \/ \E d \in Callers \ {c} : op[d].uri = op[c].uri
=============================================================================
