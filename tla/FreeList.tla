------------------------------ MODULE FreeList ------------------------------
(***************************************************************************)
(* moodycamel::ConcurrentQueue::FreeList: a stack of free blocks with a    *)
(* reference count in each node.  The count keeps a node's freeListNext    *)
(* from changing while another thread may use it in a compare-and-swap of  *)
(* freeListHead.  A node that cannot be put back at once, because others   *)
(* still hold references, is marked SHOULD_BE_ON_FREELIST and put back by  *)
(* whoever drops the last reference.                                       *)
(*                                                                         *)
(* Steps are single atomic operations, in some total order; a load that    *)
(* returns an old value is a load made earlier.  freeListNext is written   *)
(* only while the count is 0, so its store and the store of the count that *)
(* publishes it are one step.  A local that is not used again is forgotten *)
(* (None, Refs(0, FALSE)), which only keeps the state space small.         *)
(***************************************************************************)
EXTENDS Naturals, FiniteSets, Functions

CONSTANTS Threads, Nodes,
          None,      \* nullptr
          Calls      \* bound: calls of try_get, all threads together

ASSUME NoneAssumption   == None \notin Nodes \cup Threads
ASSUME CallsAssumption == Calls \in Nat
ASSUME FiniteAssumption == IsFiniteSet(Threads) /\ IsFiniteSet(Nodes)

VARIABLES
  freeListHead,
  freeListRefs,   \* node -> [count, should]: should is SHOULD_BE_ON_FREELIST
  freeListNext,
  held,           \* nodes each thread owns
  pc, calls,
  head,           \* try_get: the local head
  node,           \* the local prevHead, and the node that is being added
  saw,            \* try_get: the count loaded from the node
  link            \* the local next; in add, the head that is expected

freeListVars == <<freeListHead, freeListRefs, freeListNext, held,
                  pc, calls, head, node, saw, link>>

Refs(k, s) == [count |-> k, should |-> s]

(* All nodes begin in the hands of some thread: blocks are made by the     *)
(* queue and reach the list when they have been emptied.  Threads outside  *)
(* Active never call anything.                                             *)
FreeListInit(Active) ==
  /\ freeListHead = None
  /\ freeListRefs = [n \in Nodes |-> Refs(0, FALSE)]
  /\ freeListNext = [n \in Nodes |-> None]
  /\ \E o \in [Nodes -> Threads] : held = [t \in Threads |-> {n \in Nodes : o[n] = t}]
  /\ pc = [t \in Threads |-> IF t \in Active THEN "idle" ELSE "off"]
  /\ calls = 0
  /\ head = [t \in Threads |-> None]
  /\ node = [t \in Threads |-> None]
  /\ saw = [t \in Threads |-> Refs(0, FALSE)]
  /\ link = [t \in Threads |-> None]

Goto(t, where) == pc' = [pc EXCEPT ![t] = where]

(* while (head != nullptr): with no node left the call is over.            *)
Loop(t, h) == Goto(t, IF h = None THEN "idle" ELSE "refs")

Forget(f, t) == [f EXCEPT ![t] = None]

-----------------------------------------------------------------------------
(* add                                                                     *)

(* Mutant: who gives the node back puts it on the list, whoever still      *)
(* refers to it.                                                           *)
MarkAndAdd(t, n) ==
  /\ pc[t] = "idle" /\ n \in held[t]
  /\ held' = [held EXCEPT ![t] = @ \ {n}]
  /\ freeListRefs' = [freeListRefs EXCEPT ![n].should = TRUE]
  /\ Goto(t, "add") /\ node' = [node EXCEPT ![t] = n]
  /\ UNCHANGED <<freeListHead, freeListNext, calls, head, saw, link>>

Mark(t, n) ==
  /\ pc[t] = "idle" /\ n \in held[t]
  /\ held' = [held EXCEPT ![t] = @ \ {n}]
  /\ freeListRefs' = [freeListRefs EXCEPT ![n].should = TRUE]
  /\ IF freeListRefs[n].count = 0
     THEN Goto(t, "add") /\ node' = [node EXCEPT ![t] = n]
     ELSE UNCHANGED <<pc, node>>
  /\ UNCHANGED <<freeListHead, freeListNext, calls, head, saw, link>>

(* add_knowing_refcount_is_zero: load the head once ...                    *)
LoadExpected(t) ==
  /\ pc[t] = "add"
  /\ link' = [link EXCEPT ![t] = freeListHead]
  /\ Goto(t, "publish")
  /\ UNCHANGED <<freeListHead, freeListRefs, freeListNext, held, calls, head, node, saw>>

(* ... write freeListNext and set the count to 1, which clears the mark ...*)
Publish(t) ==
  /\ pc[t] = "publish"
  /\ freeListNext' = [freeListNext EXCEPT ![node[t]] = link[t]]
  /\ freeListRefs' = [freeListRefs EXCEPT ![node[t]] = Refs(1, FALSE)]
  /\ Goto(t, "push")
  /\ UNCHANGED <<freeListHead, held, calls, head, node, saw, link>>

(* ... and swap it in.                                                     *)
Push(t) ==
  /\ pc[t] = "push"
  /\ IF freeListHead = link[t]
     THEN /\ freeListHead' = node[t]
          /\ link' = Forget(link, t) /\ node' = Forget(node, t)
          /\ Loop(t, head[t])
     ELSE /\ link' = [link EXCEPT ![t] = freeListHead]
          /\ Goto(t, "retract")
          /\ UNCHANGED <<freeListHead, node>>
  /\ UNCHANGED <<freeListRefs, freeListNext, held, calls, head, saw>>

(* The swap failed: give up the list's reference and mark the node again;  *)
(* try again only when nobody else has a reference by now.                 *)
Retract(t) ==
  /\ pc[t] = "retract"
  /\ freeListRefs' = [freeListRefs EXCEPT ![node[t]] = Refs(@.count - 1, TRUE)]
  /\ IF freeListRefs[node[t]] = Refs(1, FALSE)
     THEN Goto(t, "publish") /\ UNCHANGED <<node, link>>
     ELSE Loop(t, head[t]) /\ node' = Forget(node, t) /\ link' = Forget(link, t)
  /\ UNCHANGED <<freeListHead, freeListNext, held, calls, head, saw>>

-----------------------------------------------------------------------------
(* try_get                                                                 *)

(* The call begins with a load of the head, and so does the loop when the  *)
(* reference could not be taken.                                           *)
LoadHead(t) ==
  /\ \/ pc[t] = "idle" /\ calls < Calls /\ calls' = calls + 1
     \/ pc[t] = "again" /\ UNCHANGED calls
  /\ head' = [head EXCEPT ![t] = freeListHead]
  /\ Loop(t, freeListHead)
  /\ UNCHANGED <<freeListHead, freeListRefs, freeListNext, held, node, saw, link>>

LoadRefs(t) ==
  /\ pc[t] = "refs"
  /\ IF freeListRefs[head[t]].count = 0
     THEN Goto(t, "again") /\ head' = Forget(head, t) /\ UNCHANGED saw
     ELSE Goto(t, "ref") /\ saw' = [saw EXCEPT ![t] = freeListRefs[head[t]]] /\ UNCHANGED head
  /\ UNCHANGED <<freeListHead, freeListRefs, freeListNext, held, calls, node, link>>

TakeRef(t) ==
  /\ pc[t] = "ref"
  /\ IF freeListRefs[head[t]] = saw[t]
     THEN /\ freeListRefs' = [freeListRefs EXCEPT ![head[t]].count = @ + 1]
          /\ node' = [node EXCEPT ![t] = head[t]]
          /\ Goto(t, "next") /\ UNCHANGED head
     ELSE Goto(t, "again") /\ head' = Forget(head, t) /\ UNCHANGED <<freeListRefs, node>>
  /\ saw' = [saw EXCEPT ![t] = Refs(0, FALSE)]
  /\ UNCHANGED <<freeListHead, freeListNext, held, calls, link>>

ReadNext(t) ==
  /\ pc[t] = "next"
  /\ link' = [link EXCEPT ![t] = freeListNext[head[t]]]
  /\ Goto(t, "pop")
  /\ UNCHANGED <<freeListHead, freeListRefs, freeListNext, held, calls, head, node, saw>>

(* Swap the head for its successor; a failed swap returns the new head.    *)
Pop(t) ==
  /\ pc[t] = "pop"
  /\ IF freeListHead = head[t]
     THEN freeListHead' = link[t] /\ Goto(t, "got") /\ head' = Forget(head, t)
     ELSE /\ head' = [head EXCEPT ![t] = freeListHead]
          /\ Goto(t, "drop")
          /\ UNCHANGED freeListHead
  /\ link' = Forget(link, t)
  /\ UNCHANGED <<freeListRefs, freeListNext, held, calls, node, saw>>

(* The node is ours: drop the list's reference and this thread's.          *)
Got(t) ==
  /\ pc[t] = "got"
  /\ freeListRefs' = [freeListRefs EXCEPT ![node[t]].count = @ - 2]
  /\ held' = [held EXCEPT ![t] = @ \cup {node[t]}]
  /\ node' = Forget(node, t)
  /\ Goto(t, "idle")
  /\ UNCHANGED <<freeListHead, freeListNext, calls, head, saw, link>>

(* Mutant: the last reference is dropped and the node is forgotten.        *)
DropForgets(t) ==
  /\ pc[t] = "drop"
  /\ freeListRefs' = [freeListRefs EXCEPT ![node[t]].count = @ - 1]
  /\ Loop(t, head[t]) /\ node' = Forget(node, t)
  /\ UNCHANGED <<freeListHead, freeListNext, held, calls, head, saw, link>>

(* It is not: drop the reference, and if it was the last one of a node     *)
(* that should be on the list, put the node there.                         *)
Drop(t) ==
  /\ pc[t] = "drop"
  /\ freeListRefs' = [freeListRefs EXCEPT ![node[t]].count = @ - 1]
  /\ IF freeListRefs[node[t]] = Refs(1, TRUE)
     THEN Goto(t, "add") /\ UNCHANGED node
     ELSE Loop(t, head[t]) /\ node' = Forget(node, t)
  /\ UNCHANGED <<freeListHead, freeListNext, held, calls, head, saw, link>>

-----------------------------------------------------------------------------
Call(t) == \/ \E n \in Nodes : Mark(t, n)
           \/ LoadExpected(t) \/ Publish(t) \/ Push(t) \/ Retract(t)
           \/ LoadHead(t) \/ LoadRefs(t) \/ TakeRef(t) \/ ReadNext(t) \/ Pop(t)
           \/ Got(t) \/ Drop(t)

FreeListNext == \E t \in Threads : Call(t)

(* Threads run, and give back what they hold.                              *)
FreeListFairness == \A t \in Threads : WF_freeListVars(Call(t))
-----------------------------------------------------------------------------
(* L is the set of the nodes that freeListHead and freeListNext lead to,   *)
(* in some order from the bottom to the head.                              *)
ListOf(L) ==
  LET k == Cardinality(L) IN
  \E order \in Bijection(1 .. k, L) :
    /\ freeListHead = IF k = 0 THEN None ELSE order[k]
    /\ \A i \in 1 .. k : freeListNext[order[i]] = IF i = 1 THEN None ELSE order[i - 1]

(* Threads that count on node n: between TakeRef and Got or Drop.          *)
Referring(n) == {t \in Threads : node[t] = n /\ pc[t] \in {"next", "pop", "got", "drop"}}

(* Threads that are putting n on the list, before and after they gave it   *)
(* the list's reference; that have just taken it from the list; that it    *)
(* belongs to.                                                             *)
Adding(n)  == {t \in Threads : node[t] = n /\ pc[t] \in {"add", "publish"}}
Pushing(n) == {t \in Threads : node[t] = n /\ pc[t] \in {"push", "retract"}}
Getting(n) == {t \in Threads : node[t] = n /\ pc[t] = "got"}
Owners(n)  == Getting(n) \cup {t \in Threads : n \in held[t]}

(* The list's reference is there while n is on the list, on its way there  *)
(* or just taken from it.                                                  *)
ListRefers(n, L) == n \in L \/ Pushing(n) \cup Getting(n) # {}

(* The list never loses a node nor has it twice, and the counts are exact: *)
(* a node is counted once for the list and once for each thread that       *)
(* refers to it.  One thread at most has it in its hands, and none if it   *)
(* is on the list.  It is marked exactly while it is neither on the list   *)
(* nor owned nor being pushed, and then some thread is there to put it     *)
(* back (try_get's assertion, and add's knowledge that the mark is not set).*)
ReferencesExact ==
  \E L \in SUBSET Nodes :
    /\ ListOf(L)
    /\ \A n \in Nodes :
         /\ freeListRefs[n].count =
              Cardinality(Referring(n)) + (IF ListRefers(n, L) THEN 1 ELSE 0)
         /\ \A t, u \in Owners(n) \cup Pushing(n) \cup Adding(n) : t = u /\ n \notin L
         /\ freeListRefs[n].should <=> n \notin L /\ Owners(n) \cup Pushing(n) = {}
         /\ freeListRefs[n].should => Adding(n) \cup Referring(n) # {}

(* It is a pool of nodes: no two threads ever own the same node, although  *)
(* a thread may swap in a successor it read before the head left the list  *)
(* and came back (the ABA problem).                                        *)
Pool == INSTANCE NodePool WITH owners <- [n \in Nodes |-> Owners(n)]

ImplementsNodePool == Pool!Spec

(* Lock-freedom, as far as these bounds show it: threads that make their   *)
(* calls come to an end with them, whatever the others do in between.      *)
CallsReturn == \A t \in Threads : []<>(pc[t] \in {"idle", "off"})
=============================================================================
