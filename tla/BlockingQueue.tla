---------------------------- MODULE BlockingQueue ----------------------------
(***************************************************************************)
(* moodycamel::BlockingConcurrentQueue: a ConcurrentQueue (inner) and a    *)
(* LightweightSemaphore that counts its items.  A producer enqueues and    *)
(* then signals; a consumer waits for permits and then dequeues, again and *)
(* again until it has an item for each.  The threads are those of the      *)
(* semaphore: signallers enqueue (count items), waiters dequeue (up to     *)
(* max); enqueue, try_dequeue, wait_dequeue and wait_dequeue_timed are the *)
(* bulk calls with one item.                                               *)
(*                                                                         *)
(* Of inner the number of its items is kept.  enqueue fails if there is no *)
(* memory (room), try_dequeue if other dequeues or enqueues interfere; it  *)
(* is then called again.                                                   *)
(***************************************************************************)
EXTENDS LightweightSemaphore

VARIABLES
  items,       \* number of items in inner
  room,        \* producers whose inner.enqueue succeeds
  enqueued,    \* producers whose inner.enqueue has returned
  taken        \* consumers: items dequeued; got - taken are still to come

innerVars    == <<items, room, enqueued, taken>>
blockingVars == <<vars, innerVars>>

BlockingInit ==
  /\ Init
  /\ items = Initial
  /\ room \in SUBSET Signallers
  /\ enqueued = {}
  /\ taken = [w \in Waiters |-> 0]

Owed(w) == got[w] - taken[w]

-----------------------------------------------------------------------------
(* enqueue, try_enqueue, enqueue_bulk, try_enqueue_bulk                    *)
Enqueue(s) ==
  /\ s \notin enqueued
  /\ enqueued' = enqueued \cup {s}
  /\ items' = IF s \in room THEN items + count[s] ELSE items
  /\ UNCHANGED <<vars, room, taken>>

(* Mutant: the result of inner.enqueue is not looked at.                   *)
SignalAlways(s) ==
  /\ s \in enqueued
  /\ Signal(s)
  /\ UNCHANGED innerVars

(* The semaphore is signalled if inner.enqueue succeeded.                  *)
SignalItems(s) ==
  /\ s \in enqueued \cap room
  /\ Signal(s)
  /\ UNCHANGED innerVars

(* inner.try_dequeue_bulk(max - count), until there is an item for each    *)
(* permit.                                                                 *)
Dequeue(w) ==
  /\ pc[w] \in {"call", "done"} /\ Owed(w) > 0
  /\ \E k \in 1 .. Smaller(Owed(w), items) :
       /\ items' = items - k
       /\ taken' = [taken EXCEPT ![w] = @ + k]
  /\ UNCHANGED <<vars, room, enqueued>>

(* try_dequeue, wait_dequeue, wait_dequeue_timed and the bulk forms.       *)
WaitDequeue(w) ==
  \/ (Owed(w) = 0 \/ pc[w] = "more") /\ Wait(w) /\ UNCHANGED innerVars
  \/ Dequeue(w)

BlockingNext == \/ \E s \in Signallers : Enqueue(s) \/ SignalItems(s)
                \/ \E w \in Waiters : WaitDequeue(w)

(* Threads run, a timed wait ends, and a dequeue that is tried again and   *)
(* again while there are items succeeds at last.                           *)
BlockingFairness ==
  /\ \A s \in Signallers : WF_blockingVars(Enqueue(s)) /\ WF_blockingVars(SignalItems(s))
  /\ \A w \in Waiters : WF_blockingVars(WaitDequeue(w))

BlockingSpec == BlockingInit /\ [][BlockingNext]_blockingVars /\ BlockingFairness

-----------------------------------------------------------------------------
(* For every permit that can be taken, or was taken and not used yet,      *)
(* there is an item; the others are about to be signalled.  So the loops   *)
(* around try_dequeue never spin for an item that nobody enqueues, and     *)
(* size_approx never claims too much.  The count of permits is the one of  *)
(* both halves of the semaphore.                                           *)
Unsignalled == [s \in Signallers |-> IF s \in enqueued \cap room /\ pc[s] = "call" THEN count[s] ELSE 0]

ItemForEveryPermit ==
  /\ PostsMatchWaiters
  /\ items = m_count + Cardinality(Waiting)
             + Total([w \in Waiters |-> Owed(w)]) + Total(Unsignalled)

(* If the items that could be enqueued are enough for everybody, every     *)
(* consumer comes back with its items, also one without a timeout; and     *)
(* whoever has a permit gets an item, whoever times out returns.           *)
EnoughItems == Initial + Total([s \in room |-> count[s]]) >= Rounds * Total(max)

EveryoneReturns ==
  /\ EnoughItems => <>(\A w \in Waiters : pc[w] = "done" /\ Owed(w) = 0)
  /\ \A w \in Waiters : []<>(Owed(w) = 0 /\ pc[w] \notin {"undo", "undoing"})
=============================================================================
