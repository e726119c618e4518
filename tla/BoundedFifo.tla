---------------------------- MODULE BoundedFifo ----------------------------
(***************************************************************************)
(* What every bounded queue of the repository promises to its callers,     *)
(* after `concurrent_queue' of ConcurrentQueueConcept.h: push(item) adds   *)
(* an item behind the ones already there when there is room, pop(item)     *)
(* takes the oldest one.  The queue implementations are shown to           *)
(* implement this module; `taken' is the history of what was popped.       *)
(***************************************************************************)
EXTENDS Naturals, Sequences

CONSTANTS Capacity,   \* number of items the queue can hold
          Values      \* what can be pushed

VARIABLES queue,      \* items pushed and not yet popped, oldest first
          taken       \* items popped, in the order they were popped

vars == <<queue, taken>>

Init == queue = << >> /\ taken = << >>

Push(v) == /\ Len(queue) < Capacity
           /\ queue' = Append(queue, v)
           /\ UNCHANGED taken

Pop == /\ queue # << >>
       /\ taken' = Append(taken, Head(queue))
       /\ queue' = Tail(queue)

Next == Pop \/ \E v \in Values : Push(v)

Spec == Init /\ [][Next]_vars
=============================================================================
