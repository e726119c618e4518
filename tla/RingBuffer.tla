----------------------------- MODULE RingBuffer -----------------------------
(***************************************************************************)
(* RingBuffer.h, the container under MutexRingBufferQueue, called from one *)
(* thread at a time.                                                       *)
(***************************************************************************)
EXTENDS Integers, Sequences

CONSTANTS Capacity,   \* elements of the vector
          Values,     \* what is pushed
          Nothing     \* an element never assigned; no item popped yet

VARIABLES buffer_, head_, tail_, size_,
          popped      \* what the caller copied from front() before pop_front()

vars == <<buffer_, head_, tail_, size_, popped>>

Init == /\ buffer_ = [i \in 0 .. Capacity - 1 |-> Nothing]
        /\ head_ = 0 /\ tail_ = 0 /\ size_ = 0
        /\ popped = Nothing

(* Mutant: the last element is never used.                                 *)
NextIndexEarly(i) == IF i + 2 >= Capacity THEN 0 ELSE i + 1

NextIndex(i) == (i + 1) % Capacity

Front == buffer_[head_]

(* On a full ring the oldest item is overwritten.                          *)
PushBack(v) ==
  /\ buffer_' = [buffer_ EXCEPT ![tail_] = v]
  /\ tail_' = NextIndex(tail_)
  /\ IF size_ = Capacity THEN head_' = NextIndex(head_) /\ UNCHANGED size_
                         ELSE size_' = size_ + 1 /\ UNCHANGED head_
  /\ UNCHANGED popped

(* Its callers check empty() first, as the mutex queues do.                *)
PopFront ==
  /\ size_ # 0
  /\ popped' = Front
  /\ head_' = NextIndex(head_)
  /\ size_' = size_ - 1
  /\ UNCHANGED <<buffer_, tail_>>

Next == PopFront \/ \E v \in Values : PushBack(v)

Spec == Init /\ [][Next]_vars

-----------------------------------------------------------------------------
(* The items from head_ on, around the end of the vector, are the queue.   *)
Contents == [i \in 1 .. size_ |-> buffer_[(head_ + i - 1) % Capacity]]

(* The three indices, updated one by one, never disagree: what is in the   *)
(* ring is what was pushed last and not popped, in that order.             *)
Abstract == INSTANCE DroppingFifo WITH queue <- Contents

ImplementsDroppingFifo == Abstract!Spec
=============================================================================
