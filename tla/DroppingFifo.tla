---------------------------- MODULE DroppingFifo ----------------------------
(***************************************************************************)
(* What RingBuffer promises: a queue of bounded length whose push_back     *)
(* drops the oldest item when there is no room.                            *)
(***************************************************************************)
EXTENDS Naturals, Sequences

CONSTANTS Capacity, Values, Nothing

VARIABLES queue,   \* the items, oldest first
          popped   \* the item popped last, or Nothing

vars == <<queue, popped>>

Init == queue = << >> /\ popped = Nothing

PushBack(v) == /\ queue' = IF Len(queue) = Capacity THEN Append(Tail(queue), v)
                                                    ELSE Append(queue, v)
               /\ UNCHANGED popped

PopFront == /\ queue # << >>
            /\ popped' = Head(queue)
            /\ queue' = Tail(queue)

Next == PopFront \/ \E v \in Values : PushBack(v)

Spec == Init /\ [][Next]_vars
=============================================================================
