----------------------------- MODULE BoostBuffer -----------------------------
(***************************************************************************)
(* The container under MutexBoostRingBufferQueue: a boost::circular_buffer *)
(* that only grows, and the count m_unread of the items at its front that  *)
(* have not been popped.  The circular buffer is modelled from its use: a  *)
(* sequence, first element at the front, that drops its last element when  *)
(* push_front finds it full.                                               *)
(***************************************************************************)
EXTENDS Integers, Sequences, SequencesExt

CONSTANTS Capacity, Values,
          MaxPushes      \* bounds the run

VARIABLES m_container, m_unread,
          taken          \* history of the items popped

vars == <<m_container, m_unread, taken>>

Init == m_container = << >> /\ m_unread = 0 /\ taken = << >>

(* boost::circular_buffer::push_front                                      *)
Inserted(v) == IF Len(m_container) = Capacity THEN <<v>> \o Front(m_container)
                                              ELSE <<v>> \o m_container

IsNotFull == m_unread < Capacity

(* push and try_push, which return or wait unless is_not_full()            *)
Push(v) ==
  /\ m_unread + Len(taken) < MaxPushes
  /\ IsNotFull
  /\ m_container' = Inserted(v)
  /\ m_unread' = m_unread + 1
  /\ UNCHANGED taken

(* pop and try_pop: item = m_container[--m_unread]                         *)
Pop ==
  /\ m_unread > 0
  /\ m_unread' = m_unread - 1
  /\ taken' = Append(taken, m_container[m_unread])
  /\ UNCHANGED m_container

(* MaxPushes items have been through the buffer.                           *)
Stopped == m_unread = 0 /\ Len(taken) = MaxPushes /\ UNCHANGED vars

Next == Pop \/ (\E v \in Values : Push(v)) \/ Stopped

Spec == Init /\ [][Next]_vars

-----------------------------------------------------------------------------
Unread == SubSeq(m_container, 1, Min({m_unread, Len(m_container)}))

(* Though popped elements stay in the container until they are pushed out  *)
(* of its far end, the unread items, from the far end to the front, are a  *)
(* bounded FIFO: no element not yet popped is ever pushed out.             *)
Abstract == INSTANCE BoundedFifo WITH queue <- Reverse(Unread)

ImplementsBoundedFifo == Abstract!Spec
=============================================================================
