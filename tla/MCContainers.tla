---------------------------- MODULE MCContainers ----------------------------
(* The small rings for TLC, one behaviour for each: the containers under   *)
(* the mutex queues, called from one thread at a time, the ring with a     *)
(* lock of its own, and rigtorp's ring for two threads.  `which' is the    *)
(* one that runs; the others keep their initial state.                     *)
EXTENDS WrappedRing, LockedRing

CONSTANTS Capacity, Values, Nothing, MaxItems

ASSUME ContainersAssumption == Capacity \in Nat \ {0} /\ Nothing \notin Values

VARIABLES which,
          buffer_, head, tail, size, front,    \* RingBuffer
          m_container, m_unread, taken         \* BoostBuffer

bufferVars == <<buffer_, head, tail, size, front>>
boostVars  == <<m_container, m_unread, taken>>
allVars    == <<which, vars, lockedVars, bufferVars, boostVars>>

OnlyRigtorp == {rigtorp}

Ring  == INSTANCE RingBuffer WITH head_ <- head, tail_ <- tail, size_ <- size, popped <- front
Boost == INSTANCE BoostBuffer WITH MaxPushes <- MaxItems

AllInit == /\ which \in {"ring", "boost", "locked", "rigtorp"}
           /\ Init /\ Ring!Init /\ Boost!Init /\ LockedInit
           /\ which # "locked" => mutex = "os"

RingStep    == which = "ring" /\ Ring!Next /\ UNCHANGED <<which, vars, boostVars, lockedVars>>
BoostStep   == which = "boost" /\ Boost!Next /\ UNCHANGED <<which, vars, bufferVars, lockedVars>>
RigtorpStep == which = "rigtorp" /\ Next /\ UNCHANGED <<which, bufferVars, boostVars, lockedVars>>
LockedStep(A) == which = "locked" /\ A /\ UNCHANGED <<which, vars, bufferVars, boostVars>>

AllNext == \/ RingStep \/ BoostStep \/ RigtorpStep \/ LockedStep(LockedNext)

(* LockedRing's fairness.                                                  *)
AllSpec == /\ AllInit /\ [][AllNext]_allVars
           /\ \A t \in Threads : WF_allVars(LockedStep(Step(t)))

(* RingBuffer is a FIFO that drops its oldest item when it is full; the    *)
(* circular buffer with its count of unread items is a bounded FIFO.       *)
ContainersImplementFifos == Ring!ImplementsDroppingFifo /\ Boost!ImplementsBoundedFifo
=============================================================================
