------------------------- MODULE AtomicQueueVariants -------------------------
(***************************************************************************)
(* The choices that tell the queue classes of atomic_queue/atomic_queue.h  *)
(* apart, in the record form of AtomicQueue!Class: the ones the benchmark  *)
(* runs, through AtomicQueueAdapters.h, and the ones with slots of any     *)
(* type, which it does not.                                                *)
(***************************************************************************)

AtomicQueueSPSCAdapter         == [spsc |-> TRUE,  optimistic |-> FALSE, any |-> FALSE]
AtomicQueueAdapter             == [spsc |-> FALSE, optimistic |-> FALSE, any |-> FALSE]
OptimistAtomicQueueSPSCAdapter == [spsc |-> TRUE,  optimistic |-> TRUE,  any |-> FALSE]
OptimistAtomicQueueAdapter     == [spsc |-> FALSE, optimistic |-> TRUE,  any |-> FALSE]

(* AtomicQueue2 and AtomicQueueB2, on their own and in a RetryDecorator.   *)
AnyElement(c) == [c EXCEPT !.any = TRUE]

SpscQueues == LET atomic == {AtomicQueueSPSCAdapter, OptimistAtomicQueueSPSCAdapter}
              IN  atomic \cup {AnyElement(c) : c \in atomic}
MpmcQueues == LET atomic == {AtomicQueueAdapter, OptimistAtomicQueueAdapter}
              IN  atomic \cup {AnyElement(c) : c \in atomic}
AllQueues  == SpscQueues \cup MpmcQueues
Optimist   == {OptimistAtomicQueueAdapter}
=============================================================================
