---------------------------- MODULE MCAtomicQueue ----------------------------
(* AtomicQueue for TLC, two instances: several producers and consumers on  *)
(* the MPMC classes, and one of each on all classes, whose many items take *)
(* the cursors past their wrap.                                            *)
EXTENDS AtomicQueue, AtomicQueueVariants, TLC

CONSTANTS prod, cons, OneSize, OneWord, OneItems

One == INSTANCE AtomicQueue WITH SIZE <- OneSize, WORD <- OneWord, NumItems <- OneItems,
                                 Producers <- {prod}, Consumers <- {cons}, Classes <- AllQueues

Many == DOMAIN n = Producers

MCInit == Init \/ One!Init

MCNext == \/ Many /\ Next
          \/ ~Many /\ One!Next

MCSpec == MCInit /\ [][MCNext]_vars

Symmetry == Permutations(Producers) \cup Permutations(Consumers)

(* No two threads access an element at the same time.                      *)
ElementsExclusive == IF Many THEN ElementExclusive ELSE One!ElementExclusive

(* Every item arrives, and once.                                           *)
ItemsArriveOnce == IF Many THEN TotalSum ELSE One!TotalSum

(* With one producer and one consumer every class is a bounded FIFO, also  *)
(* when the wrap of the cursors changes the order of the slots.            *)
Fifo == INSTANCE BoundedFifo
  WITH Capacity <- OneSize, Values <- One!Items,
       queue <- IF Many THEN << >> ELSE One!Queued, taken <- IF Many THEN << >> ELSE One!Taken

OneToOneFifo == Fifo!Spec
=============================================================================
