---------------------------- MODULE SpscVariants ----------------------------
(***************************************************************************)
(* The choices that tell the counter-cursor SPSC queues apart, in the      *)
(* record form of SpscRing!Variant.                                        *)
(***************************************************************************)

(* All optimisations: cached cursors, acquire loads, release stores.       *)
Alpha == [ cached |-> TRUE, load |-> "acquire", store |-> "release",
           exact |-> FALSE, destroys |-> FALSE,
           emptyHead |-> "relaxed", emptyTail |-> "relaxed" ]

(* The same operations on another layout: no alignas, ring on the heap.    *)
Bravo == Alpha
Echo  == Alpha

(* The same operations again, with the retry loop inside push and pop.     *)
StdAtomicSPSCQueue == Alpha

(* Every access seq_cst, but the load of head_ in empty().                 *)
Charlie == [Alpha EXCEPT !.load = "seq_cst", !.store = "seq_cst", !.emptyTail = "seq_cst"]

(* No cached cursors: the other one is loaded in every call.               *)
Delta == [Alpha EXCEPT !.cached = FALSE]

(* The Fifos compare cursors with == and destroy the element they pop.     *)
Fifo3 == [Delta EXCEPT !.exact = TRUE, !.destroys = TRUE]

(* Atomic cursors with the default, seq_cst, order.                        *)
Fifo2 == [Fifo3 EXCEPT !.load = "seq_cst", !.store = "seq_cst",
                       !.emptyHead = "seq_cst", !.emptyTail = "seq_cst"]

(* Mutant: the loads that are commented out in Fifo4.                      *)
Fifo4Relaxed == [Fifo3 EXCEPT !.cached = TRUE, !.load = "relaxed"]

(* Fifo3 with cached cursors; Fifo4a finds the slot with a mask, which for *)
(* its power-of-two capacities is the remainder.                           *)
Fifo4  == [Fifo3 EXCEPT !.cached = TRUE]
Fifo4a == Fifo4

(* push(value) and pop(value) of the Fifos with proxies.  The proxy lives  *)
(* for one call: Construct assigns through the pusher, StoreTail and       *)
(* StoreHead are the destructors.  T is trivial, so nothing is destroyed.  *)
(* Fifo5a masks like Fifo4a; Fifo5b reads its own cursor non-atomically    *)
(* and every other one through an atomic_ref with the same orders.         *)
Fifo5  == [Fifo4 EXCEPT !.destroys = FALSE]
Fifo5a == Fifo5
Fifo5b == Fifo5

SpscQueues == {Alpha, Bravo, Echo, StdAtomicSPSCQueue, Charlie, Delta,
               Fifo2, Fifo3, Fifo4, Fifo4a, Fifo5, Fifo5a, Fifo5b}
=============================================================================
