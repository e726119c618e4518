----------------------------- MODULE WrappedRing -----------------------------
(***************************************************************************)
(* The single-producer single-consumer rings whose indices go back to 0 at *)
(* the end of the ring and that leave one slot unused to tell full from    *)
(* empty: rigtorp::SPSCQueue behind RigtorpSPSCAdapter, and Fifo4b.        *)
(*                                                                         *)
(* Memory model and threads are those of SpscRing.  The model counts the   *)
(* stores to each index; the code only has the index they stand for, and   *)
(* every definition looks at a count through Index.                        *)
(***************************************************************************)
EXTENDS Integers, Sequences

CONSTANTS CAPACITY,   \* the capacity asked for
          NumItems,   \* items sent before the stop flag
          Queues,     \* the implementations, see WrappedQueue
          Nil         \* the content of a slot with no live object

Orders == {"relaxed", "acquire", "release", "seq_cst"}

WrappedQueue == [ allocated : Nat,     \* slots in memory
                  front     : BOOLEAN, \* popped with front() and pop()
                  load      : Orders,  \* order in which the peer index is loaded
                  store     : Orders ] \* order in which the own index is stored

ASSUME CapacityAssumption == CAPACITY \in Nat \ {0}
ASSUME ItemsAssumption    == NumItems \in Nat
ASSUME QueueAssumption    == Queues \subseteq WrappedQueue
ASSUME NilAssumption      == Nil \notin Nat

StopFlag  == NumItems + 1
capacity_ == CAPACITY + 1    \* one slot is never used
Slots     == 0 .. capacity_ - 1

(* Mutant: the other thread's index is loaded relaxed.                     *)
RigtorpRelaxed == [allocated |-> CAPACITY + 1, front |-> TRUE, load |-> "relaxed", store |-> "release"]

rigtorp == [allocated |-> CAPACITY + 1, front |-> TRUE, load |-> "acquire", store |-> "release"]

(* capacity_ is the parameter plus one, the ring is allocated without.     *)
Fifo4b == [rigtorp EXCEPT !.allocated = CAPACITY, !.front = FALSE]

VARIABLES
  impl,                          \* the implementation under test
  slots_,                        \* content of each slot
  writeIdx_, readIdx_,           \* stores to the indices
  readIdxCache_, writeIdxCache_, \* copies of the other thread's index
  seenRead, seenWrite,           \* newest value read of the other's index
  hbRead, hbWrite,               \* pops and pushes in the happens-before past
  lastRead, lastWrite,           \* per slot, 1 + the count at its last use
  pushPc, popPc, n, item, received

prodVars == <<readIdxCache_, seenRead, hbRead, pushPc, n>>
consVars == <<writeIdxCache_, seenWrite, hbWrite, popPc, item, received>>
vars == <<impl, slots_, writeIdx_, readIdx_, lastRead, lastWrite, prodVars, consVars>>

Init ==
  /\ impl \in Queues
  /\ slots_ = [s \in Slots |-> Nil]
  /\ writeIdx_ = 0 /\ readIdx_ = 0
  /\ readIdxCache_ = 0 /\ writeIdxCache_ = 0
  /\ seenRead = 0 /\ seenWrite = 0
  /\ hbRead = 0 /\ hbWrite = 0
  /\ lastRead = [s \in Slots |-> 0]
  /\ lastWrite = [s \in Slots |-> 0]
  /\ pushPc = "try" /\ popPc = "try"
  /\ n = 1 /\ item = Nil /\ received = << >>

Acquires == impl.load = "acquire" /\ impl.store = "release"

(* The index after k stores: `if (++idx == capacity_) idx = 0'.            *)
Index(k) == k % capacity_

(* Mutant: the next index is compared before it goes back to 0.            *)
FullBeforeWrap(write, read) == Index(write) + 1 = Index(read)

Full(write, read)  == Index(write + 1) = Index(read)
Empty(write, read) == Index(write) = Index(read)

-----------------------------------------------------------------------------
(* emplace, try_emplace; Fifo4b::try_push.                                 *)

TryPush ==
  /\ pushPc = "try" /\ n <= StopFlag
  /\ pushPc' = IF Full(writeIdx_, readIdxCache_) THEN "load" ELSE "construct"
  /\ UNCHANGED <<impl, slots_, writeIdx_, readIdx_, lastRead, lastWrite,
                 readIdxCache_, seenRead, hbRead, n, consVars>>

LoadRead ==
  /\ pushPc = "load"
  /\ \E read \in seenRead .. readIdx_ :
       /\ readIdxCache_' = read
       /\ seenRead' = read
       /\ hbRead' = IF Acquires THEN read ELSE hbRead
       /\ pushPc' = IF Full(writeIdx_, read) THEN "try" ELSE "construct"
  /\ UNCHANGED <<impl, slots_, writeIdx_, readIdx_, lastRead, lastWrite, n, consVars>>

Construct ==
  /\ pushPc = "construct"
  /\ slots_' = [slots_ EXCEPT ![Index(writeIdx_)] = n]
  /\ lastWrite' = [lastWrite EXCEPT ![Index(writeIdx_)] = writeIdx_ + 1]
  /\ pushPc' = "publish"
  /\ UNCHANGED <<impl, writeIdx_, readIdx_, lastRead, readIdxCache_, seenRead, hbRead, n, consVars>>

StoreWrite ==
  /\ pushPc = "publish"
  /\ writeIdx_' = writeIdx_ + 1
  /\ n' = n + 1
  /\ pushPc' = "try"
  /\ UNCHANGED <<impl, slots_, readIdx_, lastRead, lastWrite, readIdxCache_, seenRead, hbRead, consVars>>

-----------------------------------------------------------------------------
(* RigtorpSPSCAdapter::pop: front() until it is not null, front() again to *)
(* copy the element, pop().  Fifo4b::try_pop until it succeeds.            *)

(* Where a check that found an element goes on.                            *)
Found == IF impl.front /\ popPc # "again" THEN "again" ELSE "read"

(* A second front() that returned null would be dereferenced.              *)
NotFound == IF popPc = "again" THEN "null" ELSE "load"

Front ==
  /\ popPc \in {"try", "again"}
  /\ popPc' = IF Empty(writeIdxCache_, readIdx_) THEN NotFound ELSE Found
  /\ UNCHANGED <<impl, slots_, writeIdx_, readIdx_, lastRead, lastWrite, prodVars,
                 writeIdxCache_, seenWrite, hbWrite, item, received>>

LoadWrite ==
  /\ popPc = "load"
  /\ \E write \in seenWrite .. writeIdx_ :
       /\ writeIdxCache_' = write
       /\ seenWrite' = write
       /\ hbWrite' = IF Acquires THEN write ELSE hbWrite
       /\ popPc' = IF Empty(write, readIdx_) THEN "try" ELSE Found
  /\ UNCHANGED <<impl, slots_, writeIdx_, readIdx_, lastRead, lastWrite, prodVars, item, received>>

(* A read that races with the construction is undefined.                   *)
ReadOutcomes(s) == IF lastWrite[s] <= hbWrite THEN {slots_[s]} ELSE {Nil} \cup 1 .. StopFlag

Read ==
  /\ popPc = "read"
  /\ item' \in ReadOutcomes(Index(readIdx_))
  /\ popPc' = "destroy"
  /\ UNCHANGED <<impl, slots_, writeIdx_, readIdx_, lastRead, lastWrite, prodVars,
                 writeIdxCache_, seenWrite, hbWrite, received>>

(* ~T(); SPSCQueue::pop first loads writeIdx_ for an assertion.            *)
Destroy ==
  /\ popPc = "destroy"
  /\ slots_' = [slots_ EXCEPT ![Index(readIdx_)] = Nil]
  /\ lastRead' = [lastRead EXCEPT ![Index(readIdx_)] = readIdx_ + 1]
  /\ IF impl.front
       THEN \E write \in seenWrite .. writeIdx_ :
              /\ seenWrite' = write
              /\ hbWrite' = IF Acquires THEN write ELSE hbWrite
       ELSE UNCHANGED <<seenWrite, hbWrite>>
  /\ popPc' = "publish"
  /\ UNCHANGED <<impl, writeIdx_, readIdx_, lastWrite, prodVars, writeIdxCache_, item, received>>

StoreRead ==
  /\ popPc = "publish"
  /\ readIdx_' = readIdx_ + 1
  /\ received' = Append(received, item)
  /\ popPc' = IF item = StopFlag THEN "done" ELSE "try"
  /\ UNCHANGED <<impl, slots_, writeIdx_, lastRead, lastWrite, prodVars,
                 writeIdxCache_, seenWrite, hbWrite, item>>

-----------------------------------------------------------------------------
Producer == TryPush \/ LoadRead \/ Construct \/ StoreWrite
Consumer == Front \/ LoadWrite \/ Read \/ Destroy \/ StoreRead

Joined == /\ popPc = "done" /\ pushPc = "try" /\ n > StopFlag
          /\ UNCHANGED vars

Next == Producer \/ Consumer \/ Joined

Spec == Init /\ [][Next]_vars

-----------------------------------------------------------------------------
(* The slot is not touched by one thread while the other may still use it. *)
DataRaceFree ==
  /\ pushPc = "construct" => lastRead[Index(writeIdx_)] <= hbRead
  /\ popPc = "read" => lastWrite[Index(readIdx_)] <= hbWrite

(* An element is constructed in a slot without one and used while it lives, *)
(* though equal indices may be any number of laps apart.  "Can only call    *)
(* pop() after front() has returned a non-nullptr": its assertion holds for *)
(* every value its load of writeIdx_ can return, and the adapter's second   *)
(* front() finds what the first one found.                                  *)
LifetimeOK ==
  /\ pushPc = "construct" => slots_[Index(writeIdx_)] = Nil
  /\ popPc \in {"read", "destroy"} => slots_[Index(readIdx_)] # Nil
  /\ popPc # "null"
  /\ popPc = "destroy" /\ impl.front =>
       \A write \in seenWrite .. writeIdx_ : ~Empty(write, readIdx_)

(* The ring is a bounded FIFO that holds as much as was asked for.         *)
Queued == [i \in 1 .. writeIdx_ - readIdx_ |->
             IF i = 1 /\ popPc = "publish" THEN item ELSE slots_[Index(readIdx_ + i - 1)]]

Abstract == INSTANCE BoundedFifo WITH Capacity <- CAPACITY, Values <- 1 .. StopFlag,
                                      queue <- Queued, taken <- received

ImplementsBoundedFifo == Abstract!Spec

-----------------------------------------------------------------------------
(* Every element is constructed in a slot of the ring that was allocated.  *)
InsideRing == pushPc = "construct" => Index(writeIdx_) < impl.allocated
=============================================================================
