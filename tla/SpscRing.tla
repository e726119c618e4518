------------------------------ MODULE SpscRing ------------------------------
(***************************************************************************)
(* The single-producer single-consumer ring buffers whose cursors are free *)
(* running counters: alpha ... echo of alpha_spsc.h, StdAtomicSPSCQueue    *)
(* and Fifo2, Fifo3, Fifo4, Fifo4a, Fifo5, Fifo5a, Fifo5b of cppcon2023/,  *)
(* the last three with push(value) and pop(value).  They run one           *)
(* algorithm; what tells them apart is a record of choices (module         *)
(* SpscVariants) that Init picks from Variants and no step changes.        *)
(*                                                                         *)
(* Memory model.  Each cursor is written by one thread, so the value of    *)
(* its last store is the value of the variable and its earlier values are  *)
(* the smaller naturals.  A load by the other thread returns any value not *)
(* older than the last one that thread has read (read-read coherence), and *)
(* the newest one when load and store are both seq_cst.  A load that       *)
(* acquires what a release store wrote brings the storing thread's earlier *)
(* accesses into the loading thread's happens-before past: hbHead and      *)
(* hbTail record how far.  Accesses to the slots are not atomic: two       *)
(* conflicting ones race unless one happens before the other.              *)
(*                                                                         *)
(* The threads are those of the benchmark: the producer pushes 1, 2, ...   *)
(* up to the stop flag, the consumer pops until it gets the stop flag.     *)
(* Cursors are 64 bits wide and do not wrap in the life of a program, so   *)
(* they are naturals here; NumItems bounds them.                           *)
(***************************************************************************)
EXTENDS Integers, Sequences

CONSTANTS SIZE,       \* slots in the ring
          NumItems,   \* items sent before the stop flag (bounds the run)
          Variants,   \* the implementations, see SpscVariants
          Nil         \* the content of a slot with no live object

Orders == {"relaxed", "acquire", "release", "seq_cst"}

Variant == [ cached    : BOOLEAN,  \* keeps a copy of the other cursor
             load      : Orders,   \* order of try_push / try_pop's peer load
             store     : Orders,   \* order of the store that publishes
             exact     : BOOLEAN,  \* full() and empty() compare with ==
             destroys  : BOOLEAN,  \* try_pop ends the element's lifetime
             emptyHead : Orders,   \* order in which empty() loads head_
             emptyTail : Orders ]  \* order in which empty() loads tail_

ASSUME SizeAssumption    == SIZE \in Nat \ {0}
ASSUME ItemsAssumption   == NumItems \in Nat
ASSUME VariantAssumption == Variants \subseteq Variant
ASSUME NilAssumption     == Nil \notin Nat

StopFlag == NumItems + 1
Slots    == 0 .. SIZE - 1

VARIABLES
  impl,          \* the implementation under test
  data_,         \* content of each slot
  head_, tail_,  \* the atomic cursors: next to pop, next to push
  cached_head_,  \* producer's copy of head_ (delta, Fifo2/3: the local `head')
  cached_tail_,  \* consumer's copy of tail_
  seenHead,      \* newest value of head_ the producer has read
  seenTail,      \* newest value of tail_ the consumer has read
  hbHead,        \* pops that happen before the producer's next step
  hbTail,        \* pushes that happen before the consumer's next step
  lastRead,      \* per slot, 1 + the cursor of the last read (0: none)
  lastWrite,     \* per slot, 1 + the cursor of the last construction
  pushPc, popPc, \* where each thread is
  n,             \* producer: the item to push
  item,          \* consumer: the item read, before it is returned
  received       \* consumer: the items pop() returned, in order

prodVars == <<cached_head_, seenHead, hbHead, pushPc, n>>
consVars == <<cached_tail_, seenTail, hbTail, popPc, item, received>>
vars == <<impl, data_, head_, tail_, lastRead, lastWrite, prodVars, consVars>>

Init ==
  /\ impl \in Variants
  /\ data_ = [s \in Slots |-> Nil]
  /\ head_ = 0 /\ tail_ = 0
  /\ cached_head_ = 0 /\ cached_tail_ = 0
  /\ seenHead = 0 /\ seenTail = 0
  /\ hbHead = 0 /\ hbTail = 0
  /\ lastRead = [s \in Slots |-> 0]
  /\ lastWrite = [s \in Slots |-> 0]
  /\ pushPc = "try" /\ popPc = "try"
  /\ n = 1 /\ item = Nil /\ received = << >>

-----------------------------------------------------------------------------
(* Atomic loads of the other thread's cursor.                              *)

Acquires(load) == load \in {"acquire", "seq_cst"} /\ impl.store \in {"release", "seq_cst"}

Readable(seen, latest, load) ==
  IF load = "seq_cst" /\ impl.store = "seq_cst" THEN {latest} ELSE seen .. latest

(* Mutants: the ring is taken for full, or for empty, one element too late *)
(* or too early.                                                           *)
FullLate(tail, head)   == tail - head > SIZE
EmptyLate(tail, head)  == tail < head
EmptyEarly(tail, head) == tail <= head + 1

Full(tail, head)  == IF impl.exact THEN tail - head = SIZE ELSE tail - head >= SIZE
Empty(tail, head) == IF impl.exact THEN tail = head ELSE tail <= head

Slot(cursor) == cursor % SIZE

-----------------------------------------------------------------------------
(* The producer: try_push, called again until it succeeds.                 *)

(* Load the own cursor; look at the cached copy of the other one, if any.  *)
TryPush ==
  /\ pushPc = "try" /\ n <= StopFlag
  /\ pushPc' = IF impl.cached /\ ~Full(tail_, cached_head_) THEN "construct" ELSE "load"
  /\ UNCHANGED <<impl, data_, head_, tail_, lastRead, lastWrite,
                 cached_head_, seenHead, hbHead, n, consVars>>

(* Load head_; a ring still full makes try_push return false.              *)
LoadHead ==
  /\ pushPc = "load"
  /\ \E head \in Readable(seenHead, head_, impl.load) :
       /\ cached_head_' = head
       /\ seenHead' = head
       /\ hbHead' = IF Acquires(impl.load) THEN head ELSE hbHead
       /\ pushPc' = IF Full(tail_, head) THEN "try" ELSE "construct"
  /\ UNCHANGED <<impl, data_, head_, tail_, lastRead, lastWrite, n, consVars>>

(* new (&data_[tail % SIZE]) T(item)                                       *)
Construct ==
  /\ pushPc = "construct"
  /\ data_' = [data_ EXCEPT ![Slot(tail_)] = n]
  /\ lastWrite' = [lastWrite EXCEPT ![Slot(tail_)] = tail_ + 1]
  /\ pushPc' = "publish"
  /\ UNCHANGED <<impl, head_, tail_, lastRead, cached_head_, seenHead, hbHead, n, consVars>>

(* tail_.store(tail + 1); return true.                                     *)
StoreTail ==
  /\ pushPc = "publish"
  /\ tail_' = tail_ + 1
  /\ n' = n + 1
  /\ pushPc' = "try"
  /\ UNCHANGED <<impl, data_, head_, lastRead, lastWrite, cached_head_, seenHead, hbHead, consVars>>

(* empty() called between two pushes: one more load of head_.              *)
ProducerEmpty ==
  /\ pushPc = "try"
  /\ \E head \in Readable(seenHead, head_, impl.emptyHead) :
       /\ seenHead' = head
       /\ hbHead' = IF Acquires(impl.emptyHead) THEN head ELSE hbHead
  /\ UNCHANGED <<impl, data_, head_, tail_, lastRead, lastWrite, cached_head_, pushPc, n, consVars>>

-----------------------------------------------------------------------------
(* The consumer: try_pop, called again until it succeeds.                  *)

TryPop ==
  /\ popPc = "try"
  /\ popPc' = IF impl.cached /\ ~Empty(cached_tail_, head_) THEN "read" ELSE "load"
  /\ UNCHANGED <<impl, data_, head_, tail_, lastRead, lastWrite, prodVars,
                 cached_tail_, seenTail, hbTail, item, received>>

LoadTail ==
  /\ popPc = "load"
  /\ \E tail \in Readable(seenTail, tail_, impl.load) :
       /\ cached_tail_' = tail
       /\ seenTail' = tail
       /\ hbTail' = IF Acquires(impl.load) THEN tail ELSE hbTail
       /\ popPc' = IF Empty(tail, head_) THEN "try" ELSE "read"
  /\ UNCHANGED <<impl, data_, head_, tail_, lastRead, lastWrite, prodVars, item, received>>

(* A read that races with the construction of the element is undefined: it *)
(* may return anything a slot can hold.                                    *)
ReadOutcomes(s) == IF lastWrite[s] <= hbTail THEN {data_[s]} ELSE {Nil} \cup 1 .. StopFlag

(* item = data_[head % SIZE]; the Fifos then destroy the element.          *)
Read ==
  /\ popPc = "read"
  /\ item' \in ReadOutcomes(Slot(head_))
  /\ data_' = IF impl.destroys THEN [data_ EXCEPT ![Slot(head_)] = Nil] ELSE data_
  /\ lastRead' = [lastRead EXCEPT ![Slot(head_)] = head_ + 1]
  /\ popPc' = "publish"
  /\ UNCHANGED <<impl, head_, tail_, lastWrite, prodVars, cached_tail_, seenTail, hbTail, received>>

(* head_.store(head + 1); return true.  The stop flag ends the consumer.   *)
StoreHead ==
  /\ popPc = "publish"
  /\ head_' = head_ + 1
  /\ received' = Append(received, item)
  /\ popPc' = IF item = StopFlag THEN "done" ELSE "try"
  /\ UNCHANGED <<impl, data_, tail_, lastRead, lastWrite, prodVars,
                 cached_tail_, seenTail, hbTail, item>>

(* empty() called between two pops: one more load of tail_.                *)
ConsumerEmpty ==
  /\ popPc = "try"
  /\ \E tail \in Readable(seenTail, tail_, impl.emptyTail) :
       /\ seenTail' = tail
       /\ hbTail' = IF Acquires(impl.emptyTail) THEN tail ELSE hbTail
  /\ UNCHANGED <<impl, data_, head_, tail_, lastRead, lastWrite, prodVars,
                 cached_tail_, popPc, item, received>>

-----------------------------------------------------------------------------
Producer == TryPush \/ LoadHead \/ Construct \/ StoreTail
Consumer == TryPop \/ LoadTail \/ Read \/ StoreHead

(* Both threads have left their loops and are joined.                      *)
Joined == /\ popPc = "done" /\ pushPc = "try" /\ n > StopFlag
          /\ UNCHANGED vars

Next == Producer \/ Consumer \/ ProducerEmpty \/ ConsumerEmpty \/ Joined

(* Neither thread is stopped for ever, and a store becomes visible to      *)
(* loads repeated for ever in finite time (C++ [atomics.order]).           *)
Fairness ==
  /\ WF_vars(Producer) /\ WF_vars(Consumer)
  /\ SF_vars(LoadHead /\ seenHead' = head_)
  /\ SF_vars(LoadTail /\ seenTail' = tail_)

Spec == Init /\ [][Next]_vars
FairSpec == Spec /\ Fairness

-----------------------------------------------------------------------------
Content == {Nil} \cup 1 .. StopFlag
Cursor  == 0 .. StopFlag

(* Every variable stays in its range.  The upper bounds are the harness's: *)
(* no cursor passes the stop flag, so nothing is published after it.       *)
TypeOK ==
  /\ impl \in Variants
  /\ data_ \in [Slots -> Content]
  /\ {head_, tail_, cached_head_, cached_tail_, seenHead, seenTail, hbHead, hbTail} \subseteq Cursor
  /\ lastRead \in [Slots -> Cursor]
  /\ lastWrite \in [Slots -> Cursor]
  /\ pushPc \in {"try", "load", "construct", "publish"}
  /\ popPc \in {"try", "load", "read", "publish", "done"}
  /\ n \in 1 .. StopFlag + 1
  /\ item \in Content
  /\ received \in Seq(1 .. StopFlag)

(* No construction in a slot races with the consumer's last use of it, and *)
(* no read races with the construction: the release stores and acquire     *)
(* loads order every pair of conflicting accesses, also when the loads     *)
(* return stale cursors and when the check was made on a cached copy.      *)
DataRaceFree ==
  /\ pushPc = "construct" => lastRead[Slot(tail_)] <= hbHead
  /\ popPc = "read" => lastWrite[Slot(head_)] <= hbTail

(* Where try_pop ends the element's lifetime, an element is constructed    *)
(* only in a slot without a live object and read only while it is alive.   *)
LifetimeOK ==
  impl.destroys =>
    /\ pushPc = "construct" => data_[Slot(tail_)] = Nil
    /\ popPc = "read" => data_[Slot(head_)] # Nil

(* The assertion in the Fifos' size(), popCursor <= pushCursor, holds in a  *)
(* call by either of the two threads: each knows its own cursor, and what  *)
(* it reads of the other one is old but on the safe side.                  *)
SizeAssertion == seenHead <= tail_ /\ head_ <= seenTail

(* pop() returns what was pushed: no item lost, repeated, torn or          *)
(* reordered.                                                              *)
FifoOrder == received = [i \in 1 .. head_ |-> i]

(* Once the consumer has seen an item, be it through empty(), its next     *)
(* try_pop does not report an empty queue.                                 *)
EmptyReliable == [][popPc = "load" /\ popPc' = "try" => seenTail = head_]_vars

(* The ring is a bounded FIFO.  A push takes effect at StoreTail and a pop *)
(* at StoreHead; an element being popped counts as queued until then.      *)
Queued == [i \in 1 .. tail_ - head_ |->
             IF i = 1 /\ popPc = "publish" THEN item ELSE data_[Slot(head_ + i - 1)]]

Abstract == INSTANCE BoundedFifo WITH Capacity <- SIZE, Values <- 1 .. StopFlag,
                                      queue <- Queued, taken <- received

ImplementsBoundedFifo == Abstract!Spec

(* Every item sent arrives and both threads finish: no wakeup is needed    *)
(* because both sides poll.                                                *)
AllDelivered == <>(popPc = "done" /\ received = [i \in 1 .. StopFlag |-> i])
=============================================================================
