--------------------------- MODULE SpscRingProofs ---------------------------
(***************************************************************************)
(* Proofs about SpscRing, for every ring size, every number of items and   *)
(* every set of implementations that synchronise.                          *)
(***************************************************************************)
EXTENDS SpscRing, QueueLemmas

(* What the safety of the ring needs of an implementation: its peer load   *)
(* acquires what its publishing store released.                            *)
Synchronises(v) == /\ v.load \in {"acquire", "seq_cst"}
                   /\ v.store \in {"release", "seq_cst"}

AllSynchronise == \A v \in Variants : Synchronises(v)

-----------------------------------------------------------------------------
(* The inductive invariant.                                                *)

Popped == IF popPc = "publish" THEN head_ + 1 ELSE head_  \* elements read so far
Built  == IF pushPc = "publish" THEN tail_ + 1 ELSE tail_ \* elements constructed so far

(* What each thread believes of the other is old but not wrong, and no     *)
(* older than what it has acquired.                                        *)
Views ==
  /\ cached_head_ <= hbHead /\ hbHead <= seenHead /\ seenHead <= head_
  /\ head_ <= cached_tail_
  /\ cached_tail_ <= hbTail /\ hbTail <= seenTail /\ seenTail <= tail_

(* Where each thread is tells what its last check of the ring was.         *)
Checks ==
  /\ tail_ - cached_head_ <= SIZE
  /\ pushPc \in {"construct", "publish"} => tail_ - cached_head_ < SIZE
  /\ popPc \in {"read", "publish"} => head_ < cached_tail_
  /\ n = tail_ + 1
  /\ pushPc # "try" => n <= StopFlag
  /\ popPc = "publish" => item = head_ + 1

(* The slots hold the elements constructed and not read, and nothing else  *)
(* where popping destroys; each slot remembers cursors that map to it.     *)
SlotsHold ==
  /\ \A c \in Popped .. Built - 1 :
       data_[Slot(c)] = c + 1 /\ lastWrite[Slot(c)] = c + 1
  /\ \A s \in Slots : impl.destroys /\ data_[s] # Nil =>
       \E c \in Popped .. Built - 1 : Slot(c) = s
  /\ \A s \in Slots : lastRead[s] # 0 =>
       lastRead[s] <= Popped /\ Slot(lastRead[s] - 1) = s

IInv == TypeOK /\ Views /\ Checks /\ SlotsHold /\ FifoOrder

-----------------------------------------------------------------------------
(* Consequences of the invariant that several proofs need.                 *)

(* The cursors are naturals, and every slot computed is in the ring.       *)
LEMMA Typing ==
  ASSUME TypeOK
  PROVE  /\ head_ \in Nat /\ tail_ \in Nat /\ n \in Nat
         /\ cached_head_ \in Nat /\ cached_tail_ \in Nat
         /\ seenHead \in Nat /\ seenTail \in Nat /\ hbHead \in Nat /\ hbTail \in Nat
         /\ Popped \in Nat /\ Built \in Nat
         /\ StopFlag \in Nat \ {0}
         /\ \A s \in Slots : lastRead[s] \in Nat /\ lastWrite[s] \in Nat
BY ItemsAssumption DEF TypeOK, Cursor, StopFlag, Popped, Built

LEMMA SlotInRing == ASSUME NEW c \in Nat PROVE Slot(c) \in Slots
BY SizeAssumption, DivMod DEF Slot, Slots

(* A slot the producer is about to use holds no live element, and a slot   *)
(* holds one live element only.                                            *)
LEMMA LiveSlotsDiffer ==
  ASSUME IInv, NEW c \in Nat, NEW d \in Nat, cached_head_ <= c, c < d,
         d < cached_head_ + SIZE
  PROVE  Slot(c) # Slot(d)
BY Typing, SizeAssumption, DifferentSlots DEF IInv, Slot

(* The safety properties of the ring follow from the invariant.            *)
LEMMA Safety == ASSUME IInv PROVE DataRaceFree /\ LifetimeOK /\ SizeAssertion
<1> USE DEF IInv
<1>1. TypeOK /\ Views /\ Checks /\ SlotsHold
  OBVIOUS
<1>2. Slot(head_) \in Slots /\ Slot(tail_) \in Slots
  BY Typing, SlotInRing
<1>3. ASSUME pushPc = "construct" PROVE lastRead[Slot(tail_)] <= hbHead
  <2> DEFINE c == lastRead[Slot(tail_)] - 1
  <2>1. SUFFICES ASSUME lastRead[Slot(tail_)] > hbHead PROVE FALSE
    BY <1>2, Typing
  <2>2. c \in Nat /\ c + 1 <= Popped /\ Slot(c) = Slot(tail_) /\ hbHead <= c
    BY <1>1, <1>2, <2>1, Typing DEF SlotsHold
  <2>3. c < tail_ /\ cached_head_ <= c
    BY <1>1, <2>2, Typing DEF Views, Checks, Popped
  <2>4. tail_ < cached_head_ + SIZE
    BY <1>1, <1>3, Typing, SizeAssumption DEF Checks
  <2> QED
    BY <2>2, <2>3, <2>4, LiveSlotsDiffer, Typing
<1>4. ASSUME popPc = "read"
      PROVE  lastWrite[Slot(head_)] <= hbTail /\ data_[Slot(head_)] = head_ + 1
  <2>1. head_ \in Popped .. Built - 1
    BY <1>1, <1>4, Typing DEF Views, Checks, Popped, Built
  <2>2. lastWrite[Slot(head_)] = head_ + 1 /\ data_[Slot(head_)] = head_ + 1
    BY <1>1, <2>1 DEF SlotsHold
  <2> QED
    BY <1>1, <1>4, <2>2, Typing DEF Views, Checks
<1>5. ASSUME impl.destroys, pushPc = "construct" PROVE data_[Slot(tail_)] = Nil
  <2>1. SUFFICES ASSUME data_[Slot(tail_)] # Nil PROVE FALSE
    OBVIOUS
  <2>2. PICK c \in Popped .. Built - 1 : Slot(c) = Slot(tail_)
    BY <1>1, <1>2, <1>5, <2>1 DEF SlotsHold
  <2>3. c \in Nat /\ c < tail_ /\ cached_head_ <= c
    BY <1>1, <1>5, <2>2, Typing DEF Views, Popped, Built
  <2>4. tail_ < cached_head_ + SIZE
    BY <1>1, <1>5, Typing, SizeAssumption DEF Checks
  <2> QED
    BY <2>2, <2>3, <2>4, LiveSlotsDiffer, Typing
<1>6. SizeAssertion
  BY <1>1, Typing DEF SizeAssertion, Views
<1>7. popPc = "read" => data_[Slot(head_)] # Nil
  BY <1>4, Typing, NilAssumption
<1> QED
  BY <1>3, <1>4, <1>5, <1>6, <1>7 DEF DataRaceFree, LifetimeOK

(* A load returns a value between the last one seen and the newest.        *)
LEMMA Loads ==
  ASSUME NEW seen \in Nat, NEW latest \in Nat, seen <= latest, NEW load,
         NEW v \in Readable(seen, latest, load)
  PROVE  v \in Nat /\ seen <= v /\ v <= latest
BY DEF Readable

-----------------------------------------------------------------------------
LEMMA InitIInv == Init => IInv
<1> SUFFICES ASSUME Init PROVE IInv
  OBVIOUS
<1> USE SizeAssumption, ItemsAssumption, NilAssumption DEF Init
<1>1. TypeOK
  BY DEF TypeOK, Content, Cursor, StopFlag, Slots
<1>2. Views /\ Checks
  BY DEF Views, Checks, StopFlag
<1>3. SlotsHold
  BY DEF SlotsHold, Popped, Built, Slots
<1>4. FifoOrder
  <2>1. [i \in 1 .. 0 |-> i] = << >>
    OBVIOUS
  <2> QED
    BY <2>1 DEF FifoOrder
<1> QED
  BY <1>1, <1>2, <1>3, <1>4 DEF IInv

-----------------------------------------------------------------------------
(* Each action preserves the invariant.  The two steps that move a cursor  *)
(* and the two that touch a slot have a lemma of their own.                *)

LEMMA PeekStep ==
  ASSUME IInv, TryPush \/ TryPop \/ ProducerEmpty \/ ConsumerEmpty
  PROVE  IInv'
<1>1. TypeOK /\ Views /\ Checks /\ SlotsHold /\ FifoOrder
  BY DEF IInv
<1>2. seenHead' \in Nat /\ seenHead <= seenHead' /\ seenHead' <= head_
  BY <1>1, Loads, Typing DEF Views, TryPush, TryPop, ProducerEmpty, ConsumerEmpty, consVars, prodVars
<1>3. seenTail' \in Nat /\ seenTail <= seenTail' /\ seenTail' <= tail_
  BY <1>1, Loads, Typing DEF Views, TryPush, TryPop, ProducerEmpty, ConsumerEmpty, consVars, prodVars
<1>4. hbHead' \in Nat /\ hbHead <= hbHead' /\ hbHead' <= seenHead'
  BY <1>1, <1>2, Typing DEF Views, TryPush, TryPop, ProducerEmpty, ConsumerEmpty, consVars, prodVars
<1>5. hbTail' \in Nat /\ hbTail <= hbTail' /\ hbTail' <= seenTail'
  BY <1>1, <1>3, Typing DEF Views, TryPush, TryPop, ProducerEmpty, ConsumerEmpty, consVars, prodVars
<1>6. UNCHANGED <<impl, data_, head_, tail_, cached_head_, cached_tail_, lastRead,
                  lastWrite, n, item, received>>
  BY DEF TryPush, TryPop, ProducerEmpty, ConsumerEmpty, consVars, prodVars
<1>7. /\ \/ pushPc' = pushPc
         \/ /\ pushPc = "try" /\ pushPc' \in {"load", "construct"} /\ n <= StopFlag
            /\ pushPc' = "construct" => ~Full(tail_, cached_head_)
      /\ \/ popPc' = popPc
         \/ /\ popPc = "try" /\ popPc' \in {"load", "read"}
            /\ popPc' = "read" => ~Empty(cached_tail_, head_)
  <2>1. CASE TryPush
    BY <2>1 DEF TryPush, consVars
  <2>2. CASE TryPop
    BY <2>2 DEF TryPop, prodVars
  <2>3. CASE ProducerEmpty \/ ConsumerEmpty
    BY <2>3 DEF ProducerEmpty, ConsumerEmpty, consVars, prodVars
  <2> QED
    BY <2>1, <2>2, <2>3
<1>8. Popped' = Popped /\ Built' = Built
  BY <1>6, <1>7 DEF Popped, Built
<1>9. TypeOK'
  <2>1. head_ <= StopFlag /\ tail_ <= StopFlag
    BY <1>1 DEF TypeOK, Cursor
  <2>2. {seenHead', seenTail', hbHead', hbTail'} \subseteq Cursor
    BY <1>1, <1>2, <1>3, <1>4, <1>5, <2>1, Typing DEF Cursor
  <2> QED
    BY <1>1, <1>6, <1>7, <2>2 DEF TypeOK
<1>10. Views'
  BY <1>1, <1>2, <1>3, <1>4, <1>5, <1>6, Typing DEF Views
<1>11. Checks'
  <2>1. ~Full(tail_, cached_head_) => tail_ - cached_head_ < SIZE
    BY <1>1, Typing, SizeAssumption DEF Full, Checks
  <2>2. ~Empty(cached_tail_, head_) => head_ < cached_tail_
    BY <1>1, Typing DEF Empty, Views
  <2> QED
    BY <1>1, <1>6, <1>7, <2>1, <2>2 DEF Checks
<1>12. SlotsHold' /\ FifoOrder'
  BY <1>1, <1>6, <1>8 DEF SlotsHold, FifoOrder, Slot
<1> QED
  BY <1>9, <1>10, <1>11, <1>12 DEF IInv
LEMMA LoadHeadStep == ASSUME AllSynchronise, IInv, LoadHead PROVE IInv'
<1>1. TypeOK /\ Views /\ Checks /\ SlotsHold /\ FifoOrder /\ pushPc = "load"
  BY DEF IInv, LoadHead
<1>2. Acquires(impl.load)
  BY <1>1 DEF AllSynchronise, Synchronises, Acquires, TypeOK
<1>3. PICK head \in Readable(seenHead, head_, impl.load) :
        /\ cached_head_' = head /\ seenHead' = head /\ hbHead' = head
        /\ pushPc' = IF Full(tail_, head) THEN "try" ELSE "construct"
  BY <1>2 DEF LoadHead
<1>4. head \in Nat /\ seenHead <= head /\ head <= head_
  BY <1>1, Loads, Typing DEF Views
<1>5. UNCHANGED <<impl, data_, head_, tail_, cached_tail_, seenTail, hbTail, popPc,
                  lastRead, lastWrite, n, item, received>>
  BY DEF LoadHead, consVars
<1>6. Popped' = Popped /\ Built' = Built
  BY <1>1, <1>3, <1>5 DEF Popped, Built
<1>7. TypeOK'
  <2>1. {cached_head_', seenHead', hbHead'} \subseteq Cursor
    BY <1>1, <1>3, <1>4, Typing DEF TypeOK, Cursor
  <2> QED
    BY <1>1, <1>3, <1>5, <2>1 DEF TypeOK
<1>8. Views'
  BY <1>1, <1>3, <1>4, <1>5, Typing DEF Views
<1>9. Checks'
  <2>1. tail_ - head <= SIZE /\ (~Full(tail_, head) => tail_ - head < SIZE)
    BY <1>1, <1>4, Typing, SizeAssumption DEF Checks, Views, Full
  <2> QED
    BY <1>1, <1>3, <1>5, <2>1 DEF Checks
<1>10. SlotsHold' /\ FifoOrder'
  BY <1>1, <1>5, <1>6 DEF SlotsHold, FifoOrder, Slot
<1> QED
  BY <1>7, <1>8, <1>9, <1>10 DEF IInv

LEMMA LoadTailStep == ASSUME AllSynchronise, IInv, LoadTail PROVE IInv'
<1>1. TypeOK /\ Views /\ Checks /\ SlotsHold /\ FifoOrder /\ popPc = "load"
  BY DEF IInv, LoadTail
<1>2. Acquires(impl.load)
  BY <1>1 DEF AllSynchronise, Synchronises, Acquires, TypeOK
<1>3. PICK tail \in Readable(seenTail, tail_, impl.load) :
        /\ cached_tail_' = tail /\ seenTail' = tail /\ hbTail' = tail
        /\ popPc' = IF Empty(tail, head_) THEN "try" ELSE "read"
  BY <1>2 DEF LoadTail
<1>4. tail \in Nat /\ seenTail <= tail /\ tail <= tail_
  BY <1>1, Loads, Typing DEF Views
<1>5. UNCHANGED <<impl, data_, head_, tail_, cached_head_, seenHead, hbHead, pushPc,
                  lastRead, lastWrite, n, item, received>>
  BY DEF LoadTail, prodVars
<1>6. Popped' = Popped /\ Built' = Built
  BY <1>1, <1>3, <1>5 DEF Popped, Built
<1>7. TypeOK'
  <2>1. {cached_tail_', seenTail', hbTail'} \subseteq Cursor
    BY <1>1, <1>3, <1>4, Typing DEF TypeOK, Cursor
  <2> QED
    BY <1>1, <1>3, <1>5, <2>1 DEF TypeOK
<1>8. Views'
  BY <1>1, <1>3, <1>4, <1>5, Typing DEF Views
<1>9. Checks'
  <2>1. ~Empty(tail, head_) => head_ < tail
    BY <1>1, <1>4, Typing DEF Views, Empty
  <2> QED
    BY <1>1, <1>3, <1>5, <2>1 DEF Checks
<1>10. SlotsHold' /\ FifoOrder'
  BY <1>1, <1>5, <1>6 DEF SlotsHold, FifoOrder, Slot
<1> QED
  BY <1>7, <1>8, <1>9, <1>10 DEF IInv

LEMMA ConstructStep == ASSUME IInv, Construct PROVE IInv'
<1>1. TypeOK /\ Views /\ Checks /\ SlotsHold /\ FifoOrder /\ pushPc = "construct"
  BY DEF IInv, Construct
<1>2. UNCHANGED <<impl, head_, tail_, cached_head_, cached_tail_, seenHead, seenTail,
                  hbHead, hbTail, popPc, lastRead, n, item, received>>
  BY DEF Construct, consVars
<1>3. /\ data_' = [data_ EXCEPT ![Slot(tail_)] = n]
      /\ lastWrite' = [lastWrite EXCEPT ![Slot(tail_)] = tail_ + 1]
      /\ pushPc' = "publish"
  BY DEF Construct
<1>4. Popped' = Popped /\ Built = tail_ /\ Built' = tail_ + 1
  BY <1>1, <1>2, <1>3 DEF Popped, Built
<1>5. n = tail_ + 1 /\ n <= StopFlag /\ Slot(tail_) \in Slots
  BY <1>1, SlotInRing, Typing DEF Checks
<1>6. TypeOK'
  <2>1. n \in Content /\ tail_ + 1 \in Cursor
    BY <1>1, <1>5, Typing DEF TypeOK, Content, Cursor
  <2> QED
    BY <1>1, <1>2, <1>3, <2>1 DEF TypeOK
<1>7. Views' /\ FifoOrder'
  BY <1>1, <1>2 DEF Views, FifoOrder
<1>8. Checks'
  BY <1>1, <1>2, <1>3, <1>5 DEF Checks
<1>9. SlotsHold'
  <2>1. ASSUME NEW c \in Popped .. Built - 1
        PROVE  /\ Slot(c) \in Slots /\ Slot(c) # Slot(tail_)
               /\ data_'[Slot(c)] = data_[Slot(c)] /\ lastWrite'[Slot(c)] = lastWrite[Slot(c)]
    <3>1. c \in Nat /\ cached_head_ <= c /\ c < tail_ /\ tail_ < cached_head_ + SIZE
      BY <1>1, <1>4, Typing, SizeAssumption DEF Views, Checks, Popped
    <3>2. Slot(c) # Slot(tail_)
      BY <3>1, LiveSlotsDiffer, Typing, <1>1
    <3> QED
      BY <1>1, <1>3, <1>5, <3>1, <3>2, SlotInRing DEF TypeOK
  <2>2. /\ data_'[Slot(tail_)] = tail_ + 1
        /\ lastWrite'[Slot(tail_)] = tail_ + 1
    BY <1>1, <1>3, <1>5 DEF TypeOK
  <2>3. Popped <= tail_
    BY <1>1, Typing DEF Views, Checks, Popped
  <2>4. Popped .. Built' - 1 = (Popped .. Built - 1) \cup {tail_}
    BY <1>1, <1>4, <2>3, Typing
  <2>5. \A c \in Popped' .. Built' - 1 :
          data_'[Slot(c)] = c + 1 /\ lastWrite'[Slot(c)] = c + 1
    BY <1>1, <1>4, <2>1, <2>2, <2>4 DEF SlotsHold
  <2>6. ASSUME NEW s \in Slots, impl'.destroys, data_'[s] # Nil
        PROVE  \E c \in Popped' .. Built' - 1 : Slot(c) = s
    <3>1. CASE s = Slot(tail_)
      BY <3>1, <1>4, <2>4
    <3>2. CASE s # Slot(tail_)
      <4>1. data_[s] # Nil
        BY <1>1, <1>3, <2>6, <3>2 DEF TypeOK
      <4> QED
        BY <1>1, <1>2, <1>4, <2>4, <2>6, <4>1 DEF SlotsHold
    <3> QED
      BY <3>1, <3>2
  <2>7. \A s \in Slots : lastRead'[s] # 0 =>
          lastRead'[s] <= Popped' /\ Slot(lastRead'[s] - 1) = s
    BY <1>1, <1>2, <1>4 DEF SlotsHold
  <2> QED
    BY <2>5, <2>6, <2>7 DEF SlotsHold, Slot
<1> QED
  BY <1>6, <1>7, <1>8, <1>9 DEF IInv

LEMMA StoreTailStep == ASSUME IInv, StoreTail PROVE IInv'
<1>1. TypeOK /\ Views /\ Checks /\ SlotsHold /\ FifoOrder /\ pushPc = "publish"
  BY DEF IInv, StoreTail
<1>2. UNCHANGED <<impl, data_, head_, cached_head_, cached_tail_, seenHead, seenTail,
                  hbHead, hbTail, popPc, lastRead, lastWrite, item, received>>
  BY DEF StoreTail, consVars
<1>3. tail_' = tail_ + 1 /\ n' = n + 1 /\ pushPc' = "try"
  BY DEF StoreTail
<1>4. Popped' = Popped /\ Built' = Built
  BY <1>1, <1>2, <1>3 DEF Popped, Built
<1>5. TypeOK'
  <2>1. n = tail_ + 1 /\ n <= StopFlag
    BY <1>1 DEF Checks
  <2>2. tail_' \in Cursor /\ n' \in 1 .. StopFlag + 1
    BY <1>1, <1>3, <2>1, Typing DEF Cursor
  <2> QED
    BY <1>1, <1>2, <1>3, <2>2 DEF TypeOK
<1>6. Views' /\ FifoOrder'
  BY <1>1, <1>2, <1>3, Typing DEF Views, FifoOrder
<1>7. Checks'
  BY <1>1, <1>2, <1>3, Typing, SizeAssumption DEF Checks
<1>8. SlotsHold'
  BY <1>1, <1>2, <1>4 DEF SlotsHold, Slot
<1> QED
  BY <1>5, <1>6, <1>7, <1>8 DEF IInv
LEMMA ReadStep == ASSUME IInv, Read PROVE IInv'
<1>1. TypeOK /\ Views /\ Checks /\ SlotsHold /\ FifoOrder /\ popPc = "read"
  BY DEF IInv, Read
<1>2. UNCHANGED <<impl, head_, tail_, cached_head_, cached_tail_, seenHead, seenTail,
                  hbHead, hbTail, pushPc, lastWrite, n, received>>
  BY DEF Read, prodVars
<1>3. Popped = head_ /\ Popped' = head_ + 1 /\ Built' = Built /\ popPc' = "publish"
  BY <1>1, <1>2 DEF Popped, Built, Read
<1>4. head_ \in Popped .. Built - 1 /\ Slot(head_) \in Slots
  BY <1>1, <1>3, Typing, SlotInRing DEF Views, Checks, Built
<1>5. lastWrite[Slot(head_)] = head_ + 1 /\ data_[Slot(head_)] = head_ + 1
  BY <1>1, <1>4 DEF SlotsHold
<1>6. item' = head_ + 1 /\ head_ + 1 <= StopFlag
  <2>1. lastWrite[Slot(head_)] <= hbTail
    BY <1>1, Safety DEF IInv, DataRaceFree
  <2>2. head_ + 1 <= tail_ /\ tail_ <= StopFlag
    BY <1>1, Typing DEF Views, Checks, TypeOK, Cursor
  <2> QED
    BY <1>1, <1>5, <2>1, <2>2, Typing DEF Read, ReadOutcomes
<1>7. /\ data_' = IF impl.destroys THEN [data_ EXCEPT ![Slot(head_)] = Nil] ELSE data_
      /\ lastRead' = [lastRead EXCEPT ![Slot(head_)] = head_ + 1]
  BY DEF Read
<1>8. TypeOK'
  <2>1. head_ + 1 \in Cursor /\ item' \in Content /\ Nil \in Content
    BY <1>1, <1>6, Typing DEF Cursor, Content
  <2> QED
    BY <1>1, <1>2, <1>3, <1>7, <2>1 DEF TypeOK
<1>9. Views' /\ FifoOrder'
  BY <1>1, <1>2 DEF Views, FifoOrder
<1>10. Checks'
  BY <1>1, <1>2, <1>3, <1>6 DEF Checks
<1>11. SlotsHold'
  <2>1. ASSUME NEW c \in head_ + 1 .. Built - 1
        PROVE  c \in Popped .. Built - 1 /\ Slot(c) \in Slots /\ Slot(c) # Slot(head_)
    <3>1. c \in Nat /\ cached_head_ <= head_ /\ head_ < c /\ c < cached_head_ + SIZE
      BY <1>1, Typing, SizeAssumption DEF Views, Checks, Built
    <3> QED
      BY <1>1, <1>3, <3>1, LiveSlotsDiffer, SlotInRing, Typing
  <2>2. \A c \in Popped' .. Built' - 1 :
          data_'[Slot(c)] = c + 1 /\ lastWrite'[Slot(c)] = c + 1
    BY <1>1, <1>2, <1>3, <1>7, <2>1 DEF SlotsHold, TypeOK
  <2>3. ASSUME NEW s \in Slots, impl'.destroys, data_'[s] # Nil
        PROVE  \E c \in Popped' .. Built' - 1 : Slot(c) = s
    <3>1. s # Slot(head_) /\ data_[s] # Nil
      BY <1>1, <1>2, <1>4, <1>7, <2>3 DEF TypeOK
    <3>2. PICK c \in Popped .. Built - 1 : Slot(c) = s
      BY <1>1, <1>2, <2>3, <3>1 DEF SlotsHold
    <3>3. c \in head_ + 1 .. Built - 1
      BY <1>1, <1>3, <3>1, <3>2, Typing
    <3> QED
      BY <1>3, <3>2, <3>3
  <2>4. ASSUME NEW s \in Slots, lastRead'[s] # 0
        PROVE  lastRead'[s] <= Popped' /\ Slot(lastRead'[s] - 1) = s
    <3>1. CASE s = Slot(head_)
      <4>1. lastRead'[s] = head_ + 1
        BY <1>1, <1>7, <3>1 DEF TypeOK
      <4> QED
        BY <1>1, <1>3, <3>1, <4>1, Typing DEF Slot
    <3>2. CASE s # Slot(head_)
      <4>1. lastRead'[s] = lastRead[s]
        BY <1>1, <1>7, <3>2 DEF TypeOK
      <4> QED
        BY <1>1, <1>3, <2>4, <4>1, Typing DEF SlotsHold
    <3> QED
      BY <3>1, <3>2
  <2> QED
    BY <2>2, <2>3, <2>4 DEF SlotsHold, Slot
<1> QED
  BY <1>8, <1>9, <1>10, <1>11 DEF IInv

LEMMA StoreHeadStep == ASSUME IInv, StoreHead PROVE IInv'
<1>1. TypeOK /\ Views /\ Checks /\ SlotsHold /\ FifoOrder /\ popPc = "publish"
  BY DEF IInv, StoreHead
<1>2. UNCHANGED <<impl, data_, tail_, cached_head_, cached_tail_, seenHead, seenTail,
                  hbHead, hbTail, pushPc, lastRead, lastWrite, n, item>>
  BY DEF StoreHead, prodVars
<1>3. /\ head_' = head_ + 1 /\ received' = Append(received, head_ + 1)
      /\ popPc' \in {"done", "try"}
  BY <1>1 DEF StoreHead, Checks
<1>4. Popped' = Popped /\ Built' = Built
  <2>1. head_ \in Nat /\ popPc = "publish"
    BY <1>1, Typing DEF StoreHead
  <2> QED
    BY <1>2, <1>3, <2>1 DEF Popped, Built
<1>5. head_ + 1 <= cached_tail_ /\ head_ + 1 <= tail_ /\ head_ + 1 <= StopFlag
  <2>1. /\ head_ \in Nat /\ tail_ \in Nat /\ cached_tail_ \in Nat
        /\ StopFlag \in Nat /\ tail_ <= StopFlag
    BY <1>1, Typing DEF TypeOK, Cursor
  <2>2. head_ < cached_tail_ /\ cached_tail_ <= tail_
    <3>1. head_ < cached_tail_
      BY <1>1 DEF Checks
    <3>2. cached_tail_ <= tail_
      BY <1>1, Typing DEF Views
    <3> QED
      BY <3>1, <3>2
  <2> QED
    BY <2>1, <2>2
<1>6. FifoOrder'
  <2>1. Append([i \in 1 .. head_ |-> i], head_ + 1) = [i \in 1 .. head_ + 1 |-> i]
    <3>1. ASSUME NEW h \in Nat
          PROVE  Append([i \in 1 .. h |-> i], h + 1) = [i \in 1 .. h + 1 |-> i]
      OBVIOUS
    <3> QED
      BY <1>1, <3>1, Typing
  <2> QED
    BY <1>1, <1>3, <2>1 DEF FifoOrder
<1>7. TypeOK'
  <2>1. head_' \in Cursor /\ received' \in Seq(1 .. StopFlag)
    <3>1. head_ + 1 \in Cursor /\ head_ + 1 \in 1 .. StopFlag
      BY <1>1, <1>5, Typing DEF Cursor
    <3> QED
      BY <1>1, <1>3, <3>1 DEF TypeOK
  <2> QED
    BY <1>1, <1>2, <1>3, <2>1 DEF TypeOK
<1>8. Views'
  BY <1>1, <1>2, <1>3, <1>5, Typing DEF Views
<1>9. Checks'
  BY <1>1, <1>2, <1>3, <1>5, Typing DEF Checks
<1>10. SlotsHold'
  BY <1>1, <1>2, <1>4 DEF SlotsHold, Slot
<1> QED
  BY <1>6, <1>7, <1>8, <1>9, <1>10 DEF IInv

LEMMA NextIInv == ASSUME AllSynchronise, IInv, [Next]_vars PROVE IInv'
<1>1. CASE Producer
  BY <1>1, PeekStep, LoadHeadStep, ConstructStep, StoreTailStep DEF Producer
<1>2. CASE Consumer
  BY <1>2, PeekStep, LoadTailStep, ReadStep, StoreHeadStep DEF Consumer
<1>3. CASE ProducerEmpty \/ ConsumerEmpty
  BY <1>3, PeekStep
<1>4. CASE Joined \/ UNCHANGED vars
  BY <1>4 DEF Joined, vars, prodVars, consVars, IInv, TypeOK, Views, Checks, SlotsHold,
              FifoOrder, Popped, Built, Slot
<1> QED
  BY <1>1, <1>2, <1>3, <1>4 DEF Next

-----------------------------------------------------------------------------
(* The invariant holds in every reachable state of implementations that    *)
(* synchronise.                                                            *)
THEOREM Invariance == ASSUME AllSynchronise PROVE Spec => []IInv
<1>1. Init => IInv
  BY InitIInv
<1>2. IInv /\ [Next]_vars => IInv'
  BY NextIInv
<1> QED
  BY <1>1, <1>2, PTL DEF Spec

(* Cursors, caches, slots and program counters stay in their ranges; in    *)
(* particular no cursor passes the stop flag.                              *)
THEOREM TypeCorrect == ASSUME AllSynchronise PROVE Spec => []TypeOK
<1>1. IInv => TypeOK
  BY DEF IInv
<1> QED
  BY <1>1, Invariance, PTL

(* In a ring of any size no two conflicting accesses to a slot race.       *)
THEOREM NoDataRace == ASSUME AllSynchronise PROVE Spec => []DataRaceFree
<1>1. IInv => DataRaceFree
  BY Safety
<1> QED
  BY <1>1, Invariance, PTL

(* Elements are constructed in dead slots and read while alive.            *)
THEOREM ElementLifetime == ASSUME AllSynchronise PROVE Spec => []LifetimeOK
<1>1. IInv => LifetimeOK
  BY Safety
<1> QED
  BY <1>1, Invariance, PTL

(* The assertion in size() holds when either of the two threads calls it.  *)
THEOREM SizeNeverAsserts == ASSUME AllSynchronise PROVE Spec => []SizeAssertion
<1>1. IInv => SizeAssertion
  BY Safety
<1> QED
  BY <1>1, Invariance, PTL

(* The consumer receives 1, 2, 3, ... in that order, each once.            *)
THEOREM Fifo == ASSUME AllSynchronise PROVE Spec => []FifoOrder
<1>1. IInv => FifoOrder
  BY DEF IInv
<1> QED
  BY <1>1, Invariance, PTL
(* A consumer that has seen an item does not find the queue empty.         *)
THEOREM EmptyIsReliable == ASSUME AllSynchronise PROVE Spec => EmptyReliable
<1>1. ASSUME IInv, [Next]_vars
      PROVE  [popPc = "load" /\ popPc' = "try" => seenTail = head_]_vars
  <2>1. SUFFICES ASSUME popPc = "load", popPc' = "try" PROVE seenTail = head_
    OBVIOUS
  <2>2. LoadTail
    BY <1>1, <2>1 DEF Next, Producer, Consumer, TryPush, LoadHead, Construct, StoreTail, TryPop,
                      Read, StoreHead, ProducerEmpty, ConsumerEmpty, Joined, vars, prodVars, consVars
  <2>3. PICK tail \in Readable(seenTail, tail_, impl.load) : Empty(tail, head_)
    BY <2>1, <2>2 DEF LoadTail
  <2>4. tail \in Nat /\ seenTail <= tail /\ head_ <= seenTail
    BY <1>1, Loads, Typing DEF IInv, Views
  <2> QED
    BY <1>1, <2>3, <2>4, Typing DEF Empty, IInv
<1> QED
  BY <1>1, Invariance, PTL DEF Spec, EmptyReliable

-----------------------------------------------------------------------------
(* The ring implements the bounded FIFO.                                   *)

(* The queue of the abstract state, without the slots it is stored in.     *)
PlainQueue == [i \in 1 .. tail_ - head_ |-> head_ + i]

LEMMA QueuedIs == IInv => Queued = PlainQueue
<1> SUFFICES ASSUME IInv PROVE Queued = PlainQueue
  OBVIOUS
<1>1. TypeOK /\ Views /\ Checks /\ SlotsHold
  BY DEF IInv
<1>2. ASSUME NEW i \in 1 .. tail_ - head_
      PROVE  (IF i = 1 /\ popPc = "publish" THEN item ELSE data_[Slot(head_ + i - 1)]) = head_ + i
  <2>1. CASE i = 1 /\ popPc = "publish"
    BY <1>1, <2>1 DEF Checks
  <2>2. CASE ~(i = 1 /\ popPc = "publish")
    <3>1. head_ + i - 1 \in Popped .. Built - 1
      BY <1>1, <2>2, Typing DEF Popped, Built
    <3>2. data_[Slot(head_ + i - 1)] = head_ + i - 1 + 1
      BY <1>1, <3>1 DEF SlotsHold
    <3> QED
      BY <1>1, <2>2, <3>2, Typing
  <2> QED
    BY <2>1, <2>2
<1> QED
  BY <1>2 DEF Queued, PlainQueue

LEMMA QueuedStays == (IInv => Queued = PlainQueue)'
BY QueuedIs, PTL

LEMMA RefineStoreTail == ASSUME IInv, IInv', StoreTail PROVE Abstract!Push(tail_ + 1)
<1>1. TypeOK /\ Views /\ Checks
  BY DEF IInv
<1>2. tail_' = tail_ + 1 /\ UNCHANGED <<head_, received>> /\ tail_ - head_ \in Nat
  BY <1>1, Typing DEF StoreTail, consVars, Views
<1>3. Len(Queued) < SIZE
  <2>1. Len(Queued) = tail_ - head_
    BY <1>2, QueuedIs DEF PlainQueue
  <2>2. pushPc = "publish"
    BY DEF StoreTail
  <2> QED
    <3>1. tail_ - cached_head_ < SIZE /\ cached_head_ <= head_
      BY <1>1, <2>2, Typing DEF Views, Checks
    <3>2. tail_ \in Nat /\ head_ \in Nat /\ cached_head_ \in Nat /\ SIZE \in Nat
      BY <1>1, Typing, SizeAssumption
    <3> QED
      BY <2>1, <3>1, <3>2
<1>4. Queued' = Append(Queued, tail_ + 1)
  <2> DEFINE k == tail_ - head_
  <2>1. Queued = [i \in 1 .. k |-> head_ + i] /\ Queued' = [i \in 1 .. k + 1 |-> head_ + i]
    <3>1. Queued = PlainQueue /\ Queued' = PlainQueue'
      BY QueuedIs, QueuedStays
    <3>2. tail_' - head_' = k + 1
      BY <1>1, <1>2, Typing
    <3> QED
      BY <1>2, <3>1, <3>2 DEF PlainQueue
  <2>2. k \in Nat /\ tail_ + 1 = head_ + (k + 1)
    BY <1>1, <1>2, Typing
  <2> HIDE DEF k
  <2> QED
    BY <1>1, <2>1, <2>2, Typing
<1> QED
  BY <1>2, <1>3, <1>4 DEF Abstract!Push

LEMMA RefineStoreHead == ASSUME IInv, IInv', StoreHead PROVE Abstract!Pop
<1>1. TypeOK /\ Views /\ Checks /\ popPc = "publish"
  BY DEF IInv, StoreHead
<1>2. /\ head_' = head_ + 1 /\ tail_' = tail_ /\ received' = Append(received, head_ + 1)
      /\ tail_ - head_ \in Nat /\ tail_ - head_ >= 1
  <2>1. head_' = head_ + 1 /\ tail_' = tail_ /\ received' = Append(received, head_ + 1)
    BY <1>1 DEF StoreHead, prodVars, Checks
  <2>2. head_ < cached_tail_ /\ cached_tail_ <= tail_
    BY <1>1, Typing DEF Views, Checks
  <2> QED
    BY <1>1, <2>1, <2>2, Typing
<1>3. Queued = [i \in 1 .. tail_ - head_ |-> head_ + i]
  BY QueuedIs DEF PlainQueue
<1>4. Queued' = [i \in 1 .. (tail_ - head_) - 1 |-> head_ + 1 + i]
  <2>1. Queued' = [i \in 1 .. tail_ - (head_ + 1) |-> head_ + 1 + i]
    BY <1>2, QueuedStays DEF PlainQueue
  <2>2. tail_ - (head_ + 1) = (tail_ - head_) - 1
    BY <1>1, Typing
  <2> QED
    BY <2>1, <2>2
<1>5. Queued # << >> /\ Head(Queued) = head_ + 1 /\ Tail(Queued) = Queued'
  <2>1. head_ \in Int
    BY <1>1, Typing
  <2>2. /\ Queued # << >> /\ Head(Queued) = head_ + 1
        /\ Tail(Queued) = [i \in 1 .. (tail_ - head_) - 1 |-> head_ + 1 + i]
    BY <1>2, <1>3, <2>1, Consecutive, Zenon
  <2> QED
    BY <1>4, <2>2
<1> QED
  BY <1>2, <1>5 DEF Abstract!Pop

(* Every step leaves the abstract queue alone but the two that publish.    *)
LEMMA RefineStep ==
  ASSUME IInv, IInv', [Next]_vars
  PROVE  [Abstract!Next]_<<Queued, received>>
<1>1. CASE StoreTail
  <2>1. tail_ + 1 \in 1 .. StopFlag
    BY <1>1, Typing DEF IInv, Checks, StoreTail
  <2> QED
    BY <1>1, <2>1, RefineStoreTail DEF Abstract!Next
<1>2. CASE StoreHead
  BY <1>2, RefineStoreHead DEF Abstract!Next
<1>3. CASE ~StoreTail /\ ~StoreHead
  <2>1. UNCHANGED <<head_, tail_, received>>
    BY <1>3 DEF Next, Producer, Consumer, TryPush, LoadHead, Construct, StoreTail, TryPop, LoadTail,
                Read, StoreHead, ProducerEmpty, ConsumerEmpty, Joined, vars, prodVars, consVars
  <2> QED
    BY <2>1, QueuedIs, QueuedStays DEF PlainQueue
<1> QED
  BY <1>1, <1>2, <1>3

(* A ring of SIZE slots is a FIFO queue of capacity SIZE.                  *)
THEOREM Refinement == ASSUME AllSynchronise PROVE Spec => ImplementsBoundedFifo
<1>1. Init => Abstract!Init
  BY DEF Init, Abstract!Init, Queued
<1>2. IInv /\ IInv' /\ [Next]_vars => [Abstract!Next]_Abstract!vars
  BY RefineStep DEF Abstract!vars
<1> QED
  BY <1>1, <1>2, Invariance, PTL DEF Spec, ImplementsBoundedFifo, Abstract!Spec
=============================================================================
