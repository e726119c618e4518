-------------------------- MODULE WrappedRingProofs --------------------------
(***************************************************************************)
(* Proofs about WrappedRing, for every capacity, every number of items and *)
(* every set of implementations that synchronise.  The argument is that of *)
(* SpscRingProofs; what is new is that the two checks of the ring see      *)
(* indices only, and an index says less than the count it stands for.      *)
(***************************************************************************)
EXTENDS WrappedRing, QueueLemmas

(* What the safety of the ring needs of an implementation: the load of the *)
(* other thread's index acquires what its store released.                  *)
AllSynchronise == \A q \in Queues : q.load = "acquire" /\ q.store = "release"

-----------------------------------------------------------------------------
(* The inductive invariant.                                                *)

Popped == IF popPc = "publish" THEN readIdx_ + 1 ELSE readIdx_    \* elements destroyed
Built  == IF pushPc = "publish" THEN writeIdx_ + 1 ELSE writeIdx_ \* elements constructed

TypeOK ==
  /\ impl \in Queues
  /\ {writeIdx_, readIdx_, readIdxCache_, writeIdxCache_,
      seenRead, seenWrite, hbRead, hbWrite, n} \subseteq Nat
  /\ slots_ \in [Slots -> {Nil} \cup Nat]
  /\ lastRead \in [Slots -> Nat]
  /\ lastWrite \in [Slots -> Nat]
  /\ pushPc \in {"try", "load", "construct", "publish"}
  /\ popPc \in {"try", "again", "load", "read", "destroy", "publish", "done"}

(* What each thread believes of the other is old but not wrong, and no     *)
(* older than what it has acquired.                                        *)
Views ==
  /\ readIdxCache_ <= hbRead /\ hbRead <= seenRead /\ seenRead <= readIdx_
  /\ readIdx_ <= writeIdxCache_
  /\ writeIdxCache_ <= hbWrite /\ hbWrite <= seenWrite /\ seenWrite <= writeIdx_

(* Where each thread is tells what its last check of the ring was.         *)
Checks ==
  /\ writeIdx_ - readIdxCache_ <= CAPACITY
  /\ pushPc \in {"construct", "publish"} => writeIdx_ - readIdxCache_ < CAPACITY
  /\ popPc \in {"again", "read", "destroy", "publish"} => readIdx_ < writeIdxCache_
  /\ n = writeIdx_ + 1
  /\ pushPc # "try" => n <= StopFlag
  /\ popPc \in {"destroy", "publish"} => item = readIdx_ + 1

(* The slots hold the elements constructed and not destroyed, and nothing  *)
(* else; each slot remembers counts whose index it is.                     *)
SlotsHold ==
  /\ \A c \in Popped .. Built - 1 :
       slots_[Index(c)] = c + 1 /\ lastWrite[Index(c)] = c + 1
  /\ \A s \in Slots : slots_[s] # Nil =>
       \E c \in Popped .. Built - 1 : Index(c) = s
  /\ \A s \in Slots : lastRead[s] # 0 =>
       lastRead[s] <= Popped /\ Index(lastRead[s] - 1) = s

IInv == TypeOK /\ Views /\ Checks /\ SlotsHold

-----------------------------------------------------------------------------
(* Consequences of the invariant that several proofs need.                 *)

LEMMA Typing ==
  ASSUME TypeOK
  PROVE  /\ readIdx_ \in Nat /\ writeIdx_ \in Nat /\ n \in Nat
         /\ readIdxCache_ \in Nat /\ writeIdxCache_ \in Nat
         /\ seenRead \in Nat /\ seenWrite \in Nat /\ hbRead \in Nat /\ hbWrite \in Nat
         /\ Popped \in Nat /\ Built \in Nat
         /\ StopFlag \in Nat \ {0}
         /\ \A s \in Slots : lastRead[s] \in Nat /\ lastWrite[s] \in Nat
BY ItemsAssumption DEF TypeOK, StopFlag, Popped, Built

LEMMA RingSize == capacity_ \in Nat \ {0} /\ CAPACITY \in Nat /\ capacity_ = CAPACITY + 1
BY CapacityAssumption DEF capacity_

LEMMA IndexInRing == ASSUME NEW c \in Nat PROVE Index(c) \in Slots
BY RingSize, DivMod DEF Index, Slots

(* What a count is: the same index, unless the counts are a lap apart.     *)
LEMMA IndexesDiffer ==
  ASSUME NEW c \in Nat, NEW d \in Nat, c < d, d <= c + CAPACITY
  PROVE  Index(c) # Index(d)
<1>1. d - c < capacity_
  BY RingSize
<1> QED
  BY <1>1, RingSize, DifferentSlots DEF Index

(* A push that does not find the ring full has room.                       *)
LEMMA NotFullMeansRoom ==
  ASSUME NEW write \in Nat, NEW read \in Nat, write <= read + CAPACITY, ~Full(write, read)
  PROVE  write < read + CAPACITY
<1>1. SUFFICES ASSUME write = read + CAPACITY PROVE FALSE
  BY RingSize
<1>2. write + 1 = read + capacity_
  BY <1>1, RingSize
<1>3. Index(write + 1) = Index(read)
  BY <1>2, RingSize, SameSlot DEF Index
<1> QED
  BY <1>3 DEF Full

(* A pop that finds the ring empty is right about it.                      *)
LEMMA EmptyMeansCaughtUp ==
  ASSUME NEW write \in Nat, NEW read \in Nat, read <= write, write <= read + CAPACITY
  PROVE  Empty(write, read) <=> write = read
<1>1. CASE write = read
  BY <1>1 DEF Empty
<1>2. CASE read < write
  <2>1. Index(read) # Index(write)
    BY <1>2, IndexesDiffer
  <2> QED
    BY <1>2, <2>1 DEF Empty
<1> QED
  BY <1>1, <1>2

(* A slot the producer is about to use holds no live element, and a slot   *)
(* holds one live element only.                                            *)
LEMMA LiveSlotsDiffer ==
  ASSUME IInv, NEW c \in Nat, NEW d \in Nat, readIdxCache_ <= c, c < d,
         d <= readIdxCache_ + CAPACITY
  PROVE  Index(c) # Index(d)
<1>1. d <= c + CAPACITY
  BY Typing, RingSize DEF IInv
<1> QED
  BY <1>1, IndexesDiffer

(* The safety properties of the ring follow from the invariant.            *)
LEMMA Safety == ASSUME IInv PROVE DataRaceFree /\ LifetimeOK
<1>1. TypeOK /\ Views /\ Checks /\ SlotsHold
  BY DEF IInv
<1>2. Index(readIdx_) \in Slots /\ Index(writeIdx_) \in Slots
  BY <1>1, Typing, IndexInRing
<1>3. ASSUME pushPc = "construct" PROVE lastRead[Index(writeIdx_)] <= hbRead
  <2> DEFINE c == lastRead[Index(writeIdx_)] - 1
  <2>1. SUFFICES ASSUME lastRead[Index(writeIdx_)] > hbRead PROVE FALSE
    BY <1>1, <1>2, Typing
  <2>2. c \in Nat /\ c + 1 <= Popped /\ Index(c) = Index(writeIdx_) /\ hbRead <= c
    BY <1>1, <1>2, <2>1, Typing DEF SlotsHold
  <2>3. c < writeIdx_ /\ readIdxCache_ <= c
    BY <1>1, <2>2, Typing DEF Views, Checks, Popped
  <2>4. writeIdx_ <= readIdxCache_ + CAPACITY
    BY <1>1, Typing, RingSize DEF Checks
  <2> QED
    BY <1>1, <2>2, <2>3, <2>4, LiveSlotsDiffer, Typing
<1>4. ASSUME popPc \in {"read", "destroy"}
      PROVE  lastWrite[Index(readIdx_)] <= hbWrite /\ slots_[Index(readIdx_)] # Nil
  <2>1. readIdx_ \in Popped .. Built - 1
    BY <1>1, <1>4, Typing DEF Views, Checks, Popped, Built
  <2>2. lastWrite[Index(readIdx_)] = readIdx_ + 1 /\ slots_[Index(readIdx_)] = readIdx_ + 1
    BY <1>1, <2>1 DEF SlotsHold
  <2> QED
    BY <1>1, <1>4, <2>2, Typing, NilAssumption DEF Views, Checks
<1>5. ASSUME pushPc = "construct" PROVE slots_[Index(writeIdx_)] = Nil
  <2>1. SUFFICES ASSUME slots_[Index(writeIdx_)] # Nil PROVE FALSE
    OBVIOUS
  <2>2. PICK c \in Popped .. Built - 1 : Index(c) = Index(writeIdx_)
    BY <1>1, <1>2, <2>1 DEF SlotsHold
  <2>3. c \in Nat /\ c < writeIdx_ /\ readIdxCache_ <= c
    BY <1>1, <1>5, <2>2, Typing DEF Views, Popped, Built
  <2>4. writeIdx_ <= readIdxCache_ + CAPACITY
    BY <1>1, Typing, RingSize DEF Checks
  <2> QED
    BY <1>1, <2>2, <2>3, <2>4, LiveSlotsDiffer, Typing
<1>6. ASSUME popPc = "destroy", NEW write \in seenWrite .. writeIdx_ PROVE ~Empty(write, readIdx_)
  <2>1. write \in Nat /\ readIdx_ < write /\ write <= readIdx_ + CAPACITY
    BY <1>1, <1>6, Typing, RingSize DEF Views, Checks
  <2> QED
    BY <1>1, <2>1, Typing, EmptyMeansCaughtUp
<1>7. popPc # "null"
  BY <1>1 DEF TypeOK
<1> QED
  BY <1>3, <1>4, <1>5, <1>6, <1>7 DEF DataRaceFree, LifetimeOK

-----------------------------------------------------------------------------
LEMMA InitIInv == Init => IInv
<1> SUFFICES ASSUME Init PROVE IInv
  OBVIOUS
<1> USE RingSize, ItemsAssumption, NilAssumption DEF Init
<1>1. TypeOK
  BY DEF TypeOK
<1>2. Views /\ Checks
  BY DEF Views, Checks, StopFlag
<1>3. SlotsHold
  BY DEF SlotsHold, Popped, Built
<1> QED
  BY <1>1, <1>2, <1>3 DEF IInv

-----------------------------------------------------------------------------
(* Each action preserves the invariant.                                    *)

(* The check of the copy of the other thread's index.                      *)
LEMMA PeekStep == ASSUME IInv, TryPush \/ Front PROVE IInv'
<1>1. TypeOK /\ Views /\ Checks /\ SlotsHold
  BY DEF IInv
<1>2. UNCHANGED <<impl, slots_, writeIdx_, readIdx_, readIdxCache_, writeIdxCache_, seenRead,
                  seenWrite, hbRead, hbWrite, lastRead, lastWrite, n, item>>
  BY DEF TryPush, Front, consVars, prodVars
<1>3. /\ \/ pushPc' = pushPc
         \/ /\ pushPc = "try" /\ pushPc' \in {"load", "construct"} /\ n <= StopFlag
            /\ pushPc' = "construct" => ~Full(writeIdx_, readIdxCache_)
      /\ \/ popPc' = popPc
         \/ /\ popPc \in {"try", "again"}
            /\ \/ /\ popPc' \in {"again", "read"} /\ ~Empty(writeIdxCache_, readIdx_)
               \/ popPc' = "load"
               \/ popPc = "again" /\ Empty(writeIdxCache_, readIdx_)
  <2>1. CASE TryPush
    BY <2>1 DEF TryPush, consVars
  <2>2. CASE Front
    BY <2>2 DEF Front, Found, NotFound, prodVars
  <2> QED
    BY <2>1, <2>2
<1>4. ~Full(writeIdx_, readIdxCache_) => writeIdx_ - readIdxCache_ < CAPACITY
  <2>1. writeIdx_ <= readIdxCache_ + CAPACITY
    BY <1>1, Typing, RingSize DEF Checks
  <2>2. ~Full(writeIdx_, readIdxCache_) => writeIdx_ < readIdxCache_ + CAPACITY
    BY <1>1, <2>1, Typing, NotFullMeansRoom
  <2> QED
    BY <1>1, <2>2, Typing, RingSize
<1>5. Empty(writeIdxCache_, readIdx_) <=> writeIdxCache_ = readIdx_
  <2>1. readIdx_ <= writeIdxCache_ /\ writeIdxCache_ <= readIdx_ + CAPACITY
    BY <1>1, Typing, RingSize DEF Views, Checks
  <2> QED
    BY <1>1, <2>1, Typing, EmptyMeansCaughtUp
<1>6. ~(popPc = "again" /\ Empty(writeIdxCache_, readIdx_))
  BY <1>1, <1>5, Typing DEF Checks
<1>7. Popped' = Popped /\ Built' = Built
  BY <1>2, <1>3, <1>6 DEF Popped, Built
<1>8. TypeOK' /\ Views'
  BY <1>1, <1>2, <1>3, <1>6 DEF TypeOK, Views
<1>9. Checks'
  <2>1. ~Empty(writeIdxCache_, readIdx_) => readIdx_ < writeIdxCache_
    BY <1>1, <1>5, Typing DEF Views
  <2> QED
    BY <1>1, <1>2, <1>3, <1>4, <1>6, <2>1 DEF Checks
<1>10. SlotsHold'
  BY <1>1, <1>2, <1>7 DEF SlotsHold, Index
<1> QED
  BY <1>8, <1>9, <1>10 DEF IInv

LEMMA LoadReadStep == ASSUME AllSynchronise, IInv, LoadRead PROVE IInv'
<1>1. TypeOK /\ Views /\ Checks /\ SlotsHold /\ pushPc = "load"
  BY DEF IInv, LoadRead
<1>2. Acquires
  BY <1>1 DEF AllSynchronise, Acquires, TypeOK
<1>3. PICK read \in seenRead .. readIdx_ :
        /\ readIdxCache_' = read /\ seenRead' = read /\ hbRead' = read
        /\ pushPc' = IF Full(writeIdx_, read) THEN "try" ELSE "construct"
  BY <1>2 DEF LoadRead
<1>4. read \in Nat /\ seenRead <= read /\ read <= readIdx_
  BY <1>1, Typing
<1>5. UNCHANGED <<impl, slots_, writeIdx_, readIdx_, writeIdxCache_, seenWrite, hbWrite, popPc,
                  lastRead, lastWrite, n, item>>
  BY DEF LoadRead, consVars
<1>6. Popped' = Popped /\ Built' = Built
  BY <1>1, <1>3, <1>5 DEF Popped, Built
<1>7. TypeOK'
  BY <1>1, <1>3, <1>4, <1>5 DEF TypeOK
<1>8. Views'
  BY <1>1, <1>3, <1>4, <1>5, Typing DEF Views
<1>9. Checks'
  <2>1. writeIdx_ <= read + CAPACITY
    BY <1>1, <1>4, Typing, RingSize DEF Checks, Views
  <2>2. ~Full(writeIdx_, read) => writeIdx_ < read + CAPACITY
    BY <1>1, <1>4, <2>1, Typing, NotFullMeansRoom
  <2>3. writeIdx_ - read <= CAPACITY /\ (~Full(writeIdx_, read) => writeIdx_ - read < CAPACITY)
    BY <1>1, <1>4, <2>1, <2>2, Typing, RingSize
  <2> QED
    BY <1>1, <1>3, <1>5, <2>3 DEF Checks
<1>10. SlotsHold'
  BY <1>1, <1>5, <1>6 DEF SlotsHold, Index
<1> QED
  BY <1>7, <1>8, <1>9, <1>10 DEF IInv

LEMMA LoadWriteStep == ASSUME AllSynchronise, IInv, LoadWrite PROVE IInv'
<1>1. TypeOK /\ Views /\ Checks /\ SlotsHold /\ popPc = "load"
  BY DEF IInv, LoadWrite
<1>2. Acquires
  BY <1>1 DEF AllSynchronise, Acquires, TypeOK
<1>3. PICK write \in seenWrite .. writeIdx_ :
        /\ writeIdxCache_' = write /\ seenWrite' = write /\ hbWrite' = write
        /\ popPc' = IF Empty(write, readIdx_) THEN "try" ELSE Found
  BY <1>2 DEF LoadWrite
<1>4. write \in Nat /\ seenWrite <= write /\ write <= writeIdx_
  BY <1>1, Typing
<1>5. UNCHANGED <<impl, slots_, writeIdx_, readIdx_, readIdxCache_, seenRead, hbRead, pushPc,
                  lastRead, lastWrite, n, item>>
  BY DEF LoadWrite, prodVars
<1>6. popPc' \in {"try", "again", "read"} /\ (popPc' # "try" => ~Empty(write, readIdx_))
  BY <1>3 DEF Found
<1>7. Popped' = Popped /\ Built' = Built
  BY <1>1, <1>5, <1>6 DEF Popped, Built
<1>8. TypeOK'
  BY <1>1, <1>3, <1>4, <1>5, <1>6 DEF TypeOK
<1>9. Views'
  BY <1>1, <1>3, <1>4, <1>5, Typing DEF Views
<1>10. Checks'
  <2>1. ~Empty(write, readIdx_) => readIdx_ < write
    BY <1>1, <1>4, Typing DEF Views, Empty
  <2> QED
    BY <1>1, <1>3, <1>5, <1>6, <2>1 DEF Checks
<1>11. SlotsHold'
  BY <1>1, <1>5, <1>7 DEF SlotsHold, Index
<1> QED
  BY <1>8, <1>9, <1>10, <1>11 DEF IInv

LEMMA ConstructStep == ASSUME IInv, Construct PROVE IInv'
<1>1. TypeOK /\ Views /\ Checks /\ SlotsHold /\ pushPc = "construct"
  BY DEF IInv, Construct
<1>2. UNCHANGED <<impl, writeIdx_, readIdx_, readIdxCache_, writeIdxCache_, seenRead, seenWrite,
                  hbRead, hbWrite, popPc, lastRead, n, item>>
  BY DEF Construct, consVars
<1>3. /\ slots_' = [slots_ EXCEPT ![Index(writeIdx_)] = n]
      /\ lastWrite' = [lastWrite EXCEPT ![Index(writeIdx_)] = writeIdx_ + 1]
      /\ pushPc' = "publish"
  BY DEF Construct
<1>4. Popped' = Popped /\ Built = writeIdx_ /\ Built' = writeIdx_ + 1
  BY <1>1, <1>2, <1>3 DEF Popped, Built
<1>5. n = writeIdx_ + 1 /\ Index(writeIdx_) \in Slots
  BY <1>1, IndexInRing, Typing DEF Checks
<1>6. TypeOK'
  BY <1>1, <1>2, <1>3, <1>5, Typing DEF TypeOK
<1>7. Views' /\ Checks'
  BY <1>1, <1>2, <1>3 DEF Views, Checks
<1>8. SlotsHold'
  <2>1. ASSUME NEW c \in Popped .. Built - 1
        PROVE  /\ Index(c) \in Slots /\ Index(c) # Index(writeIdx_)
               /\ slots_'[Index(c)] = slots_[Index(c)] /\ lastWrite'[Index(c)] = lastWrite[Index(c)]
    <3>1. c \in Nat /\ readIdxCache_ <= c /\ c < writeIdx_ /\ writeIdx_ <= readIdxCache_ + CAPACITY
      BY <1>1, <1>4, Typing, RingSize DEF Views, Checks, Popped
    <3>2. Index(c) # Index(writeIdx_)
      BY <3>1, LiveSlotsDiffer, Typing, <1>1
    <3> QED
      BY <1>1, <1>3, <1>5, <3>1, <3>2, IndexInRing DEF TypeOK
  <2>2. slots_'[Index(writeIdx_)] = writeIdx_ + 1 /\ lastWrite'[Index(writeIdx_)] = writeIdx_ + 1
    BY <1>1, <1>3, <1>5 DEF TypeOK
  <2>3. Popped <= writeIdx_
    BY <1>1, Typing DEF Views, Checks, Popped
  <2>4. Popped .. Built' - 1 = (Popped .. Built - 1) \cup {writeIdx_}
    BY <1>1, <1>4, <2>3, Typing
  <2>5. \A c \in Popped' .. Built' - 1 :
          slots_'[Index(c)] = c + 1 /\ lastWrite'[Index(c)] = c + 1
    BY <1>1, <1>4, <2>1, <2>2, <2>4 DEF SlotsHold
  <2>6. ASSUME NEW s \in Slots, slots_'[s] # Nil
        PROVE  \E c \in Popped' .. Built' - 1 : Index(c) = s
    <3>1. CASE s = Index(writeIdx_)
      BY <3>1, <1>4, <2>4
    <3>2. CASE s # Index(writeIdx_)
      <4>1. slots_[s] # Nil
        BY <1>1, <1>3, <2>6, <3>2 DEF TypeOK
      <4> QED
        BY <1>1, <1>4, <2>4, <4>1 DEF SlotsHold
    <3> QED
      BY <3>1, <3>2
  <2>7. \A s \in Slots : lastRead'[s] # 0 =>
          lastRead'[s] <= Popped' /\ Index(lastRead'[s] - 1) = s
    BY <1>1, <1>2, <1>4 DEF SlotsHold
  <2> QED
    BY <2>5, <2>6, <2>7 DEF SlotsHold, Index
<1> QED
  BY <1>6, <1>7, <1>8 DEF IInv

LEMMA StoreWriteStep == ASSUME IInv, StoreWrite PROVE IInv'
<1>1. TypeOK /\ Views /\ Checks /\ SlotsHold /\ pushPc = "publish"
  BY DEF IInv, StoreWrite
<1>2. UNCHANGED <<impl, slots_, readIdx_, readIdxCache_, writeIdxCache_, seenRead, seenWrite,
                  hbRead, hbWrite, popPc, lastRead, lastWrite, item>>
  BY DEF StoreWrite, consVars
<1>3. writeIdx_' = writeIdx_ + 1 /\ n' = n + 1 /\ pushPc' = "try"
  BY DEF StoreWrite
<1>4. Popped' = Popped /\ Built' = Built
  BY <1>1, <1>2, <1>3 DEF Popped, Built
<1>5. TypeOK'
  BY <1>1, <1>2, <1>3, Typing DEF TypeOK
<1>6. Views'
  BY <1>1, <1>2, <1>3, Typing DEF Views
<1>7. Checks'
  BY <1>1, <1>2, <1>3, Typing, RingSize DEF Checks
<1>8. SlotsHold'
  BY <1>1, <1>2, <1>4 DEF SlotsHold, Index
<1> QED
  BY <1>5, <1>6, <1>7, <1>8 DEF IInv

(* What is read is the element, since no construction races with it.       *)
LEMMA ReadStep == ASSUME IInv, Read PROVE IInv'
<1>1. TypeOK /\ Views /\ Checks /\ SlotsHold /\ popPc = "read"
  BY DEF IInv, Read
<1>2. UNCHANGED <<impl, slots_, writeIdx_, readIdx_, readIdxCache_, writeIdxCache_, seenRead,
                  seenWrite, hbRead, hbWrite, pushPc, lastRead, lastWrite, n>>
  BY DEF Read, prodVars
<1>3. popPc' = "destroy" /\ item' \in ReadOutcomes(Index(readIdx_))
  BY DEF Read
<1>4. Popped' = Popped /\ Built' = Built
  BY <1>1, <1>2, <1>3 DEF Popped, Built
<1>5. item' = readIdx_ + 1
  <2>1. lastWrite[Index(readIdx_)] <= hbWrite
    BY <1>1, Safety DEF DataRaceFree
  <2>2. readIdx_ \in Popped .. Built - 1
    BY <1>1, Typing DEF Views, Checks, Popped, Built
  <2>3. slots_[Index(readIdx_)] = readIdx_ + 1
    BY <1>1, <2>2 DEF SlotsHold
  <2> QED
    BY <1>3, <2>1, <2>3 DEF ReadOutcomes
<1>6. TypeOK' /\ Views'
  BY <1>1, <1>2, <1>3 DEF TypeOK, Views
<1>7. Checks'
  BY <1>1, <1>2, <1>3, <1>5 DEF Checks
<1>8. SlotsHold'
  BY <1>1, <1>2, <1>4 DEF SlotsHold, Index
<1> QED
  BY <1>6, <1>7, <1>8 DEF IInv

LEMMA DestroyStep == ASSUME AllSynchronise, IInv, Destroy PROVE IInv'
<1>1. TypeOK /\ Views /\ Checks /\ SlotsHold /\ popPc = "destroy"
  BY DEF IInv, Destroy
<1>2. UNCHANGED <<impl, writeIdx_, readIdx_, readIdxCache_, writeIdxCache_, seenRead, hbRead,
                  pushPc, lastWrite, n, item>>
  BY DEF Destroy, prodVars
<1>3. /\ slots_' = [slots_ EXCEPT ![Index(readIdx_)] = Nil]
      /\ lastRead' = [lastRead EXCEPT ![Index(readIdx_)] = readIdx_ + 1]
      /\ popPc' = "publish"
  BY DEF Destroy
<1>4. /\ seenWrite' \in Nat /\ seenWrite <= seenWrite' /\ seenWrite' <= writeIdx_
      /\ hbWrite' \in Nat /\ hbWrite <= hbWrite' /\ hbWrite' <= seenWrite'
  <2>1. Acquires
    BY <1>1 DEF AllSynchronise, Acquires, TypeOK
  <2>2. \/ \E write \in seenWrite .. writeIdx_ : seenWrite' = write /\ hbWrite' = write
        \/ UNCHANGED <<seenWrite, hbWrite>>
    BY <2>1 DEF Destroy
  <2> QED
    BY <1>1, <2>2, Typing DEF Views
<1>5. Popped = readIdx_ /\ Popped' = readIdx_ + 1 /\ Built' = Built
  BY <1>1, <1>2, <1>3 DEF Popped, Built
<1>6. readIdx_ \in Popped .. Built - 1 /\ Index(readIdx_) \in Slots
  BY <1>1, <1>5, Typing, IndexInRing DEF Views, Checks, Built
<1>7. TypeOK'
  <2>1. slots_' \in [Slots -> {Nil} \cup Nat]
    BY <1>1, <1>3 DEF TypeOK
  <2>2. lastRead' \in [Slots -> Nat]
    <3>1. readIdx_ + 1 \in Nat /\ lastRead \in [Slots -> Nat]
      BY <1>1, Typing DEF TypeOK
    <3> QED
      BY <1>3, <3>1
  <2> QED
    BY <1>1, <1>2, <1>3, <1>4, <2>1, <2>2 DEF TypeOK
<1>8. Views'
  BY <1>1, <1>2, <1>4, Typing DEF Views
<1>9. Checks'
  BY <1>1, <1>2, <1>3 DEF Checks
<1>10. SlotsHold'
  <2>1. ASSUME NEW c \in readIdx_ + 1 .. Built - 1
        PROVE  c \in Popped .. Built - 1 /\ Index(c) \in Slots /\ Index(c) # Index(readIdx_)
    <3>1. c \in Nat /\ readIdxCache_ <= readIdx_ /\ readIdx_ < c /\ c <= readIdxCache_ + CAPACITY
      BY <1>1, Typing, RingSize DEF Views, Checks, Built
    <3> QED
      BY <1>1, <1>5, <3>1, LiveSlotsDiffer, IndexInRing, Typing
  <2>2. \A c \in Popped' .. Built' - 1 :
          slots_'[Index(c)] = c + 1 /\ lastWrite'[Index(c)] = c + 1
    BY <1>1, <1>2, <1>3, <1>5, <2>1 DEF SlotsHold, TypeOK
  <2>3. ASSUME NEW s \in Slots, slots_'[s] # Nil
        PROVE  \E c \in Popped' .. Built' - 1 : Index(c) = s
    <3>1. s # Index(readIdx_) /\ slots_[s] # Nil
      BY <1>1, <1>3, <1>6, <2>3 DEF TypeOK
    <3>2. PICK c \in Popped .. Built - 1 : Index(c) = s
      BY <1>1, <2>3, <3>1 DEF SlotsHold
    <3>3. c \in readIdx_ + 1 .. Built - 1
      BY <1>1, <1>5, <3>1, <3>2, Typing
    <3> QED
      BY <1>5, <3>2, <3>3
  <2>4. ASSUME NEW s \in Slots, lastRead'[s] # 0
        PROVE  lastRead'[s] <= Popped' /\ Index(lastRead'[s] - 1) = s
    <3>1. CASE s = Index(readIdx_)
      <4>1. lastRead'[s] = readIdx_ + 1
        BY <1>1, <1>3, <3>1 DEF TypeOK
      <4>2. lastRead'[s] - 1 = readIdx_
        BY <1>1, <4>1, Typing
      <4> QED
        BY <1>1, <1>5, <3>1, <4>1, <4>2, Typing
    <3>2. CASE s # Index(readIdx_)
      <4>1. lastRead'[s] = lastRead[s]
        BY <1>1, <1>3, <3>2 DEF TypeOK
      <4> QED
        BY <1>1, <1>5, <2>4, <4>1, Typing DEF SlotsHold
    <3> QED
      BY <3>1, <3>2
  <2> QED
    BY <2>2, <2>3, <2>4 DEF SlotsHold, Index
<1> QED
  BY <1>7, <1>8, <1>9, <1>10 DEF IInv

LEMMA StoreReadStep == ASSUME IInv, StoreRead PROVE IInv'
<1>1. TypeOK /\ Views /\ Checks /\ SlotsHold /\ popPc = "publish"
  BY DEF IInv, StoreRead
<1>2. UNCHANGED <<impl, slots_, writeIdx_, readIdxCache_, writeIdxCache_, seenRead, seenWrite,
                  hbRead, hbWrite, pushPc, lastRead, lastWrite, n, item>>
  BY DEF StoreRead, prodVars
<1>3. readIdx_' = readIdx_ + 1 /\ popPc' \in {"done", "try"}
  BY DEF StoreRead
<1>4. Popped' = Popped /\ Built' = Built
  BY <1>1, <1>2, <1>3 DEF Popped, Built
<1>5. TypeOK'
  BY <1>1, <1>2, <1>3, Typing DEF TypeOK
<1>6. Views' /\ Checks'
  BY <1>1, <1>2, <1>3, Typing DEF Views, Checks
<1>7. SlotsHold'
  BY <1>1, <1>2, <1>4 DEF SlotsHold, Index
<1> QED
  BY <1>5, <1>6, <1>7 DEF IInv

LEMMA NextIInv == ASSUME AllSynchronise, IInv, [Next]_vars PROVE IInv'
<1>1. CASE Producer
  BY <1>1, PeekStep, LoadReadStep, ConstructStep, StoreWriteStep DEF Producer
<1>2. CASE Consumer
  BY <1>2, PeekStep, LoadWriteStep, ReadStep, DestroyStep, StoreReadStep DEF Consumer
<1>3. CASE Joined \/ UNCHANGED vars
  BY <1>3 DEF Joined, vars, prodVars, consVars, IInv, TypeOK, Views, Checks, SlotsHold,
              Popped, Built, Index
<1> QED
  BY <1>1, <1>2, <1>3 DEF Next

-----------------------------------------------------------------------------
(* The invariant holds in every reachable state of implementations that    *)
(* synchronise.                                                            *)
THEOREM Invariance == ASSUME AllSynchronise PROVE Spec => []IInv
<1>1. Init => IInv
  BY InitIInv
<1>2. IInv /\ [Next]_vars => IInv'
  BY NextIInv
<1> QED
  BY <1>1, <1>2, PTL DEF Spec

(* In a ring of any capacity no two conflicting accesses to a slot race.   *)
THEOREM NoDataRace == ASSUME AllSynchronise PROVE Spec => []DataRaceFree
<1>1. IInv => DataRaceFree
  BY Safety
<1> QED
  BY <1>1, Invariance, PTL

(* Elements are constructed in dead slots and used while alive, the        *)
(* assertion in pop() holds whatever its load of writeIdx_ returns, and    *)
(* the adapter's second front() does not return null.                      *)
THEOREM ElementLifetime == ASSUME AllSynchronise PROVE Spec => []LifetimeOK
<1>1. IInv => LifetimeOK
  BY Safety
<1> QED
  BY <1>1, Invariance, PTL

-----------------------------------------------------------------------------
(* The ring implements the bounded FIFO.                                   *)

(* The queue of the abstract state, without the slots it is stored in.     *)
PlainQueue == [i \in 1 .. writeIdx_ - readIdx_ |-> readIdx_ + i]

LEMMA QueuedIs == IInv => Queued = PlainQueue
<1> SUFFICES ASSUME IInv PROVE Queued = PlainQueue
  OBVIOUS
<1>1. TypeOK /\ Views /\ Checks /\ SlotsHold
  BY DEF IInv
<1>2. ASSUME NEW i \in 1 .. writeIdx_ - readIdx_
      PROVE  (IF i = 1 /\ popPc = "publish" THEN item ELSE slots_[Index(readIdx_ + i - 1)]) = readIdx_ + i
  <2>1. CASE i = 1 /\ popPc = "publish"
    BY <1>1, <2>1 DEF Checks
  <2>2. CASE ~(i = 1 /\ popPc = "publish")
    <3>1. readIdx_ + i - 1 \in Popped .. Built - 1
      BY <1>1, <2>2, Typing DEF Popped, Built
    <3>2. slots_[Index(readIdx_ + i - 1)] = readIdx_ + i - 1 + 1
      BY <1>1, <3>1 DEF SlotsHold
    <3> QED
      BY <1>1, <2>2, <3>2, Typing
  <2> QED
    BY <2>1, <2>2
<1> QED
  BY <1>2 DEF Queued, PlainQueue

LEMMA QueuedStays == (IInv => Queued = PlainQueue)'
BY QueuedIs, PTL

LEMMA RefineStoreWrite == ASSUME IInv, IInv', StoreWrite PROVE Abstract!Push(writeIdx_ + 1)
<1>1. TypeOK /\ Views /\ Checks
  BY DEF IInv
<1>2. /\ writeIdx_' = writeIdx_ + 1 /\ UNCHANGED <<readIdx_, received>>
      /\ writeIdx_ - readIdx_ \in Nat
  BY <1>1, Typing DEF StoreWrite, consVars, Views
<1>3. Len(Queued) < CAPACITY
  <2>1. Len(Queued) = writeIdx_ - readIdx_
    BY <1>2, QueuedIs DEF PlainQueue
  <2>2. pushPc = "publish"
    BY DEF StoreWrite
  <2> QED
    <3>1. writeIdx_ - readIdxCache_ < CAPACITY /\ readIdxCache_ <= readIdx_
      BY <1>1, <2>2, Typing DEF Views, Checks
    <3>2. writeIdx_ \in Nat /\ readIdx_ \in Nat /\ readIdxCache_ \in Nat /\ CAPACITY \in Nat
      BY <1>1, Typing, RingSize
    <3> QED
      BY <2>1, <3>1, <3>2
<1>4. Queued' = Append(Queued, writeIdx_ + 1)
  <2> DEFINE k == writeIdx_ - readIdx_
  <2>1. Queued = [i \in 1 .. k |-> readIdx_ + i]
    BY QueuedIs DEF PlainQueue
  <2>2. Queued' = [i \in 1 .. k + 1 |-> readIdx_ + i]
    <3>1. Queued' = [i \in 1 .. (writeIdx_ + 1) - readIdx_ |-> readIdx_ + i]
      BY <1>2, QueuedStays DEF PlainQueue
    <3>2. (writeIdx_ + 1) - readIdx_ = k + 1
      BY <1>1, Typing
    <3> QED
      BY <3>1, <3>2
  <2>3. k \in Nat /\ readIdx_ \in Int /\ writeIdx_ + 1 = readIdx_ + (k + 1)
    BY <1>1, <1>2, Typing
  <2> HIDE DEF k
  <2> QED
    BY <2>1, <2>2, <2>3, ConsecutiveAppend
<1> QED
  BY <1>2, <1>3, <1>4 DEF Abstract!Push

LEMMA RefineStoreRead == ASSUME IInv, IInv', StoreRead PROVE Abstract!Pop
<1>1. TypeOK /\ Views /\ Checks /\ popPc = "publish"
  BY DEF IInv, StoreRead
<1>2. /\ readIdx_' = readIdx_ + 1 /\ writeIdx_' = writeIdx_
      /\ received' = Append(received, readIdx_ + 1)
      /\ writeIdx_ - readIdx_ \in Nat /\ writeIdx_ - readIdx_ >= 1
  <2>1. /\ readIdx_' = readIdx_ + 1 /\ writeIdx_' = writeIdx_
        /\ received' = Append(received, readIdx_ + 1)
    BY <1>1 DEF StoreRead, prodVars, Checks
  <2>2. readIdx_ < writeIdxCache_ /\ writeIdxCache_ <= writeIdx_
    BY <1>1, Typing DEF Views, Checks
  <2> QED
    BY <1>1, <2>1, <2>2, Typing
<1>3. Queued = [i \in 1 .. writeIdx_ - readIdx_ |-> readIdx_ + i]
  BY QueuedIs DEF PlainQueue
<1>4. Queued' = [i \in 1 .. (writeIdx_ - readIdx_) - 1 |-> readIdx_ + 1 + i]
  <2>1. Queued' = [i \in 1 .. writeIdx_ - (readIdx_ + 1) |-> readIdx_ + 1 + i]
    BY <1>2, QueuedStays DEF PlainQueue
  <2>2. writeIdx_ - (readIdx_ + 1) = (writeIdx_ - readIdx_) - 1
    BY <1>1, Typing
  <2> QED
    BY <2>1, <2>2
<1>5. Queued # << >> /\ Head(Queued) = readIdx_ + 1 /\ Tail(Queued) = Queued'
  <2>1. readIdx_ \in Int
    BY <1>1, Typing
  <2>2. /\ Queued # << >> /\ Head(Queued) = readIdx_ + 1
        /\ Tail(Queued) = [i \in 1 .. (writeIdx_ - readIdx_) - 1 |-> readIdx_ + 1 + i]
    BY <1>2, <1>3, <2>1, Consecutive, Zenon
  <2> QED
    BY <1>4, <2>2
<1> QED
  BY <1>2, <1>5 DEF Abstract!Pop

(* Every step leaves the abstract queue alone but the two that publish.    *)
LEMMA RefineStep ==
  ASSUME IInv, IInv', [Next]_vars
  PROVE  [Abstract!Next]_<<Queued, received>>
<1>1. CASE StoreWrite
  <2>1. writeIdx_ + 1 \in 1 .. StopFlag
    BY <1>1, Typing DEF IInv, Checks, StoreWrite
  <2> QED
    BY <1>1, <2>1, RefineStoreWrite DEF Abstract!Next
<1>2. CASE StoreRead
  BY <1>2, RefineStoreRead DEF Abstract!Next
<1>3. CASE ~StoreWrite /\ ~StoreRead
  <2>1. UNCHANGED <<readIdx_, writeIdx_, received>>
    BY <1>3 DEF Next, Producer, Consumer, TryPush, LoadRead, Construct, Front, LoadWrite,
                Read, Destroy, Joined, vars, prodVars, consVars
  <2> QED
    BY <2>1, QueuedIs, QueuedStays DEF PlainQueue
<1> QED
  BY <1>1, <1>2, <1>3

(* A ring of CAPACITY + 1 slots is a FIFO queue of capacity CAPACITY.      *)
THEOREM Refinement == ASSUME AllSynchronise PROVE Spec => ImplementsBoundedFifo
<1>1. Init => Abstract!Init
  BY DEF Init, Abstract!Init, Queued
<1>2. IInv /\ IInv' /\ [Next]_vars => [Abstract!Next]_Abstract!vars
  BY RefineStep DEF Abstract!vars
<1> QED
  BY <1>1, <1>2, Invariance, PTL DEF Spec, ImplementsBoundedFifo, Abstract!Spec
=============================================================================
