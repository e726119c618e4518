-------------------------- MODULE MutexQueueProofs --------------------------
(***************************************************************************)
(* Proofs about MutexQueue, for any finite sets of producers and consumers *)
(* and containers of any capacity.                                         *)
(***************************************************************************)
EXTENDS MutexQueue, FiniteSetTheorems, TLAPS

PushPcs == {"call", "waiting", "woken", "notify"}
PopPcs  == PushPcs \cup {"done"}

TypeOK ==
  /\ bounded \in BOOLEAN
  /\ buffer_ \in Seq(Items)
  /\ pushPc \in [Producers -> PushPcs]
  /\ n \in [Producers -> Nat \ {0}]
  /\ popPc \in [Consumers -> PopPcs]

(* Nobody waits for room in a container without a bound.                   *)
RoomAlways == ~bounded => At(pushPc, {"waiting"}) = {}

IInv == TypeOK /\ RoomAlways /\ NoLostWakeup

-----------------------------------------------------------------------------
(* Counting the threads at a place.                                        *)

Count(pc, where) == Cardinality(At(pc, {where}))

(* A thread that moves from one place to another is counted at the new one *)
(* instead of the old one; the other counts do not change.                 *)
Moved(pc, next, old, new) ==
  /\ \A x : Count(pc, x) \in Nat /\ Count(next, x) \in Nat
  /\ Count(next, new) = Count(pc, new) + 1
  /\ Count(next, old) = Count(pc, old) - 1
  /\ \A x : x # old /\ x # new => Count(next, x) = Count(pc, x)

LEMMA Moves ==
  ASSUME NEW pc, IsFiniteSet(DOMAIN pc), NEW t \in DOMAIN pc, NEW new, new # pc[t],
         NEW next, next = [pc EXCEPT ![t] = new]
  PROVE  Moved(pc, next, pc[t], new)
<1>1. ASSUME NEW x
      PROVE  IsFiniteSet(At(pc, {x})) /\ Count(pc, x) \in Nat /\ Count(next, x) \in Nat
  <2>1. At(pc, {x}) \subseteq DOMAIN pc /\ At(next, {x}) \subseteq DOMAIN pc
    BY DEF At
  <2> QED
    BY <2>1, FS_Subset, FS_CardinalityType DEF Count
<1>2. At(next, {new}) = At(pc, {new}) \cup {t} /\ t \notin At(pc, {new})
  BY DEF At
<1>3. At(next, {pc[t]}) = At(pc, {pc[t]}) \ {t} /\ t \in At(pc, {pc[t]})
  BY DEF At
<1>4. Count(next, new) = Count(pc, new) + 1
  BY <1>1, <1>2, FS_AddElement DEF Count
<1>5. Count(next, pc[t]) = Count(pc, pc[t]) - 1
  BY <1>1, <1>3, FS_RemoveElement DEF Count
<1>6. ASSUME NEW x, x # pc[t], x # new PROVE Count(next, x) = Count(pc, x)
  <2>1. At(next, {x}) = At(pc, {x})
    BY <1>6 DEF At
  <2> QED
    BY <2>1 DEF Count
<1> QED
  BY <1>1, <1>4, <1>5, <1>6 DEF Moved

(* The two instances of Moves.                                             *)
LEMMA ProducerMoves ==
  ASSUME TypeOK, NEW p \in Producers, NEW new, new # pushPc[p],
         pushPc' = [pushPc EXCEPT ![p] = new]
  PROVE  Moved(pushPc, pushPc', pushPc[p], new)
<1>1. PICK pc, next : pc = pushPc /\ next = pushPc'
  OBVIOUS
<1>2. p \in DOMAIN pc /\ IsFiniteSet(DOMAIN pc) /\ next = [pc EXCEPT ![p] = new] /\ new # pc[p]
  BY <1>1, ThreadsAssumption DEF TypeOK
<1>3. Moved(pc, next, pc[p], new)
  BY <1>2, Moves
<1> QED
  BY <1>1, <1>3

LEMMA ConsumerMoves ==
  ASSUME TypeOK, NEW c \in Consumers, NEW new, new # popPc[c],
         popPc' = [popPc EXCEPT ![c] = new]
  PROVE  Moved(popPc, popPc', popPc[c], new)
<1>1. PICK pc, next : pc = popPc /\ next = popPc'
  OBVIOUS
<1>2. c \in DOMAIN pc /\ IsFiniteSet(DOMAIN pc) /\ next = [pc EXCEPT ![c] = new] /\ new # pc[c]
  BY <1>1, ThreadsAssumption DEF TypeOK
<1>3. Moved(pc, next, pc[c], new)
  BY <1>2, Moves
<1> QED
  BY <1>1, <1>3

LEMMA CountTyping ==
  ASSUME TypeOK
  PROVE  /\ \A x : Count(pushPc, x) \in Nat
         /\ \A x : Count(popPc, x) \in Nat
         /\ Len(buffer_) \in Nat
         /\ Capacity \in Nat
<1>1. ASSUME NEW x PROVE At(pushPc, {x}) \subseteq Producers /\ At(popPc, {x}) \subseteq Consumers
  BY DEF At, TypeOK
<1>2. ASSUME NEW x PROVE Count(pushPc, x) \in Nat /\ Count(popPc, x) \in Nat
  BY <1>1, ThreadsAssumption, FS_Subset, FS_CardinalityType DEF Count
<1> QED
  BY <1>2, BoundAssumption DEF TypeOK

(* The property in terms of the counts.                                    *)
LEMMA Counted ==
  NoLostWakeup <=>
    /\ At(popPc, {"waiting"}) # {} => Len(buffer_) <= Count(pushPc, "notify") + Count(popPc, "woken")
    /\ At(pushPc, {"waiting"}) # {} =>
         Capacity - Len(buffer_) <= Count(popPc, "notify") + Count(pushPc, "woken")
BY DEF NoLostWakeup, Count

LEMMA CountedNext == 
  NoLostWakeup' <=>
    /\ At(popPc', {"waiting"}) # {} => Len(buffer_') <= Count(pushPc', "notify") + Count(popPc', "woken")
    /\ At(pushPc', {"waiting"}) # {} =>
         Capacity - Len(buffer_') <= Count(popPc', "notify") + Count(pushPc', "woken")
BY DEF NoLostWakeup, Count, At

-----------------------------------------------------------------------------
LEMMA InitIInv == Init => IInv
<1> SUFFICES ASSUME Init PROVE IInv
  OBVIOUS
<1>1. TypeOK
  BY DEF Init, TypeOK, PushPcs, PopPcs
<1>2. At(pushPc, {"waiting"}) = {} /\ At(popPc, {"waiting"}) = {}
  BY DEF Init, At
<1> QED
  BY <1>1, <1>2 DEF IInv, RoomAlways, NoLostWakeup

(* A producer that finds no room: nothing is free, so nothing needs a      *)
(* notification.                                                           *)
LEMMA AwaitRoomStep == ASSUME IInv, NEW p \in Producers, AwaitRoom(p) PROVE IInv'
<1>1. TypeOK /\ RoomAlways /\ NoLostWakeup /\ bounded /\ Len(buffer_) = Capacity
  BY DEF IInv, AwaitRoom, Full
<1>2. /\ pushPc[p] \in {"call", "woken"} /\ pushPc' = [pushPc EXCEPT ![p] = "waiting"]
      /\ UNCHANGED <<bounded, buffer_, n, popPc>>
  BY DEF AwaitRoom
<1>3. TypeOK' /\ RoomAlways'
  BY <1>1, <1>2 DEF TypeOK, RoomAlways, PushPcs
<1>4. Moved(pushPc, pushPc', pushPc[p], "waiting")
  BY <1>1, <1>2, ProducerMoves
<1>5. Count(pushPc', "notify") = Count(pushPc, "notify") /\ Count(pushPc', "woken") \in Nat
  BY <1>2, <1>4 DEF Moved
<1> QED
  BY <1>1, <1>2, <1>3, <1>5, Counted, CountedNext, CountTyping DEF IInv

(* An item is added, and a notification owed for it; a woken producer took *)
(* a free place.                                                           *)
LEMMA PushBackStep == ASSUME IInv, NEW p \in Producers, PushBack(p) PROVE IInv'
<1>1. TypeOK /\ RoomAlways /\ NoLostWakeup
  BY DEF IInv
<1>2. /\ pushPc[p] \in {"call", "woken"} /\ pushPc' = [pushPc EXCEPT ![p] = "notify"]
      /\ buffer_' = Append(buffer_, <<p, n[p]>>) /\ n[p] <= StopFlag
      /\ UNCHANGED <<bounded, n, popPc>>
  BY DEF PushBack
<1>3. Len(buffer_') = Len(buffer_) + 1 /\ buffer_' \in Seq(Items)
  <2>1. <<p, n[p]>> \in Items
    BY <1>1, <1>2, ItemsAssumption DEF TypeOK, Items, StopFlag
  <2> QED
    BY <1>1, <1>2, <2>1 DEF TypeOK
<1>4. Moved(pushPc, pushPc', pushPc[p], "notify")
  BY <1>1, <1>2, ProducerMoves
<1>5. /\ Count(pushPc', "notify") = Count(pushPc, "notify") + 1
      /\ Count(pushPc', "woken") \in Nat /\ Count(pushPc', "woken") >= Count(pushPc, "woken") - 1
  <2>1. CASE pushPc[p] = "woken"
    BY <1>4, <2>1 DEF Moved
  <2>2. CASE pushPc[p] = "call"
    BY <1>4, <2>2 DEF Moved
  <2> QED
    BY <1>2, <2>1, <2>2
<1>6. At(pushPc', {"waiting"}) = At(pushPc, {"waiting"})
  BY <1>1, <1>2 DEF At, TypeOK
<1>7. TypeOK' /\ RoomAlways'
  BY <1>1, <1>2, <1>3, <1>6 DEF TypeOK, RoomAlways, PushPcs
<1>8. /\ Count(popPc', "notify") = Count(popPc, "notify")
      /\ Count(popPc', "woken") = Count(popPc, "woken")
      /\ At(popPc', {"waiting"}) = At(popPc, {"waiting"})
  BY <1>2
<1>9. /\ Count(pushPc, "notify") \in Nat /\ Count(popPc, "notify") \in Nat
      /\ Count(pushPc, "woken") \in Nat /\ Count(popPc, "woken") \in Nat
      /\ Len(buffer_) \in Nat /\ Capacity \in Nat
  BY <1>1, CountTyping
<1>10. At(popPc, {"waiting"}) # {} => Len(buffer_') <= Count(pushPc', "notify") + Count(popPc, "woken")
  BY <1>1, <1>3, <1>5, <1>9, Counted
<1>11. At(pushPc, {"waiting"}) # {} =>
         Capacity - Len(buffer_') <= Count(popPc, "notify") + Count(pushPc', "woken")
  BY <1>1, <1>3, <1>5, <1>9, Counted
<1> QED
  BY <1>6, <1>7, <1>8, <1>10, <1>11, CountedNext DEF IInv

(* A notification: if somebody still waits afterwards, somebody was woken. *)
LEMMA ConsumerNotified ==
  ASSUME TypeOK, NotifyOne(popPc, popPc')
  PROVE  /\ popPc' \in [Consumers -> PopPcs]
         /\ Count(popPc', "notify") = Count(popPc, "notify")
         /\ Count(popPc', "woken") \in Nat /\ Count(popPc', "woken") >= Count(popPc, "woken")
         /\ At(popPc', {"waiting"}) # {} =>
              /\ At(popPc, {"waiting"}) # {}
              /\ Count(popPc', "woken") = Count(popPc, "woken") + 1
<1>1. CASE At(popPc, {"waiting"}) = {} /\ popPc' = popPc
  BY <1>1, CountTyping DEF TypeOK
<1>2. ASSUME NEW c \in At(popPc, {"waiting"}), popPc' = [popPc EXCEPT ![c] = "woken"]
      PROVE  /\ popPc' \in [Consumers -> PopPcs]
             /\ Count(popPc', "notify") = Count(popPc, "notify")
             /\ Count(popPc', "woken") \in Nat /\ Count(popPc', "woken") = Count(popPc, "woken") + 1
  <2>1. c \in Consumers /\ popPc[c] = "waiting"
    BY DEF At, TypeOK
  <2>2. Moved(popPc, popPc', popPc[c], "woken")
    BY <1>2, <2>1, ConsumerMoves
  <2> QED
    BY <1>2, <2>1, <2>2 DEF Moved, TypeOK, PushPcs, PopPcs
<1> QED
  BY <1>1, <1>2, CountTyping DEF NotifyOne

LEMMA ProducerNotified ==
  ASSUME TypeOK, NotifyOne(pushPc, pushPc')
  PROVE  /\ pushPc' \in [Producers -> PushPcs]
         /\ Count(pushPc', "notify") = Count(pushPc, "notify")
         /\ Count(pushPc', "woken") \in Nat /\ Count(pushPc', "woken") >= Count(pushPc, "woken")
         /\ At(pushPc', {"waiting"}) # {} =>
              /\ At(pushPc, {"waiting"}) # {}
              /\ Count(pushPc', "woken") = Count(pushPc, "woken") + 1
<1>1. CASE At(pushPc, {"waiting"}) = {} /\ pushPc' = pushPc
  BY <1>1, CountTyping DEF TypeOK
<1>2. ASSUME NEW p \in At(pushPc, {"waiting"}), pushPc' = [pushPc EXCEPT ![p] = "woken"]
      PROVE  /\ pushPc' \in [Producers -> PushPcs]
             /\ Count(pushPc', "notify") = Count(pushPc, "notify")
             /\ Count(pushPc', "woken") \in Nat /\ Count(pushPc', "woken") = Count(pushPc, "woken") + 1
  <2>1. p \in Producers /\ pushPc[p] = "waiting"
    BY DEF At, TypeOK
  <2>2. Moved(pushPc, pushPc', pushPc[p], "woken")
    BY <1>2, <2>1, ProducerMoves
  <2> QED
    BY <1>2, <2>1, <2>2 DEF Moved, TypeOK, PushPcs, PopPcs
<1> QED
  BY <1>1, <1>2, CountTyping DEF NotifyOne

(* A producer that notifies: its item now has a woken consumer.            *)
LEMMA NotifyNotEmptyStep == ASSUME IInv, NEW p \in Producers, NotifyNotEmpty(p) PROVE IInv'
<1>1. TypeOK /\ RoomAlways /\ NoLostWakeup
  BY DEF IInv
<1>2. /\ pushPc[p] = "notify" /\ pushPc' = [pushPc EXCEPT ![p] = "call"]
      /\ NotifyOne(popPc, popPc') /\ n' = [n EXCEPT ![p] = @ + 1]
      /\ UNCHANGED <<bounded, buffer_>>
  BY DEF NotifyNotEmpty
<1>3. Moved(pushPc, pushPc', "notify", "call")
  BY <1>1, <1>2, ProducerMoves
<1>4. /\ Count(pushPc', "notify") = Count(pushPc, "notify") - 1
      /\ Count(pushPc', "woken") = Count(pushPc, "woken")
  BY <1>3 DEF Moved
<1>5. At(pushPc', {"waiting"}) = At(pushPc, {"waiting"})
  BY <1>1, <1>2 DEF At, TypeOK
<1>6. /\ popPc' \in [Consumers -> PopPcs]
      /\ Count(popPc', "notify") = Count(popPc, "notify")
      /\ At(popPc', {"waiting"}) # {} =>
           At(popPc, {"waiting"}) # {} /\ Count(popPc', "woken") = Count(popPc, "woken") + 1
  BY <1>1, <1>2, ConsumerNotified
<1>7. TypeOK' /\ RoomAlways'
  BY <1>1, <1>2, <1>5, <1>6 DEF TypeOK, RoomAlways, PushPcs
<1>8. /\ Count(pushPc, "notify") \in Nat /\ Count(popPc, "woken") \in Nat
      /\ Len(buffer_) \in Nat
  BY <1>1, CountTyping
<1>9. At(popPc', {"waiting"}) # {} => Len(buffer_') <= Count(pushPc', "notify") + Count(popPc', "woken")
  BY <1>1, <1>2, <1>4, <1>6, <1>8, Counted
<1>10. At(pushPc', {"waiting"}) # {} =>
         Capacity - Len(buffer_') <= Count(popPc', "notify") + Count(pushPc', "woken")
  BY <1>1, <1>2, <1>4, <1>5, <1>6, Counted
<1> QED
  BY <1>7, <1>9, <1>10, CountedNext DEF IInv

(* A consumer that finds nothing.                                          *)
LEMMA AwaitItemStep == ASSUME IInv, NEW c \in Consumers, AwaitItem(c) PROVE IInv'
<1>1. TypeOK /\ RoomAlways /\ NoLostWakeup /\ Len(buffer_) = 0
  BY DEF IInv, AwaitItem
<1>2. /\ popPc[c] \in {"call", "woken"} /\ popPc' = [popPc EXCEPT ![c] = "waiting"]
      /\ UNCHANGED <<bounded, buffer_, n, pushPc>>
  BY DEF AwaitItem
<1>3. TypeOK' /\ RoomAlways'
  BY <1>1, <1>2 DEF TypeOK, RoomAlways, PopPcs, PushPcs
<1>4. Moved(popPc, popPc', popPc[c], "waiting")
  BY <1>1, <1>2, ConsumerMoves
<1>5. Count(popPc', "notify") = Count(popPc, "notify") /\ Count(popPc', "woken") \in Nat
  BY <1>2, <1>4 DEF Moved
<1>6. Count(pushPc, "notify") \in Nat
  BY <1>1, CountTyping
<1>7. Len(buffer_') <= Count(pushPc', "notify") + Count(popPc', "woken")
  BY <1>1, <1>2, <1>5, <1>6
<1>8. At(pushPc', {"waiting"}) # {} =>
         Capacity - Len(buffer_') <= Count(popPc', "notify") + Count(pushPc', "woken")
  BY <1>1, <1>2, <1>5, Counted
<1> QED
  BY <1>3, <1>7, <1>8, CountedNext DEF IInv

(* An item is taken, and a notification owed for its place if somebody may *)
(* wait for it; a woken consumer took an item.                             *)
LEMMA PopFrontStep == ASSUME IInv, NEW c \in Consumers, PopFront(c) PROVE IInv'
<1>1. TypeOK /\ RoomAlways /\ NoLostWakeup
  BY DEF IInv
<1>2. PICK next \in {"notify", "call", "done"} :
        /\ popPc' = [popPc EXCEPT ![c] = next] /\ (bounded => next = "notify")
  BY DEF PopFront, AfterPop
<1>3. /\ popPc[c] \in {"call", "woken"} /\ buffer_ # << >> /\ buffer_' = Tail(buffer_)
      /\ UNCHANGED <<bounded, n, pushPc>>
  BY DEF PopFront
<1>4. Len(buffer_') = Len(buffer_) - 1 /\ buffer_' \in Seq(Items)
  BY <1>1, <1>3 DEF TypeOK
<1>5. TypeOK' /\ RoomAlways'
  BY <1>1, <1>2, <1>3, <1>4 DEF TypeOK, RoomAlways, PopPcs, PushPcs
<1>6. At(popPc', {"waiting"}) = At(popPc, {"waiting"})
  BY <1>1, <1>2, <1>3 DEF At, TypeOK
<1>7. /\ Count(pushPc, "notify") \in Nat /\ Count(popPc, "woken") \in Nat
      /\ Count(pushPc, "woken") \in Nat /\ Count(popPc, "notify") \in Nat
      /\ Len(buffer_) \in Nat /\ Capacity \in Nat
  BY <1>1, CountTyping
<1>8. /\ Count(popPc', "woken") \in Nat /\ Count(popPc', "woken") >= Count(popPc, "woken") - 1
      /\ bounded => Count(popPc', "notify") = Count(popPc, "notify") + 1
  <2>1. CASE popPc[c] = next
    <3>1. popPc' = popPc /\ ~bounded
      BY <1>1, <1>2, <1>3, <2>1 DEF TypeOK
    <3> QED
      BY <1>1, <3>1, CountTyping
  <2>2. CASE popPc[c] # next
    <3>1. Moved(popPc, popPc', popPc[c], next)
      BY <1>1, <1>2, <2>2, ConsumerMoves
    <3>2. Count(popPc', "woken") \in Nat /\ Count(popPc', "woken") >= Count(popPc, "woken") - 1
      <4>1. CASE popPc[c] = "woken"
        <5>1. Moved(popPc, popPc', "woken", next)
          BY <3>1, <4>1
        <5>2. Count(popPc', "woken") = Count(popPc, "woken") - 1 /\ Count(popPc', "woken") \in Nat
          BY <5>1 DEF Moved
        <5> QED
          BY <1>7, <5>2
      <4>2. CASE popPc[c] = "call"
        <5>1. Moved(popPc, popPc', "call", next) /\ next # "woken"
          BY <1>2, <3>1, <4>2
        <5>2. Count(popPc', "woken") = Count(popPc, "woken")
          BY <5>1 DEF Moved
        <5> QED
          BY <1>7, <5>2
      <4> QED
        BY <1>3, <4>1, <4>2
    <3>3. ASSUME bounded PROVE Count(popPc', "notify") = Count(popPc, "notify") + 1
      BY <1>2, <3>1, <3>3 DEF Moved
    <3> QED
      BY <3>2, <3>3
  <2> QED
    BY <2>1, <2>2
<1>9. At(popPc', {"waiting"}) # {} => Len(buffer_') <= Count(pushPc', "notify") + Count(popPc', "woken")
  BY <1>1, <1>3, <1>4, <1>6, <1>7, <1>8, Counted
<1>10. At(pushPc', {"waiting"}) # {} =>
         Capacity - Len(buffer_') <= Count(popPc', "notify") + Count(pushPc', "woken")
  <2>1. SUFFICES ASSUME At(pushPc, {"waiting"}) # {}
                 PROVE  Capacity - Len(buffer_') <= Count(popPc', "notify") + Count(pushPc, "woken")
    BY <1>3
  <2>2. bounded
    BY <1>1, <2>1 DEF RoomAlways, TypeOK
  <2>3. Capacity - Len(buffer_) <= Count(popPc, "notify") + Count(pushPc, "woken")
    BY <1>1, <2>1, Counted
  <2> QED
    BY <1>4, <1>7, <1>8, <2>2, <2>3
<1> QED
  BY <1>5, <1>9, <1>10, CountedNext DEF IInv

(* A consumer that notifies: the place now has a woken producer.           *)
LEMMA NotifyNotFullStep == ASSUME IInv, NEW c \in Consumers, NotifyNotFull(c) PROVE IInv'
<1>1. TypeOK /\ RoomAlways /\ NoLostWakeup
  BY DEF IInv
<1>2. PICK next \in {"call", "done"} : popPc' = [popPc EXCEPT ![c] = next]
  BY DEF NotifyNotFull, AfterPop
<1>3. /\ popPc[c] = "notify" /\ NotifyOne(pushPc, pushPc')
      /\ UNCHANGED <<bounded, buffer_, n>>
  BY DEF NotifyNotFull
<1>4. Moved(popPc, popPc', "notify", next)
  BY <1>1, <1>2, <1>3, ConsumerMoves
<1>5. /\ Count(popPc', "notify") = Count(popPc, "notify") - 1
      /\ Count(popPc', "woken") = Count(popPc, "woken")
  BY <1>2, <1>4 DEF Moved
<1>6. At(popPc', {"waiting"}) = At(popPc, {"waiting"})
  BY <1>1, <1>2, <1>3 DEF At, TypeOK
<1>7. /\ pushPc' \in [Producers -> PushPcs]
      /\ Count(pushPc', "notify") = Count(pushPc, "notify")
      /\ At(pushPc', {"waiting"}) # {} =>
           At(pushPc, {"waiting"}) # {} /\ Count(pushPc', "woken") = Count(pushPc, "woken") + 1
  BY <1>1, <1>3, ProducerNotified
<1>8. TypeOK' /\ RoomAlways'
  BY <1>1, <1>2, <1>3, <1>7 DEF TypeOK, RoomAlways, PopPcs, PushPcs
<1>9. /\ Count(popPc, "notify") \in Nat /\ Count(pushPc, "woken") \in Nat
      /\ Len(buffer_) \in Nat /\ Capacity \in Nat
  BY <1>1, CountTyping
<1>10. At(popPc', {"waiting"}) # {} => Len(buffer_') <= Count(pushPc', "notify") + Count(popPc', "woken")
  BY <1>1, <1>3, <1>5, <1>6, <1>7, Counted
<1>11. At(pushPc', {"waiting"}) # {} =>
         Capacity - Len(buffer_') <= Count(popPc', "notify") + Count(pushPc', "woken")
  BY <1>1, <1>3, <1>5, <1>7, <1>9, Counted
<1> QED
  BY <1>8, <1>10, <1>11, CountedNext DEF IInv

(* A thread that wakes up for no reason looks like one that was notified.  *)
LEMMA SpuriousWakeupStep == ASSUME IInv, SpuriousWakeup PROVE IInv'
<1>1. TypeOK /\ RoomAlways /\ NoLostWakeup
  BY DEF IInv
<1>2. /\ Count(pushPc, "notify") \in Nat /\ Count(popPc, "woken") \in Nat
      /\ Count(popPc, "notify") \in Nat /\ Count(pushPc, "woken") \in Nat
      /\ Len(buffer_) \in Nat /\ Capacity \in Nat
  BY <1>1, CountTyping
<1>3. UNCHANGED <<bounded, buffer_, n>>
  BY DEF SpuriousWakeup
<1>4. CASE /\ \E p \in At(pushPc, {"waiting"}) : pushPc' = [pushPc EXCEPT ![p] = "woken"]
           /\ popPc' = popPc
  <2>1. NotifyOne(pushPc, pushPc')
    BY <1>4 DEF NotifyOne
  <2>2. /\ pushPc' \in [Producers -> PushPcs]
        /\ Count(pushPc', "notify") = Count(pushPc, "notify")
        /\ At(pushPc', {"waiting"}) # {} =>
             At(pushPc, {"waiting"}) # {} /\ Count(pushPc', "woken") = Count(pushPc, "woken") + 1
    BY <1>1, <2>1, ProducerNotified
  <2>3. TypeOK' /\ RoomAlways'
    BY <1>1, <1>3, <1>4, <2>2 DEF TypeOK, RoomAlways
  <2>4. At(popPc', {"waiting"}) # {} => Len(buffer_') <= Count(pushPc', "notify") + Count(popPc', "woken")
    BY <1>1, <1>3, <1>4, <2>2, Counted
  <2>5. At(pushPc', {"waiting"}) # {} =>
          Capacity - Len(buffer_') <= Count(popPc', "notify") + Count(pushPc', "woken")
    <3>1. Count(popPc', "notify") = Count(popPc, "notify")
      BY <1>4
    <3> QED
      BY <1>1, <1>2, <1>3, <2>2, <3>1, Counted
  <2> QED
    BY <2>3, <2>4, <2>5, CountedNext DEF IInv
<1>5. CASE /\ \E c \in At(popPc, {"waiting"}) : popPc' = [popPc EXCEPT ![c] = "woken"]
           /\ pushPc' = pushPc
  <2>1. NotifyOne(popPc, popPc')
    BY <1>5 DEF NotifyOne
  <2>2. /\ popPc' \in [Consumers -> PopPcs]
        /\ Count(popPc', "notify") = Count(popPc, "notify")
        /\ At(popPc', {"waiting"}) # {} =>
             At(popPc, {"waiting"}) # {} /\ Count(popPc', "woken") = Count(popPc, "woken") + 1
    BY <1>1, <2>1, ConsumerNotified
  <2>3. TypeOK' /\ RoomAlways'
    BY <1>1, <1>3, <1>5, <2>2 DEF TypeOK, RoomAlways
  <2>4. At(popPc', {"waiting"}) # {} => Len(buffer_') <= Count(pushPc', "notify") + Count(popPc', "woken")
    <3>1. Count(pushPc', "notify") = Count(pushPc, "notify")
      BY <1>5
    <3> QED
      BY <1>1, <1>2, <1>3, <2>2, <3>1, Counted
  <2>5. At(pushPc', {"waiting"}) # {} =>
          Capacity - Len(buffer_') <= Count(popPc', "notify") + Count(pushPc', "woken")
    BY <1>1, <1>3, <1>5, <2>2, Counted
  <2> QED
    BY <2>3, <2>4, <2>5, CountedNext DEF IInv
<1> QED
  BY <1>4, <1>5 DEF SpuriousWakeup

LEMMA NextIInv == ASSUME IInv, [Next]_vars PROVE IInv'
<1>1. CASE \E p \in Producers : Push(p)
  BY <1>1, AwaitRoomStep, PushBackStep, NotifyNotEmptyStep DEF Push
<1>2. CASE \E c \in Consumers : Pop(c)
  BY <1>2, AwaitItemStep, PopFrontStep, NotifyNotFullStep DEF Pop
<1>3. CASE SpuriousWakeup
  BY <1>3, SpuriousWakeupStep
<1>4. CASE Joined \/ UNCHANGED vars
  BY <1>4 DEF Joined, vars, IInv, TypeOK, RoomAlways, NoLostWakeup, At
<1> QED
  BY <1>1, <1>2, <1>3, <1>4 DEF Next

-----------------------------------------------------------------------------
(* The invariant holds in every reachable state.                           *)
THEOREM Invariance == Spec => []IInv
<1>1. Init => IInv
  BY InitIInv
<1>2. IInv /\ [Next]_vars => IInv'
  BY NextIInv
<1> QED
  BY <1>1, <1>2, PTL DEF Spec

(* Whatever the numbers of threads and the capacity, while a thread waits  *)
(* every item, or free place, has a notification to come or a woken thread *)
(* of its own.                                                             *)
THEOREM WakeupsSuffice == Spec => []NoLostWakeup
<1>1. IInv => NoLostWakeup
  BY DEF IInv
<1> QED
  BY <1>1, Invariance, PTL
=============================================================================
