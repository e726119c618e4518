------------------------ MODULE StdAtomicMPMCProofs ------------------------
(***************************************************************************)
(* Proofs about StdAtomicMPMC, for every ring of at least two slots and    *)
(* any sets of producers and consumers.                                    *)
(***************************************************************************)
EXTENDS StdAtomicMPMC, QueueLemmas

(* What the safety of the ring needs of its memory orders.                 *)
Synchronises == LoadOrder = "acquire" /\ StoreOrder = "release"

-----------------------------------------------------------------------------
(* The inductive invariant.                                                *)

Content == {Nil} \cup Items
Threads == Producers \cup Consumers

TypeOK ==
  /\ seq_ \in [Slots -> Nat] /\ data_ \in [Slots -> Content] /\ lastAccess \in [Slots -> Nat]
  /\ write_idx_ \in Nat /\ read_idx_ \in Nat
  /\ pushPc \in [Producers -> {"load", "seq", "cas", "write", "publish"}]
  /\ write_idx \in [Producers -> Nat]
  /\ n \in [Producers -> Nat \ {0}]
  /\ popPc \in [Consumers -> {"load", "seq", "cas", "read", "release", "done"}]
  /\ read_idx \in [Consumers -> Nat]
  /\ item \in [Consumers -> Content]
  /\ received \in [Consumers -> Seq(Content)]
  /\ acquired \in [Threads -> Nat]
  /\ taken \in Seq(Content)

(* A thread that holds a ticket has claimed it and not handed on its slot. *)
Pushes(p) == pushPc[p] \in {"write", "publish"}
Pops(c)   == popPc[c] \in {"read", "release"}

(* The tickets in the ring fit into it.  A thread's copy of an index is    *)
(* old but not wrong.                                                      *)
Indices ==
  /\ read_idx_ <= write_idx_ /\ write_idx_ <= read_idx_ + SIZE
  /\ Len(taken) = read_idx_
  /\ \A p \in Producers : pushPc[p] # "load" => n[p] <= StopFlag

(* A thread about to claim has seen and acquired the sequence number that  *)
(* its ticket asks for; the slot may have moved on since.                  *)
Checked ==
  /\ \A p \in Producers : pushPc[p] = "cas" =>
       /\ acquired[p] = write_idx[p]
       /\ seq_[Slot(write_idx[p])] >= write_idx[p]
  /\ \A c \in Consumers : popPc[c] = "cas" =>
       /\ acquired[c] = read_idx[c] + 1
       /\ seq_[Slot(read_idx[c])] >= read_idx[c] + 1

(* A push ticket stands for a slot that is free for it until it publishes. *)
PushTicket(p) ==
  LET k == write_idx[p] IN
    /\ read_idx_ <= k /\ k < write_idx_
    /\ seq_[Slot(k)] = k
    /\ pushPc[p] = "write" => acquired[p] = k /\ lastAccess[Slot(k)] <= k
    /\ pushPc[p] = "publish" => data_[Slot(k)] = <<p, n[p]>> /\ lastAccess[Slot(k)] = k + 1

(* A pop ticket stands for a slot full with its item until it is released, *)
(* and no push ticket is a whole lap ahead of it.                          *)
PopTicket(c) ==
  LET k == read_idx[c] IN
    /\ k < read_idx_ /\ write_idx_ <= k + SIZE
    /\ seq_[Slot(k)] = k + 1
    /\ popPc[c] = "read" => /\ acquired[c] = k + 1 /\ lastAccess[Slot(k)] <= k + 1
                            /\ data_[Slot(k)] = taken[k + 1]
    /\ popPc[c] = "release" => item[c] = taken[k + 1] /\ lastAccess[Slot(k)] = k + SIZE

Tickets ==
  /\ \A p \in Producers : Pushes(p) => PushTicket(p)
  /\ \A c \in Consumers : Pops(c) => PopTicket(c)
  /\ \A p, q \in Producers : Pushes(p) /\ Pushes(q) /\ write_idx[p] = write_idx[q] => p = q
  /\ \A c, d \in Consumers : Pops(c) /\ Pops(d) /\ read_idx[c] = read_idx[d] => c = d

(* The slots of the next SIZE tickets: full, or on the way to it; and free *)
(* or on the way to that.                                                  *)
FullOrHeld(k) == \/ seq_[Slot(k)] = k + 1 /\ lastAccess[Slot(k)] <= k + 1
                 \/ \E p \in Producers : Pushes(p) /\ write_idx[p] = k
FreeOrHeld(k) == \/ seq_[Slot(k)] = k /\ lastAccess[Slot(k)] <= k
                 \/ \E c \in Consumers : Pops(c) /\ read_idx[c] + SIZE = k

Ring ==
  /\ \A k \in read_idx_ .. write_idx_ - 1 : FullOrHeld(k)
  /\ \A k \in write_idx_ .. read_idx_ + SIZE - 1 : FreeOrHeld(k)

IInv == TypeOK /\ Indices /\ Checked /\ Tickets /\ Ring

-----------------------------------------------------------------------------
(* Tickets and slots.                                                      *)

LEMMA SlotInRing == ASSUME NEW k \in Nat PROVE Slot(k) \in Slots
BY SizeAssumption, DivMod DEF Slot, Slots

(* Tickets less than a lap apart have different slots,                     *)
LEMMA SlotsDiffer ==
  ASSUME NEW a \in Nat, NEW b \in Nat, a # b, a - b < SIZE, b - a < SIZE
  PROVE  Slot(a) # Slot(b)
<1>1. SIZE \in Nat \ {0}
  BY SizeAssumption
<1>2. CASE a < b
  BY <1>1, <1>2, DifferentSlots DEF Slot
<1>3. CASE b < a
  BY <1>1, <1>3, DifferentSlots DEF Slot
<1> QED
  BY <1>2, <1>3

(* and tickets one lap apart have the same.                                *)
LEMMA SlotLap == ASSUME NEW k \in Nat PROVE Slot(k + SIZE) = Slot(k)
<1>1. SIZE \in Nat \ {0}
  BY SizeAssumption
<1> QED
  BY <1>1, SameSlot DEF Slot

(* A load of a sequence number returns a natural that was stored.          *)
LEMMA StoredBelow ==
  ASSUME TypeOK, NEW s \in Slots, NEW seq \in Stored(s)
  PROVE  seq \in Nat /\ seq <= seq_[s]
BY DEF TypeOK, Stored

(* The threads that hold tickets are in different slots.                   *)
LEMMA PushersApart ==
  ASSUME IInv, NEW p \in Producers, NEW q \in Producers, Pushes(p), Pushes(q), p # q
  PROVE  Slot(write_idx[p]) # Slot(write_idx[q])
<1>1. write_idx[p] \in Nat /\ write_idx[q] \in Nat /\ write_idx[p] # write_idx[q]
  BY DEF IInv, TypeOK, Tickets
<1>2. PushTicket(p) /\ PushTicket(q)
  BY DEF IInv, Tickets
<1> QED
  BY <1>1, <1>2, SlotsDiffer, SizeAssumption DEF PushTicket, IInv, Indices, TypeOK

LEMMA PoppersApart ==
  ASSUME IInv, NEW c \in Consumers, NEW d \in Consumers, Pops(c), Pops(d), c # d
  PROVE  Slot(read_idx[c]) # Slot(read_idx[d])
<1>1. read_idx[c] \in Nat /\ read_idx[d] \in Nat /\ read_idx[c] # read_idx[d]
  BY DEF IInv, TypeOK, Tickets
<1>2. PopTicket(c) /\ PopTicket(d)
  BY DEF IInv, Tickets
<1> QED
  BY <1>1, <1>2, SlotsDiffer, SizeAssumption DEF PopTicket, IInv, Indices, TypeOK

LEMMA PusherAndPopperApart ==
  ASSUME IInv, NEW p \in Producers, NEW c \in Consumers, Pushes(p), Pops(c)
  PROVE  Slot(write_idx[p]) # Slot(read_idx[c])
<1>1. write_idx[p] \in Nat /\ read_idx[c] \in Nat
  BY DEF IInv, TypeOK
<1>2. PushTicket(p) /\ PopTicket(c)
  BY DEF IInv, Tickets
<1> QED
  BY <1>1, <1>2, SlotsDiffer, SizeAssumption DEF PushTicket, PopTicket, IInv, Indices, TypeOK

(* A full ticket's slot is not the slot of another ticket in the ring.     *)
LEMMA InRingApart ==
  ASSUME IInv, NEW j \in read_idx_ .. read_idx_ + SIZE - 1,
         NEW k \in read_idx_ .. read_idx_ + SIZE - 1, j # k
  PROVE  j \in Nat /\ k \in Nat /\ Slot(j) \in Slots /\ Slot(k) \in Slots /\ Slot(j) # Slot(k)
<1>1. j \in Nat /\ k \in Nat /\ j - k < SIZE /\ k - j < SIZE
  BY SizeAssumption DEF IInv, TypeOK
<1> QED
  BY <1>1, SlotInRing, SlotsDiffer

(* Before a write or a read the thread has acquired what it must have.     *)
LEMMA Safety == ASSUME IInv PROVE DataRaceFree /\ TicketItem
BY DEF IInv, Tickets, Pushes, Pops, PushTicket, PopTicket, DataRaceFree, TicketItem, TypeOK

-----------------------------------------------------------------------------
LEMMA InitIInv == Init => IInv
<1> SUFFICES ASSUME Init PROVE IInv
  OBVIOUS
<1> USE SizeAssumption DEF Init
<1>1. TypeOK
  BY DEF TypeOK, Content, Threads, Slots
<1>2. Indices /\ Checked
  BY DEF Indices, Checked
<1>3. Tickets
  BY DEF Tickets, Pushes, Pops
<1>4. Ring
  <2>1. ASSUME NEW k \in 0 .. SIZE - 1 PROVE k \in Slots /\ Slot(k) = k
    <3>1. SIZE \in Nat \ {0} /\ k \in Nat /\ k < SIZE
      OBVIOUS
    <3> QED
      BY <3>1, SmallMod DEF Slots, Slot
  <2> QED
    BY <2>1 DEF Ring, FreeOrHeld
<1> QED
  BY <1>1, <1>2, <1>3, <1>4 DEF IInv

-----------------------------------------------------------------------------
(* Each action preserves the invariant.  First the steps of a thread that  *)
(* looks at an index or a sequence number: they disturb no ticket.         *)

Looks(p) == LoadWriteIdx(p) \/ LoadWriteSeq(p) \/ LoseWrite(p)
LooksToPop(c) == LoadReadIdx(c) \/ LoadReadSeq(c) \/ LoseRead(c)

LEMMA LooksStep ==
  ASSUME Synchronises, IInv, NEW p \in Producers, Looks(p)
  PROVE  IInv'
<1>1. TypeOK /\ Indices /\ Checked /\ Tickets /\ Ring
  BY DEF IInv
<1>2. UNCHANGED <<seq_, data_, lastAccess, write_idx_, n, read_idx_, popPc, read_idx,
                  item, received, taken>>
  BY DEF Looks, LoadWriteIdx, LoadWriteSeq, LoseWrite, slotVars, popVars
<1>3. /\ pushPc' = [pushPc EXCEPT ![p] = pushPc'[p]]
      /\ pushPc'[p] \in {"load", "seq", "cas"}
      /\ pushPc[p] \in {"load", "seq", "cas"}
  BY <1>1 DEF Looks, LoadWriteIdx, LoadWriteSeq, LoseWrite, TypeOK, AfterWriteSeq
<1>4. /\ write_idx' = [write_idx EXCEPT ![p] = write_idx'[p]]
      /\ write_idx'[p] \in Nat
  BY <1>1 DEF Looks, LoadWriteIdx, LoadWriteSeq, LoseWrite, TypeOK
<1>5. /\ acquired' = [acquired EXCEPT ![p] = acquired'[p]]
      /\ acquired'[p] \in Nat
      /\ pushPc'[p] = "cas" => /\ acquired'[p] = write_idx'[p]
                               /\ seq_[Slot(write_idx'[p])] >= write_idx'[p]
  <2>1. CASE LoadWriteIdx(p) \/ LoseWrite(p)
    BY <1>1, <2>1 DEF LoadWriteIdx, LoseWrite, TypeOK, Threads
  <2>2. CASE LoadWriteSeq(p)
    <3>1. PICK seq \in Stored(Slot(write_idx[p])) :
            /\ pushPc' = [pushPc EXCEPT ![p] = AfterWriteSeq(p, seq)]
            /\ acquired' = [acquired EXCEPT ![p] = Acquire(seq)]
      BY <2>2 DEF LoadWriteSeq
    <3>2. write_idx[p] \in Nat /\ Slot(write_idx[p]) \in Slots
      BY <1>1, SlotInRing DEF TypeOK
    <3>3. seq \in Nat /\ seq <= seq_[Slot(write_idx[p])]
      BY <1>1, <3>2, StoredBelow
    <3>4. Acquire(seq) = seq /\ UNCHANGED write_idx
      BY <2>2 DEF Acquire, Synchronises, LoadWriteSeq
    <3>5. pushPc'[p] = "cas" => seq = write_idx[p]
      BY <1>1, <3>1 DEF TypeOK, AfterWriteSeq, FreeFor
    <3> QED
      BY <1>1, <3>1, <3>2, <3>3, <3>4, <3>5 DEF TypeOK, Threads
  <2> QED
    BY <2>1, <2>2 DEF Looks
<1>6. pushPc'[p] # "load" => n[p] <= StopFlag
  BY <1>1 DEF Looks, LoadWriteIdx, LoadWriteSeq, LoseWrite, Indices
<1>7. /\ \A q \in Producers : q # p =>
           pushPc'[q] = pushPc[q] /\ write_idx'[q] = write_idx[q] /\ acquired'[q] = acquired[q]
      /\ \A c \in Consumers : acquired'[c] = acquired[c]
  BY <1>1, <1>3, <1>4, <1>5, ThreadsAssumption DEF TypeOK, Threads
<1>8. TypeOK'
  BY <1>1, <1>2, <1>3, <1>4, <1>5 DEF TypeOK, Threads
<1>9. Indices'
  BY <1>1, <1>2, <1>6, <1>7 DEF Indices
<1>10. Checked'
  BY <1>1, <1>2, <1>5, <1>7 DEF Checked, Slot
<1>11. \A q \in Producers : /\ Pushes(q)' <=> Pushes(q)
                            /\ Pushes(q) => q # p
  BY <1>3, <1>7 DEF Pushes
<1>12. Tickets'
  BY <1>1, <1>2, <1>7, <1>11 DEF Tickets, PushTicket, PopTicket, Pushes, Pops, Slot
<1>13. Ring'
  BY <1>1, <1>2, <1>7, <1>11 DEF Ring, FullOrHeld, FreeOrHeld, Pops, Slot
<1> QED
  BY <1>8, <1>9, <1>10, <1>12, <1>13 DEF IInv

LEMMA LooksToPopStep ==
  ASSUME Synchronises, IInv, NEW c \in Consumers, LooksToPop(c)
  PROVE  IInv'
<1>1. TypeOK /\ Indices /\ Checked /\ Tickets /\ Ring
  BY DEF IInv
<1>2. UNCHANGED <<seq_, data_, lastAccess, write_idx_, n, read_idx_, pushPc, write_idx,
                  item, received, taken>>
  BY DEF LooksToPop, LoadReadIdx, LoadReadSeq, LoseRead, slotVars, pushVars
<1>3. /\ popPc' = [popPc EXCEPT ![c] = popPc'[c]]
      /\ popPc'[c] \in {"load", "seq", "cas"}
      /\ popPc[c] \in {"load", "seq", "cas"}
  BY <1>1 DEF LooksToPop, LoadReadIdx, LoadReadSeq, LoseRead, TypeOK, AfterReadSeq
<1>4. /\ read_idx' = [read_idx EXCEPT ![c] = read_idx'[c]]
      /\ read_idx'[c] \in Nat
  BY <1>1 DEF LooksToPop, LoadReadIdx, LoadReadSeq, LoseRead, TypeOK
<1>5. /\ acquired' = [acquired EXCEPT ![c] = acquired'[c]]
      /\ acquired'[c] \in Nat
      /\ popPc'[c] = "cas" => /\ acquired'[c] = read_idx'[c] + 1
                              /\ seq_[Slot(read_idx'[c])] >= read_idx'[c] + 1
  <2>1. CASE LoadReadIdx(c) \/ LoseRead(c)
    BY <1>1, <2>1 DEF LoadReadIdx, LoseRead, TypeOK, Threads
  <2>2. CASE LoadReadSeq(c)
    <3>1. PICK seq \in Stored(Slot(read_idx[c])) :
            /\ popPc' = [popPc EXCEPT ![c] = AfterReadSeq(c, seq)]
            /\ acquired' = [acquired EXCEPT ![c] = Acquire(seq)]
      BY <2>2 DEF LoadReadSeq
    <3>2. read_idx[c] \in Nat /\ Slot(read_idx[c]) \in Slots
      BY <1>1, SlotInRing DEF TypeOK
    <3>3. seq \in Nat /\ seq <= seq_[Slot(read_idx[c])]
      BY <1>1, <3>2, StoredBelow
    <3>4. Acquire(seq) = seq /\ UNCHANGED read_idx
      BY <2>2 DEF Acquire, Synchronises, LoadReadSeq
    <3>5. popPc'[c] = "cas" => seq = read_idx[c] + 1
      BY <1>1, <3>1 DEF TypeOK, AfterReadSeq, FullWith
    <3> QED
      BY <1>1, <3>1, <3>2, <3>3, <3>4, <3>5 DEF TypeOK, Threads
  <2> QED
    BY <2>1, <2>2 DEF LooksToPop
<1>6. /\ \A d \in Consumers : d # c =>
           popPc'[d] = popPc[d] /\ read_idx'[d] = read_idx[d] /\ acquired'[d] = acquired[d]
      /\ \A p \in Producers : acquired'[p] = acquired[p]
  <2>1. \A d \in Consumers : d # c => popPc'[d] = popPc[d]
    BY <1>1, <1>3 DEF TypeOK
  <2>2. \A d \in Consumers : d # c => read_idx'[d] = read_idx[d]
    BY <1>1, <1>4 DEF TypeOK
  <2>3. \A t \in Threads : t # c => acquired'[t] = acquired[t]
    BY <1>1, <1>5 DEF TypeOK
  <2> QED
    BY <2>1, <2>2, <2>3, ThreadsAssumption DEF Threads
<1>7. TypeOK'
  <2>1. popPc' \in [Consumers -> {"load", "seq", "cas", "read", "release", "done"}]
    BY <1>1, <1>3 DEF TypeOK
  <2>2. read_idx' \in [Consumers -> Nat] /\ acquired' \in [Threads -> Nat]
    BY <1>1, <1>4, <1>5 DEF TypeOK
  <2> QED
    BY <1>1, <1>2, <2>1, <2>2 DEF TypeOK
<1>8. Indices'
  BY <1>1, <1>2 DEF Indices
<1>9. Checked'
  BY <1>1, <1>2, <1>5, <1>6 DEF Checked, Slot
<1>10. \A d \in Consumers : /\ Pops(d)' <=> Pops(d)
                            /\ Pops(d) => d # c
  BY <1>3, <1>6 DEF Pops
<1>11. Tickets'
  BY <1>1, <1>2, <1>6, <1>10 DEF Tickets, PushTicket, PopTicket, Pushes, Pops, Slot
<1>12. Ring'
  BY <1>1, <1>2, <1>6, <1>10 DEF Ring, FullOrHeld, FreeOrHeld, Pushes, Slot
<1> QED
  BY <1>7, <1>8, <1>9, <1>11, <1>12 DEF IInv

-----------------------------------------------------------------------------
(* Claiming a ticket.                                                      *)

(* The sequence number checked may be old, but when the index has not      *)
(* moved the slot is free: a slot still in use has a smaller number.       *)
LEMMA WriteClaimable ==
  ASSUME IInv, NEW p \in Producers, ClaimWrite(p)
  PROVE  /\ write_idx_ < read_idx_ + SIZE
         /\ seq_[Slot(write_idx_)] = write_idx_
         /\ lastAccess[Slot(write_idx_)] <= write_idx_
         /\ acquired[p] = write_idx_
<1>1. TypeOK /\ Indices /\ Checked /\ Tickets /\ Ring
  BY DEF IInv
<1>2. /\ acquired[p] = write_idx_ /\ seq_[Slot(write_idx_)] >= write_idx_
      /\ write_idx_ \in Nat /\ read_idx_ \in Nat /\ SIZE \in Nat /\ SIZE >= 2
  BY <1>1, SizeAssumption DEF ClaimWrite, Checked, TypeOK
<1>3. CASE write_idx_ = read_idx_ + SIZE
  <2>1. Slot(write_idx_) = Slot(read_idx_) /\ FullOrHeld(read_idx_)
    BY <1>1, <1>2, <1>3, SlotLap DEF Ring
  <2>2. seq_[Slot(read_idx_)] <= read_idx_ + 1
    <3>1. CASE \E q \in Producers : Pushes(q) /\ write_idx[q] = read_idx_
      BY <1>1, <1>2, <3>1 DEF Tickets, PushTicket
    <3> QED
      BY <1>2, <2>1, <3>1 DEF FullOrHeld
  <2>3. seq_[Slot(read_idx_)] \in Nat
    BY <1>1, <1>2, SlotInRing DEF TypeOK
  <2> QED
    BY <1>2, <1>3, <2>1, <2>2, <2>3
<1>4. CASE write_idx_ < read_idx_ + SIZE
  <2>1. FreeOrHeld(write_idx_)
    BY <1>1, <1>2, <1>4 DEF Ring
  <2>2. ASSUME NEW c \in Consumers, Pops(c), read_idx[c] + SIZE = write_idx_
        PROVE  FALSE
    <3>1. read_idx[c] \in Nat /\ seq_[Slot(read_idx[c])] = read_idx[c] + 1
      BY <1>1, <2>2 DEF Tickets, PopTicket, TypeOK
    <3>2. Slot(write_idx_) = Slot(read_idx[c])
      BY <2>2, <3>1, SlotLap
    <3> QED
      BY <1>2, <2>2, <3>1, <3>2
  <2> QED
    BY <1>2, <1>4, <2>1, <2>2 DEF FreeOrHeld
<1> QED
  BY <1>1, <1>2, <1>3, <1>4 DEF Indices

LEMMA ReadClaimable ==
  ASSUME IInv, NEW c \in Consumers, ClaimRead(c)
  PROVE  /\ read_idx_ < write_idx_
         /\ seq_[Slot(read_idx_)] = read_idx_ + 1
         /\ lastAccess[Slot(read_idx_)] <= read_idx_ + 1
         /\ acquired[c] = read_idx_ + 1
         /\ Holder(read_idx_) = {}
<1>1. TypeOK /\ Indices /\ Checked /\ Tickets /\ Ring
  BY DEF IInv
<1>2. /\ acquired[c] = read_idx_ + 1 /\ seq_[Slot(read_idx_)] >= read_idx_ + 1
      /\ write_idx_ \in Nat /\ read_idx_ \in Nat /\ SIZE \in Nat /\ SIZE >= 2
  BY <1>1, SizeAssumption DEF ClaimRead, Checked, TypeOK
<1>3. CASE read_idx_ = write_idx_
  <2>1. FreeOrHeld(read_idx_)
    BY <1>1, <1>2, <1>3 DEF Ring
  <2>2. ASSUME NEW d \in Consumers, Pops(d), read_idx[d] + SIZE = read_idx_
        PROVE  FALSE
    <3>1. read_idx[d] \in Nat /\ seq_[Slot(read_idx[d])] = read_idx[d] + 1
      BY <1>1, <2>2 DEF Tickets, PopTicket, TypeOK
    <3>2. Slot(read_idx_) = Slot(read_idx[d])
      BY <2>2, <3>1, SlotLap
    <3> QED
      BY <1>2, <2>2, <3>1, <3>2
  <2> QED
    BY <1>2, <2>1, <2>2 DEF FreeOrHeld
<1>4. CASE read_idx_ < write_idx_
  <2>1. FullOrHeld(read_idx_)
    BY <1>1, <1>2, <1>4 DEF Ring
  <2>2. ASSUME NEW q \in Producers, Pushes(q), write_idx[q] = read_idx_
        PROVE  FALSE
    BY <1>1, <1>2, <2>2 DEF Tickets, PushTicket
  <2> QED
    BY <1>2, <1>4, <2>1, <2>2 DEF FullOrHeld, Holder, Pushes
<1> QED
  BY <1>1, <1>2, <1>3, <1>4 DEF Indices

LEMMA ClaimWriteStep ==
  ASSUME IInv, NEW p \in Producers, ClaimWrite(p)
  PROVE  IInv'
<1>1. TypeOK /\ Indices /\ Checked /\ Tickets /\ Ring
  BY DEF IInv
<1>2. /\ UNCHANGED <<seq_, data_, lastAccess, write_idx, n, read_idx_, popPc, read_idx,
                     item, received, taken, acquired>>
      /\ write_idx_' = write_idx_ + 1
      /\ pushPc[p] = "cas" /\ write_idx[p] = write_idx_
      /\ pushPc' = [pushPc EXCEPT ![p] = "write"]
  BY DEF ClaimWrite, slotVars, popVars
<1>3. /\ write_idx_ < read_idx_ + SIZE
      /\ seq_[Slot(write_idx_)] = write_idx_
      /\ lastAccess[Slot(write_idx_)] <= write_idx_
      /\ acquired[p] = write_idx_
  BY WriteClaimable
<1>4. write_idx_ \in Nat /\ read_idx_ \in Nat /\ SIZE \in Nat /\ SIZE >= 2
  BY <1>1, SizeAssumption DEF TypeOK
<1>5. /\ pushPc'[p] = "write"
      /\ \A q \in Producers : q # p => pushPc'[q] = pushPc[q]
  BY <1>1, <1>2 DEF TypeOK
<1>6. TypeOK'
  BY <1>1, <1>2 DEF TypeOK
<1>7. Indices'
  BY <1>1, <1>2, <1>3, <1>4, <1>5 DEF Indices
<1>8. Checked'
  BY <1>1, <1>2, <1>5 DEF Checked, Slot
<1>9. \A q \in Producers : Pushes(q)' <=> q = p \/ Pushes(q)
  BY <1>5 DEF Pushes
<1>10. ASSUME NEW q \in Producers, Pushes(q)'
       PROVE  PushTicket(q)'
  <2>1. CASE q = p
    BY <1>1, <1>2, <1>3, <1>4, <1>5, <2>1 DEF PushTicket, Indices, Slot
  <2>2. CASE q # p
    <3>1. PushTicket(q) /\ write_idx[q] \in Nat
      BY <1>1, <1>9, <1>10, <2>2 DEF Tickets, TypeOK
    <3> QED
      BY <1>2, <1>4, <1>5, <2>2, <3>1 DEF PushTicket, Slot
  <2> QED
    BY <2>1, <2>2
<1>11. ASSUME NEW c \in Consumers, Pops(c)'
       PROVE  PopTicket(c)'
  <2>1. Pops(c) /\ PopTicket(c) /\ read_idx[c] \in Nat
    BY <1>1, <1>2, <1>11 DEF Tickets, TypeOK, Pops
  <2>2. write_idx_ # read_idx[c] + SIZE
    <3>1. SUFFICES ASSUME write_idx_ = read_idx[c] + SIZE PROVE FALSE
      OBVIOUS
    <3>2. Slot(write_idx_) = Slot(read_idx[c])
      BY <2>1, <3>1, SlotLap
    <3> QED
      BY <1>3, <1>4, <2>1, <3>1, <3>2 DEF PopTicket
  <2> QED
    BY <1>2, <1>4, <2>1, <2>2 DEF PopTicket, Slot
<1>12. Tickets'
  <2>1. ASSUME NEW q \in Producers, Pushes(q) PROVE write_idx[q] # write_idx_
    BY <1>1, <1>4, <2>1 DEF Tickets, PushTicket, TypeOK
  <2>2. \A q, s \in Producers : Pushes(q)' /\ Pushes(s)' /\ write_idx'[q] = write_idx'[s] => q = s
    BY <1>1, <1>2, <1>9, <2>1 DEF Tickets
  <2>3. \A c, d \in Consumers : Pops(c)' /\ Pops(d)' /\ read_idx'[c] = read_idx'[d] => c = d
    BY <1>1, <1>2 DEF Tickets, Pops
  <2> QED
    BY <1>10, <1>11, <2>2, <2>3 DEF Tickets
<1>13. ASSUME NEW k \in read_idx_' .. write_idx_' - 1
       PROVE  FullOrHeld(k)'
  <2>1. CASE k = write_idx_
    BY <1>2, <1>9, <2>1 DEF FullOrHeld
  <2>2. CASE k # write_idx_
    <3>1. FullOrHeld(k)
      BY <1>1, <1>2, <1>4, <2>2 DEF Ring
    <3> QED
      BY <1>2, <1>9, <3>1 DEF FullOrHeld, Slot
  <2> QED
    BY <2>1, <2>2
<1>14. ASSUME NEW k \in write_idx_' .. read_idx_' + SIZE - 1
       PROVE  FreeOrHeld(k)'
  <2>1. FreeOrHeld(k)
    BY <1>1, <1>2, <1>4 DEF Ring
  <2> QED
    BY <1>2, <2>1 DEF FreeOrHeld, Slot, Pops
<1> QED
  BY <1>6, <1>7, <1>8, <1>12, <1>13, <1>14 DEF IInv, Ring

LEMMA ClaimReadStep ==
  ASSUME IInv, NEW c \in Consumers, ClaimRead(c)
  PROVE  IInv'
<1>1. TypeOK /\ Indices /\ Checked /\ Tickets /\ Ring
  BY DEF IInv
<1>2. /\ UNCHANGED <<seq_, data_, lastAccess, write_idx_, pushPc, write_idx, n, read_idx,
                     item, received, acquired>>
      /\ read_idx_' = read_idx_ + 1
      /\ taken' = Append(taken, data_[Slot(read_idx_)])
      /\ popPc[c] = "cas" /\ read_idx[c] = read_idx_
      /\ popPc' = [popPc EXCEPT ![c] = "read"]
  BY DEF ClaimRead, slotVars, pushVars
<1>3. /\ read_idx_ < write_idx_
      /\ seq_[Slot(read_idx_)] = read_idx_ + 1
      /\ lastAccess[Slot(read_idx_)] <= read_idx_ + 1
      /\ acquired[c] = read_idx_ + 1
  BY ReadClaimable
<1>4. write_idx_ \in Nat /\ read_idx_ \in Nat /\ SIZE \in Nat /\ SIZE >= 2
  BY <1>1, SizeAssumption DEF TypeOK
<1>5. /\ popPc'[c] = "read"
      /\ \A d \in Consumers : d # c => popPc'[d] = popPc[d]
  BY <1>1, <1>2 DEF TypeOK
<1>6. /\ data_[Slot(read_idx_)] \in Content
      /\ taken' \in Seq(Content) /\ Len(taken') = read_idx_ + 1
      /\ taken'[read_idx_ + 1] = data_[Slot(read_idx_)]
      /\ \A k \in 1 .. read_idx_ : taken'[k] = taken[k]
  <2>1. data_[Slot(read_idx_)] \in Content
    BY <1>1, <1>4, SlotInRing DEF TypeOK
  <2>2. taken \in Seq(Content) /\ Len(taken) = read_idx_
    BY <1>1 DEF TypeOK, Indices
  <2> HIDE DEF Content
  <2> QED
    BY <1>2, <1>4, <2>1, <2>2
<1>7. TypeOK'
  BY <1>1, <1>2, <1>6 DEF TypeOK
<1>8. Indices'
  BY <1>1, <1>2, <1>3, <1>4, <1>6 DEF Indices
<1>9. Checked'
  BY <1>1, <1>2, <1>5 DEF Checked, Slot
<1>10. \A d \in Consumers : Pops(d)' <=> d = c \/ Pops(d)
  BY <1>5 DEF Pops
<1>11. ASSUME NEW p \in Producers, Pushes(p)'
       PROVE  PushTicket(p)'
  <2>1. Pushes(p) /\ PushTicket(p) /\ write_idx[p] \in Nat
    <3>1. Pushes(p)
      BY <1>2, <1>11 DEF Pushes
    <3> QED
      BY <1>1, <3>1 DEF Tickets, TypeOK
  <2>2. read_idx_' <= write_idx[p]
    BY <1>2, <1>3, <1>4, <2>1 DEF PushTicket
  <2> QED
    BY <1>2, <2>1, <2>2 DEF PushTicket, Slot
<1>12. ASSUME NEW d \in Consumers, Pops(d)'
       PROVE  PopTicket(d)'
  <2>1. CASE d = c
    BY <1>1, <1>2, <1>3, <1>4, <1>5, <1>6, <2>1 DEF PopTicket, Indices, Slot
  <2>2. CASE d # c
    <3>1. PopTicket(d) /\ read_idx[d] \in Nat
      BY <1>1, <1>10, <1>12, <2>2 DEF Tickets, TypeOK
    <3>2. read_idx[d] + 1 \in 1 .. read_idx_
      BY <1>4, <3>1 DEF PopTicket
    <3> QED
      BY <1>2, <1>4, <1>5, <1>6, <2>2, <3>1, <3>2 DEF PopTicket, Slot
  <2> QED
    BY <2>1, <2>2
<1>13. Tickets'
  <2>1. ASSUME NEW d \in Consumers, Pops(d) PROVE read_idx[d] # read_idx_
    BY <1>1, <1>4, <2>1 DEF Tickets, PopTicket, TypeOK
  <2>2. \A d, e \in Consumers : Pops(d)' /\ Pops(e)' /\ read_idx'[d] = read_idx'[e] => d = e
    BY <1>1, <1>2, <1>10, <2>1 DEF Tickets
  <2>3. \A p, q \in Producers : Pushes(p)' /\ Pushes(q)' /\ write_idx'[p] = write_idx'[q] => p = q
    BY <1>1, <1>2 DEF Tickets, Pushes
  <2> QED
    BY <1>11, <1>12, <2>2, <2>3 DEF Tickets
<1>14. ASSUME NEW k \in read_idx_' .. write_idx_' - 1
       PROVE  FullOrHeld(k)'
  <2>1. FullOrHeld(k)
    BY <1>1, <1>2, <1>4 DEF Ring
  <2> QED
    BY <1>2, <2>1 DEF FullOrHeld, Slot, Pushes
<1>15. ASSUME NEW k \in write_idx_' .. read_idx_' + SIZE - 1
       PROVE  FreeOrHeld(k)'
  <2>1. CASE k = read_idx_ + SIZE
    BY <1>2, <1>10, <2>1 DEF FreeOrHeld
  <2>2. CASE k # read_idx_ + SIZE
    <3>1. FreeOrHeld(k)
      BY <1>1, <1>2, <1>4, <2>2 DEF Ring
    <3> QED
      BY <1>2, <1>10, <3>1 DEF FreeOrHeld, Slot
  <2> QED
    BY <2>1, <2>2
<1> QED
  BY <1>7, <1>8, <1>9, <1>13, <1>14, <1>15 DEF IInv, Ring

-----------------------------------------------------------------------------
(* Using a ticket: the slot is touched, then handed on.                    *)

LEMMA WriteDataStep ==
  ASSUME IInv, NEW p \in Producers, WriteData(p)
  PROVE  IInv'
<1> DEFINE k == write_idx[p]
<1>1. TypeOK /\ Indices /\ Checked /\ Tickets /\ Ring
  BY DEF IInv
<1>2. /\ UNCHANGED <<seq_, write_idx_, write_idx, n, read_idx_, popPc, read_idx,
                     item, received, taken, acquired>>
      /\ pushPc[p] = "write"
      /\ data_' = [data_ EXCEPT ![Slot(k)] = <<p, n[p]>>]
      /\ lastAccess' = [lastAccess EXCEPT ![Slot(k)] = k + 1]
      /\ pushPc' = [pushPc EXCEPT ![p] = "publish"]
  BY DEF WriteData, popVars
<1>3. Pushes(p) /\ PushTicket(p) /\ k \in Nat /\ Slot(k) \in Slots
  BY <1>1, <1>2, SlotInRing DEF Pushes, Tickets, TypeOK
<1>4. /\ pushPc'[p] = "publish"
      /\ \A q \in Producers : q # p => pushPc'[q] = pushPc[q]
      /\ \A q \in Producers : Pushes(q)' <=> Pushes(q)
  BY <1>1, <1>2 DEF TypeOK, Pushes
<1>5. /\ data_'[Slot(k)] = <<p, n[p]>> /\ lastAccess'[Slot(k)] = k + 1
      /\ \A s \in Slots : s # Slot(k) => data_'[s] = data_[s] /\ lastAccess'[s] = lastAccess[s]
  BY <1>1, <1>2, <1>3 DEF TypeOK
<1>6. write_idx_ \in Nat /\ read_idx_ \in Nat /\ SIZE \in Nat /\ SIZE >= 2
  BY <1>1, SizeAssumption DEF TypeOK
<1> HIDE DEF k
<1>7. TypeOK'
  <2>1. <<p, n[p]>> \in Content
    BY <1>1, <1>2, ItemsAssumption DEF Content, Items, Indices, StopFlag, TypeOK
  <2> QED
    BY <1>1, <1>2, <1>3, <2>1 DEF TypeOK
<1>8. Indices'
  BY <1>1, <1>2, <1>4 DEF Indices
<1>9. Checked'
  BY <1>1, <1>2, <1>4 DEF Checked, Slot
<1>10. ASSUME NEW q \in Producers, Pushes(q)'
       PROVE  PushTicket(q)'
  <2>1. CASE q = p
    BY <1>2, <1>3, <1>4, <1>5, <2>1 DEF PushTicket, Slot, k
  <2>2. CASE q # p
    <3>1. PushTicket(q) /\ write_idx[q] \in Nat /\ Slot(write_idx[q]) \in Slots
      BY <1>1, <1>4, <1>10, SlotInRing DEF Tickets, TypeOK
    <3>2. Slot(write_idx[q]) # Slot(k)
      BY <1>3, <1>4, <1>10, <2>2, PushersApart DEF k
    <3> QED
      BY <1>2, <1>4, <1>5, <2>2, <3>1, <3>2 DEF PushTicket, Slot
  <2> QED
    BY <2>1, <2>2
<1>11. ASSUME NEW c \in Consumers, Pops(c)'
       PROVE  PopTicket(c)'
  <2>1. Pops(c) /\ PopTicket(c) /\ read_idx[c] \in Nat /\ Slot(read_idx[c]) \in Slots
    BY <1>1, <1>2, <1>11, SlotInRing DEF Tickets, TypeOK, Pops
  <2>2. Slot(read_idx[c]) # Slot(k)
    BY <1>3, <2>1, PusherAndPopperApart DEF k
  <2> QED
    BY <1>2, <1>5, <2>1, <2>2 DEF PopTicket, Slot
<1>12. Tickets'
  BY <1>1, <1>2, <1>4, <1>10, <1>11 DEF Tickets, Pops
<1>13. ASSUME NEW j \in read_idx_ .. read_idx_ + SIZE - 1, j # k
       PROVE  j \in Nat /\ Slot(j) \in Slots /\ Slot(j) # Slot(k)
  <2>1. k \in read_idx_ .. read_idx_ + SIZE - 1
    BY <1>1, <1>3, <1>6 DEF PushTicket, Indices, k
  <2> QED
    BY <1>13, <2>1, InRingApart
<1>14. ASSUME NEW j \in read_idx_' .. write_idx_' - 1
       PROVE  FullOrHeld(j)'
  <2>1. FullOrHeld(j)
    BY <1>1, <1>2 DEF Ring
  <2>2. CASE j = k
    BY <1>2, <1>3, <1>4, <2>2 DEF FullOrHeld, k
  <2>3. CASE j # k
    <3>1. j \in read_idx_ .. read_idx_ + SIZE - 1
      BY <1>1, <1>2, <1>6 DEF Indices
    <3> QED
      BY <1>2, <1>4, <1>5, <1>13, <2>1, <2>3, <3>1 DEF FullOrHeld, Slot
  <2> QED
    BY <2>2, <2>3
<1>15. ASSUME NEW j \in write_idx_' .. read_idx_' + SIZE - 1
       PROVE  FreeOrHeld(j)'
  <2>1. FreeOrHeld(j)
    BY <1>1, <1>2 DEF Ring
  <2>2. j # k /\ j \in read_idx_ .. read_idx_ + SIZE - 1
    BY <1>1, <1>2, <1>3, <1>6 DEF PushTicket, Indices, k
  <2> QED
    BY <1>2, <1>5, <1>13, <2>1, <2>2 DEF FreeOrHeld, Slot, Pops
<1> QED
  BY <1>7, <1>8, <1>9, <1>12, <1>14, <1>15 DEF IInv, Ring

LEMMA PublishWriteStep ==
  ASSUME IInv, NEW p \in Producers, PublishWrite(p)
  PROVE  IInv'
<1> DEFINE k == write_idx[p]
<1>1. TypeOK /\ Indices /\ Checked /\ Tickets /\ Ring
  BY DEF IInv
<1>2. /\ UNCHANGED <<data_, lastAccess, write_idx_, write_idx, read_idx_, popPc, read_idx,
                     item, received, taken, acquired>>
      /\ pushPc[p] = "publish"
      /\ seq_' = [seq_ EXCEPT ![Slot(k)] = k + 1]
      /\ n' = [n EXCEPT ![p] = @ + 1]
      /\ pushPc' = [pushPc EXCEPT ![p] = "load"]
  BY DEF PublishWrite, popVars
<1>3. Pushes(p) /\ PushTicket(p) /\ k \in Nat /\ Slot(k) \in Slots
  BY <1>1, <1>2, SlotInRing DEF Pushes, Tickets, TypeOK
<1>4. /\ pushPc'[p] = "load"
      /\ \A q \in Producers : q # p => pushPc'[q] = pushPc[q] /\ n'[q] = n[q]
      /\ \A q \in Producers : Pushes(q)' <=> Pushes(q) /\ q # p
  BY <1>1, <1>2 DEF TypeOK, Pushes
<1>5. /\ seq_'[Slot(k)] = k + 1 /\ seq_[Slot(k)] = k
      /\ \A s \in Slots : s # Slot(k) => seq_'[s] = seq_[s]
      /\ lastAccess[Slot(k)] = k + 1
  BY <1>1, <1>2, <1>3 DEF TypeOK, PushTicket
<1>6. write_idx_ \in Nat /\ read_idx_ \in Nat /\ SIZE \in Nat /\ SIZE >= 2
  BY <1>1, SizeAssumption DEF TypeOK
<1> HIDE DEF k
<1>7. TypeOK'
  BY <1>1, <1>2, <1>3 DEF TypeOK
<1>8. Indices'
  BY <1>1, <1>2, <1>4 DEF Indices
<1>9. Checked'
  <2>1. \A s \in Slots : seq_[s] \in Nat /\ seq_'[s] \in Nat /\ seq_'[s] >= seq_[s]
    <3>1. ASSUME NEW s \in Slots PROVE seq_[s] \in Nat /\ seq_'[s] \in Nat
      BY <1>1, <1>7 DEF TypeOK
    <3>2. ASSUME NEW s \in Slots PROVE seq_'[s] >= seq_[s]
      BY <1>3, <1>5, <3>1
    <3> QED
      BY <3>1, <3>2
  <2>2. ASSUME NEW q \in Producers, pushPc'[q] = "cas"
        PROVE  acquired[q] = write_idx[q] /\ seq_'[Slot(write_idx[q])] >= write_idx[q]
    <3>1. pushPc[q] = "cas" /\ write_idx[q] \in Nat /\ Slot(write_idx[q]) \in Slots
      BY <1>1, <1>4, <2>2, SlotInRing DEF TypeOK
    <3> QED
      BY <1>1, <2>1, <3>1 DEF Checked
  <2>3. ASSUME NEW c \in Consumers, popPc[c] = "cas"
        PROVE  acquired[c] = read_idx[c] + 1 /\ seq_'[Slot(read_idx[c])] >= read_idx[c] + 1
    <3>1. read_idx[c] \in Nat /\ Slot(read_idx[c]) \in Slots
      BY <1>1, SlotInRing DEF TypeOK
    <3> QED
      BY <1>1, <2>1, <2>3, <3>1 DEF Checked
  <2> QED
    BY <1>2, <2>2, <2>3 DEF Checked, Slot
<1>10. ASSUME NEW q \in Producers, Pushes(q)'
       PROVE  PushTicket(q)'
  <2>1. q # p /\ Pushes(q) /\ PushTicket(q) /\ write_idx[q] \in Nat /\ Slot(write_idx[q]) \in Slots
    BY <1>1, <1>4, <1>10, SlotInRing DEF Tickets, TypeOK
  <2>2. Slot(write_idx[q]) # Slot(k)
    BY <1>3, <2>1, PushersApart DEF k
  <2> QED
    BY <1>2, <1>4, <1>5, <2>1, <2>2 DEF PushTicket, Slot
<1>11. ASSUME NEW c \in Consumers, Pops(c)'
       PROVE  PopTicket(c)'
  <2>1. Pops(c) /\ PopTicket(c) /\ read_idx[c] \in Nat /\ Slot(read_idx[c]) \in Slots
    BY <1>1, <1>2, <1>11, SlotInRing DEF Tickets, TypeOK, Pops
  <2>2. Slot(read_idx[c]) # Slot(k)
    BY <1>3, <2>1, PusherAndPopperApart DEF k
  <2> QED
    BY <1>2, <1>5, <2>1, <2>2 DEF PopTicket, Slot
<1>12. Tickets'
  BY <1>1, <1>2, <1>4, <1>10, <1>11 DEF Tickets, Pops
<1>13. ASSUME NEW j \in read_idx_ .. read_idx_ + SIZE - 1, j # k
       PROVE  j \in Nat /\ Slot(j) \in Slots /\ Slot(j) # Slot(k)
  <2>1. k \in read_idx_ .. read_idx_ + SIZE - 1
    BY <1>1, <1>3, <1>6 DEF PushTicket, Indices, k
  <2> QED
    BY <1>13, <2>1, InRingApart
<1>14. ASSUME NEW j \in read_idx_' .. write_idx_' - 1
       PROVE  FullOrHeld(j)'
  <2>1. FullOrHeld(j)
    BY <1>1, <1>2 DEF Ring
  <2>2. CASE j = k
    BY <1>2, <1>3, <1>5, <2>2 DEF FullOrHeld, Slot
  <2>3. CASE j # k
    <3>1. j \in read_idx_ .. read_idx_ + SIZE - 1
      BY <1>1, <1>2, <1>6 DEF Indices
    <3> QED
      BY <1>2, <1>4, <1>5, <1>13, <2>1, <2>3, <3>1 DEF FullOrHeld, Slot, k
  <2> QED
    BY <2>2, <2>3
<1>15. ASSUME NEW j \in write_idx_' .. read_idx_' + SIZE - 1
       PROVE  FreeOrHeld(j)'
  <2>1. FreeOrHeld(j)
    BY <1>1, <1>2 DEF Ring
  <2>2. j # k /\ j \in read_idx_ .. read_idx_ + SIZE - 1
    BY <1>1, <1>2, <1>3, <1>6 DEF PushTicket, Indices, k
  <2> QED
    BY <1>2, <1>5, <1>13, <2>1, <2>2 DEF FreeOrHeld, Slot, Pops
<1> QED
  BY <1>7, <1>8, <1>9, <1>12, <1>14, <1>15 DEF IInv, Ring

LEMMA ReadDataStep ==
  ASSUME IInv, NEW c \in Consumers, ReadData(c)
  PROVE  IInv'
<1> DEFINE k == read_idx[c]
<1>1. TypeOK /\ Indices /\ Checked /\ Tickets /\ Ring
  BY DEF IInv
<1>2. /\ UNCHANGED <<seq_, data_, write_idx_, pushPc, write_idx, n, read_idx_, read_idx,
                     received, taken, acquired>>
      /\ popPc[c] = "read"
      /\ lastAccess' = [lastAccess EXCEPT ![Slot(k)] = k + SIZE]
      /\ popPc' = [popPc EXCEPT ![c] = "release"]
  BY DEF ReadData, pushVars
<1>3. Pops(c) /\ PopTicket(c) /\ k \in Nat /\ Slot(k) \in Slots
  BY <1>1, <1>2, SlotInRing DEF Pops, Tickets, TypeOK
<1>4. /\ popPc'[c] = "release"
      /\ \A d \in Consumers : d # c => popPc'[d] = popPc[d]
      /\ \A d \in Consumers : Pops(d)' <=> Pops(d)
  BY <1>1, <1>2 DEF TypeOK, Pops
<1>5. /\ lastAccess'[Slot(k)] = k + SIZE
      /\ \A s \in Slots : s # Slot(k) => lastAccess'[s] = lastAccess[s]
  BY <1>1, <1>2, <1>3 DEF TypeOK
<1>6. write_idx_ \in Nat /\ read_idx_ \in Nat /\ SIZE \in Nat /\ SIZE >= 2
  BY <1>1, SizeAssumption DEF TypeOK
<1>7. item' = [item EXCEPT ![c] = data_[Slot(k)]] /\ data_[Slot(k)] = taken[k + 1]
  <2>1. lastAccess[Slot(k)] <= acquired[c]
    BY <1>1, <1>2, Safety DEF DataRaceFree, IInv
  <2> QED
    BY <1>2, <1>3, <2>1 DEF ReadData, PopTicket
<1> HIDE DEF k
<1>8. TypeOK'
  BY <1>1, <1>2, <1>3, <1>6, <1>7 DEF TypeOK
<1>9. Indices'
  BY <1>1, <1>2 DEF Indices
<1>10. Checked'
  BY <1>1, <1>2, <1>4 DEF Checked, Slot
<1>11. ASSUME NEW p \in Producers, Pushes(p)'
       PROVE  PushTicket(p)'
  <2>1. Pushes(p) /\ PushTicket(p) /\ write_idx[p] \in Nat /\ Slot(write_idx[p]) \in Slots
    BY <1>1, <1>2, <1>11, SlotInRing DEF Tickets, TypeOK, Pushes
  <2>2. Slot(write_idx[p]) # Slot(k)
    BY <1>3, <2>1, PusherAndPopperApart DEF k
  <2> QED
    BY <1>2, <1>5, <2>1, <2>2 DEF PushTicket, Slot
<1>12. ASSUME NEW d \in Consumers, Pops(d)'
       PROVE  PopTicket(d)'
  <2>1. CASE d = c
    BY <1>1, <1>2, <1>3, <1>4, <1>5, <1>7, <2>1 DEF PopTicket, Slot, k, TypeOK
  <2>2. CASE d # c
    <3>1. PopTicket(d) /\ read_idx[d] \in Nat /\ Slot(read_idx[d]) \in Slots
      BY <1>1, <1>4, <1>12, SlotInRing DEF Tickets, TypeOK
    <3>2. Slot(read_idx[d]) # Slot(k)
      BY <1>3, <1>4, <1>12, <2>2, PoppersApart DEF k
    <3> QED
      BY <1>1, <1>2, <1>4, <1>5, <1>7, <2>2, <3>1, <3>2 DEF PopTicket, Slot, TypeOK
  <2> QED
    BY <2>1, <2>2
<1>13. Tickets'
  BY <1>1, <1>2, <1>4, <1>11, <1>12 DEF Tickets, Pushes
<1>14. ASSUME NEW j \in read_idx_ .. read_idx_ + SIZE - 1, j # k + SIZE
       PROVE  j \in Nat /\ Slot(j) \in Slots /\ Slot(j) # Slot(k)
  <2>1. j \in Nat /\ Slot(j) \in Slots /\ k < read_idx_ /\ write_idx_ <= k + SIZE
    BY <1>3, <1>6, SlotInRing DEF PopTicket, k
  <2>2. CASE k + SIZE < read_idx_ + SIZE /\ read_idx_ <= k + SIZE
    <3>1. k + SIZE \in read_idx_ .. read_idx_ + SIZE - 1
      BY <1>3, <1>6, <2>2
    <3>2. Slot(j) # Slot(k + SIZE)
      BY <1>14, <3>1, InRingApart
    <3> QED
      BY <1>3, <2>1, <3>2, SlotLap
  <2> QED
    BY <1>1, <1>3, <1>6, <2>1, <2>2 DEF Indices
<1>15. ASSUME NEW j \in read_idx_' .. write_idx_' - 1
       PROVE  FullOrHeld(j)'
  <2>1. FullOrHeld(j)
    BY <1>1, <1>2 DEF Ring
  <2>2. j # k + SIZE /\ j \in read_idx_ .. read_idx_ + SIZE - 1
    BY <1>1, <1>2, <1>3, <1>6 DEF PopTicket, Indices, k
  <2> QED
    BY <1>2, <1>5, <1>14, <2>1, <2>2 DEF FullOrHeld, Slot, Pushes
<1>16. ASSUME NEW j \in write_idx_' .. read_idx_' + SIZE - 1
       PROVE  FreeOrHeld(j)'
  <2>1. FreeOrHeld(j) /\ j \in read_idx_ .. read_idx_ + SIZE - 1
    BY <1>1, <1>2, <1>6 DEF Ring, Indices
  <2>2. CASE j = k + SIZE
    BY <1>2, <1>3, <1>4, <2>2 DEF FreeOrHeld, k
  <2>3. CASE j # k + SIZE
    BY <1>2, <1>4, <1>5, <1>14, <2>1, <2>3 DEF FreeOrHeld, Slot
  <2> QED
    BY <2>2, <2>3
<1> QED
  BY <1>8, <1>9, <1>10, <1>13, <1>15, <1>16 DEF IInv, Ring

LEMMA ReleaseSlotStep ==
  ASSUME IInv, NEW c \in Consumers, ReleaseSlot(c)
  PROVE  IInv'
<1> DEFINE k == read_idx[c]
<1>1. TypeOK /\ Indices /\ Checked /\ Tickets /\ Ring
  BY DEF IInv
<1>2. /\ UNCHANGED <<data_, lastAccess, write_idx_, pushPc, write_idx, n, read_idx_, read_idx,
                     item, taken, acquired>>
      /\ popPc[c] = "release"
      /\ seq_' = [seq_ EXCEPT ![Slot(k)] = k + SIZE]
      /\ received' = [received EXCEPT ![c] = Append(received[c], item[c])]
      /\ popPc' = [popPc EXCEPT ![c] = popPc'[c]] /\ popPc'[c] \in {"load", "done"}
  BY <1>1 DEF ReleaseSlot, NextLap, pushVars, TypeOK
<1>3. Pops(c) /\ PopTicket(c) /\ k \in Nat /\ Slot(k) \in Slots
  BY <1>1, <1>2, SlotInRing DEF Pops, Tickets, TypeOK
<1>4. /\ \A d \in Consumers : d # c => popPc'[d] = popPc[d]
      /\ \A d \in Consumers : Pops(d)' <=> Pops(d) /\ d # c
  BY <1>1, <1>2 DEF TypeOK, Pops
<1>5. /\ seq_'[Slot(k)] = k + SIZE /\ seq_[Slot(k)] = k + 1
      /\ \A s \in Slots : s # Slot(k) => seq_'[s] = seq_[s]
      /\ lastAccess[Slot(k)] = k + SIZE
  BY <1>1, <1>2, <1>3 DEF TypeOK, PopTicket
<1>6. write_idx_ \in Nat /\ read_idx_ \in Nat /\ SIZE \in Nat /\ SIZE >= 2
  BY <1>1, SizeAssumption DEF TypeOK
<1> HIDE DEF k
<1>7. TypeOK'
  <2>1. Append(received[c], item[c]) \in Seq(Content)
    <3>1. received[c] \in Seq(Content) /\ item[c] \in Content
      BY <1>1 DEF TypeOK
    <3> HIDE DEF Content
    <3> QED
      BY <3>1
  <2>2. seq_' \in [Slots -> Nat]
    BY <1>1, <1>2, <1>3, <1>6 DEF TypeOK
  <2>3. popPc' \in [Consumers -> {"load", "seq", "cas", "read", "release", "done"}]
    BY <1>1, <1>2 DEF TypeOK
  <2>4. received' \in [Consumers -> Seq(Content)]
    BY <1>1, <1>2, <2>1 DEF TypeOK
  <2> QED
    BY <1>1, <1>2, <2>2, <2>3, <2>4 DEF TypeOK
<1>8. Indices'
  BY <1>1, <1>2 DEF Indices
<1>9. Checked'
  <2>1. \A s \in Slots : seq_[s] \in Nat /\ seq_'[s] \in Nat /\ seq_'[s] >= seq_[s]
    <3>1. ASSUME NEW s \in Slots PROVE seq_[s] \in Nat /\ seq_'[s] \in Nat
      BY <1>1, <1>7 DEF TypeOK
    <3>2. ASSUME NEW s \in Slots PROVE seq_'[s] >= seq_[s]
      BY <1>3, <1>5, <1>6, <3>1
    <3> QED
      BY <3>1, <3>2
  <2>2. ASSUME NEW p \in Producers, pushPc[p] = "cas"
        PROVE  acquired[p] = write_idx[p] /\ seq_'[Slot(write_idx[p])] >= write_idx[p]
    <3>1. write_idx[p] \in Nat /\ Slot(write_idx[p]) \in Slots
      BY <1>1, SlotInRing DEF TypeOK
    <3> QED
      BY <1>1, <2>1, <2>2, <3>1 DEF Checked
  <2>3. ASSUME NEW d \in Consumers, popPc'[d] = "cas"
        PROVE  acquired[d] = read_idx[d] + 1 /\ seq_'[Slot(read_idx[d])] >= read_idx[d] + 1
    <3>1. popPc[d] = "cas" /\ read_idx[d] \in Nat /\ Slot(read_idx[d]) \in Slots
      BY <1>1, <1>2, <1>4, <2>3, SlotInRing DEF TypeOK
    <3> QED
      BY <1>1, <2>1, <3>1 DEF Checked
  <2> QED
    BY <1>2, <2>2, <2>3 DEF Checked, Slot
<1>10. ASSUME NEW p \in Producers, Pushes(p)'
       PROVE  PushTicket(p)'
  <2>1. Pushes(p) /\ PushTicket(p) /\ write_idx[p] \in Nat /\ Slot(write_idx[p]) \in Slots
    BY <1>1, <1>2, <1>10, SlotInRing DEF Tickets, TypeOK, Pushes
  <2>2. Slot(write_idx[p]) # Slot(k)
    BY <1>3, <2>1, PusherAndPopperApart DEF k
  <2> QED
    BY <1>2, <1>5, <2>1, <2>2 DEF PushTicket, Slot
<1>11. ASSUME NEW d \in Consumers, Pops(d)'
       PROVE  PopTicket(d)'
  <2>1. /\ d # c /\ Pops(d) /\ PopTicket(d)
        /\ read_idx[d] \in Nat /\ Slot(read_idx[d]) \in Slots
    BY <1>1, <1>4, <1>11, SlotInRing DEF Tickets, TypeOK
  <2>2. Slot(read_idx[d]) # Slot(k)
    BY <1>3, <2>1, PoppersApart DEF k
  <2> QED
    BY <1>2, <1>4, <1>5, <2>1, <2>2 DEF PopTicket, Slot
<1>12. Tickets'
  BY <1>1, <1>2, <1>4, <1>10, <1>11 DEF Tickets, Pushes
<1>13. ASSUME NEW j \in read_idx_ .. read_idx_ + SIZE - 1, j # k + SIZE
       PROVE  j \in Nat /\ Slot(j) \in Slots /\ Slot(j) # Slot(k)
  <2>1. j \in Nat /\ Slot(j) \in Slots /\ k < read_idx_ /\ write_idx_ <= k + SIZE
    BY <1>3, <1>6, SlotInRing DEF PopTicket, k
  <2>2. CASE k + SIZE < read_idx_ + SIZE /\ read_idx_ <= k + SIZE
    <3>1. k + SIZE \in read_idx_ .. read_idx_ + SIZE - 1
      BY <1>3, <1>6, <2>2
    <3>2. Slot(j) # Slot(k + SIZE)
      BY <1>13, <3>1, InRingApart
    <3> QED
      BY <1>3, <2>1, <3>2, SlotLap
  <2> QED
    BY <1>1, <1>3, <1>6, <2>1, <2>2 DEF Indices
<1>14. ASSUME NEW j \in read_idx_' .. write_idx_' - 1
       PROVE  FullOrHeld(j)'
  <2>1. FullOrHeld(j)
    BY <1>1, <1>2 DEF Ring
  <2>2. j # k + SIZE /\ j \in read_idx_ .. read_idx_ + SIZE - 1
    BY <1>1, <1>2, <1>3, <1>6 DEF PopTicket, Indices, k
  <2> QED
    BY <1>2, <1>5, <1>13, <2>1, <2>2 DEF FullOrHeld, Slot, Pushes
<1>15. ASSUME NEW j \in write_idx_' .. read_idx_' + SIZE - 1
       PROVE  FreeOrHeld(j)'
  <2>1. FreeOrHeld(j) /\ j \in read_idx_ .. read_idx_ + SIZE - 1
    BY <1>1, <1>2, <1>6 DEF Ring, Indices
  <2>2. CASE j = k + SIZE
    <3>1. Slot(j) = Slot(k)
      BY <1>3, <2>2, SlotLap
    <3> QED
      BY <1>2, <1>3, <1>5, <2>2, <3>1 DEF FreeOrHeld, Slot
  <2>3. CASE j # k + SIZE
    BY <1>2, <1>4, <1>5, <1>13, <2>1, <2>3 DEF FreeOrHeld, Slot, k
  <2> QED
    BY <2>2, <2>3
<1> QED
  BY <1>7, <1>8, <1>9, <1>12, <1>14, <1>15 DEF IInv, Ring

LEMMA NextIInv == ASSUME Synchronises, IInv, [Next]_vars PROVE IInv'
<1>1. ASSUME NEW p \in Producers, Push(p) PROVE IInv'
  BY <1>1, LooksStep, ClaimWriteStep, WriteDataStep, PublishWriteStep DEF Push, Looks
<1>2. ASSUME NEW c \in Consumers, Pop(c) PROVE IInv'
  BY <1>2, LooksToPopStep, ClaimReadStep, ReadDataStep, ReleaseSlotStep DEF Pop, LooksToPop
<1>3. CASE UNCHANGED vars
  <2>1. UNCHANGED <<seq_, data_, lastAccess, write_idx_, pushPc, write_idx, n, read_idx_, popPc,
                    read_idx, item, received, taken, acquired>>
    BY <1>3 DEF vars, slotVars, pushVars, popVars
  <2>2. TypeOK' /\ Indices' /\ Checked'
    BY <2>1 DEF IInv, TypeOK, Indices, Checked, Slot
  <2>3. Tickets' /\ Ring'
    BY <2>1 DEF IInv, Tickets, PushTicket, PopTicket, Ring, FullOrHeld, FreeOrHeld,
                Pushes, Pops, Slot
  <2> QED
    BY <2>2, <2>3 DEF IInv
<1> QED
  BY <1>1, <1>2, <1>3 DEF Next, Joined

-----------------------------------------------------------------------------
(* The invariant holds in every reachable state when the loads of the      *)
(* sequence numbers acquire and the stores release.                        *)
THEOREM Invariance == ASSUME Synchronises PROVE Spec => []IInv
<1>1. Init => IInv
  BY InitIInv
<1>2. IInv /\ [Next]_vars => IInv'
  BY NextIInv
<1> QED
  BY <1>1, <1>2, PTL DEF Spec

(* No two accesses to a slot race, with any number of threads and slots,   *)
(* although tickets are claimed after a check that may be out of date.     *)
THEOREM NoDataRace == ASSUME Synchronises PROVE Spec => []DataRaceFree
<1>1. IInv => DataRaceFree
  BY Safety
<1> QED
  BY <1>1, Invariance, PTL

(* A consumer gets the item that its ticket stands for.                    *)
THEOREM ItemOfTicket == ASSUME Synchronises PROVE Spec => []TicketItem
<1>1. IInv => TicketItem
  BY Safety
<1> QED
  BY <1>1, Invariance, PTL

-----------------------------------------------------------------------------
(* The ring implements the bounded FIFO: claiming a push ticket is Push,   *)
(* claiming a pop ticket is Pop, and every other step leaves the abstract  *)
(* queue as it is.                                                         *)

Queued == [i \in 1 .. write_idx_ - read_idx_ |-> Pending(read_idx_ + i - 1)]

(* A ticket pushed and not published stands for its producer's item, every *)
(* other one for what is in the slot.                                      *)
LEMMA PendingIs ==
  ASSUME IInv
  PROVE  /\ \A p \in Producers : Pushes(p) => Pending(write_idx[p]) = <<p, n[p]>>
         /\ \A k : Holder(k) = {} => Pending(k) = data_[Slot(k)]
<1>1. ASSUME NEW p \in Producers, Pushes(p)
      PROVE  Holder(write_idx[p]) = {p}
  BY <1>1 DEF IInv, Tickets, Pushes, Holder
<1> QED
  BY <1>1 DEF Pending

LEMMA PendingStays == (IInv => /\ \A p \in Producers : Pushes(p) => Pending(write_idx[p]) = <<p, n[p]>>
                               /\ \A k : Holder(k) = {} => Pending(k) = data_[Slot(k)])'
BY PendingIs, PTL

(* Two ways a step may leave the item of a ticket alone.                   *)
LEMMA PendingKept ==
  ASSUME IInv, IInv', NEW k,
         \/ \E p \in Producers : /\ Pushes(p) /\ Pushes(p)' /\ write_idx[p] = k
                                 /\ write_idx'[p] = k /\ n'[p] = n[p]
         \/ Holder(k) = {} /\ Holder(k)' = {} /\ data_'[Slot(k)] = data_[Slot(k)]
  PROVE  Pending(k)' = Pending(k)
BY PendingIs, PendingStays DEF Slot

(* Every step but the claim of a ticket keeps the queue.                   *)
LEMMA QueueKept ==
  ASSUME IInv, IInv', UNCHANGED <<write_idx_, read_idx_>>,
         \A k \in read_idx_ .. write_idx_ - 1 : Pending(k)' = Pending(k)
  PROVE  UNCHANGED Queued
<1>1. read_idx_ \in Nat /\ write_idx_ \in Nat
  BY DEF IInv, TypeOK
<1>2. \A i \in 1 .. write_idx_ - read_idx_ :
        read_idx_ + i - 1 \in read_idx_ .. write_idx_ - 1
  BY <1>1
<1> QED
  BY <1>2 DEF Queued

LEMMA RefineQuiet ==
  ASSUME IInv, IInv',
         UNCHANGED <<write_idx_, read_idx_, data_, n, taken>>,
         \A p \in Producers : Pushes(p) \/ Pushes(p)' =>
           pushPc'[p] = pushPc[p] /\ write_idx'[p] = write_idx[p]
  PROVE  UNCHANGED <<Queued, taken>>
<1>1. ASSUME NEW k PROVE Pending(k)' = Pending(k)
  <2>1. CASE Holder(k) = {}
    <3>1. Holder(k)' = {}
      BY <2>1 DEF Holder, Pushes
    <3> QED
      BY <2>1, <3>1, PendingKept
  <2>2. ASSUME NEW p \in Holder(k) PROVE Pending(k)' = Pending(k)
    BY <2>2, PendingKept DEF Holder, Pushes
  <2> QED
    BY <2>1, <2>2
<1> QED
  BY <1>1, QueueKept

LEMMA RefineWriteData ==
  ASSUME IInv, IInv', NEW p \in Producers, WriteData(p)
  PROVE  UNCHANGED <<Queued, taken>>
<1> DEFINE j == write_idx[p]
<1>1. /\ UNCHANGED <<write_idx_, read_idx_, write_idx, n, taken>>
      /\ data_' = [data_ EXCEPT ![Slot(j)] = <<p, n[p]>>]
      /\ \A q \in Producers : Pushes(q)' <=> Pushes(q)
      /\ Pushes(p)
  BY DEF WriteData, popVars, Pushes, IInv, TypeOK
<1>2. j \in read_idx_ .. read_idx_ + SIZE - 1
  BY <1>1, SizeAssumption DEF IInv, TypeOK, Indices, Tickets, PushTicket
<1>3. ASSUME NEW k \in read_idx_ .. write_idx_ - 1 PROVE Pending(k)' = Pending(k)
  <2>1. ASSUME NEW q \in Holder(k) PROVE Pending(k)' = Pending(k)
    BY <1>1, <2>1, PendingKept DEF Holder, Pushes
  <2>2. CASE Holder(k) = {}
    <3>1. Holder(k)' = {} /\ k # j
      BY <1>1, <2>2 DEF Holder, Pushes
    <3>2. k \in read_idx_ .. read_idx_ + SIZE - 1
      BY SizeAssumption DEF IInv, TypeOK, Indices
    <3>3. Slot(k) \in Slots /\ Slot(k) # Slot(j)
      BY <1>2, <3>1, <3>2, InRingApart
    <3>4. data_'[Slot(k)] = data_[Slot(k)]
      BY <1>1, <3>3 DEF IInv, TypeOK
    <3> QED
      BY <2>2, <3>1, <3>4, PendingKept
  <2> QED
    BY <2>1, <2>2
<1> QED
  BY <1>1, <1>3, QueueKept

LEMMA RefinePublishWrite ==
  ASSUME IInv, IInv', NEW p \in Producers, PublishWrite(p)
  PROVE  UNCHANGED <<Queued, taken>>
<1>1. /\ UNCHANGED <<write_idx_, read_idx_, write_idx, data_, taken>>
      /\ \A q \in Producers : Pushes(q)' <=> Pushes(q) /\ q # p
      /\ \A q \in Producers : q # p => n'[q] = n[q]
      /\ Pushes(p) /\ pushPc[p] = "publish"
  BY DEF PublishWrite, popVars, Pushes, IInv, TypeOK
<1>2. ASSUME NEW k \in read_idx_ .. write_idx_ - 1 PROVE Pending(k)' = Pending(k)
  <2>1. ASSUME NEW q \in Holder(k), q # p PROVE Pending(k)' = Pending(k)
    BY <1>1, <2>1, PendingKept DEF Holder, Pushes
  <2>2. CASE Holder(k) = {}
    <3>1. Holder(k)' = {}
      BY <1>1, <2>2 DEF Holder, Pushes
    <3> QED
      BY <1>1, <2>2, <3>1, PendingKept
  <2>3. CASE p \in Holder(k)
    <3>1. k = write_idx[p]
      BY <2>3 DEF Holder
    <3>2. Pending(k) = <<p, n[p]>> /\ data_[Slot(k)] = <<p, n[p]>>
      BY <1>1, <3>1, PendingIs DEF IInv, Tickets, PushTicket
    <3>3. Holder(k)' = {}
      BY <1>1, <3>1 DEF Holder, Pushes, IInv, Tickets
    <3>4. Pending(k)' = data_'[Slot(k)]
      BY <3>3, PendingStays DEF Slot
    <3> QED
      BY <1>1, <3>2, <3>4
  <2> QED
    BY <2>1, <2>2, <2>3
<1> QED
  BY <1>1, <1>2, QueueKept

(* The items of the tickets, as a value that can be primed.                *)
PendingAt == [k \in Nat |-> Pending(k)]

LEMMA QueuedIs == IInv => Queued = [i \in 1 .. write_idx_ - read_idx_ |-> PendingAt[read_idx_ + i - 1]]
<1> SUFFICES ASSUME IInv
             PROVE  Queued = [i \in 1 .. write_idx_ - read_idx_ |-> PendingAt[read_idx_ + i - 1]]
  OBVIOUS
<1>1. \A i \in 1 .. write_idx_ - read_idx_ : read_idx_ + i - 1 \in Nat
  BY DEF IInv, TypeOK
<1> QED
  BY <1>1 DEF Queued, PendingAt

LEMMA QueuedStays ==
  (IInv => Queued = [i \in 1 .. write_idx_ - read_idx_ |-> PendingAt[read_idx_ + i - 1]])'
BY QueuedIs, PTL

LEMMA RefineClaimWrite ==
  ASSUME IInv, IInv', NEW p \in Producers, ClaimWrite(p)
  PROVE  Abstract!Push(<<p, n[p]>>) /\ <<p, n[p]>> \in Items
<1> DEFINE m == write_idx_ - read_idx_
<1>1. /\ UNCHANGED <<read_idx_, write_idx, data_, n, taken>>
      /\ write_idx_' = write_idx_ + 1
      /\ \A q \in Producers : Pushes(q)' <=> Pushes(q) \/ q = p
      /\ ~Pushes(p) /\ write_idx[p] = write_idx_ /\ pushPc[p] = "cas"
  BY DEF ClaimWrite, slotVars, popVars, Pushes, IInv, TypeOK
<1>2. write_idx_ \in Nat /\ read_idx_ \in Nat /\ m \in Nat /\ m < SIZE /\ SIZE \in Nat
  BY WriteClaimable, SizeAssumption DEF IInv, TypeOK, Indices
<1>3. ASSUME NEW k \in read_idx_ .. write_idx_ - 1 PROVE PendingAt'[k] = PendingAt[k]
  <2>1. k \in Nat
    BY <1>2
  <2>2. ASSUME NEW q \in Holder(k) PROVE Pending(k)' = Pending(k)
    BY <1>1, <2>2, PendingKept DEF Holder, Pushes
  <2>3. ASSUME Holder(k) = {} PROVE Pending(k)' = Pending(k)
    <3>1. Holder(k)' = {}
      BY <1>1, <1>2, <2>3 DEF Holder, Pushes
    <3> QED
      BY <1>1, <2>3, <3>1, PendingKept
  <2>4. Pending(k)' = Pending(k)
    BY <2>2, <2>3
  <2> QED
    BY <2>1, <2>4 DEF PendingAt
<1>4. PendingAt'[write_idx_] = <<p, n[p]>>
  <2>1. Pushes(p)' /\ write_idx'[p] = write_idx_ /\ n'[p] = n[p]
    BY <1>1
  <2>2. ASSUME NEW k \in Nat, k = write_idx_ PROVE PendingAt'[k] = <<p, n[p]>>
    <3>1. Pending(k)' = <<p, n[p]>>
      BY <2>1, <2>2, PendingStays
    <3> QED
      BY <3>1 DEF PendingAt
  <2> QED
    BY <1>2, <2>2
<1>5. Queued' = Append(Queued, <<p, n[p]>>)
  <2>1. Queued = [i \in 1 .. m |-> PendingAt[read_idx_ + i - 1]]
    BY QueuedIs
  <2>2. Queued' = [i \in 1 .. m + 1 |-> PendingAt'[read_idx_ + i - 1]]
    BY <1>1, <1>2, QueuedStays
  <2>3. ASSUME NEW i \in 1 .. m
        PROVE  PendingAt'[read_idx_ + i - 1] = PendingAt[read_idx_ + i - 1]
    BY <1>2, <1>3
  <2>4. PendingAt'[read_idx_ + (m + 1) - 1] = <<p, n[p]>>
    BY <1>2, <1>4
  <2> HIDE DEF m
  <2>5. m \in Nat
    BY <1>2
  <2>6. ASSUME NEW i \in 1 .. m + 1
        PROVE  PendingAt'[read_idx_ + i - 1]
                 = IF i <= m THEN PendingAt[read_idx_ + i - 1] ELSE <<p, n[p]>>
    <3>1. CASE i \in 1 .. m
      BY <2>3, <3>1
    <3>2. CASE i = m + 1
      BY <2>4, <2>5, <3>2
    <3> QED
      BY <2>5, <3>1, <3>2
  <2> DEFINE e == <<p, n[p]>>
             f == [i \in 1 .. m |-> PendingAt[read_idx_ + i - 1]]
  <2>7. Append(f, e) = [i \in 1 .. m + 1 |-> IF i <= m THEN PendingAt[read_idx_ + i - 1] ELSE e]
    <3> HIDE DEF e
    <3> QED
      BY <2>5
  <2> QED
    BY <2>1, <2>2, <2>6, <2>7
<1>6. Len(Queued) < SIZE
  BY <1>2 DEF Queued
<1>7. <<p, n[p]>> \in Items
  BY <1>1, ItemsAssumption DEF Items, IInv, TypeOK, Indices, StopFlag
<1> QED
  BY <1>1, <1>5, <1>6, <1>7 DEF Abstract!Push, Queued

LEMMA RefineClaimRead ==
  ASSUME IInv, IInv', NEW c \in Consumers, ClaimRead(c)
  PROVE  Abstract!Pop
<1> DEFINE m == write_idx_ - read_idx_
           f(i) == PendingAt[read_idx_ + i - 1]
<1>1. /\ UNCHANGED <<write_idx_, write_idx, pushPc, data_, n>>
      /\ read_idx_' = read_idx_ + 1
      /\ taken' = Append(taken, data_[Slot(read_idx_)])
  BY DEF ClaimRead, slotVars, pushVars
<1>2. write_idx_ \in Nat /\ read_idx_ \in Nat /\ m \in Nat /\ m >= 1
  BY ReadClaimable DEF IInv, TypeOK
<1>3. PendingAt' = PendingAt
  BY <1>1 DEF PendingAt, Pending, Holder, Slot
<1>4. f(1) = data_[Slot(read_idx_)]
  BY <1>2, ReadClaimable, PendingIs DEF PendingAt
<1>5. Queued = [i \in 1 .. m |-> f(i)]
  BY QueuedIs
<1>6. Queued' = [i \in 1 .. m - 1 |-> f(i + 1)]
  <2>1. Queued' = [i \in 1 .. m - 1 |-> PendingAt[read_idx_ + 1 + i - 1]]
    BY <1>1, <1>2, <1>3, QueuedStays
  <2>2. \A i \in 1 .. m - 1 : read_idx_ + 1 + i - 1 = read_idx_ + (i + 1) - 1
    BY <1>2
  <2> QED
    BY <2>1, <2>2
<1> HIDE DEF m, f
<1>7. Queued # << >> /\ Head(Queued) = f(1) /\ Tail(Queued) = [i \in 1 .. m - 1 |-> f(i + 1)]
  <2>1. Len(Queued) = m /\ Queued # << >> /\ Head(Queued) = f(1)
    BY <1>2, <1>5
  <2> QED
    BY <1>2, <1>5, <2>1
<1> QED
  BY <1>1, <1>4, <1>6, <1>7 DEF Abstract!Pop, Queued

(* Every step of the ring is a step of the bounded FIFO or leaves it alone. *)
LEMMA RefineNext ==
  ASSUME IInv, IInv', [Next]_vars
  PROVE  [Abstract!Next]_(Abstract!vars)
<1>1. ASSUME NEW p \in Producers, Push(p)
      PROVE  UNCHANGED <<Queued, taken>> \/ ClaimWrite(p)
  <2>1. CASE Looks(p)
    <3>1. /\ UNCHANGED <<write_idx_, read_idx_, data_, n, taken>>
          /\ \A q \in Producers : q # p => pushPc'[q] = pushPc[q] /\ write_idx'[q] = write_idx[q]
          /\ ~Pushes(p) /\ ~Pushes(p)'
      BY <2>1 DEF Looks, LoadWriteIdx, LoadWriteSeq, LoseWrite, slotVars, popVars, AfterWriteSeq,
                  Pushes, IInv, TypeOK
    <3> QED
      BY <3>1, RefineQuiet
  <2> QED
    BY <1>1, <2>1, RefineWriteData, RefinePublishWrite DEF Push, Looks
<1>2. ASSUME NEW c \in Consumers, Pop(c)
      PROVE  UNCHANGED <<Queued, taken>> \/ ClaimRead(c)
  <2>1. CASE LooksToPop(c) \/ ReadData(c) \/ ReleaseSlot(c)
    <3>1. /\ UNCHANGED <<write_idx_, read_idx_, data_, n, taken>>
          /\ UNCHANGED <<pushPc, write_idx>>
      BY <2>1 DEF LooksToPop, LoadReadIdx, LoadReadSeq, LoseRead, ReadData, ReleaseSlot,
                  slotVars, pushVars
    <3> QED
      BY <3>1, RefineQuiet
  <2> QED
    BY <1>2, <2>1 DEF Pop, LooksToPop
<1>3. ASSUME UNCHANGED vars PROVE UNCHANGED <<Queued, taken>>
  BY <1>3, RefineQuiet DEF Pushes, vars, slotVars, pushVars, popVars
<1>4. ASSUME UNCHANGED <<Queued, taken>> PROVE UNCHANGED Abstract!vars
  BY <1>4 DEF Abstract!vars, Queued
<1>5. ASSUME NEW p \in Producers, ClaimWrite(p) PROVE Abstract!Next
  BY <1>5, RefineClaimWrite DEF Abstract!Next
<1>6. ASSUME NEW c \in Consumers, ClaimRead(c) PROVE Abstract!Next
  BY <1>6, RefineClaimRead DEF Abstract!Next
<1>7. ASSUME NEW p \in Producers, Push(p) PROVE [Abstract!Next]_(Abstract!vars)
  BY <1>1, <1>4, <1>5, <1>7
<1>8. ASSUME NEW c \in Consumers, Pop(c) PROVE [Abstract!Next]_(Abstract!vars)
  BY <1>2, <1>4, <1>6, <1>8
<1>9. CASE Joined \/ UNCHANGED vars
  BY <1>3, <1>4, <1>9 DEF Joined
<1> QED
  BY <1>7, <1>8, <1>9 DEF Next

(* Both queues are bounded FIFOs of SIZE items.                            *)
THEOREM Refinement == ASSUME Synchronises PROVE Spec => ImplementsBoundedFifo
<1>1. Init => Abstract!Init
  BY DEF Init, Abstract!Init
<1>2. IInv /\ IInv' /\ [Next]_vars => [Abstract!Next]_(Abstract!vars)
  BY RefineNext
<1> QED
  BY <1>1, <1>2, Invariance, PTL DEF Spec, ImplementsBoundedFifo, Abstract!Spec
=============================================================================
