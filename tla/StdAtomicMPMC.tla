---------------------------- MODULE StdAtomicMPMC ----------------------------
(***************************************************************************)
(* StdAtomicMPMCQueue and mpmc_bounded_queue (StdAtomicMPMCQueue.h), run   *)
(* by the producers and consumers of the benchmark.  A thread claims a     *)
(* ticket with a compare-and-swap on write_idx_ or read_idx_ after the     *)
(* sequence number of the ticket's slot has told it that the slot is free  *)
(* or full; it hands the slot on by storing the next sequence number.      *)
(*                                                                         *)
(* The two classes differ in what they do when the slot is not ready: one  *)
(* loads the index again, the other returns false.  Its caller then calls  *)
(* again, which also loads the index: the steps are the same.              *)
(*                                                                         *)
(* Memory model.  A load returns any value stored so far that is not older *)
(* than what the thread last read from the index (an index never goes      *)
(* back), or any value the slot's sequence number has had.  A compare-and- *)
(* swap succeeds only on the newest value and may fail for no reason.  The *)
(* accesses to data_ are not atomic: `acquired' is the sequence number a   *)
(* thread has acquired before an access, `lastAccess' the one that the     *)
(* thread that last accessed the slot stores after its access.             *)
(***************************************************************************)
EXTENDS Integers, Sequences, FiniteSets

CONSTANTS SIZE,        \* slots
          Producers, Consumers,
          NumItems,    \* items per producer, before its stop flag
          LoadOrder,   \* memory order of the loads of seq_
          StoreOrder,  \* memory order of the stores to seq_
          Nil          \* a slot never written

(* mpmc_bounded_queue asserts it; with one slot "full with ticket k" and   *)
(* "free for ticket k + 1" would be the same sequence number.              *)
ASSUME SizeAssumption  == SIZE \in Nat /\ SIZE >= 2
ASSUME ItemsAssumption == NumItems \in Nat

(* The harness runs a thread either as a producer or as a consumer.        *)
ASSUME ThreadsAssumption == Producers \cap Consumers = {}

StopFlag == NumItems + 1
Items    == Producers \X (1 .. StopFlag)
Slots    == 0 .. SIZE - 1

ASSUME NilAssumption == Nil \notin Items

VARIABLES
  seq_, data_,                \* the slots
  write_idx_, read_idx_,      \* the next ticket to push, to pop
  pushPc, write_idx, n,       \* producers: position, local index, next item
  popPc, read_idx, item,      \* consumers: position, local index, item read
  received,                   \* consumers: what pop() returned
  acquired,                   \* per thread, the sequence number acquired
  lastAccess,                 \* per slot
  taken                       \* history: items in the order of their pop tickets

slotVars == <<seq_, data_, lastAccess>>
pushVars == <<write_idx_, pushPc, write_idx, n>>
popVars  == <<read_idx_, popPc, read_idx, item, received, taken>>
vars == <<slotVars, pushVars, popVars, acquired>>

Init ==
  /\ seq_ = [s \in Slots |-> s]
  /\ data_ = [s \in Slots |-> Nil]
  /\ write_idx_ = 0 /\ read_idx_ = 0
  /\ pushPc = [p \in Producers |-> "load"]
  /\ write_idx = [p \in Producers |-> 0]
  /\ n = [p \in Producers |-> 1]
  /\ popPc = [c \in Consumers |-> "load"]
  /\ read_idx = [c \in Consumers |-> 0]
  /\ item = [c \in Consumers |-> Nil]
  /\ received = [c \in Consumers |-> << >>]
  /\ acquired = [t \in Producers \cup Consumers |-> 0]
  /\ lastAccess = [s \in Slots |-> 0]
  /\ taken = << >>

Slot(idx) == idx % SIZE

(* The sequence numbers slot s has had: free for a ticket or full with it. *)
Stored(s) == {v \in 0 .. seq_[s] : Slot(v) = s \/ (v > 0 /\ Slot(v - 1) = s)}

Acquire(seq) == IF LoadOrder = "acquire" /\ StoreOrder = "release" THEN seq ELSE 0

-----------------------------------------------------------------------------
(* push(), enqueue()                                                       *)

LoadWriteIdx(p) ==
  /\ pushPc[p] = "load" /\ n[p] <= StopFlag
  /\ \E idx \in write_idx[p] .. write_idx_ : write_idx' = [write_idx EXCEPT ![p] = idx]
  /\ pushPc' = [pushPc EXCEPT ![p] = "seq"]
  /\ UNCHANGED <<slotVars, write_idx_, n, popVars, acquired>>

(* Mutant: the slot is taken for free while the last lap's item is in it.  *)
FreeOrFull(seq, idx) == seq = idx \/ seq = idx + 1 - SIZE

FreeFor(seq, idx) == seq = idx

(* If the slot is not free for this ticket, load the index again.          *)
AfterWriteSeq(p, seq) == IF FreeFor(seq, write_idx[p]) THEN "cas" ELSE "load"

LoadWriteSeq(p) ==
  /\ pushPc[p] = "seq"
  /\ \E seq \in Stored(Slot(write_idx[p])) :
       /\ pushPc' = [pushPc EXCEPT ![p] = AfterWriteSeq(p, seq)]
       /\ acquired' = [acquired EXCEPT ![p] = Acquire(seq)]
  /\ UNCHANGED <<slotVars, write_idx_, write_idx, n, popVars>>

ClaimWrite(p) ==
  /\ pushPc[p] = "cas" /\ write_idx[p] = write_idx_
  /\ write_idx_' = write_idx_ + 1
  /\ pushPc' = [pushPc EXCEPT ![p] = "write"]
  /\ UNCHANGED <<slotVars, write_idx, n, popVars, acquired>>

(* Mutant: the result of the compare-and-swap is ignored.                  *)
LoseWriteIgnored(p) ==
  /\ pushPc[p] = "cas"
  /\ pushPc' = [pushPc EXCEPT ![p] = "write"]
  /\ UNCHANGED <<slotVars, write_idx_, write_idx, n, popVars, acquired>>

(* A lost or spuriously failed compare-and-swap reads the index anew.      *)
LoseWrite(p) ==
  /\ pushPc[p] = "cas"
  /\ \E idx \in write_idx[p] .. write_idx_ : write_idx' = [write_idx EXCEPT ![p] = idx]
  /\ pushPc' = [pushPc EXCEPT ![p] = "seq"]
  /\ UNCHANGED <<slotVars, write_idx_, n, popVars, acquired>>

WriteData(p) ==
  /\ pushPc[p] = "write"
  /\ data_' = [data_ EXCEPT ![Slot(write_idx[p])] = <<p, n[p]>>]
  /\ lastAccess' = [lastAccess EXCEPT ![Slot(write_idx[p])] = write_idx[p] + 1]
  /\ pushPc' = [pushPc EXCEPT ![p] = "publish"]
  /\ UNCHANGED <<seq_, write_idx_, write_idx, n, popVars, acquired>>

PublishWrite(p) ==
  /\ pushPc[p] = "publish"
  /\ seq_' = [seq_ EXCEPT ![Slot(write_idx[p])] = write_idx[p] + 1]
  /\ n' = [n EXCEPT ![p] = @ + 1]
  /\ pushPc' = [pushPc EXCEPT ![p] = "load"]
  /\ UNCHANGED <<data_, lastAccess, write_idx_, write_idx, popVars, acquired>>

-----------------------------------------------------------------------------
(* pop(), dequeue()                                                        *)

LoadReadIdx(c) ==
  /\ popPc[c] = "load"
  /\ \E idx \in read_idx[c] .. read_idx_ : read_idx' = [read_idx EXCEPT ![c] = idx]
  /\ popPc' = [popPc EXCEPT ![c] = "seq"]
  /\ UNCHANGED <<slotVars, pushVars, read_idx_, item, received, taken, acquired>>

(* Mutant: the reader takes a slot that is only being filled.              *)
FullOrClaimed(seq, idx) == seq = idx + 1 \/ seq = idx

FullWith(seq, idx) == seq = idx + 1

AfterReadSeq(c, seq) == IF FullWith(seq, read_idx[c]) THEN "cas" ELSE "load"

LoadReadSeq(c) ==
  /\ popPc[c] = "seq"
  /\ \E seq \in Stored(Slot(read_idx[c])) :
       /\ popPc' = [popPc EXCEPT ![c] = AfterReadSeq(c, seq)]
       /\ acquired' = [acquired EXCEPT ![c] = Acquire(seq)]
  /\ UNCHANGED <<slotVars, pushVars, read_idx_, read_idx, item, received, taken>>

ClaimRead(c) ==
  /\ popPc[c] = "cas" /\ read_idx[c] = read_idx_
  /\ read_idx_' = read_idx_ + 1
  /\ taken' = Append(taken, data_[Slot(read_idx_)])
  /\ popPc' = [popPc EXCEPT ![c] = "read"]
  /\ UNCHANGED <<slotVars, pushVars, read_idx, item, received, acquired>>

LoseRead(c) ==
  /\ popPc[c] = "cas"
  /\ \E idx \in read_idx[c] .. read_idx_ : read_idx' = [read_idx EXCEPT ![c] = idx]
  /\ popPc' = [popPc EXCEPT ![c] = "seq"]
  /\ UNCHANGED <<slotVars, pushVars, read_idx_, item, received, taken, acquired>>

(* A read that races with a write of the slot is undefined.                *)
ReadData(c) ==
  /\ popPc[c] = "read"
  /\ LET s == Slot(read_idx[c]) IN
       /\ \E v \in IF lastAccess[s] <= acquired[c] THEN {data_[s]} ELSE {Nil} \cup Items :
            item' = [item EXCEPT ![c] = v]
       /\ lastAccess' = [lastAccess EXCEPT ![s] = read_idx[c] + SIZE]
  /\ popPc' = [popPc EXCEPT ![c] = "release"]
  /\ UNCHANGED <<seq_, data_, pushVars, read_idx_, read_idx, received, taken, acquired>>

(* The sequence number that hands the slot to the producers' next lap.     *)
NextLap(idx) == idx + SIZE

IsStop(v) == v # Nil /\ v[2] = StopFlag

(* A consumer leaves at its first stop flag, the only one at the last.     *)
IsLast(c) ==
  /\ IsStop(item[c])
  /\ Cardinality(Consumers) = 1 =>
       Cardinality({k \in DOMAIN received[c] : IsStop(received[c][k])}) + 1 = Cardinality(Producers)

ReleaseSlot(c) ==
  /\ popPc[c] = "release"
  /\ seq_' = [seq_ EXCEPT ![Slot(read_idx[c])] = NextLap(read_idx[c])]
  /\ received' = [received EXCEPT ![c] = Append(@, item[c])]
  /\ popPc' = [popPc EXCEPT ![c] = IF IsLast(c) THEN "done" ELSE "load"]
  /\ UNCHANGED <<data_, lastAccess, pushVars, read_idx_, read_idx, item, taken, acquired>>

-----------------------------------------------------------------------------
Push(p) == \/ LoadWriteIdx(p) \/ LoadWriteSeq(p) \/ ClaimWrite(p)
           \/ LoseWrite(p) \/ WriteData(p) \/ PublishWrite(p)
Pop(c)  == \/ LoadReadIdx(c) \/ LoadReadSeq(c) \/ ClaimRead(c)
           \/ LoseRead(c) \/ ReadData(c) \/ ReleaseSlot(c)

Done == /\ \A p \in Producers : pushPc[p] = "load" /\ n[p] > StopFlag
        /\ \A c \in Consumers : popPc[c] = "done"

Joined == Done /\ UNCHANGED vars

Next == (\E p \in Producers : Push(p)) \/ (\E c \in Consumers : Pop(c)) \/ Joined

Spec == Init /\ [][Next]_vars

-----------------------------------------------------------------------------
(* A thread about to touch data_ has acquired the sequence number that the *)
(* last thread to touch it stored, although the tickets are handed out by  *)
(* relaxed compare-and-swaps and the sequence number checked may be old.   *)
DataRaceFree ==
  /\ \A p \in Producers : pushPc[p] = "write" => lastAccess[Slot(write_idx[p])] <= acquired[p]
  /\ \A c \in Consumers : popPc[c] = "read" => lastAccess[Slot(read_idx[c])] <= acquired[c]

(* A consumer gets the item its ticket stands for.                         *)
TicketItem == \A c \in Consumers : popPc[c] = "release" => item[c] = taken[read_idx[c] + 1]

(* The queue is a bounded FIFO.  A push takes effect when its ticket is    *)
(* claimed, a pop likewise; an item on its way into the slot is queued.    *)
Holder(k) == {p \in Producers : pushPc[p] \in {"write", "publish"} /\ write_idx[p] = k}
Pending(k) == IF Holder(k) # {} THEN LET p == CHOOSE p \in Holder(k) : TRUE IN <<p, n[p]>>
                                ELSE data_[Slot(k)]

Abstract == INSTANCE BoundedFifo
  WITH Capacity <- SIZE, Values <- Items, taken <- taken,
       queue <- [i \in 1 .. write_idx_ - read_idx_ |-> Pending(read_idx_ + i - 1)]

ImplementsBoundedFifo == Abstract!Spec
=============================================================================
