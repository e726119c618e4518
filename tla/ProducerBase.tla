---------------------------- MODULE ProducerBase ----------------------------
(***************************************************************************)
(* moodycamel::ConcurrentQueue::ProducerBase and what explicit and         *)
(* implicit producers have in common.  One producer enqueues; consumers,   *)
(* with four counters and no lock, claim items that are there.  A consumer *)
(* counts itself in (dequeueOptimisticCount) before it knows whether there *)
(* is an item, and out again through dequeueOvercommit; only what is left  *)
(* moves headIndex.  The two kinds of producer differ in how they find the *)
(* block of an index.                                                      *)
(*                                                                         *)
(* enqueue and dequeue are enqueue_bulk and dequeue_bulk with a count of 1:*)
(* the order of the changes others can see is the same.  What others       *)
(* cannot see before the next store is one step with it: the items are     *)
(* written together with the store of tailIndex that publishes them.       *)
(*                                                                         *)
(* The loads that only decide whether to try are relaxed and may return    *)
(* old values; so may the second load of tailIndex.  Such values take a    *)
(* consumer in or out spuriously (PeekStale, RecheckStale), which a bound  *)
(* limits.  The item with index i is the number i.                         *)
(***************************************************************************)
EXTENDS Integers, FiniteSets, FiniteSetsExt, Sequences, Sums

CONSTANTS
  Consumers,
  Blocks, None,       \* None: nullptr
  Pooled,             \* blocks of the pool; the others are allocated
  BlockSize,          \* BLOCK_SIZE
  InitialIndexSize,   \* EXPLICIT_INITIAL_INDEX_SIZE, IMPLICIT_INITIAL_INDEX_SIZE
  Enqueues,           \* calls: count, and whether enqueue may allocate
  MaxDequeue,         \* bound: max of dequeue_bulk
  MaxTail,            \* bound: items enqueued
  Spurious            \* bound: loads that return an old value

ASSUME ConsumersAssumption == IsFiniteSet(Consumers)
ASSUME BlocksAssumption    == None \notin Blocks /\ Pooled \subseteq Blocks /\ IsFiniteSet(Blocks)
ASSUME SizeAssumption      == /\ {BlockSize, InitialIndexSize} \subseteq Nat \ {0, 1}
                              /\ \E k \in 1 .. 16 : BlockSize = 2 ^ k
                              /\ \E k \in 1 .. 16 : InitialIndexSize = 2 ^ k
ASSUME EnqueuesAssumption  == Enqueues \subseteq [count : Nat \ {0}, canAlloc : BOOLEAN]
ASSUME BoundsAssumption    == MaxDequeue \in Nat \ {0} /\ MaxTail \in Nat /\ Spurious \in Nat

VARIABLES
  tailIndex, headIndex, dequeueOptimisticCount, dequeueOvercommit,
  headSees,          \* the largest tailIndex acquired by whoever moved headIndex:
                     \* its fetch_add is acquire and release
  pc, spurious,
  overcommit, desiredCount, myDequeueCount, actualCount,  \* locals of dequeue_bulk
  index, last,       \* next index to dequeue; firstIndex + actualCount
  sees,              \* items below this one happened before what c does now
  localBlockIndex, indexIndex, block,  \* ... the header, place in it and block found
  slots,             \* what is in each block
  unused,            \* blocks the queue can requisition
  tailBlock,
  prPc, op           \* where the producer is; its locals

claimVars  == <<tailIndex, headIndex, dequeueOptimisticCount, dequeueOvercommit, headSees,
                pc, spurious, overcommit, desiredCount, myDequeueCount, actualCount,
                index, last, sees>>
findVars   == <<localBlockIndex, indexIndex, block>>
blockVars  == <<slots, unused, tailBlock>>
baseVars   == <<claimVars, findVars, blockVars, prPc, op>>

Offsets == 0 .. BlockSize - 1
NoItem  == -1
NoCall  == [count |-> 0]

BaseInit ==
  /\ tailIndex = 0 /\ headIndex = 0 /\ headSees = 0
  /\ dequeueOptimisticCount = 0 /\ dequeueOvercommit = 0
  /\ pc = [c \in Consumers |-> "idle"]
  /\ spurious = 0
  /\ overcommit = [c \in Consumers |-> 0]
  /\ desiredCount = [c \in Consumers |-> 0]
  /\ myDequeueCount = [c \in Consumers |-> 0]
  /\ actualCount = [c \in Consumers |-> 0]
  /\ index = [c \in Consumers |-> 0]
  /\ last = [c \in Consumers |-> 0]
  /\ sees = [c \in Consumers |-> 0]
  /\ localBlockIndex = [c \in Consumers |-> 0]
  /\ indexIndex = [c \in Consumers |-> 0]
  /\ block = [c \in Consumers |-> None]
  /\ slots = [b \in Blocks |-> [o \in Offsets |-> NoItem]]
  /\ unused = Blocks /\ tailBlock = None
  /\ prPc = "idle" /\ op = NoCall

Smaller(a, b) == IF a < b THEN a ELSE b
Larger(a, b)  == IF a < b THEN b ELSE a

Goto(c, where) == pc' = [pc EXCEPT ![c] = where]
Set(f, c, x)   == [f EXCEPT ![c] = x]

(* index & ~(BLOCK_SIZE - 1)                                               *)
BaseOf(i) == (i \div BlockSize) * BlockSize

shared == <<tailIndex, headIndex, dequeueOptimisticCount, dequeueOvercommit, headSees>>
notClaim == <<findVars, blockVars, prPc, op>>

-----------------------------------------------------------------------------
(* Is there anything to dequeue?                                           *)
Peek(c, max) ==
  /\ pc[c] = "idle"
  /\ LET there == tailIndex - (dequeueOptimisticCount - dequeueOvercommit)
     IN  there > 0 /\ desiredCount' = Set(desiredCount, c, Smaller(there, max))
  /\ overcommit' = Set(overcommit, c, dequeueOvercommit)
  /\ Goto(c, "count")
  /\ UNCHANGED <<shared, spurious, myDequeueCount, actualCount, index, last, sees>>

(* ... so old values say, up to tail - (0 - overcommit) items.             *)
PeekStale(c, max, o) ==
  /\ pc[c] = "idle"
  /\ spurious < Spurious /\ spurious' = spurious + 1
  /\ o <= dequeueOvercommit /\ max <= tailIndex + o
  /\ desiredCount' = Set(desiredCount, c, max)
  /\ overcommit' = Set(overcommit, c, o)
  /\ Goto(c, "count")
  /\ UNCHANGED <<shared, myDequeueCount, actualCount, index, last, sees>>

CountIn(c) ==
  /\ pc[c] = "count"
  /\ dequeueOptimisticCount' = dequeueOptimisticCount + desiredCount[c]
  /\ myDequeueCount' = Set(myDequeueCount, c, dequeueOptimisticCount)
  /\ Goto(c, "recheck")
  /\ UNCHANGED <<tailIndex, headIndex, dequeueOvercommit, headSees, spurious,
                 overcommit, desiredCount, actualCount, index, last, sees>>

(* Mutant: the overcommit is read again, after others have counted out.    *)
ThereNow(c, tail) == tail - (myDequeueCount[c] - dequeueOvercommit)

(* The items up to tail that are left for c.                               *)
There(c, tail) == tail - (myDequeueCount[c] - overcommit[c])

(* tailIndex is loaded again, with acquire; nothing there: actualCount 0.  *)
Acquire(c, tail) ==
  /\ pc[c] = "recheck"
  /\ LET actual == Larger(0, Smaller(desiredCount[c], There(c, tail)))
     IN  /\ actualCount' = Set(actualCount, c, actual)
         /\ Goto(c, IF actual < desiredCount[c] THEN "countout" ELSE "claim")
  /\ sees' = Set(sees, c, tail)
  /\ myDequeueCount' = Set(myDequeueCount, c, 0) /\ overcommit' = Set(overcommit, c, 0)
  /\ UNCHANGED <<shared, desiredCount, index, last>>

Recheck(c) == Acquire(c, tailIndex) /\ UNCHANGED spurious

RecheckStale(c, tail) ==
  /\ spurious < Spurious /\ spurious' = spurious + 1
  /\ tail < tailIndex
  /\ Acquire(c, tail)

CountOut(c) ==
  /\ pc[c] = "countout"
  /\ dequeueOvercommit' = dequeueOvercommit + desiredCount[c] - actualCount[c]
  /\ desiredCount' = Set(desiredCount, c, actualCount[c])
  /\ Goto(c, IF actualCount[c] = 0 THEN "idle" ELSE "claim")
  /\ sees' = IF actualCount[c] = 0 THEN Set(sees, c, 0) ELSE sees
  /\ UNCHANGED <<tailIndex, headIndex, dequeueOptimisticCount, headSees, spurious,
                 overcommit, myDequeueCount, actualCount, index, last>>

(* Mutant: headIndex.fetch_add is relaxed.                                 *)
ClaimRelaxed(c) ==
  /\ pc[c] = "claim"
  /\ headIndex' = headIndex + actualCount[c]
  /\ index' = Set(index, c, headIndex) /\ last' = Set(last, c, headIndex + actualCount[c])
  /\ desiredCount' = Set(desiredCount, c, 0) /\ actualCount' = Set(actualCount, c, 0)
  /\ Goto(c, "locate")
  /\ UNCHANGED <<tailIndex, dequeueOptimisticCount, dequeueOvercommit, headSees, spurious,
                 overcommit, myDequeueCount, sees>>

Claim(c) ==
  /\ pc[c] = "claim"
  /\ headIndex' = headIndex + actualCount[c]
  /\ index' = Set(index, c, headIndex) /\ last' = Set(last, c, headIndex + actualCount[c])
  /\ desiredCount' = Set(desiredCount, c, 0) /\ actualCount' = Set(actualCount, c, 0)
  /\ headSees' = Larger(headSees, sees[c])
  /\ sees' = Set(sees, c, Larger(headSees, sees[c]))
  /\ Goto(c, "locate")
  /\ UNCHANGED <<tailIndex, dequeueOptimisticCount, dequeueOvercommit, spurious,
                 overcommit, myDequeueCount>>

ClaimStep(c) ==
  /\ \/ \E max \in 1 .. MaxDequeue :
          Peek(c, max) \/ \E o \in 0 .. dequeueOvercommit : PeekStale(c, max, o)
     \/ CountIn(c) \/ Recheck(c) \/ CountOut(c) \/ Claim(c)
     \/ \E tail \in 0 .. tailIndex : RecheckStale(c, tail)
  /\ UNCHANGED notClaim

-----------------------------------------------------------------------------
(* After the claim: one block after the other.                             *)
EndIndex(c) == Smaller(last[c], BaseOf(index[c]) + BlockSize)
Claimed(c)  == index[c] .. EndIndex(c) - 1

(* The items are moved out of block b and destroyed there.                 *)
MoveFrom(c, b) ==
  /\ block' = Set(block, c, b)
  /\ slots' = [slots EXCEPT ![b] =
                 [o \in Offsets |-> IF \E i \in Claimed(c) : i % BlockSize = o THEN NoItem ELSE @[o]]]

(* On to the next block, or back to the caller.  size: of the block index. *)
NextBlock(c, size) ==
  /\ LET done == EndIndex(c) = last[c]
         set(f, x, none) == Set(f, c, IF done THEN none ELSE x)
     IN  /\ index' = set(index, EndIndex(c), 0)
         /\ last' = set(last, last[c], 0)
         /\ sees' = set(sees, sees[c], 0)
         /\ indexIndex' = set(indexIndex, (indexIndex[c] + 1) % size, 0)
         /\ localBlockIndex' = set(localBlockIndex, localBlockIndex[c], 0)
         /\ Goto(c, IF done THEN "idle" ELSE "move")
  /\ block' = Set(block, c, None)
  /\ UNCHANGED <<shared, spurious, overcommit, desiredCount, myDequeueCount, actualCount>>

(* A step between the claim and the end that leaves the counters alone.    *)
Finding(c, from, to) ==
  /\ pc[c] = from /\ Goto(c, to)
  /\ UNCHANGED <<shared, spurious, overcommit, desiredCount, myDequeueCount, actualCount,
                 index, last, sees>>

-----------------------------------------------------------------------------
(* The producer: how many blocks a call needs, and the base before them.   *)
BlocksNeeded(count) == (tailIndex + count - 1) \div BlockSize - (tailIndex - 1) \div BlockSize

(* requisition_block: from the pool, or a new one, if there is memory.     *)
Requisition(canAlloc) == IF Pooled \cap unused # {} THEN Pooled \cap unused
                         ELSE IF canAlloc THEN unused ELSE {}

(* The items are constructed, item i in block b[i]; tailIndex publishes.   *)
FillBlocks(b) ==
  /\ prPc = "fill"
  /\ LET here(k, o) == {i \in tailIndex .. tailIndex + op.count - 1 : i % BlockSize = o /\ b[i] = k}
     IN  slots' = [k \in Blocks |-> [o \in Offsets |->
                     IF here(k, o) # {} THEN Max(here(k, o)) ELSE slots[k][o]]]
  /\ tailIndex' = tailIndex + op.count
  /\ prPc' = "idle" /\ op' = NoCall
  /\ UNCHANGED <<headIndex, dequeueOptimisticCount, dequeueOvercommit, headSees, pc, spurious,
                 overcommit, desiredCount, myDequeueCount, actualCount, index, last, sees,
                 findVars, unused>>

-----------------------------------------------------------------------------
CountOf(f, where) == Total([c \in Consumers |-> IF pc[c] \in where THEN f[c] ELSE 0])

(* The counters agree at every step: who has been counted in and not out   *)
(* has moved headIndex or is on the way, and nobody is on the way to an    *)
(* item that is not there.  headIndex never passes tailIndex.              *)
ClaimsBacked ==
  /\ dequeueOptimisticCount - dequeueOvercommit
       = headIndex + CountOf(desiredCount, {"recheck", "countout", "claim"})
  /\ headIndex + CountOf(actualCount, {"countout", "claim"}) <= tailIndex

(* Whoever has claimed an item has acquired the tailIndex that published   *)
(* it, itself or through the one who moved headIndex before.               *)
ItemsVisible == \A c \in Consumers : last[c] <= sees[c]

(* Nothing is lost or there twice: what is in the blocks are the items     *)
(* that nobody has claimed yet and those claimed but not moved out yet.    *)
NotMoved(c) == CASE pc[c] \in {"locate", "key", "move"}    -> index[c] .. last[c] - 1
                 [] pc[c] \in {"empty", "unlink", "free"} -> EndIndex(c) .. last[c] - 1
                 [] OTHER                                -> {}
Filled == {f \in Blocks \X Offsets : slots[f[1]][f[2]] # NoItem}

ItemsIntact ==
  LET items == headIndex .. tailIndex - 1 \cup UNION {NotMoved(c) : c \in Consumers}
  IN  prPc # "destroyed" => /\ {slots[f[1]][f[2]] : f \in Filled} = items
                            /\ Cardinality(Filled) = Cardinality(items)

(* Nobody is in a call: when the destructor may run.                       *)
Quiescent == prPc = "idle" /\ \A c \in Consumers : pc[c] = "idle"
=============================================================================
