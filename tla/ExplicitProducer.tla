-------------------------- MODULE ExplicitProducer --------------------------
(***************************************************************************)
(* moodycamel::ConcurrentQueue::ExplicitProducer: the sub-queue of a       *)
(* ProducerToken.  Its blocks form a ring, which the producer walks; a     *)
(* block whose items have all been dequeued is filled again, otherwise a   *)
(* new one is injected in front of it.  Consumers find the block of an     *)
(* index through the block index, a circular array of (base, block), which *)
(* only grows: an old one remains for who still looks into it.             *)
(***************************************************************************)
EXTENDS ProducerBase

VARIABLES
  emptyFlags, next,                    \* of the blocks: what is dequeued, ring
  headers,                             \* all block indices, the current one last
  pr_blockIndexFront, pr_blockIndexSlotsUsed

indexVars    == <<headers, pr_blockIndexFront, pr_blockIndexSlotsUsed>>
explicitOnly == <<emptyFlags, next, indexVars>>
explicitVars == <<baseVars, explicitOnly>>

Header(size, front, entries) == [size |-> size, front |-> front, entries |-> entries]
NoEntry == [base |-> 0, block |-> None]

(* The locals of enqueue_bulk; injecting: its second loop has begun.       *)
Locals(e, need, base, front, used) ==
  [count |-> e.count, canAlloc |-> e.canAlloc, need |-> need, currentTailIndex |-> base,
   startBlock |-> tailBlock, firstAllocatedBlock |-> None, injecting |-> FALSE,
   originalBlockIndexFront |-> front, originalBlockIndexSlotsUsed |-> used]

ExplicitInit ==
  /\ emptyFlags = [b \in Blocks |-> [o \in Offsets |-> FALSE]]
  /\ next = [b \in Blocks |-> None]
  /\ headers = <<Header(InitialIndexSize, -1, [i \in 0 .. InitialIndexSize - 1 |-> NoEntry])>>
  /\ pr_blockIndexFront = 0 /\ pr_blockIndexSlotsUsed = 0

blockIndex == Len(headers)
pr_blockIndexSize == headers[blockIndex].size

-----------------------------------------------------------------------------
(* enqueue, enqueue_bulk                                                   *)

Begin(e) ==
  /\ prPc = "idle" /\ tailIndex + e.count <= MaxTail
  /\ op' = Locals(e, BlocksNeeded(e.count), BaseOf(tailIndex - 1),
                  pr_blockIndexFront, pr_blockIndexSlotsUsed)
  /\ prPc' = IF BlocksNeeded(e.count) = 0 THEN "fill" ELSE "blocks"
  /\ UNCHANGED <<claimVars, findVars, blockVars, explicitOnly>>

(* Block b follows: it goes on the index, not yet exposed by front.        *)
PutOnIndex(b, injecting) ==
  /\ op' = [op EXCEPT !.currentTailIndex = @ + BlockSize, !.need = @ - 1, !.injecting = injecting,
                      !.firstAllocatedBlock = IF @ = None THEN b ELSE @]
  /\ tailBlock' = b
  /\ headers' = [headers EXCEPT ![blockIndex].entries[pr_blockIndexFront] =
                   [base |-> op.currentTailIndex + BlockSize, block |-> b]]
  /\ pr_blockIndexFront' = (pr_blockIndexFront + 1) % pr_blockIndexSize
  /\ prPc' = IF op.need = 1 THEN "expose" ELSE "blocks"
  /\ UNCHANGED <<claimVars, findVars>>

(* Mutant: a block with one empty slot is taken to be empty.               *)
IsPartlyEmpty(b) == \E o \in Offsets : emptyFlags[b][o]

IsEmpty(b) == \A o \in Offsets : emptyFlags[b][o]

EmptyAhead == /\ tailBlock # None
              /\ next[tailBlock] # op.firstAllocatedBlock
              /\ IsEmpty(next[tailBlock])

(* The block ahead is empty.  Once one is injected this is not tried again.*)
Reuse ==
  /\ prPc = "blocks" /\ ~op.injecting /\ EmptyAhead
  /\ PutOnIndex(next[tailBlock], FALSE)
  /\ UNCHANGED <<slots, emptyFlags, next, unused, pr_blockIndexSlotsUsed>>

IndexFull == pr_blockIndexSlotsUsed = pr_blockIndexSize

(* new_block_index: twice as large, beginning with the oldest entry.       *)
NewBlockIndex ==
  /\ prPc = "blocks" /\ (op.injecting \/ ~EmptyAhead)
  /\ IndexFull /\ op.canAlloc
  /\ LET oldest == pr_blockIndexFront - pr_blockIndexSlotsUsed
         copied(i) == headers[blockIndex].entries[(oldest + i) % pr_blockIndexSize]
     IN  headers' = Append(headers,
           Header(2 * pr_blockIndexSize, op.originalBlockIndexSlotsUsed - 1,
                  [i \in 0 .. 2 * pr_blockIndexSize - 1 |->
                     IF i < pr_blockIndexSlotsUsed THEN copied(i) ELSE NoEntry]))
  /\ pr_blockIndexFront' = pr_blockIndexSlotsUsed
  /\ op' = [op EXCEPT !.originalBlockIndexFront = op.originalBlockIndexSlotsUsed, !.injecting = TRUE]
  /\ UNCHANGED <<claimVars, findVars, blockVars, emptyFlags, next, pr_blockIndexSlotsUsed, prPc>>

(* A new block goes into the ring in front of the one that is not empty.   *)
Inject ==
  /\ prPc = "blocks" /\ (op.injecting \/ ~EmptyAhead)
  /\ ~IndexFull
  /\ Requisition(op.canAlloc) # {}
  /\ LET b == CHOOSE x \in Requisition(op.canAlloc) : TRUE
     IN  /\ next' = IF tailBlock = None THEN [next EXCEPT ![b] = b]
                    ELSE [next EXCEPT ![b] = next[tailBlock], ![tailBlock] = b]
         /\ emptyFlags' = [emptyFlags EXCEPT ![b] = [o \in Offsets |-> TRUE]]
         /\ unused' = unused \ {b}
         /\ PutOnIndex(b, TRUE)
  /\ pr_blockIndexSlotsUsed' = pr_blockIndexSlotsUsed + 1
  /\ UNCHANGED slots

(* Allocation is needed and not allowed: undo, but keep injected blocks.   *)
Fail ==
  /\ prPc = "blocks" /\ (op.injecting \/ ~EmptyAhead)
  /\ \/ IndexFull /\ ~op.canAlloc
     \/ ~IndexFull /\ Requisition(op.canAlloc) = {}
  /\ pr_blockIndexFront' = op.originalBlockIndexFront
  /\ pr_blockIndexSlotsUsed' = op.originalBlockIndexSlotsUsed
  /\ tailBlock' = IF op.startBlock = None THEN op.firstAllocatedBlock ELSE op.startBlock
  /\ prPc' = "idle" /\ op' = NoCall
  /\ UNCHANGED <<claimVars, findVars, slots, unused, emptyFlags, next, headers>>

(* The k-th block from b on.                                               *)
Ahead(b, k) == LET walk[j \in 0 .. k] == IF j = 0 THEN b ELSE next[walk[j - 1]] IN walk[k]

(* All blocks are there: reset their flags and publish front.              *)
Expose ==
  /\ prPc = "expose"
  /\ LET more == (op.currentTailIndex - BaseOf(tailIndex + BlockSize - 1)) \div BlockSize
         got  == {Ahead(op.firstAllocatedBlock, k) : k \in 0 .. more}
     IN  emptyFlags' = [b \in Blocks |->
                          IF b \in got THEN [o \in Offsets |-> FALSE] ELSE emptyFlags[b]]
  /\ headers' = [headers EXCEPT ![blockIndex].front = (pr_blockIndexFront - 1) % pr_blockIndexSize]
  /\ prPc' = "fill"
  /\ UNCHANGED <<claimVars, findVars, blockVars, next, pr_blockIndexFront,
                 pr_blockIndexSlotsUsed, op>>

(* Mutant: a bulk that begins a block fills the one before.                *)
FillFromStart == IF op.startBlock = None THEN op.firstAllocatedBlock ELSE op.startBlock

(* The block the next index falls into, from which the items go on.        *)
FillFrom == IF tailIndex % BlockSize = 0 THEN op.firstAllocatedBlock ELSE op.startBlock

BlockFor(i) == Ahead(FillFrom, i \div BlockSize - tailIndex \div BlockSize)

Fill == /\ FillBlocks([i \in tailIndex .. tailIndex + op.count - 1 |-> BlockFor(i)])
        /\ UNCHANGED <<tailBlock, explicitOnly>>

-----------------------------------------------------------------------------
(* dequeue, dequeue_bulk, after the claim                                  *)

(* The current block index and its front, whose entry tells how far back   *)
(* the block of index is.  That a new index comes between the two loads    *)
(* makes no difference: the front of an old one no longer changes.         *)
Locate(c) ==
  /\ Finding(c, "locate", "move")
  /\ LET h == headers[blockIndex]
         offset == (BaseOf(index[c]) - h.entries[h.front].base) \div BlockSize
     IN  indexIndex' = Set(indexIndex, c, (h.front + offset) % h.size)
  /\ localBlockIndex' = Set(localBlockIndex, c, blockIndex)
  /\ UNCHANGED <<block, blockVars, prPc, op, explicitOnly>>

Located(c) == headers[localBlockIndex[c]].entries[indexIndex[c]].block

Move(c) ==
  /\ Finding(c, "move", "empty")
  /\ MoveFrom(c, Located(c))
  /\ UNCHANGED <<localBlockIndex, indexIndex, unused, tailBlock, prPc, op, explicitOnly>>

(* set_empty, set_many_empty                                               *)
SetEmpty(c) ==
  /\ pc[c] = "empty"
  /\ emptyFlags' = [emptyFlags EXCEPT ![block[c]] =
                      [o \in Offsets |-> @[o] \/ \E i \in Claimed(c) : i % BlockSize = o]]
  /\ NextBlock(c, headers[localBlockIndex[c]].size)
  /\ UNCHANGED <<blockVars, prPc, op, next, indexVars>>

-----------------------------------------------------------------------------
(* The destructor                                                          *)

Ring == IF tailBlock = None THEN {} ELSE {Ahead(tailBlock, k) : k \in 0 .. Cardinality(Blocks)}

(* Mutant: the search begins at the front instead of at the oldest entry.  *)
HalfFromFront ==
  LET entry(k) == headers[blockIndex].entries[(pr_blockIndexFront + k) % pr_blockIndexSize]
      after    == {k \in 0 .. pr_blockIndexSize - 1 : entry(k).base + BlockSize >= headIndex}
  IN  IF headIndex % BlockSize = 0 THEN None ELSE entry(Min(after)).block

(* The first entry, from the oldest on, whose block ends at the head or    *)
(* after it: this block is partially dequeued.                             *)
HalfDequeuedBlock ==
  LET entry(k) == headers[blockIndex].entries[
                    (pr_blockIndexFront - pr_blockIndexSlotsUsed + k) % pr_blockIndexSize]
      after    == {k \in 0 .. pr_blockIndexSize - 1 : entry(k).base + BlockSize >= headIndex}
  IN  IF headIndex % BlockSize = 0 THEN None ELSE entry(Min(after)).block

(* The slots whose items are destroyed: of blocks that are not empty, from *)
(* the head on, up to the tail.                                            *)
Destroyed ==
  LET half == HalfDequeuedBlock
      lastValidIndex == IF tailIndex % BlockSize = 0 THEN BlockSize ELSE tailIndex % BlockSize
  IN  {f \in Ring \X Offsets :
         /\ ~IsEmpty(f[1])
         /\ f[1] = half => f[2] >= headIndex % BlockSize
         /\ f[1] = tailBlock => f[2] < lastValidIndex}

(* All blocks of the ring go back; the token can be used no more.          *)
Destroy ==
  /\ Quiescent
  /\ slots' = [b \in Blocks |-> [o \in Offsets |->
                 IF <<b, o>> \in Destroyed THEN NoItem ELSE slots[b][o]]]
  /\ unused' = unused \cup Ring /\ tailBlock' = None
  /\ prPc' = "destroyed"
  /\ UNCHANGED <<claimVars, findVars, op, explicitOnly>>

-----------------------------------------------------------------------------
Enqueue == \/ \E e \in Enqueues : Begin(e)
           \/ Reuse \/ NewBlockIndex \/ Inject \/ Fail \/ Expose \/ Fill

Dequeue(c) == \/ ClaimStep(c) /\ UNCHANGED explicitOnly
              \/ Locate(c) \/ Move(c) \/ SetEmpty(c)

ExplicitNext == /\ prPc # "destroyed"
                /\ Enqueue \/ Destroy \/ \E c \in Consumers : Dequeue(c)

-----------------------------------------------------------------------------
(* The block index leads to the item: where a consumer is about to read is *)
(* the block that holds what it claimed, whatever the producer has filled, *)
(* injected or moved to a larger index since the consumer first looked;    *)
(* and nobody has marked these items as dequeued (set_empty's assertion).  *)
ExplicitRightItem ==
  \A c \in Consumers :
    /\ pc[c] = "move" => \A i \in Claimed(c) : slots[Located(c)][i % BlockSize] = i
    /\ pc[c] = "empty" => \A i \in Claimed(c) : ~emptyFlags[block[c]][i % BlockSize]

(* The destructor destroys the items that are left, no others, and gives   *)
(* back all blocks.                                                        *)
ExplicitDestroysRest ==
  Quiescent => Destroyed = Filled /\ unused = Blocks \ Ring
=============================================================================
