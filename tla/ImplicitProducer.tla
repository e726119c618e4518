-------------------------- MODULE ImplicitProducer --------------------------
(***************************************************************************)
(* moodycamel::ConcurrentQueue::ImplicitProducer: the sub-queue of a       *)
(* thread that enqueues without a token.  Here a block goes back to the    *)
(* pool of the whole queue as soon as the last of its items has been       *)
(* dequeued, by the consumer who took that one.  The block index is a      *)
(* circular array of pointers to entries (key, value); a larger one points *)
(* to the same entries and to as many new ones, so that a consumer that    *)
(* still uses the old one sees what becomes of them.                       *)
(***************************************************************************)
EXTENDS ProducerBase

VARIABLES
  elementsCompletelyDequeued,          \* of the blocks
  entries,                             \* all index entries: key, value
  indexes,                             \* all BlockIndexHeaders, the current one last
  got                                  \* blocks of this enqueue_bulk, linked by next

implicitOnly == <<elementsCompletelyDequeued, entries, indexes, got>>
implicitVars == <<baseVars, implicitOnly>>

InvalidBlockBase == 1
NewEntries(n) == [i \in 1 .. n |-> [key |-> InvalidBlockBase, value |-> None]]
IndexHeader(capacity, tail, index_) == [capacity |-> capacity, tail |-> tail, index |-> index_]

ImplicitInit ==
  /\ elementsCompletelyDequeued = [b \in Blocks |-> 0]
  /\ entries = NewEntries(InitialIndexSize)
  /\ indexes = <<IndexHeader(InitialIndexSize, InitialIndexSize - 1,
                             [i \in 0 .. InitialIndexSize - 1 |-> i + 1])>>
  /\ got = <<>>

current == Len(indexes)
Newest  == indexes[current]

(* get_block_index_index_for_index, with a tail and its key.               *)
Place(h, tail, key, i) == (tail + (BaseOf(i) - key) \div BlockSize) % h.capacity
EntryFor(i) == LET h == Newest
               IN  h.index[Place(h, h.tail, entries[h.index[h.tail]].key, i)]

-----------------------------------------------------------------------------
(* enqueue, enqueue_bulk                                                   *)

Begin(e) ==
  /\ prPc = "idle" /\ tailIndex + e.count <= MaxTail
  /\ op' = [count |-> e.count, canAlloc |-> e.canAlloc, need |-> BlocksNeeded(e.count),
            currentTailIndex |-> BaseOf(tailIndex - 1), startBlock |-> tailBlock]
  /\ prPc' = IF BlocksNeeded(e.count) = 0 THEN "fill" ELSE "index"
  /\ UNCHANGED <<claimVars, findVars, blockVars, implicitOnly>>

NextTail  == (Newest.tail + 1) % Newest.capacity
NextEntry == Newest.index[NextTail]
NextIsFree == entries[NextEntry].key = InvalidBlockBase \/ entries[NextEntry].value = None

(* insert_block_index_entry: the entry after the tail is for this block.   *)
InsertEntry ==
  /\ prPc = "index" /\ NextIsFree
  /\ entries' = [entries EXCEPT ![NextEntry].key = op.currentTailIndex + BlockSize]
  /\ indexes' = [indexes EXCEPT ![current].tail = NextTail]
  /\ op' = [op EXCEPT !.currentTailIndex = @ + BlockSize]
  /\ prPc' = "block"
  /\ UNCHANGED <<claimVars, findVars, blockVars, elementsCompletelyDequeued, got>>

(* ... it is in use: new_block_index, with all entries, oldest first.      *)
NewBlockIndex ==
  /\ prPc = "index" /\ ~NextIsFree /\ op.canAlloc
  /\ LET capacity == Newest.capacity
     IN  /\ indexes' = Append(indexes, IndexHeader(2 * capacity, capacity - 1,
              [i \in 0 .. 2 * capacity - 1 |->
                 IF i < capacity THEN Newest.index[(Newest.tail + 1 + i) % capacity]
                 ELSE Len(entries) + 1 + i - capacity]))
         /\ entries' = entries \o NewEntries(capacity)
  /\ UNCHANGED <<claimVars, findVars, blockVars, elementsCompletelyDequeued, got, prPc, op>>

(* No memory for a larger index: give up.                                  *)
NoIndex ==
  /\ prPc = "index" /\ ~NextIsFree /\ ~op.canAlloc
  /\ prPc' = "undo"
  /\ op' = [op EXCEPT !.currentTailIndex = BaseOf(tailIndex - 1)]
  /\ UNCHANGED <<claimVars, findVars, blockVars, implicitOnly>>

GetBlock ==
  /\ prPc = "block" /\ Requisition(op.canAlloc) # {}
  /\ LET b == CHOOSE x \in Requisition(op.canAlloc) : TRUE
     IN  /\ elementsCompletelyDequeued' = [elementsCompletelyDequeued EXCEPT ![b] = 0]
         /\ entries' = [entries EXCEPT ![Newest.index[Newest.tail]].value = b]
         /\ unused' = unused \ {b} /\ tailBlock' = b
         /\ got' = Append(got, b)
  /\ op' = [op EXCEPT !.need = @ - 1]
  /\ prPc' = IF op.need = 1 THEN "fill" ELSE "index"
  /\ UNCHANGED <<claimVars, findVars, slots, indexes>>

(* rewind_block_index_tail                                                 *)
Rewind == indexes' = [indexes EXCEPT ![current].tail = (@ - 1) % Newest.capacity]

NoBlock ==
  /\ prPc = "block" /\ Requisition(op.canAlloc) = {}
  /\ Rewind
  /\ entries' = [entries EXCEPT ![Newest.index[Newest.tail]].value = None]
  /\ prPc' = "undo"
  /\ op' = [op EXCEPT !.currentTailIndex = BaseOf(tailIndex - 1)]
  /\ UNCHANGED <<claimVars, findVars, blockVars, elementsCompletelyDequeued, got>>

(* Revert the index insertions of this call, one by one.                   *)
UndoOne ==
  /\ prPc = "undo"
  /\ op.currentTailIndex < BaseOf(tailIndex - 1) + BlockSize * Len(got)
  /\ op' = [op EXCEPT !.currentTailIndex = @ + BlockSize]
  /\ entries' = [entries EXCEPT ![EntryFor(op.currentTailIndex + BlockSize)].value = None]
  /\ Rewind
  /\ UNCHANGED <<claimVars, findVars, blockVars, elementsCompletelyDequeued, got, prPc>>

(* Mutant: the blocks are not given back.                                  *)
FailKeepsBlocks ==
  /\ prPc = "undo"
  /\ op.currentTailIndex = BaseOf(tailIndex - 1) + BlockSize * Len(got)
  /\ got' = <<>>
  /\ tailBlock' = op.startBlock
  /\ prPc' = "idle" /\ op' = NoCall
  /\ UNCHANGED <<claimVars, findVars, slots, unused, elementsCompletelyDequeued, entries, indexes>>

(* add_blocks_to_free_list; the call returns false.                        *)
Fail ==
  /\ prPc = "undo"
  /\ op.currentTailIndex = BaseOf(tailIndex - 1) + BlockSize * Len(got)
  /\ unused' = unused \cup Range(got) /\ got' = <<>>
  /\ tailBlock' = op.startBlock
  /\ prPc' = "idle" /\ op' = NoCall
  /\ UNCHANGED <<claimVars, findVars, slots, elementsCompletelyDequeued, entries, indexes>>

(* The block the next index falls into, from which the items go on.        *)
BlockFor(i) ==
  LET k == i \div BlockSize - (tailIndex - 1) \div BlockSize
  IN  IF k = 0 THEN op.startBlock ELSE got[k]

Fill ==
  /\ FillBlocks([i \in tailIndex .. tailIndex + op.count - 1 |-> BlockFor(i)])
  /\ got' = <<>>
  /\ UNCHANGED <<tailBlock, elementsCompletelyDequeued, entries, indexes>>

-----------------------------------------------------------------------------
(* dequeue, dequeue_bulk, after the claim                                  *)

(* The current block index and its tail.  As for an explicit producer they *)
(* are read at once: the tail of an old index does not change.             *)
Locate(c) ==
  /\ Finding(c, "locate", "key")
  /\ localBlockIndex' = Set(localBlockIndex, c, current)
  /\ indexIndex' = Set(indexIndex, c, Newest.tail)
  /\ UNCHANGED <<block, blockVars, prPc, op, implicitOnly>>

(* The key of the tail's entry tells how far back the block of index is.   *)
ReadKey(c) ==
  /\ Finding(c, "key", "move")
  /\ LET h == indexes[localBlockIndex[c]]
         tail == indexIndex[c]
     IN  indexIndex' = Set(indexIndex, c, Place(h, tail, entries[h.index[tail]].key, index[c]))
  /\ UNCHANGED <<localBlockIndex, block, blockVars, prPc, op, implicitOnly>>

EntryOf(c) == indexes[localBlockIndex[c]].index[indexIndex[c]]
Located(c) == entries[EntryOf(c)].value

Move(c) ==
  /\ Finding(c, "move", "empty")
  /\ MoveFrom(c, Located(c))
  /\ UNCHANGED <<localBlockIndex, indexIndex, unused, tailBlock, prPc, op, implicitOnly>>

(* set_empty, set_many_empty                                               *)
SetEmpty(c) ==
  /\ pc[c] = "empty"
  /\ LET all == elementsCompletelyDequeued[block[c]] + EndIndex(c) - index[c]
     IN  /\ elementsCompletelyDequeued' = [elementsCompletelyDequeued EXCEPT ![block[c]] = all]
         /\ IF all = BlockSize
            THEN Finding(c, "empty", "unlink") /\ UNCHANGED findVars
            ELSE NextBlock(c, indexes[localBlockIndex[c]].capacity)
  /\ UNCHANGED <<blockVars, prPc, op, entries, indexes, got>>

(* The block is empty: remove it from the index,                           *)
Unlink(c) ==
  /\ Finding(c, "unlink", "free")
  /\ entries' = [entries EXCEPT ![EntryOf(c)].value = None]
  /\ UNCHANGED <<findVars, blockVars, prPc, op, elementsCompletelyDequeued, indexes, got>>

(* and give it back: anyone may have it now.                               *)
Free(c) ==
  /\ pc[c] = "free"
  /\ unused' = unused \cup {block[c]}
  /\ NextBlock(c, indexes[localBlockIndex[c]].capacity)
  /\ UNCHANGED <<slots, tailBlock, prPc, op, implicitOnly>>

-----------------------------------------------------------------------------
(* The destructor                                                          *)

(* The slots whose items are destroyed, from the head to the tail; a block *)
(* goes back when the walk leaves it, and the one the tail is in at last.  *)
Destroyed  == {<<entries[EntryFor(i)].value, i % BlockSize>> : i \in headIndex .. tailIndex - 1}
FreedFirst == {entries[EntryFor(i)].value : i \in headIndex .. BaseOf(tailIndex - 1) - 1}
FreedLast  == IF tailBlock # None /\ (headIndex # tailIndex \/ tailIndex % BlockSize # 0)
              THEN {tailBlock} ELSE {}
Freed      == FreedFirst \cup FreedLast

Destroy ==
  /\ Quiescent
  /\ slots' = [b \in Blocks |-> [o \in Offsets |->
                 IF <<b, o>> \in Destroyed THEN NoItem ELSE slots[b][o]]]
  /\ unused' = unused \cup Freed /\ tailBlock' = None
  /\ prPc' = "destroyed"
  /\ UNCHANGED <<claimVars, findVars, op, implicitOnly>>

-----------------------------------------------------------------------------
Enqueue == \/ \E e \in Enqueues : Begin(e)
           \/ InsertEntry \/ NewBlockIndex \/ NoIndex \/ GetBlock \/ NoBlock
           \/ UndoOne \/ Fail \/ Fill

Dequeue(c) == \/ ClaimStep(c) /\ UNCHANGED implicitOnly
              \/ Locate(c) \/ ReadKey(c) \/ Move(c) \/ SetEmpty(c) \/ Unlink(c) \/ Free(c)

ImplicitNext == /\ prPc # "destroyed"
                /\ Enqueue \/ Destroy \/ \E c \in Consumers : Dequeue(c)

-----------------------------------------------------------------------------
(* The entry a consumer has found leads to the block that holds what it    *)
(* has claimed, although entries are given to new blocks and indices are   *)
(* replaced meanwhile, and insertions undone.                              *)
ImplicitRightItem ==
  \A c \in Consumers :
    pc[c] = "move" => \A i \in Claimed(c) : slots[Located(c)][i % BlockSize] = i

(* No block is lost or in two places: it is in the pool, or an entry has   *)
(* it, or the consumer that emptied it is about to give it back, or the    *)
(* producer takes it out of the index again.                               *)
Linked    == {i \in DOMAIN entries : entries[i].value # None}
FreedSoon == {c \in Consumers : pc[c] = "free"}
Undone    == IF prPc # "undo" THEN {}
             ELSE 1 .. (op.currentTailIndex - BaseOf(tailIndex - 1)) \div BlockSize

ImplicitBlockOwnedOnce ==
  prPc # "destroyed" =>
    LET linked == {entries[i].value : i \in Linked}
        soon   == {block[c] : c \in FreedSoon} \cup {got[k] : k \in Undone}
    IN  /\ unused \cup linked \cup soon = Blocks
        /\ Cardinality(unused) + Cardinality(Linked) + Cardinality(FreedSoon)
             + Cardinality(Undone) = Cardinality(Blocks)

(* The destructor destroys the items that are left, no others, and gives   *)
(* back the blocks the queue still has.                                    *)
ImplicitDestroysRest ==
  Quiescent => Destroyed = Filled /\ Freed = Blocks \ unused
=============================================================================
