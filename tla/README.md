# TLA+ models of Cpp-ConcurrentQueues

The repository collects concurrent queues in C++ (its own, vendored ones, and
the Fifos of a CppCon 2023 talk) and a benchmark that runs them against each
other. This directory holds models of these queues for TLC, and proofs about
them for TLAPS. The models are written from the code: an action is a step of a
thread that others can see, its guard is the code's condition, and where the
code's memory orders leave a load free to return an old value, so does the model.

Lines are quoted as `file:line` of `src/`. `PROJECT.json` lists for every
definition the lines it models, and for every run, property and theorem what it
shows.

- [1. The system](#1-the-system)
- [2. Modules](#2-modules)
- [3. How code becomes actions](#3-how-code-becomes-actions)
- [4. Runs](#4-runs)
- [5. Fairness](#5-fairness)
- [6. Proofs](#6-proofs)
- [7. Where code and text disagree](#7-where-code-and-text-disagree)
- [8. Not modelled](#8-not-modelled)
- [9. Plan](#9-plan)

## 1. The system

| component | state it keeps | operations | what is hard | what makes it correct |
|---|---|---|---|---|
| SPSC rings with counting cursors: `alpha_spsc.h` (alpha, bravo, charlie, delta, echo), `StdAtomicSPSCQueue.h`, `cppcon2023/Fifo2..4a.hpp` | ring of slots, one atomic cursor per thread, a cached copy of the other's cursor | `try_push`, `try_pop`, `push`, `pop`, `empty`, `size` | stale cursors, reuse of slots, memory orders | no data race, elements alive when used, a bounded FIFO, everything arrives |
| SPSC rings with wrapped indices: `rigtorp/SPSCQueue.h` (+ adapter), `cppcon2023/Fifo4b.hpp` | the same, indices go back to 0, one slot unused | `emplace`, `front`, `pop`; `try_push`, `try_pop` | equal indices are any number of laps apart; the two-call pop protocol | the same, and `front`/`pop` agree |
| Fifos with proxies: `cppcon2023/Fifo5*.hpp` | the same ring; proxies that stand for a slot | `push` and `pop` that return a proxy, its moves, `release`, destructor | several live proxies, proxies that outlive calls | a slot is published once, in order |
| MPMC ring: `StdAtomicMPMCQueue.h` (two classes) | slots with a sequence number each, two indices | `push`/`enqueue`, `pop`/`dequeue` | tickets claimed after a check that may be old; threads stalled in a slot | no race, the item of one's ticket, a bounded FIFO, nobody stuck |
| Mutex queues: `Mutex{RingBuffer,BoostRingBuffer,Deque,List}Queue.h` | container, mutex, condition variables | `push`, `try_push`, `pop`, `try_pop` | notify after unlock, spurious wakeups, stolen items | no lost wakeup, everyone ends |
| Containers: `RingBuffer.h`, the use of `boost::circular_buffer` | vector and three indices; buffer and unread count | `push_back`, `pop_front`; `push_front`, `[--m_unread]` | overwriting when full | a dropping queue; a bounded FIFO |
| `atomic_queue/atomic_queue.h` (+ `AtomicQueueAdapters.h`) | two ticket counters, an atomic or a state byte and element per slot | `try_push`, `try_pop`, `push`, `pop`, `RetryDecorator` | tickets a lap apart share a slot; 32-bit wrap | slots accessed exclusively, sizes in range, every item once; FIFO one to one |
| Locked rings: `atomic_queue/spinlock.h`, `atomic_queue_mutex.h`, `cppcon2023/Mutex.hpp` | tickets, a flag, a ring inside | `lock`, `unlock`, `try_push`, `try_pop` | order and wrap of tickets, wrap of cursors | a bounded FIFO; with tickets, everyone's turn comes |
| `moodycamel/lightweightsemaphore.h` | user-space count, kernel semaphore | `wait` (timed or not), `tryWait`, `waitMany`, `signal` | a timeout racing a signal | the two counts agree; a counting semaphore |
| `moodycamel/blockingconcurrentqueue.h` (+ `MoodeyCamelQueueAdapters.h`) | a queue and a semaphore | `enqueue`, `try_dequeue`, `wait_dequeue`, timed and bulk forms | permits and items change at different times; allocations fail | an item for every permit; everyone returns |
| `moodycamel/concurrentqueue.h`, producers | four counters, a ring or list of blocks, a block index per producer | `enqueue`, `dequeue`, bulk forms, destructor | optimistic counting in and out, an index that moves and grows under its readers, undoing half a call | counters agree, the right item, every item once |
| ..., blocks and free list | a stack of nodes with reference counts | `add`, `try_get` | ABA, a node that is put back while others refer to it | a node has one owner, none is lost |
| ..., implicit producer hash | a chain of hash tables, the list of producers | `get_or_add_implicit_producer`, `recycle_or_create_producer`, thread exit | one thread resizes while others insert; ids and producers are used again | room in every table, always the same producer, one owner |
| Harness: `Barrier.h`, `atomic_queue/barrier.h`, `concurrent_queue_benchmarks.cpp` | a counter; start, end, sums | `wait`, `release`; three kinds of iteration | start and stop of many threads, stop flags | threads start together, sums right, nothing left |

The harness is the queues' caller. It starts producers that push 1, 2, ...,
`num_items` and then a stop flag, `num_items + 1`, and consumers that pop until
they meet a stop flag (`single_consumer`: as many as there are producers). The
models of the queues that the harness drives one item at a time use these
threads, so that the program ends and "everything arrives" can be said; the
others (locked rings, moodycamel's parts) take any sequence of calls. The queues do not interact with each other except by containment: the
mutex queues hold a RingBuffer or circular buffer, the blocking moodycamel queue
holds a semaphore and a lock-free queue, that queue is made of producers, which
take their blocks from the free list and are found through the hash, and the
adapters hold one queue each.

## 2. Modules

| module | models | extends / instantiates |
|---|---|---|
| `BoundedFifo` | what a bounded queue promises (abstract) | |
| `DroppingFifo` | a queue that drops its oldest item when full (abstract) | |
| `Semaphore` | a counting semaphore (abstract) | |
| `NodePool` | nodes with at most one owner each (abstract) | |
| `SpscRing`, `SpscVariants` | one algorithm; thirteen classes as records of choices | implements `BoundedFifo` |
| `Sums` | sums of functions to the naturals, by counting | |
| `QueueLemmas` | lemmas about slots, `%`, sums and sizes of sets | extends `Sums` |
| `...Proofs` | theorems about `SpscRing`, `WrappedRing`, `StdAtomicMPMC`, `MutexQueue`, `BlockingQueue` with its semaphore, `FreeList`, `Producer` | extend these |
| `WrappedRing` | rigtorp's queue behind its adapter; Fifo4b | implements `BoundedFifo` |
| `StdAtomicMPMC` | both classes of `StdAtomicMPMCQueue.h` | implements `BoundedFifo` |
| `MutexQueue` | the four mutex queues | |
| `RingBuffer`, `BoostBuffer` | the containers of two of them | implement `DroppingFifo`, `BoundedFifo` |
| `LockedRing` | `AtomicQueueMutexT` under each lock; `cppcon2023/Mutex.hpp` | implements `BoundedFifo` |
| `AtomicQueue`, `AtomicQueueVariants` | eight classes of `atomic_queue.h` | implements `BoundedFifo` one to one |
| `Benchmark` | barrier and the three kinds of iteration | uses `BoundedFifo` as the queue |
| `LightweightSemaphore` | moodycamel's semaphore | implements `Semaphore` |
| `BlockingQueue` | `BlockingConcurrentQueue` | extends `LightweightSemaphore` |
| `ProducerBase` | the counters of a producer and the claiming of items | |
| `ExplicitProducer`, `ImplicitProducer` | the two kinds: ring of blocks, freed blocks; their indices, growth, failures, destructors | extend `ProducerBase` |
| `Producer` | dispatch on `isExplicit` | extends the implicit kind, instantiates the explicit one |
| `FreeList` | `FreeList::add`, `try_get` | implements `NodePool` |
| `ProducerTable` | the hash of implicit producers, the list of producers, tokens | implements `NodePool` |
| `MC...` | constants of the runs. `MCContainers` and `MCPoolAndTable` put modules side by side that do not interact: a behaviour picks one of them and leaves the others as they are | |

What one module assumes another one shows. `Benchmark` runs over `BoundedFifo`,
and the rings are shown to implement `BoundedFifo`: what `Benchmark` shows of
stop flags, sums and joins therefore holds with each of them underneath.
`AtomicQueue` does not implement it with several producers (section 7), so its run
checks on its own that every item arrives once. `ProducerBase` takes and returns
blocks in one step, which is what `NodePool` allows and `FreeList` is shown to
do; it has one producer, which is what `ProducerTable` shows each user to have.
`BlockingQueue` keeps of the queue inside only how many items there are, which
is what `ItemsIntact` and `ClaimsBacked` say of `Producer`.

## 3. How code becomes actions

**Memory.** Only one thing is assumed of an atomic variable that is not seq_cst:
all threads agree on the order of its stores, and no thread goes back in that
order. A cursor that one thread writes only grows, so "a value not older than the
last one seen" is an interval, `seen .. latest`. Read-modify-writes act on
the newest value. An acquire load of a value stored with release brings the
storing thread's past into the loading one's: `SpscRing` and `WrappedRing` record
how many pushes and pops that covers (`hbHead`, `hbTail`), `StdAtomicMPMC` the
sequence number acquired. The non-atomic slot accesses are then free of races if
each is covered by what its thread has acquired (`DataRaceFree`), and a
read that is not covered returns anything (`ReadOutcomes`).

**Steps.** One atomic access, or one access to a slot, is one action:

| `alpha_spsc.h` | `SpscRing` |
|---|---|
| 35-36 load own cursor, look at the cached one | `TryPush` |
| 37-38 load the other cursor, return false if full | `LoadHead` |
| 40 construct | `Construct` |
| 41 store own cursor | `StoreTail` |
| 51-57 the same for pop | `TryPop`, `LoadTail`, `Read`, `StoreHead` |
| 63-65 `empty()`, called by either thread between its calls | `ProducerEmpty`, `ConsumerEmpty` |

| `StdAtomicMPMCQueue.h` | `StdAtomicMPMC` |
|---|---|
| 16, 26 load the index | `LoadWriteIdx` |
| 20 load the slot's sequence number, compare | `LoadWriteSeq` |
| 22 compare-and-swap | `ClaimWrite`, `LoseWrite` |
| 29, 30 write the slot, hand it on | `WriteData`, `PublishWrite` |

| `atomic_queue.h` | `AtomicQueue` |
|---|---|
| 269, 277, 279 `try_push` | `LoadHead`, `CheckFull`, `ClaimHead`, `LoseHead` |
| 308-314 `push` | `FetchAddHead` |
| 195-211 `do_push_atomic` | `StoreAtomic` |
| 242-264 `do_push_any` | `AwaitEmpty`, `StoreElement`, `StoreStored` |
| pops | the same with `Tail`, `TakeAtomic`, `AwaitStored`, `MoveElement`, `StoreEmpty` |

| `MutexRingBufferQueue.h` | `MutexQueue` |
|---|---|
| 20-21 lock, wait (unlocks) | `AwaitRoom` |
| 20-24 the critical section | `PushBack` |
| 25 `notify_one` | `NotifyNotEmpty` |
| 40-48 | `AwaitItem`, `PopFront`, `NotifyNotFull` |
| `std::condition_variable` | `SpuriousWakeup`, `NotifyOne` |

| `lightweightsemaphore.h` | `LightweightSemaphore` |
|---|---|
| 357-390, 280-288 and 319-329 take what there is | `TryWait` |
| 289, 330 | `FetchSub` |
| 294, 297, 333 | `SemaWait`, `TimedOut` |
| 306, 307, 309 and 337, 338, 340 after a timeout | `LoadCount`, `TakeLate`, `Undo`, `UndoAgain` |
| 345-347 | `More` |
| 412, 416 | `FetchAdd`, `Post` |

`wait` and `tryWait` are `waitMany` and `tryWaitMany` with a maximum of 1. What a
thread does alone while it holds a `std::mutex` is one step in `MutexQueue`;
in `LockedRing`, where the locks themselves are modelled, it is not.

| `spinlock.h`, `atomic_queue_mutex.h` | `LockedRing` |
|---|---|
| spinlock 80-90 take a ticket, wait for its turn | `TakeTicket`, `MyTurn` |
| 97-99 serve the next ticket | `NextTurn` |
| 113-119 load the flag, exchange it | `LoadLock`, `Exchange` |
| queue 47-66 under the lock: look at the cursors, touch the element, advance | `Check`, `Element`, `Advance` |

| `blockingconcurrentqueue.h` | `BlockingQueue` |
|---|---|
| 123-202 `inner.enqueue`, which may fail | `Enqueue` |
| 209-286 `sema->signal` if it did not | `SignalItems` (`FetchAdd`, `Post`) |
| 293-518 `sema->wait`, then `inner.try_dequeue` again and again | `WaitDequeue` (the semaphore's steps), `Dequeue` |

| `concurrentqueue.h`, producers (`enqueue` and `dequeue` are the bulk calls with a count of 1) | `ProducerBase`, `ExplicitProducer`, `ImplicitProducer` |
|---|---|
| 2250-2256 look whether there is anything | `Peek`, `PeekStale` |
| 2257 count in | `CountIn` |
| 2259-2263 load the tail again with acquire | `Recheck`, `RecheckStale` |
| 2264-2266, 2331-2334 count out | `CountOut` |
| 2269 move the head | `Claim` |
| 2271-2281 and 2949-2963 find the block in the index | `Locate`, `ReadKey` |
| 2282-2327, 2807-2869 move the items out, mark the slots, free the block | `Move`, `SetEmpty`, `Unlink`, `Free` |
| 2071-2083 use the empty block ahead | `Reuse` |
| 2086-2143 a larger index, a new block; 2094-2122 undo | `NewBlockIndex`, `Inject`, `Fail` |
| 2146-2160 reset flags, publish the index | `Expose` |
| 2166-2245 construct, publish the tail | `Fill` |
| 2647-2699 entry, block; 2661-2679 undo | `InsertEntry`, `GetBlock`, `NoIndex`, `NoBlock`, `UndoOne`, `Fail` |
| 1788-1846, 2431-2470 destructors | `Destroy` |

| `concurrentqueue.h`, free list | `FreeList` |
|---|---|
| 1459-1471 `add` | `Mark` |
| 1526-1537 `add_knowing_refcount_is_zero` | `LoadExpected`, `Publish`, `Push`, `Retract` |
| 1478-1490 `try_get` | `LoadHead`, `LoadRefs`, `TakeRef`, `ReadNext`, `Pop` |
| 1490-1506 its two ends | `Got`, `Drop` |

| `concurrentqueue.h`, implicit producers | `ProducerTable` |
|---|---|
| 3404-3449 look the id up in the chain, move it to the main table | `Begin`, `Lookup`, `TakeSlot`, `AddAgain` |
| 3451-3488 count, resize by one thread | `CountIn`, `Lock`, `PassBy`, `Resize`, `ResizeFails`, `NoResize` |
| 3491-3532 insert when there is room | `Room`, `Insert`, `AddFails`, `Uncount` |
| 3227-3277 catch an inactive producer or add one | `Catch`, `NextProd`, `AddProducer` |
| 3536-3571 thread exit; 695-701 token destructor | `Exit`, `Remove`, `Free` |

`ProducerBase` records in `sees` and `headSees` which items have happened before
what a consumer does, through the tail it acquired or through the
acquire-release chain of `headIndex`. Of its relaxed loads, those that decide only whether
to try return the newest value or, up to a bound (`Spurious`), any older one. `FreeList` and
`ProducerTable` interleave single atomic operations in one order.

**Data.** An item is a number or a pair (producer, number). Elements, padding,
allocation and index shuffling inside a cache line (`remap_index`, a permutation
of the slots) are abstracted.

## 4. Runs

Every property of a passing run has a mutant in `PROJECT.json`: the definition
that replaces a mapped one as a plausible bug would, with which TLC finds the
property violated under the same configuration. Mutants stand in the modules
before the definition they change, marked `Mutant:`.

| run | configuration | states | shows |
|---|---|---|---|
| `spsc_ring` | all thirteen classes; 2 slots, 5 items and the stop flag | 3,500 | no race, no dead element used, `size()`'s assertion for the two owners, an item seen by `empty()` is not denied by `try_pop`, a bounded FIFO, everything delivered |
| `mpmc` | 2 producers, 2 consumers, 2 slots, 1 item and the stop flag each | 1,680,000 | no race, the item of one's ticket, a bounded FIFO |
| `mutex_queue` | bounded (2 places) and unbounded, 2 producers, 2 consumers, 2 items each | 211,000 | no lost wakeup, everyone ends |
| `containers` | 3 elements, 2 values, any calls (RingBuffer), 5 pushes (circular buffer); 3 threads, 4 slots for a size of 3, words of 3 bits, 9 pushes, each lock (locked ring); 3 slots, 7 items (rigtorp) | 242,000 | a dropping queue; bounded FIFOs; with tickets every call returns; rigtorp's ring without race or dead element |
| `atomic_queue` | MPMC classes, 2 producers, 2 consumers, 2 slots, 1 item each; all classes one to one, 3 slots, cursors modulo 8, 9 items | 405,000 | exclusive access to elements, every item once; one to one a bounded FIFO across the wrap |
| `atomic_queue_order` | the optimistic class, 2 producers, 1 consumer, 3 items each | violation | items of one producer overtake each other |
| `fifo4b_ring` | capacity 2, 5 items | violation | an element is constructed behind the ring |
| `benchmark` | three kinds, 2 producers, 2 consumers, 1 item, queue of 2 | 9,300 | start together, duration not negative, sums right with nothing left, everyone ends |
| `blocking_queue` | 2 consumers, 2 producers, 1 or 2 items per call, every choice of timeouts and of failing enqueues | 342,000 | an item for every permit, a counting semaphore, everyone returns who can |
| `pool_and_table` | free list: 3 threads, 2 nodes, 3 calls; table: 3 threads with 4 slots, or 2 threads and a token with 1 slot and failing allocations | 245,000 | no node lost or owned twice, exact counts; room in every table, always the same producer, one owner; every call returns |
| `producers` | either kind, 2 consumers, 4 blocks of 2 items, index of 2, pool of 1; calls of 1, 3 and, implicit, 4 items, dequeues of up to 2; 5 items | 1,330,000 | counters agree, items visible, the right item, nothing lost, blocks in one place, the destructor takes the rest |
| `explicit_failed_bulk` | explicit, 1 consumer, 5 blocks, pool of 2, calls that fail; 7 items | violation | after a failed `enqueue_bulk` the index leads to the wrong block |

**Why the bounds are enough to be interesting.** The rings have two to four
slots and more items than that, so each slot is reused at least once, full
and empty are both reached, and every caching of a cursor goes stale. With
two producers and two consumers all races between two threads of a kind and
between the kinds occur, including a thread that stalls between any two steps
while the others go a lap ahead: with two slots and four pushes, tickets
0 and 2 are for the same slot. In `mutex_queue` both producers can sleep
while the consumers act, and the other way round. `SIZE = 3` with cursors modulo 8
makes the slots of `AtomicQueue` change their order at the wrap, as with any
size that is no power of two; `LockedRing` rounds its size up for that reason, and
nine pushes take its cursors, and its tickets, past the wrap.

Two nodes are enough for the ABA case of the free list: a thread reads the head
and its successor, the others take both and put them back in the other order. All ids
hash to the same slot, so that every insertion probes past the others; one initial
slot makes the table grow twice. With blocks of two items and calls of three or four, a
call begins in one block and ends in the next or the one after; with five items and an index of
two places the index is replaced once, blocks are used again and the pool runs
dry in the middle of a call.

Names of the bounds: `NumItems` (items per producer), `MaxItems` and `MaxPushes`
(containers, locked ring), `WORD` and `OneWord` (width of cursors and tickets),
`Rounds` and `MaxPermits` (semaphore), `Calls` (free list), `Lookups` (all calls on
the table together), `MaxTail`, `MaxDequeue` and `Spurious` (producers: items
enqueued, items per dequeue, old values returned by the loads that only decide
whether to try: one such value already leads a consumer astray, and its effect
ends with the call).

**Views and side-by-side runs.** `producers` has a `VIEW`:
`dequeueOptimisticCount` and `dequeueOvercommit` only grow and are only ever used
as a difference, so two states whose counters, and whose consumers' copies of
them, differ by a common shift have the same steps and satisfy the same properties.
`atomic_queue`, `containers` and `pool_and_table` each pick in the
initial state which of several systems runs. Their property for one
system holds in the behaviours of the others because nothing moves there.

Two limits are on purpose. With several producers or consumers the
cursors of `AtomicQueue` do not wrap: a compare-and-swap that succeeds after
exactly 2^32 tickets have been given out in between would be possible in the
model after `WORD` tickets, which says nothing about the code. And cursors of
type `size_t` do not wrap at all. In `producers` an explicit producer makes no calls that may
fail after they have taken a block: what happens then is `explicit_failed_bulk`.

**`TotalSum` and `AtomicQueue`.** A consumer leaves at its first stop flag, and
items may overtake each other, so one might fear that both consumers leave while
an item is still in the queue. They do not, and the reason is not special to the
instance: the last push ticket belongs to a stop flag. If that flag is popped
with an earlier ticket, it has overtaken a push into the same slot whose producer
has stalled; that push must be a stop flag itself, because a later flag of its
producer would have a later ticket than the last; and popping it takes the
slot's last ticket after all. `ItemsArriveOnce` checks the outcome.

**Deadlock** is checked except where the system may stop: in `blocking_queue`,
where consumers without a timeout do wait for ever if nobody enqueues enough; in
`pool_and_table` and the runs of `Producer`, whose callers have made all the
calls of the bound; and in `atomic_queue_order`, whose harness has more stop
flags than consumers.

## 5. Fairness

- Threads are not stopped for ever (`WF` on each thread): the scheduler's
  promise. For a thread that sleeps on a condition variable this says nothing
  until it is notified; spurious wakeups are allowed and never assumed.
- A store becomes visible in finite time (`SF` on a load that returns the newest
  value, `SpscRing`): C++ [atomics.order] asks for it, all targets give it. Without it a
  polling thread could read the old value for ever.
- `Benchmark` assumes of its queue that a push or pop that stays possible is
  done, with a bounded number of calls.
- `BlockingQueue` assumes that a `try_dequeue` that is called again and again while there
  are items succeeds in the end. The code gives no bound for it: consumers that
  count themselves in and out at the right moments can make each other's attempts
  fail. It is the assumption the loop at `blockingconcurrentqueue.h:364` is
  written under.
- `FreeList` and `ProducerTable`: `WF` on each thread only. Their calls return because every
  failed compare-and-swap is another thread's success, and the number of calls is bounded.
- `LockedRing`: `WF` on each thread. With tickets that is enough for every call
  to return (`TicketCallsReturn`); with `UnfairSpinlock` a thread may find the flag
  set for ever, and no liveness is claimed.

None is claimed for `StdAtomicMPMC` and `AtomicQueue` with several threads of a kind
either. A thread there may lose its compare-and-swap, or have it fail spuriously, for
ever; a fairness that rules it out would assume what is to be shown. What the runs do
check is that there is no state in which threads are left without a step.

## 6. Proofs

Every theorem is about the specification a run checks and holds for every value of
its constants: any capacity, any number of items and calls, any finite sets of
threads or nodes. Three statements of safety have a hypothesis about memory
orders, given below.

| theorem | states | of the run |
|---|---|---|
| `SpscRingProofs!TypeCorrect` | `TypeOK`, with the harness's bounds: nothing is published after the stop flag | `spsc_ring` |
| `!NoDataRace`, `!ElementLifetime`, `!SizeNeverAsserts` | `DataRaceFree`, `LifetimeOK`, `SizeAssertion` | |
| `!Fifo` | `FifoOrder`: what was received is 1, 2, ..., in order | |
| `!EmptyIsReliable` | `EmptyReliable`, an action property | |
| `!Refinement` | `ImplementsBoundedFifo` | |
| `WrappedRingProofs!NoDataRace`, `!ElementLifetime` | `DataRaceFree`, `LifetimeOK` | `containers` |
| `!Refinement` | `ImplementsBoundedFifo` | |
| `StdAtomicMPMCProofs!NoDataRace`, `!ItemOfTicket` | `DataRaceFree`, `TicketItem` | `mpmc` |
| `!Refinement` | `ImplementsBoundedFifo` | |
| `MutexQueueProofs!WakeupsSuffice` | `NoLostWakeup` | `mutex_queue` |
| `BlockingQueueProofs!ItemsForPermits` | `ItemForEveryPermit` | `blocking_queue` |
| `!Refinement` | `ImplementsSemaphore` | |
| `FreeListProofs!ReferenceCounts` | `ReferencesExact` | `pool_and_table` |
| `!PoolOfNodes` | `ImplementsNodePool` | |
| `ProducerProofs!CountersAgree`, `!ClaimedItemsVisible` | `ClaimsBacked`, `ItemsVisible`, of both kinds of producer | `producers` |
| `!ImplicitFindsItems` | `RightItem`, of an implicit producer | |
| `!ImplicitKeepsItems` | `ItemsIntact`, of an implicit producer | |
| `!ImplicitOwnsBlocks` | `BlockOwnedOnce` | |
| `!ImplicitDestroysAll` | `DestroysRest`, of an implicit producer | |

**Assumptions.** The constants' assumptions in the modules, which TLC evaluates,
and in three modules that the atomics synchronise: the load of the other thread's
cursor, or of a slot's sequence number, is acquire or stronger and the store that
publishes it is release or stronger (`AllSynchronise`, `Synchronises`). It is a
hypothesis of the theorems, because a variant without it is a legal value of a
constant, and it is true of all the classes modelled (the mutant `Fifo4Relaxed` is
one of which it is not, and TLC finds its race).
`FreeListProofs` speaks of the list alone, called by any set of threads
(`Spec(Active)`); `pool_and_table` runs the same actions next to the table.

**The argument** is the same in each module: an inductive invariant `IInv`, a
lemma that the initial states have it, one lemma (or a few, by kind of step) that every
step keeps it, and the properties as consequences. For a refinement, each step is
shown to be a step of the abstract specification or to change nothing there. Why
the properties are not inductive themselves, and what `IInv` adds:

- `SpscRing`. That a construction does not race follows only from
  which value of the cursor last used the slot. `Views` orders what the threads know: a
  thread's view of the other's cursor lies between what it has acquired and what is
  true, and the true cursors are never more than a ring apart. `Checks` says what
  the program positions mean: whoever is about to construct or read has made sure
  of room or of an item, with a cached copy if need be. `SlotsHold` is the
  heart: the slots from head to tail hold the items of these numbers, the others
  hold no live object if elements are destroyed, and the last accesses of a slot
  are those of the last lap. `FifoOrder` ties what was received to the head cursor.
- `WrappedRing`. The same, but the code compares indices, which say less than the
  counts of the invariant: equal indices are any number of laps apart.
  `NotFullMeansRoom` and `EmptyMeansCaughtUp` derive from `Views` and `Checks` that a
  thread's copy is less than a lap old, so that the comparison of the indices
  decides about the counts.
- `StdAtomicMPMC`. A thread that loaded a sequence number may stall, so the check
  says nothing about now. `Checked` keeps what survives: the number was acquired, and
  the slot's number is not older. A compare-and-swap that succeeds shows that
  the index did not move, and `Ring` that the slot did not either: each of the next `SIZE`
  tickets finds its slot full, free, or held by the one thread on its way to
  that. `PushTicket`, `PopTicket` and the uniqueness of tickets say what a holder may rely on.
- `MutexQueue`. `NoLostWakeup` compares the length of the container with numbers of threads,
  and is nearly inductive; `RoomAlways` adds that nobody waits for room where
  there is no bound. The lemma `Moves` says how the counts change when a thread
  moves from one place to another.
- `BlockingQueue`. The invariant of the semaphore adds to `PostsMatchWaiters` that only
  a signaller on its way has posts to make; the one of the queue that signals
  come after enqueues and that no consumer has more items than permits. `WaitTakes` and
  `SignalAdds` sum up what a step does to the permits: a waiter takes some that
  are there, or none; a signaller adds its count once. Both theorems follow from
  these two lemmas.
- `FreeList`. With `ListOf`, that some set is the list which is followed from the head, each node's
  count is exact: one for the list and one for each thread that refers. `Locals` says that
  a next pointer which a thread has read stays what it is as long as the thread
  refers to its node, which is what makes the compare-and-swap of the head safe when the head
  has been away and come back. `Hands` says that a node outside the list is in
  the hands of one thread, in one way.
- `Producer`. The first conjunct of `ClaimsBacked` is a sum that every step keeps. The
  second is not: when a consumer loads `tailIndex` again, what it may take depends on
  what everybody who counted in before will take. `Backed(u, m)` says that all who
  counted in before m can be given what they asked for out of the items below u, together with
  those who have already been promised some; `AllBacked` that for each u there
  is such a point m, whoever counted in after it having a number that
  leaves enough for those before. It holds for every u at once, because each consumer has seen a
  tail of its own.
- `ImplicitProducer`, in the second part of `ProducerProofs`. `RightItem` speaks of a consumer
  that has reached its block; that it gets there depends on all the steps before. The
  invariant numbers the blocks as the items do: item i belongs to block number
  `i \div BlockSize`, and `EntryAt(q)` is the entry which the current index has
  for number q, counted back from the tail. A number is live until all its
  items are counted as dequeued and the last to count has taken the block from its
  entry. `Placed` is the heart: the live numbers lie within one lap
  of the index, each has its block in its entry, and the keys from the oldest of them on
  are in order, so that the key of any later entry tells how far back a block is. Hence
  the entry after the tail, once empty, is that of no live number, and
  may be used again. `WholeIndex` (no entry twice) is what keeps two numbers
  apart, also across `NewBlockIndex`, which copies the entries.
  `Finds` says for each step of a consumer what its locals lead to: an index, old
  or new, leads from the consumer's place to the entries of all its items, since
  they do not change their place in an index and those still ahead are live;
  a tail that a consumer has read stays good although the producer undoes insertions,
  because what is undone lies beyond all claimed items.
  `Counts` and `Contents` tie `elementsCompletelyDequeued` and the slots to the
  items that are left. That the count of a block reaches `BlockSize` only when the last
  of its items is counted needs that claims are disjoint (`Ranges`) and that each consumer
  counts only its own (`TakenCounted`, `CountedItems`). `OneOwner` is
  `BlockOwnedOnce` told block by block: sizes of sets are not inductive, disjoint
  owners are. `Calling` says what a call of the producer has got so far, which `UndoOne` and `Fail`
  rely on. A step of the producer is argued through what it leaves alone in the
  index (`NoEntryChanged`: no entry; `ValuesStay`: the blocks of the entries), one of a
  consumer through what its locals pass on to the next step (`LocalStep`) and what
  stays for the others (`OthersFind`). `ItemsIntact`, `BlockOwnedOnce` and
  `DestroysRest` then follow by comparing sets.

`QueueLemmas` has what these proofs share. Two different counts less than a
ring apart have different slots (`DivMod`, `Laps`, `DifferentSlots`), since the
provers do not know `%` with a divisor that is not a number. The forms for integers (`DivModInt`,
`Quotient`, `ModShift`) are for the places of an index, which are counted backwards.
`SameSize` and `ApartSize` are about the sizes of sets. `Total` adds up a function over
a finite set by counting pairs; it changes with one value (`TotalChange`), grows with each
(`TotalMonotone`) and is at least each of them (`TotalAtLeast`). The folds of the
community modules would need induction over the set, which is out of reach here: see below.

**Only model-checked.**
- Safety: `ElementsExclusive`, `ItemsArriveOnce` and `OneToOneFifo` of `AtomicQueue`; the
  refinements of `RingBuffer`, `BoostBuffer` and `LockedRing`; `StartTogether`,
  `DurationSane` and `TotalSum` of `Benchmark`; `RoomInEveryTable`, `SameProducer` and
  `ProducersArePool` of the producer table; of an explicit producer, `RightItem`,
  `ItemsIntact` and `DestroysRest`: the first does not hold when a bulk call fails in
  the middle (section 7), and where none does they rest on the walk `Ahead`, below.
  See section 9.
- Liveness (`AllDelivered`, `AllJoined`, `TicketCallsReturn`, `EveryoneReturns`,
  `EveryCallReturns`): the prover does not handle fairness, that is `ENABLED`.
- What a definition computes by recursion or a fold for every input: the provers have
  no induction over data. `Ahead` of `ExplicitProducer`, which follows the
  ring of blocks, is such a definition.

## 7. Where code and text disagree

- `atomic_queue.h:314` says of the ticket counter `FIFO and total order on Intel
  regardless`. The tickets are in order, the items need not be: a slot that is
  empty is filled by whoever finds it so. If producer A takes ticket h and stalls, B may go
  once around the ring and put the item of ticket h + SIZE in A's slot, and the consumer
  with ticket h gets that before B's earlier items (`atomic_queue_order`).
- `Fifo4b.hpp` allocates `capacity` elements and uses `capacity + 1` slots: lines
  20-21 and 68 (`fifo4b_ring`). Its `size()` still asserts `popCursor <=
  pushCursor` (line 39), though both cursors go back to 0 at the end of the ring.
- `concurrentqueue.h:2104`: when an explicit `enqueue_bulk` fails it keeps the blocks it
  has injected into the ring and sets `pr_blockIndexSlotsUsed` back. Such
  a block, empty and ahead of the tail, is later put on the index without being
  counted: lines 1862-1863 argue that there is `guaranteed to be room since we're
  conceptually removing the last block from it first`, but it never was on the index. When the
  index is full by then, the entry of a block that still has items is overwritten
  (`explicit_failed_bulk`). It takes a `try_enqueue_bulk`, or memory that is
  exhausted, in the middle of a call that needs several blocks.
- Not a run, but worth knowing: the assertion in the Fifos' `size()`
  (`Fifo3.hpp:38`) holds for the producer and for the consumer (`SizeAssertion`,
  proved). For a third thread it need not: it loads `pushCursor_` first, and both cursors
  may pass that value before it loads `popCursor_`.

## 8. Not modelled

| part | why |
|---|---|
| `Fifo1.hpp` | documented as not thread-safe |
| the proxies of Fifo5, Fifo5a, Fifo5b in a caller's hands | nothing in the repository keeps one; their `push(value)` and `pop(value)` are modelled |
| adapters of Boost's lock-free queues | the queues are not in the repository |
| move and swap of queues, tokens and semaphores, destructors of the rings, allocation of the rings | one thread only |
| 2^32 tickets within one compare-and-swap of `AtomicQueue` | no run of the program that is of interest |
| `max_size()` of the mutex queues, `was_empty()` and `was_full()` of `AtomicQueueMutexT`, which read without the lock; `TicketSpinlock::unlock()` without a ticket | never called while threads run, or at all |
| `AtomicQueueMutexT` with `MINIMIZE_CONTENTION = false` | no type in the repository; a size that is no power of two would lose its order at the wrap, as the mutant `NotRounded` does |
| exceptions of an element's constructor or assignment in `ConcurrentQueue` | the repository's elements are numbers, for which the traits compile these paths out |
| the traits `MAX_SUBQUEUE_SIZE` and `RECYCLE_ALLOCATED_BLOCKS` | without a limit, and off, in the default traits, which the repository uses |
| consumer tokens, the choice of a producer in `try_dequeue`, `size_approx` | any choice leads to a dequeue from one producer, which is modelled; the size is an estimate |
| statistics, thread pinning, command line, tests, random numbers, traits, build files | no concurrent state |

## 9. Plan

Done, in this order: the SPSC rings with their proofs; the MPMC ring; the mutex
queues and their containers; `atomic_queue`; the wrapped rings; barrier and
benchmark; the semaphore; the locked rings; the free list; the producer table;
the producers; the blocking queue.

Proved, in this order: the SPSC rings; the MPMC ring; the free list; the counters
of a producer; the wrapped rings; the wakeups of the mutex queues; the semaphore and
the items of the blocking queue; the blocks and items of an implicit producer.

To be proved next, most important first:

1. `ElementsExclusive` of `AtomicQueue`: the four states of a slot.
2. The refinements of `RingBuffer` and `BoostBuffer`; the mutual exclusion and
   refinement of `LockedRing`.
3. `SameProducer` and `RoomInEveryTable` of the producer table.
4. `RightItem` of an explicit producer whose bulk calls do not fail, once its
   ring of blocks is told without recursion.

To be modelled if the repository comes to use it: a `ProxyFifo` with the proxies of Fifo5 in
a caller's hands.
