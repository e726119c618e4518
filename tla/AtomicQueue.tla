----------------------------- MODULE AtomicQueue -----------------------------
(***************************************************************************)
(* The queues of atomic_queue/atomic_queue.h under the producers and       *)
(* consumers of the benchmark.  A thread takes a ticket from head_ or      *)
(* tail_ and then waits at the slot of its ticket, for as long as it       *)
(* takes, until the slot is empty or full.                                 *)
(*                                                                         *)
(* head_ and tail_ hold the number of tickets given out; the code only     *)
(* ever has them modulo 2^32, here modulo WORD, and every definition looks *)
(* at them through Unsigned.  Their loads are relaxed: they return any     *)
(* value not older than the last one the thread has seen.  The slot states *)
(* are changed by compare-and-swaps and release stores, which act on the   *)
(* newest value; a load while busy-waiting only delays the next attempt.   *)
(* AtomicQueue and AtomicQueueB have one atomic per slot, NIL when empty:  *)
(* it is EMPTY and STORED here, with no states in between.                 *)
(***************************************************************************)
EXTENDS Integers, Sequences, FiniteSets

CONSTANTS SIZE,        \* slots
          WORD,        \* head_ and tail_ wrap to 0 here
          Producers, Consumers,
          NumItems,    \* items per producer, before its stop flag
          Classes,     \* the queue classes to check, in the form of Class
          NIL          \* an empty element

Class == [ spsc : BOOLEAN,        \* SPSC = true
           optimistic : BOOLEAN,  \* push and pop without RetryDecorator
           any : BOOLEAN ]        \* AtomicQueue2 and AtomicQueueB2

(* 2^32 is far more than twice the size: the int difference of two unsigned *)
(* cursors is then the true one.                                            *)
ASSUME SizeAssumption  == SIZE \in Nat \ {0} /\ WORD \in Nat /\ WORD > 2 * SIZE
ASSUME ItemsAssumption == NumItems \in Nat
ASSUME ClassAssumption == Classes \subseteq Class

StopFlag == NumItems + 1
Items    == Producers \X (1 .. StopFlag)
Threads  == Producers \cup Consumers
Slots    == 0 .. SIZE - 1

ASSUME NilAssumption == NIL \notin Items

VARIABLES
  class,              \* which queue class this is
  head_, tail_,       \* tickets given out to push, to pop
  states_, elements_, \* the slots
  pc,                 \* where each thread is
  head, tail,         \* what each thread has last seen of head_ and tail_
  ticket,             \* what each thread claimed
  n,                  \* producers: next item
  item, received      \* consumers: item on its way out, items popped

slots == <<states_, elements_>>
vars  == <<class, head_, tail_, slots, pc, head, tail, ticket, n, item, received>>

Init ==
  /\ class \in Classes
  /\ head_ = 0 /\ tail_ = 0
  /\ states_ = [s \in Slots |-> "EMPTY"]
  /\ elements_ = [s \in Slots |-> NIL]
  /\ pc = [t \in Threads |-> "idle"]
  /\ head = [t \in Threads |-> 0] /\ tail = [t \in Threads |-> 0]
  /\ ticket = [t \in Threads |-> 0]
  /\ n = [p \in Producers |-> 1]
  /\ item = [c \in Consumers |-> NIL]
  /\ received = [c \in Consumers |-> << >>]

Unsigned(x) == x % WORD

(* static_cast<int>(a - b)                                                 *)
Difference(a, b) ==
  LET d == Unsigned(a - b) IN IF 2 * d < WORD THEN d ELSE d - WORD

(* The slot of a ticket; remap_index permutes the slots, nothing else.     *)
SlotOf(x) == Unsigned(x) % SIZE

Goto(t, where) == pc' = [pc EXCEPT ![t] = where]

-----------------------------------------------------------------------------
(* Tickets to push.                                                        *)

(* try_push: the loads of head_ and tail_.                                 *)
LoadHead(p) ==
  /\ pc[p] = "idle" /\ n[p] <= StopFlag /\ ~class.optimistic
  /\ \E h \in head[p] .. head_ : head' = [head EXCEPT ![p] = h]
  /\ Goto(p, "check")
  /\ UNCHANGED <<class, head_, tail_, slots, tail, ticket, n, item, received>>

Full(h, t)  == Difference(h, t) >= SIZE
Empty(h, t) == Difference(h, t) <= 0

(* RetryDecorator tries again when the queue is full.                      *)
CheckFull(p) ==
  /\ pc[p] = "check"
  /\ \E t \in tail[p] .. tail_ :
       /\ tail' = [tail EXCEPT ![p] = t]
       /\ Goto(p, IF Full(head[p], t) THEN "idle" ELSE "claim")
  /\ UNCHANGED <<class, head_, tail_, slots, head, ticket, n, item, received>>

ClaimHead(p) ==
  /\ pc[p] = "claim" /\ Unsigned(head[p]) = Unsigned(head_)
  /\ head_' = head_ + 1
  /\ head' = [head EXCEPT ![p] = head_ + 1]
  /\ ticket' = [ticket EXCEPT ![p] = head_]
  /\ Goto(p, "enter")
  /\ UNCHANGED <<class, tail_, slots, tail, n, item, received>>

(* A lost or spuriously failed compare-and-swap reads head_ anew; the SPSC *)
(* classes store instead.                                                  *)
LoseHead(p) ==
  /\ pc[p] = "claim" /\ ~class.spsc
  /\ \E h \in head[p] .. head_ : head' = [head EXCEPT ![p] = h]
  /\ Goto(p, "check")
  /\ UNCHANGED <<class, head_, tail_, slots, tail, ticket, n, item, received>>

(* push: take the next ticket whether there is room or not.                *)
FetchAddHead(p) ==
  /\ pc[p] = "idle" /\ n[p] <= StopFlag /\ class.optimistic
  /\ head_' = head_ + 1
  /\ head' = [head EXCEPT ![p] = head_ + 1]
  /\ ticket' = [ticket EXCEPT ![p] = head_]
  /\ Goto(p, "enter")
  /\ UNCHANGED <<class, tail_, slots, tail, n, item, received>>

-----------------------------------------------------------------------------
(* do_push_atomic and do_push_any: wait for the slot to be empty.          *)

Pushed(p) == n' = [n EXCEPT ![p] = @ + 1] /\ Goto(p, "idle")

StoreAtomic(p) ==
  /\ pc[p] = "enter" /\ ~class.any
  /\ LET s == SlotOf(ticket[p]) IN
       /\ states_[s] = "EMPTY"
       /\ states_' = [states_ EXCEPT ![s] = "STORED"]
       /\ elements_' = [elements_ EXCEPT ![s] = <<p, n[p]>>]
  /\ Pushed(p)
  /\ UNCHANGED <<class, head_, tail_, head, tail, ticket, item, received>>

(* Mutant: the SPSC branch, which leaves the state EMPTY, for everybody.   *)
AwaitEmptySpsc(p) ==
  /\ pc[p] = "enter" /\ class.any
  /\ states_[SlotOf(ticket[p])] = "EMPTY"
  /\ Goto(p, "store")
  /\ UNCHANGED <<class, head_, tail_, slots, head, tail, ticket, n, item, received>>

(* Mutant: the slot is marked STORED before the element is in it.          *)
AwaitEmptyStored(p) ==
  /\ pc[p] = "enter" /\ class.any
  /\ LET s == SlotOf(ticket[p]) IN
       /\ states_[s] = "EMPTY"
       /\ states_' = [states_ EXCEPT ![s] = "STORED"]
  /\ Goto(p, "store")
  /\ UNCHANGED <<class, head_, tail_, elements_, head, tail, ticket, n, item, received>>

AwaitEmpty(p) ==
  /\ pc[p] = "enter" /\ class.any
  /\ LET s == SlotOf(ticket[p]) IN
       /\ states_[s] = "EMPTY"
       /\ states_' = [states_ EXCEPT ![s] = IF class.spsc THEN "EMPTY" ELSE "STORING"]
  /\ Goto(p, "store")
  /\ UNCHANGED <<class, head_, tail_, elements_, head, tail, ticket, n, item, received>>

StoreElement(p) ==
  /\ pc[p] = "store"
  /\ elements_' = [elements_ EXCEPT ![SlotOf(ticket[p])] = <<p, n[p]>>]
  /\ Goto(p, "publish")
  /\ UNCHANGED <<class, head_, tail_, states_, head, tail, ticket, n, item, received>>

StoreStored(p) ==
  /\ pc[p] = "publish"
  /\ states_' = [states_ EXCEPT ![SlotOf(ticket[p])] = "STORED"]
  /\ Pushed(p)
  /\ UNCHANGED <<class, head_, tail_, elements_, head, tail, ticket, item, received>>

-----------------------------------------------------------------------------
(* Tickets to pop.                                                         *)

LoadTail(c) ==
  /\ pc[c] = "idle" /\ ~class.optimistic
  /\ \E t \in tail[c] .. tail_ : tail' = [tail EXCEPT ![c] = t]
  /\ Goto(c, "check")
  /\ UNCHANGED <<class, head_, tail_, slots, head, ticket, n, item, received>>

CheckEmpty(c) ==
  /\ pc[c] = "check"
  /\ \E h \in head[c] .. head_ :
       /\ head' = [head EXCEPT ![c] = h]
       /\ Goto(c, IF Empty(h, tail[c]) THEN "idle" ELSE "claim")
  /\ UNCHANGED <<class, head_, tail_, slots, tail, ticket, n, item, received>>

ClaimTail(c) ==
  /\ pc[c] = "claim" /\ Unsigned(tail[c]) = Unsigned(tail_)
  /\ tail_' = tail_ + 1
  /\ tail' = [tail EXCEPT ![c] = tail_ + 1]
  /\ ticket' = [ticket EXCEPT ![c] = tail_]
  /\ Goto(c, "enter")
  /\ UNCHANGED <<class, head_, slots, head, n, item, received>>

LoseTail(c) ==
  /\ pc[c] = "claim" /\ ~class.spsc
  /\ \E t \in tail[c] .. tail_ : tail' = [tail EXCEPT ![c] = t]
  /\ Goto(c, "check")
  /\ UNCHANGED <<class, head_, tail_, slots, head, ticket, n, item, received>>

(* pop: take the next ticket whether there is an item or not.              *)
FetchAddTail(c) ==
  /\ pc[c] = "idle" /\ class.optimistic
  /\ tail_' = tail_ + 1
  /\ tail' = [tail EXCEPT ![c] = tail_ + 1]
  /\ ticket' = [ticket EXCEPT ![c] = tail_]
  /\ Goto(c, "enter")
  /\ UNCHANGED <<class, head_, slots, head, n, item, received>>

-----------------------------------------------------------------------------
(* do_pop_atomic and do_pop_any: wait for the slot to be full.             *)

IsStop(v) == v # NIL /\ v[2] = StopFlag

Popped(c, v) == /\ received' = [received EXCEPT ![c] = Append(@, v)]
                /\ Goto(c, IF IsStop(v) THEN "done" ELSE "idle")

(* Mutant: NIL is returned like any other element.                         *)
TakeAtomicOnce(c) ==
  /\ pc[c] = "enter" /\ ~class.any
  /\ LET s == SlotOf(ticket[c]) IN
       /\ states_' = [states_ EXCEPT ![s] = "EMPTY"]
       /\ elements_' = [elements_ EXCEPT ![s] = NIL]
       /\ Popped(c, elements_[s])
  /\ UNCHANGED <<class, head_, tail_, head, tail, ticket, n, item>>

TakeAtomic(c) ==
  /\ pc[c] = "enter" /\ ~class.any
  /\ LET s == SlotOf(ticket[c]) IN
       /\ states_[s] = "STORED"
       /\ states_' = [states_ EXCEPT ![s] = "EMPTY"]
       /\ elements_' = [elements_ EXCEPT ![s] = NIL]
       /\ Popped(c, elements_[s])
  /\ UNCHANGED <<class, head_, tail_, head, tail, ticket, n, item>>

AwaitStored(c) ==
  /\ pc[c] = "enter" /\ class.any
  /\ LET s == SlotOf(ticket[c]) IN
       /\ states_[s] = "STORED"
       /\ states_' = [states_ EXCEPT ![s] = IF class.spsc THEN "STORED" ELSE "LOADING"]
  /\ Goto(c, "load")
  /\ UNCHANGED <<class, head_, tail_, elements_, head, tail, ticket, n, item, received>>

(* The element is moved out of the slot.                                   *)
MoveElement(c) ==
  /\ pc[c] = "load"
  /\ LET s == SlotOf(ticket[c]) IN
       /\ item' = [item EXCEPT ![c] = elements_[s]]
       /\ elements_' = [elements_ EXCEPT ![s] = NIL]
  /\ Goto(c, "release")
  /\ UNCHANGED <<class, head_, tail_, states_, head, tail, ticket, n, received>>

StoreEmpty(c) ==
  /\ pc[c] = "release"
  /\ states_' = [states_ EXCEPT ![SlotOf(ticket[c])] = "EMPTY"]
  /\ Popped(c, item[c])
  /\ UNCHANGED <<class, head_, tail_, elements_, head, tail, ticket, n, item>>

-----------------------------------------------------------------------------
Push(p) == \/ LoadHead(p) \/ CheckFull(p) \/ ClaimHead(p) \/ LoseHead(p) \/ FetchAddHead(p)
           \/ StoreAtomic(p) \/ AwaitEmpty(p) \/ StoreElement(p) \/ StoreStored(p)
Pop(c)  == \/ LoadTail(c) \/ CheckEmpty(c) \/ ClaimTail(c) \/ LoseTail(c) \/ FetchAddTail(c)
           \/ TakeAtomic(c) \/ AwaitStored(c) \/ MoveElement(c) \/ StoreEmpty(c)

Done == /\ \A p \in Producers : pc[p] = "idle" /\ n[p] > StopFlag
        /\ \A c \in Consumers : pc[c] = "done"

Joined == Done /\ UNCHANGED vars

Next == (\E p \in Producers : Push(p)) \/ (\E c \in Consumers : Pop(c)) \/ Joined

Spec == Init /\ [][Next]_vars

-----------------------------------------------------------------------------
(* Only one thread at a time is between the two stores to a slot's state:  *)
(* the element, which is not atomic, is accessed by nobody else meanwhile. *)
(* Tickets alone do not give this, two tickets can be for the same slot.   *)
ElementExclusive ==
  \A t, u \in Threads :
    /\ t # u
    /\ {pc[t], pc[u]} \subseteq {"store", "publish", "load", "release"}
    => SlotOf(ticket[t]) # SlotOf(ticket[u])

(* The sum that the balanced benchmark checks: although an item may        *)
(* overtake an older one of its producer, no consumer leaves with the last *)
(* stop flag while an item is left behind, and none is lost or duplicated. *)
TotalSum == Done => \A i \in Items :
  Cardinality({<<c, k>> \in Consumers \X (1 .. Cardinality(Items)) :
                 k <= Len(received[c]) /\ received[c][k] = i}) = 1

(* One producer and one consumer: what was popped and what is in between.  *)
(* A push takes effect with the store of the slot's state, a pop when it   *)
(* has found the slot full.                                                *)
OneOf(S) == CHOOSE x \in S : TRUE

Popping == LET c == OneOf(Consumers) IN
  CASE pc[c] = "load"    -> <<elements_[SlotOf(ticket[c])]>>
    [] pc[c] = "release" -> <<item[c]>>
    [] OTHER             -> << >>

Taken == received[OneOf(Consumers)] \o Popping

Queued == [i \in 1 .. n[OneOf(Producers)] - 1 - Len(Taken) |->
             elements_[SlotOf(Len(Taken) + i - 1)]]

(* What a FIFO gives every pair of threads: the items of one producer      *)
(* reach one consumer in the order they were pushed.                       *)
ProducerOrder == \A c \in Consumers : \A i, j \in 1 .. Len(received[c]) :
  i < j /\ received[c][i][1] = received[c][j][1] => received[c][i][2] < received[c][j][2]
=============================================================================
