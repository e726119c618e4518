----------------------------- MODULE LockedRing -----------------------------
(***************************************************************************)
(* AtomicQueueMutexT, a ring with counting cursors that is only touched    *)
(* under a lock, with each of its locks: TicketSpinlock (its LockGuard     *)
(* keeps the ticket), UnfairSpinlock, and the operating system's, which    *)
(* are external: Spinlock and std::mutex.  cppcon2023's Mutex is the same  *)
(* ring under std::mutex, with cursors that never wrap.                    *)
(*                                                                         *)
(* The accesses inside the critical section are steps of their own, and    *)
(* nothing but the lock keeps those of two threads apart.  Loads return    *)
(* the newest value: an old next_ or lock_ only makes a thread spin on.    *)
(***************************************************************************)
EXTENDS Integers, Sequences, FiniteSets

CONSTANTS Threads,
          SIZE,         \* asked for
          WORD,         \* tickets and cursors wrap at WORD: 2^32 in the code
          MaxPushes     \* bounds the run

ASSUME LockedAssumption == /\ SIZE \in Nat \ {0} /\ MaxPushes \in Nat
                           /\ IsFiniteSet(Threads) /\ Cardinality(Threads) < WORD

Locks == {"ticket", "unfair", "os"}

(* Mutant: the size is used as it is.                                      *)
NotRounded(n) == n

RoundUpToPowerOf2(n) == CHOOSE p \in {2 ^ k : k \in 0 .. n} : n <= p /\ p < 2 * n

size_ == RoundUpToPowerOf2(SIZE)

ASSUME WordAssumption == \E k \in 1 .. WORD : WORD = 2 ^ k

VARIABLES
  mutex,             \* the kind of lock
  ticket_, next_,    \* TicketSpinlock
  lock_,             \* UnfairSpinlock, and whether an external lock is taken
  head_, tail_, q_,  \* the ring
  pc, call, ticket,  \* per thread: position, call under way, its ticket
  pushed, popped     \* the number of items pushed, history of those popped

lockVars == <<mutex, ticket_, next_, lock_, ticket>>
ringVars == <<head_, tail_, q_, pushed, popped>>
lockedVars == <<lockVars, ringVars, pc, call>>

LockedInit ==
  /\ mutex \in Locks
  /\ ticket_ = 0 /\ next_ = 0 /\ lock_ = 0
  /\ head_ = 0 /\ tail_ = 0 /\ q_ = [s \in 0 .. size_ - 1 |-> 0]
  /\ pc = [t \in Threads |-> "idle"]
  /\ call = [t \in Threads |-> "none"]
  /\ ticket = [t \in Threads |-> 0]
  /\ pushed = 0 /\ popped = << >>

Goto(t, from, to) == pc[t] = from /\ pc' = [pc EXCEPT ![t] = to]

Wrap(n) == n % WORD

-----------------------------------------------------------------------------
(* lock()                                                                  *)

Begin(t) ==
  /\ Goto(t, "idle", IF mutex = "ticket" THEN "fetch_add" ELSE "load")
  /\ \E c \in {"push", "pop"} :
       /\ c = "push" => pushed + Cardinality({u \in Threads : call[u] = c}) < MaxPushes
       /\ call' = [call EXCEPT ![t] = c]
  /\ UNCHANGED <<lockVars, ringVars>>

TakeTicket(t) ==
  /\ Goto(t, "fetch_add", "spin")
  /\ ticket' = [ticket EXCEPT ![t] = ticket_]
  /\ ticket_' = Wrap(ticket_ + 1)
  /\ UNCHANGED <<mutex, next_, lock_, ringVars, call>>

MyTurn(t) ==
  /\ Goto(t, "spin", "check")
  /\ Wrap(ticket[t] - next_) = 0
  /\ UNCHANGED <<lockVars, ringVars, call>>

(* lock_ was 0 when it was loaded; an external lock has no such step.      *)
LoadLock(t) ==
  /\ mutex = "unfair" /\ lock_ = 0
  /\ Goto(t, "load", "exchange")
  /\ UNCHANGED <<lockVars, ringVars, call>>

GotLock(t) ==
  \/ pc[t] = "exchange" /\ lock_ = 0
  \/ pc[t] = "load" /\ mutex = "os" /\ lock_ = 0

Exchange(t) ==
  /\ lock_' = 1
  /\ \/ /\ GotLock(t)
        /\ pc' = [pc EXCEPT ![t] = "check"]
     \/ /\ ~GotLock(t)
        /\ Goto(t, "exchange", "load")
  /\ UNCHANGED <<mutex, ticket_, next_, ticket, ringVars, call>>

-----------------------------------------------------------------------------
(* try_push, try_pop                                                       *)

InRing == Wrap(head_ - tail_)

Check(t) ==
  /\ Goto(t, "check", IF IF call[t] = "push" THEN InRing < size_ ELSE head_ # tail_
                        THEN "element" ELSE "unlock")
  /\ UNCHANGED <<lockVars, ringVars, call>>

Element(t) ==
  /\ Goto(t, "element", "advance")
  /\ IF call[t] = "push"
       THEN /\ q_' = [q_ EXCEPT ![head_ % size_] = pushed + 1]
            /\ UNCHANGED popped
       ELSE /\ popped' = Append(popped, q_[tail_ % size_])
            /\ UNCHANGED q_
  /\ UNCHANGED <<lockVars, head_, tail_, pushed, call>>

Advance(t) ==
  /\ Goto(t, "advance", "unlock")
  /\ IF call[t] = "push"
       THEN head_' = Wrap(head_ + 1) /\ pushed' = pushed + 1 /\ UNCHANGED tail_
       ELSE tail_' = Wrap(tail_ + 1) /\ UNCHANGED <<head_, pushed>>
  /\ UNCHANGED <<lockVars, q_, popped, call>>

-----------------------------------------------------------------------------
(* ~LockGuard and the other locks' guards, at the end of each call.        *)

(* Mutant: the turn of whoever comes next, not of whoever waits longest.   *)
NextTurnNewest(t) == ticket_

NextTurn(t) == Wrap(ticket[t] + 1)

Unlock(t) ==
  /\ Goto(t, "unlock", "idle")
  /\ IF mutex = "ticket" THEN next_' = NextTurn(t) /\ UNCHANGED lock_
                         ELSE lock_' = 0 /\ UNCHANGED next_
  /\ ticket' = [ticket EXCEPT ![t] = 0]
  /\ call' = [call EXCEPT ![t] = "none"]
  /\ UNCHANGED <<mutex, ticket_, ringVars>>

Step(t) == \/ TakeTicket(t) \/ MyTurn(t) \/ LoadLock(t) \/ Exchange(t)
           \/ Check(t) \/ Element(t) \/ Advance(t) \/ Unlock(t)

LockedNext == \E t \in Threads : Begin(t) \/ Step(t)

(* A thread inside a call runs on; nobody has to call.                     *)
LockedFairness == \A t \in Threads : WF_lockedVars(Step(t))

LockedSpec == LockedInit /\ [][LockedNext]_lockedVars /\ LockedFairness

-----------------------------------------------------------------------------
(* Whatever the lock, try_push and try_pop are those of a bounded FIFO,    *)
(* past the wrap of the cursors and of the tickets.  A push takes effect   *)
(* when head_ moves, a pop when the element is moved out.                  *)
MovedOut == IF \E t \in Threads : pc[t] = "advance" /\ call[t] = "pop" THEN 1 ELSE 0

LockedFifo == INSTANCE BoundedFifo
  WITH Capacity <- size_, Values <- 1 .. MaxPushes, taken <- popped,
       queue <- [i \in 1 .. InRing - MovedOut |-> q_[Wrap(tail_ + MovedOut + i - 1) % size_]]

LockedImplementsFifo == LockedFifo!Spec

(* Every call on a queue with a TicketSpinlock returns, however often the  *)
(* other threads call: the lock is granted in the order of the tickets.    *)
(* The other locks let a thread starve.                                    *)
TicketCallsReturn ==
  \A t \in Threads : []<>(mutex = "ticket" => pc[t] = "idle")
=============================================================================
