----------------------------- MODULE MutexQueue -----------------------------
(***************************************************************************)
(* The queues that guard a container with a mutex and block on condition   *)
(* variables: MutexRingBufferQueue and MutexBoostRingBufferQueue (bounded) *)
(* and MutexDequeQueue and MutexListQueue (unbounded).                     *)
(*                                                                         *)
(* Everything a call does while it holds the mutex is one step: no other   *)
(* thread looks at the container meanwhile.  wait() gives up the mutex and *)
(* blocks in that step; notify_one() comes after the mutex is released, in *)
(* a step of its own.  A thread may also wake up for no reason.  The       *)
(* container is a sequence here; RingBuffer and BoostBuffer show that the  *)
(* ring buffers are one.                                                   *)
(***************************************************************************)
EXTENDS Integers, Sequences, FiniteSets

CONSTANTS Producers, Consumers,
          NumItems,    \* items per producer, before its stop flag
          Capacity     \* of the bounded containers

ASSUME ThreadsAssumption == /\ IsFiniteSet(Producers) /\ IsFiniteSet(Consumers)
                            /\ Producers \cap Consumers = {}
ASSUME BoundAssumption   == Capacity \in Nat \ {0}
ASSUME ItemsAssumption   == NumItems \in Nat

StopFlag == NumItems + 1
Items    == Producers \X (1 .. StopFlag)

VARIABLES
  bounded,    \* which kind of class this is
  buffer_,    \* the container, oldest item first
  max_size_,  \* the largest number of items it has held
  pushPc, n,  \* producers: position, next item
  popPc,      \* consumers: position
  received    \* consumers: the items popped

vars == <<bounded, buffer_, max_size_, pushPc, n, popPc, received>>

Init ==
  /\ bounded \in BOOLEAN
  /\ buffer_ = << >> /\ max_size_ = 0
  /\ pushPc = [p \in Producers |-> "call"]
  /\ n = [p \in Producers |-> 1]
  /\ popPc = [c \in Consumers |-> "call"]
  /\ received = [c \in Consumers |-> << >>]

At(pc, where) == {t \in DOMAIN pc : pc[t] \in where}

(* notify_one: one of the threads waiting, if any, goes on.                *)
NotifyOne(pc, new) ==
  \/ At(pc, {"waiting"}) = {} /\ new = pc
  \/ \E t \in At(pc, {"waiting"}) : new = [pc EXCEPT ![t] = "woken"]

-----------------------------------------------------------------------------
(* push; try_push is the same without the wait.                            *)

Full == bounded /\ Len(buffer_) = Capacity

AwaitRoom(p) ==
  /\ pushPc[p] \in {"call", "woken"} /\ n[p] <= StopFlag
  /\ Full
  /\ pushPc' = [pushPc EXCEPT ![p] = "waiting"]
  /\ UNCHANGED <<bounded, buffer_, max_size_, n, popPc, received>>

PushBack(p) ==
  /\ pushPc[p] \in {"call", "woken"} /\ n[p] <= StopFlag
  /\ ~Full
  /\ buffer_' = Append(buffer_, <<p, n[p]>>)
  /\ max_size_' = IF Len(buffer_') > max_size_ THEN Len(buffer_') ELSE max_size_
  /\ pushPc' = [pushPc EXCEPT ![p] = "notify"]
  /\ UNCHANGED <<bounded, n, popPc, received>>

(* Mutant: wake a consumer only when the container was empty.              *)
NotifyNotEmptyIfFirst(p) ==
  /\ pushPc[p] = "notify"
  /\ IF Len(buffer_) = 1 THEN NotifyOne(popPc, popPc') ELSE UNCHANGED popPc
  /\ pushPc' = [pushPc EXCEPT ![p] = "call"]
  /\ n' = [n EXCEPT ![p] = @ + 1]
  /\ UNCHANGED <<bounded, buffer_, max_size_, received>>

NotifyNotEmpty(p) ==
  /\ pushPc[p] = "notify"
  /\ NotifyOne(popPc, popPc')
  /\ pushPc' = [pushPc EXCEPT ![p] = "call"]
  /\ n' = [n EXCEPT ![p] = @ + 1]
  /\ UNCHANGED <<bounded, buffer_, max_size_, received>>

-----------------------------------------------------------------------------
(* pop; try_pop is the same without the wait.                              *)

AwaitItem(c) ==
  /\ popPc[c] \in {"call", "woken"}
  /\ buffer_ = << >>
  /\ popPc' = [popPc EXCEPT ![c] = "waiting"]
  /\ UNCHANGED <<bounded, buffer_, max_size_, pushPc, n, received>>

(* Where a consumer goes after the pop of item v.                          *)
AfterPop(v) == IF v[2] = StopFlag THEN "done" ELSE "call"

PopFront(c) ==
  /\ popPc[c] \in {"call", "woken"}
  /\ buffer_ # << >>
  /\ received' = [received EXCEPT ![c] = Append(@, Head(buffer_))]
  /\ buffer_' = Tail(buffer_)
  /\ popPc' = [popPc EXCEPT ![c] = IF bounded THEN "notify" ELSE AfterPop(Head(buffer_))]
  /\ UNCHANGED <<bounded, max_size_, pushPc, n>>

(* Mutant: no producer is woken.                                           *)
NotifyNotFullForgotten(c) ==
  /\ popPc[c] = "notify"
  /\ popPc' = [popPc EXCEPT ![c] = AfterPop(received[c][Len(received[c])])]
  /\ UNCHANGED <<bounded, buffer_, max_size_, pushPc, n, received>>

NotifyNotFull(c) ==
  /\ popPc[c] = "notify"
  /\ NotifyOne(pushPc, pushPc')
  /\ popPc' = [popPc EXCEPT ![c] = AfterPop(received[c][Len(received[c])])]
  /\ UNCHANGED <<bounded, buffer_, max_size_, n, received>>

-----------------------------------------------------------------------------
SpuriousWakeup ==
  \/ /\ \E p \in At(pushPc, {"waiting"}) : pushPc' = [pushPc EXCEPT ![p] = "woken"]
     /\ UNCHANGED <<bounded, buffer_, max_size_, n, popPc, received>>
  \/ /\ \E c \in At(popPc, {"waiting"}) : popPc' = [popPc EXCEPT ![c] = "woken"]
     /\ UNCHANGED <<bounded, buffer_, max_size_, pushPc, n, received>>

Push(p) == AwaitRoom(p) \/ PushBack(p) \/ NotifyNotEmpty(p)
Pop(c)  == AwaitItem(c) \/ PopFront(c) \/ NotifyNotFull(c)

Done == /\ \A p \in Producers : pushPc[p] = "call" /\ n[p] > StopFlag
        /\ \A c \in Consumers : popPc[c] = "done"

Joined == Done /\ UNCHANGED vars

Next == \/ \E p \in Producers : Push(p)
        \/ \E c \in Consumers : Pop(c)
        \/ SpuriousWakeup
        \/ Joined

(* A thread that is not waiting gets the mutex in the end; nothing is      *)
(* assumed about spurious wakeups.                                         *)
Fairness == /\ \A p \in Producers : WF_vars(Push(p))
            /\ \A c \in Consumers : WF_vars(Pop(c))

Spec == Init /\ [][Next]_vars
FairSpec == Spec /\ Fairness

-----------------------------------------------------------------------------
(* No lost wakeup: while a consumer waits for an item, each item in the    *)
(* container has a notify_one still to come or a woken consumer of its own *)
(* (and the same for producers and free places), although notifications    *)
(* come after the unlock, items are taken by threads that were not         *)
(* notified, and threads wake up for no reason.                            *)
NoLostWakeup ==
  /\ At(popPc, {"waiting"}) # {} =>
       Len(buffer_) <= Cardinality(At(pushPc, {"notify"})) + Cardinality(At(popPc, {"woken"}))
  /\ At(pushPc, {"waiting"}) # {} =>
       Capacity - Len(buffer_) <= Cardinality(At(popPc, {"notify"})) + Cardinality(At(pushPc, {"woken"}))

(* Every thread ends: nobody waits for ever.                               *)
AllJoined == <>Done
=============================================================================
