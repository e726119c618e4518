------------------------ MODULE LightweightSemaphore ------------------------
(***************************************************************************)
(* moodycamel::LightweightSemaphore: a count in user space, m_count, whose *)
(* negative values count the threads that wait in the kernel semaphore     *)
(* m_sema.  A wait that times out has to take back its decrement of        *)
(* m_count, unless it has been signalled meanwhile.                        *)
(*                                                                         *)
(* wait, waitWithPartialSpinning and tryWait are waitMany,                 *)
(* waitManyWithPartialSpinning and tryWaitMany with max = 1.  All changes  *)
(* to m_count are read-modify-writes, so a relaxed load that returns an    *)
(* old count is a load that was made earlier: `saw' keeps it until it is   *)
(* used.  Before it decrements, a waiter may find m_count positive or may  *)
(* give up, whatever the count is by then.                                 *)
(***************************************************************************)
EXTENDS Integers, FiniteSets, Sums

CONSTANTS Waiters, Signallers,
          Initial,    \* initialCount
          MaxPermits, \* bound: largest max of waitMany and count of signal
          Rounds,     \* bound: waits of each waiter
          Timeouts    \* "forever" (-1), "timed" (> 0), "poll" (0)

ASSUME BoundsAssumption   == /\ Initial \in Nat
                             /\ MaxPermits \in Nat \ {0} /\ Rounds \in Nat \ {0}
ASSUME ThreadsAssumption  == /\ IsFiniteSet(Waiters) /\ IsFiniteSet(Signallers)
                             /\ Waiters \cap Signallers = {}
ASSUME TimeoutsAssumption == Timeouts \subseteq {"forever", "timed", "poll"}

VARIABLES
  m_count, m_sema,     \* the semaphore; m_sema is the kernel's
  pc,                  \* where each thread is
  timeout, max,        \* waiters: the arguments of waitMany
  saw,                 \* waiters: the count loaded after a timeout
  rounds, got,         \* waiters: waits made, permits received
  count, toRelease     \* signallers: the argument of signal, kernel posts to make

waiterVars    == <<timeout, max, saw, rounds, got>>
signallerVars == <<count, toRelease>>
vars == <<m_count, m_sema, pc, waiterVars, signallerVars>>

Init ==
  /\ m_count = Initial /\ m_sema = 0
  /\ pc = [t \in Waiters \cup Signallers |-> "call"]
  /\ timeout \in [Waiters -> Timeouts]
  /\ max \in [Waiters -> 1 .. MaxPermits]
  /\ saw = [w \in Waiters |-> 0]
  /\ rounds = [w \in Waiters |-> 0]
  /\ got = [w \in Waiters |-> 0]
  /\ count \in [Signallers -> 1 .. MaxPermits]
  /\ toRelease = [s \in Signallers |-> 0]

Smaller(a, b) == IF a < b THEN a ELSE b

Goto(t, where) == pc' = [pc EXCEPT ![t] = where]

(* waitMany returns k permits; 0 when it has timed out.                    *)
Return(w, k) ==
  /\ got' = [got EXCEPT ![w] = @ + k]
  /\ rounds' = [rounds EXCEPT ![w] = @ + 1]
  /\ Goto(w, IF rounds[w] + 1 = Rounds THEN "done" ELSE "call")

-----------------------------------------------------------------------------
(* tryWaitMany and the spinning: take what there is, up to max.            *)
TryWait(w) ==
  /\ pc[w] = "call"
  /\ m_count > 0
  /\ m_count' = m_count - Smaller(m_count, max[w])
  /\ Return(w, Smaller(m_count, max[w]))
  /\ UNCHANGED <<m_sema, timeout, max, saw, signallerVars>>

(* m_count.fetch_sub(1): a permit that has come meanwhile, or wait for one.*)
FetchSub(w) ==
  /\ pc[w] = "call"
  /\ m_count' = m_count - 1
  /\ Goto(w, IF m_count > 0 THEN "more" ELSE IF timeout[w] = "poll" THEN "undo" ELSE "wait")
  /\ got' = IF m_count > 0 THEN [got EXCEPT ![w] = @ + 1] ELSE got
  /\ UNCHANGED <<m_sema, timeout, max, saw, rounds, signallerVars>>

(* m_sema.wait() or timed_wait()                                           *)
SemaWait(w) ==
  /\ pc[w] = "wait" /\ m_sema > 0
  /\ m_sema' = m_sema - 1
  /\ got' = [got EXCEPT ![w] = @ + 1]
  /\ Goto(w, "more")
  /\ UNCHANGED <<m_count, timeout, max, saw, rounds, signallerVars>>

TimedOut(w) ==
  /\ pc[w] = "wait" /\ timeout[w] = "timed"
  /\ Goto(w, "undo")
  /\ UNCHANGED <<m_count, m_sema, waiterVars, signallerVars>>

LoadCount(w) ==
  /\ pc[w] = "undo"
  /\ saw' = [saw EXCEPT ![w] = m_count]
  /\ Goto(w, "undoing")
  /\ UNCHANGED <<m_count, m_sema, timeout, max, rounds, got, signallerVars>>

(* Signalled after all: take the permit from the kernel semaphore ...      *)
TakeLate(w) ==
  /\ pc[w] = "undoing" /\ saw[w] >= 0 /\ m_sema > 0
  /\ m_sema' = m_sema - 1
  /\ got' = [got EXCEPT ![w] = @ + 1]
  /\ Goto(w, "more")
  /\ UNCHANGED <<m_count, timeout, max, saw, rounds, signallerVars>>

(* Mutant: the timeout is reported and the decrement stays.                *)
UndoForgotten(w) ==
  /\ pc[w] = "undoing" /\ saw[w] < 0 /\ m_count = saw[w]
  /\ Return(w, 0)
  /\ UNCHANGED <<m_count, m_sema, timeout, max, saw, signallerVars>>

(* ... or take the decrement back.                                         *)
Undo(w) ==
  /\ pc[w] = "undoing" /\ saw[w] < 0 /\ m_count = saw[w]
  /\ m_count' = m_count + 1
  /\ Return(w, 0)
  /\ UNCHANGED <<m_sema, timeout, max, saw, signallerVars>>

(* Neither worked: load the count again.                                   *)
UndoAgain(w) ==
  /\ pc[w] = "undoing"
  /\ IF saw[w] >= 0 THEN m_sema = 0 ELSE m_count # saw[w]
  /\ Goto(w, "undo")
  /\ UNCHANGED <<m_count, m_sema, waiterVars, signallerVars>>

(* One permit is there; tryWaitMany(max - 1) for the others.               *)
More(w) ==
  /\ pc[w] = "more"
  /\ LET k == IF m_count > 0 THEN Smaller(m_count, max[w] - 1) ELSE 0
     IN  m_count' = m_count - k /\ Return(w, k)
  /\ UNCHANGED <<m_sema, timeout, max, saw, signallerVars>>

-----------------------------------------------------------------------------
(* signal                                                                  *)

(* Mutant: a single waiter is let go, whatever the number.                 *)
ReleasedOne(old, k) == IF old < 0 THEN 1 ELSE 0

Released(old, k) == IF old < 0 THEN Smaller(-old, k) ELSE 0

FetchAdd(s) ==
  /\ pc[s] = "call"
  /\ m_count' = m_count + count[s]
  /\ toRelease' = [toRelease EXCEPT ![s] = Released(m_count, count[s])]
  /\ Goto(s, IF Released(m_count, count[s]) > 0 THEN "post" ELSE "done")
  /\ UNCHANGED <<m_sema, waiterVars, count>>

(* m_sema.signal(toRelease) posts one after the other.                     *)
Post(s) ==
  /\ pc[s] = "post"
  /\ m_sema' = m_sema + 1
  /\ toRelease' = [toRelease EXCEPT ![s] = @ - 1]
  /\ Goto(s, IF toRelease[s] = 1 THEN "done" ELSE "post")
  /\ UNCHANGED <<m_count, waiterVars, count>>

-----------------------------------------------------------------------------
Wait(w)   == \/ TryWait(w) \/ FetchSub(w) \/ SemaWait(w) \/ TimedOut(w) \/ LoadCount(w)
             \/ TakeLate(w) \/ Undo(w) \/ UndoAgain(w) \/ More(w)
Signal(s) == FetchAdd(s) \/ Post(s)

Next == (\E w \in Waiters : Wait(w)) \/ (\E s \in Signallers : Signal(s))

Spec == Init /\ [][Next]_vars

-----------------------------------------------------------------------------
(* Threads whose decrement of m_count stands for a wait.                   *)
Waiting == {w \in Waiters : pc[w] \in {"wait", "undo", "undoing"}}

(* The two halves of the semaphore agree at every step: each thread that   *)
(* waits either is counted by a negative m_count or has a post of its own, *)
(* in the kernel semaphore or still to be made by a signaller.  No post is *)
(* lost to, or left behind by, a wait that times out.                      *)
PostsMatchWaiters ==
  Cardinality(Waiting) = (IF m_count < 0 THEN -m_count ELSE 0)
                         + m_sema + Total(toRelease)

(* It is a semaphore, whose permits are m_count with the decrements of the *)
(* waiting threads given back: no permit is made up and none disappears.   *)
Abstract == INSTANCE Semaphore
  WITH permits <- m_count + Cardinality(Waiting), taken <- got

ImplementsSemaphore == Abstract!Spec
=============================================================================
