------------------------ MODULE BlockingQueueProofs ------------------------
(***************************************************************************)
(* Proofs about LightweightSemaphore and BlockingQueue, for any finite     *)
(* sets of threads, any numbers of permits and any timeouts.               *)
(***************************************************************************)
EXTENDS BlockingQueue, QueueLemmas

-----------------------------------------------------------------------------
(* The inductive invariant of the semaphore.                               *)

Parked == {"wait", "undo", "undoing"}
Places == Parked \cup {"call", "more", "post", "done"}

TypeOK ==
  /\ m_count \in Int /\ m_sema \in Nat
  /\ pc \in [Waiters \cup Signallers -> Places]
  /\ max \in [Waiters -> Nat \ {0}] /\ got \in [Waiters -> Nat]
  /\ count \in [Signallers -> Nat \ {0}] /\ toRelease \in [Signallers -> Nat]

(* A signaller has posts to make only while it makes them.                 *)
Posting == \A s \in Signallers : toRelease[s] > 0 <=> pc[s] = "post"

SemaphoreInv == TypeOK /\ Posting /\ PostsMatchWaiters

-----------------------------------------------------------------------------
(* Counting those that wait, and the posts.                                *)

Permits == m_count + Cardinality(Waiting)

Place(where) == IF where \in Parked THEN 1 ELSE 0

ParkedIn(places) == {w \in Waiters : places[w] \in Parked}

LEMMA ParkedChange ==
  ASSUME NEW p \in [Waiters \cup Signallers -> Places], NEW w \in Waiters, NEW x,
         NEW next, next = [p EXCEPT ![w] = x]
  PROVE  /\ Cardinality(ParkedIn(p)) \in Nat /\ Cardinality(ParkedIn(next)) \in Nat
         /\ Cardinality(ParkedIn(next)) = Cardinality(ParkedIn(p)) + Place(x) - Place(p[w])
<1>1. /\ IsFiniteSet(ParkedIn(p)) /\ Cardinality(ParkedIn(p)) \in Nat
      /\ IsFiniteSet(ParkedIn(next)) /\ Cardinality(ParkedIn(next)) \in Nat
  <2>1. ParkedIn(p) \subseteq Waiters /\ ParkedIn(next) \subseteq Waiters
    BY DEF ParkedIn
  <2> QED
    BY <2>1, ThreadsAssumption, FS_Subset, FS_CardinalityType
<1>2. CASE (x \in Parked) = (p[w] \in Parked)
  <2>1. ParkedIn(next) = ParkedIn(p)
    BY <1>2 DEF ParkedIn
  <2> QED
    BY <1>1, <1>2, <2>1 DEF Place
<1>3. CASE x \in Parked /\ p[w] \notin Parked
  <2>1. ParkedIn(next) = ParkedIn(p) \cup {w} /\ w \notin ParkedIn(p)
    BY <1>3 DEF ParkedIn
  <2>2. Cardinality(ParkedIn(next)) = Cardinality(ParkedIn(p)) + 1
    BY <1>1, <2>1, FS_AddElement
  <2>3. Place(x) = 1 /\ Place(p[w]) = 0
    BY <1>3 DEF Place
  <2> QED
    BY <1>1, <2>2, <2>3
<1>4. CASE x \notin Parked /\ p[w] \in Parked
  <2>1. ParkedIn(next) = ParkedIn(p) \ {w} /\ w \in ParkedIn(p)
    BY <1>4 DEF ParkedIn
  <2>2. Cardinality(ParkedIn(next)) = Cardinality(ParkedIn(p)) - 1
    BY <1>1, <2>1, FS_RemoveElement
  <2>3. Place(x) = 0 /\ Place(p[w]) = 1
    BY <1>4 DEF Place
  <2> QED
    BY <1>1, <2>2, <2>3
<1> QED
  BY <1>2, <1>3, <1>4

LEMMA WaitingTyped == Cardinality(Waiting) \in Nat
<1>1. Waiting \subseteq Waiters
  BY DEF Waiting
<1> QED
  BY <1>1, ThreadsAssumption, FS_Subset, FS_CardinalityType

LEMMA WaiterMoves ==
  ASSUME TypeOK, NEW w \in Waiters, NEW x, pc' = [pc EXCEPT ![w] = x]
  PROVE  /\ Cardinality(Waiting') \in Nat
         /\ Cardinality(Waiting') = Cardinality(Waiting) + Place(x) - Place(pc[w])
         /\ \A s \in Signallers : pc'[s] = pc[s]
<1>1. PICK p, next : p = pc /\ next = pc'
  OBVIOUS
<1>2. p \in [Waiters \cup Signallers -> Places] /\ next = [p EXCEPT ![w] = x]
  BY <1>1 DEF TypeOK
<1>3. /\ Cardinality(ParkedIn(next)) \in Nat
      /\ Cardinality(ParkedIn(next)) = Cardinality(ParkedIn(p)) + Place(x) - Place(p[w])
  BY <1>2, ParkedChange
<1>4. Waiting = ParkedIn(p) /\ Waiting' = ParkedIn(next)
  BY <1>1 DEF Waiting, ParkedIn, Parked
<1> QED
  BY <1>1, <1>3, <1>4, ThreadsAssumption DEF TypeOK

LEMMA SignallerMoves ==
  ASSUME TypeOK, NEW s \in Signallers, NEW x, pc' = [pc EXCEPT ![s] = x]
  PROVE  Waiting' = Waiting
BY ThreadsAssumption DEF TypeOK, Waiting

(* What PostsMatchWaiters says of what is there, and what it takes to keep *)
(* it.                                                                     *)
LEMMA PermitsThere ==
  ASSUME SemaphoreInv
  PROVE  /\ Permits = (IF m_count < 0 THEN 0 ELSE m_count) + m_sema + Total(toRelease)
         /\ Total(toRelease) \in Nat /\ Permits \in Nat
<1>1. Total(toRelease) \in Nat
  BY ThreadsAssumption, PairsFinite DEF SemaphoreInv, TypeOK
<1> QED
  BY <1>1, WaitingTyped DEF SemaphoreInv, TypeOK, PostsMatchWaiters, Permits

-----------------------------------------------------------------------------
(* What the steps do to the permits.                                       *)

(* w takes k permits that were there.                                      *)
Takes(w, k) ==
  /\ Permits' = Permits - k /\ k <= Permits
  /\ got' = [got EXCEPT ![w] = @ + k]
  /\ \A s \in Signallers : pc'[s] = pc[s]
  /\ UNCHANGED count

LEMMA WaitTakes ==
  ASSUME SemaphoreInv, NEW w \in Waiters, Wait(w)
  PROVE  SemaphoreInv' /\ \E k \in Nat : Takes(w, k)
<1>1. TypeOK /\ Posting /\ PostsMatchWaiters /\ pc[w] \in Places /\ w \in Waiters \cup Signallers
  BY DEF SemaphoreInv, TypeOK
<1>2. UNCHANGED <<max, count, toRelease>>
  BY DEF Wait, TryWait, FetchSub, SemaWait, TimedOut, LoadCount, TakeLate, Undo, UndoAgain, More,
         signallerVars, waiterVars
<1>3. Cardinality(Waiting) \in Nat /\ Total(toRelease) \in Nat /\ Total(toRelease') = Total(toRelease)
  BY <1>2, WaitingTyped, PermitsThere
<1>4. ASSUME NEW x \in {"call", "more", "undo", "undoing", "wait", "done"}, NEW k \in Nat, Goto(w, x),
             got' = [got EXCEPT ![w] = @ + k], m_count' \in Int, m_sema' \in Nat,
             Permits' = Permits - k, k <= Permits,
             Permits' = (IF m_count' < 0 THEN 0 ELSE m_count') + m_sema' + Total(toRelease)
      PROVE  SemaphoreInv' /\ Takes(w, k)
  <2>1. TypeOK'
    BY <1>1, <1>2, <1>4 DEF TypeOK, Goto, Places, Parked
  <2>2. \A s \in Signallers : pc'[s] = pc[s]
    BY <1>1, <1>4, WaiterMoves DEF Goto
  <2>3. Posting'
    BY <1>1, <1>2, <2>2 DEF Posting
  <2>4. Cardinality(Waiting') \in Nat
    BY <1>1, <1>4, WaiterMoves DEF Goto
  <2>5. PostsMatchWaiters'
    BY <1>3, <1>4, <2>4 DEF PostsMatchWaiters, Permits
  <2> QED
    BY <1>2, <1>4, <2>1, <2>2, <2>3, <2>5 DEF Takes, SemaphoreInv
<1>5. /\ Permits = (IF m_count < 0 THEN 0 ELSE m_count) + m_sema + Total(toRelease)
      /\ Permits = m_count + Cardinality(Waiting)
      /\ Permits \in Nat /\ m_count \in Int /\ m_sema \in Nat /\ max[w] \in Nat \ {0}
      /\ got = [got EXCEPT ![w] = @ + 0]
  BY <1>1, PermitsThere DEF Permits, TypeOK
<1>6. Permits' = m_count' + Cardinality(Waiting')
  BY DEF Permits
<1>7. ASSUME NEW x, Goto(w, x)
      PROVE  Cardinality(Waiting') = Cardinality(Waiting) + Place(x) - Place(pc[w])
  BY <1>1, <1>7, WaiterMoves DEF Goto
<1> USE DEF Place, Parked
(* tryWaitMany, also for the permits after the first.                      *)
<1>8. ASSUME NEW k \in Nat, k = 0 \/ k <= m_count, m_count' = m_count - k, Return(w, k),
             pc[w] \notin Parked, UNCHANGED m_sema
      PROVE  SemaphoreInv' /\ Takes(w, k)
  <2>1. PICK x \in {"call", "done"} : Goto(w, x)
    BY <1>8 DEF Return
  <2>2. Permits' = Permits - k
    BY <1>3, <1>5, <1>6, <1>7, <1>8, <2>1
  <2>3. k <= Permits
    BY <1>3, <1>5, <1>8
  <2>4. Permits' = (IF m_count' < 0 THEN 0 ELSE m_count') + m_sema' + Total(toRelease)
    BY <1>3, <1>5, <1>8, <2>2
  <2>5. got' = [got EXCEPT ![w] = @ + k] /\ m_count' \in Int /\ m_sema' \in Nat
    BY <1>5, <1>8 DEF Return
  <2> QED
    BY <1>4, <2>1, <2>2, <2>3, <2>4, <2>5
<1>9. CASE TryWait(w)
  <2>1. PICK k \in Nat : k = Smaller(m_count, max[w])
    BY <1>5, <1>9 DEF TryWait, Smaller
  <2>2. k <= m_count
    BY <1>5, <2>1 DEF Smaller
  <2> QED
    BY <1>8, <1>9, <2>1, <2>2 DEF TryWait
<1>10. CASE More(w)
  <2>1. PICK k \in Nat : k = IF m_count > 0 THEN Smaller(m_count, max[w] - 1) ELSE 0
    BY <1>5 DEF Smaller
  <2>2. k = 0 \/ k <= m_count
    BY <1>5, <2>1 DEF Smaller
  <2> QED
    BY <1>8, <1>10, <2>1, <2>2 DEF More
<1>11. CASE FetchSub(w)
  <2>1. CASE m_count > 0
    <3>1. Goto(w, "more") /\ got' = [got EXCEPT ![w] = @ + 1] /\ pc[w] = "call"
          /\ m_count' = m_count - 1 /\ m_sema' = m_sema
      BY <1>11, <2>1 DEF FetchSub
    <3>2. Permits' = Permits - 1 /\ 1 <= Permits
          /\ Permits' = (IF m_count' < 0 THEN 0 ELSE m_count') + m_sema' + Total(toRelease)
      BY <1>3, <1>5, <1>6, <1>7, <2>1, <3>1
    <3>3. m_count' \in Int /\ m_sema' \in Nat
      BY <1>5, <3>1
    <3>4. SemaphoreInv' /\ Takes(w, 1)
      BY <1>4, <3>1, <3>2, <3>3
    <3> QED
      BY <3>4
  <2>2. CASE m_count <= 0
    <3>1. PICK x \in {"undo", "wait"} : Goto(w, x)
      BY <1>5, <1>11, <2>2 DEF FetchSub
    <3>2. got' = got /\ pc[w] = "call" /\ m_count' = m_count - 1 /\ m_sema' = m_sema
      BY <1>5, <1>11, <2>2 DEF FetchSub
    <3>3. Permits' = Permits - 0
          /\ Permits' = (IF m_count' < 0 THEN 0 ELSE m_count') + m_sema' + Total(toRelease)
      BY <1>3, <1>5, <1>6, <1>7, <2>2, <3>1, <3>2
    <3>4. got' = [got EXCEPT ![w] = @ + 0] /\ 0 <= Permits /\ m_count' \in Int /\ m_sema' \in Nat
      BY <1>5, <3>2
    <3>5. SemaphoreInv' /\ Takes(w, 0)
      BY <1>4, <3>1, <3>3, <3>4
    <3> QED
      BY <3>5
  <2> QED
    BY <1>5, <2>1, <2>2
<1>12. CASE SemaWait(w) \/ TakeLate(w)
  <2>1. /\ pc[w] \in Parked /\ Goto(w, "more") /\ got' = [got EXCEPT ![w] = @ + 1]
        /\ m_sema > 0 /\ m_sema' = m_sema - 1 /\ m_count' = m_count
    BY <1>12 DEF SemaWait, TakeLate
  <2>2. Permits' = Permits - 1 /\ 1 <= Permits
        /\ Permits' = (IF m_count' < 0 THEN 0 ELSE m_count') + m_sema' + Total(toRelease)
    BY <1>3, <1>5, <1>6, <1>7, <2>1
  <2>3. m_count' \in Int /\ m_sema' \in Nat
    BY <1>5, <2>1
  <2>4. SemaphoreInv' /\ Takes(w, 1)
    BY <1>4, <2>1, <2>2, <2>3
  <2> QED
    BY <2>4
<1>13. CASE TimedOut(w) \/ LoadCount(w) \/ UndoAgain(w)
  <2>1. /\ pc[w] \in Parked /\ (Goto(w, "undo") \/ Goto(w, "undoing")) /\ got' = got
        /\ m_sema' = m_sema /\ m_count' = m_count
    BY <1>13 DEF TimedOut, LoadCount, UndoAgain, waiterVars
  <2>2. PICK x \in {"undo", "undoing"} : Goto(w, x)
    BY <2>1
  <2>3. Permits' = Permits - 0
        /\ Permits' = (IF m_count' < 0 THEN 0 ELSE m_count') + m_sema' + Total(toRelease)
    BY <1>3, <1>5, <1>6, <1>7, <2>1, <2>2
  <2>4. got' = [got EXCEPT ![w] = @ + 0] /\ 0 <= Permits /\ m_count' \in Int /\ m_sema' \in Nat
    BY <1>5, <2>1, <2>2
  <2>5. SemaphoreInv' /\ Takes(w, 0)
    BY <1>4, <2>1, <2>2, <2>3, <2>4
  <2> QED
    BY <2>5
<1>14. CASE Undo(w)
  <2>1. PICK x \in {"call", "done"} : Goto(w, x)
    BY <1>14 DEF Undo, Return
  <2>2. /\ pc[w] = "undoing" /\ m_count < 0 /\ m_count' = m_count + 1 /\ m_sema' = m_sema
        /\ got' = [got EXCEPT ![w] = @ + 0]
    BY <1>14 DEF Undo, Return
  <2>3. Permits' = Permits - 0
        /\ Permits' = (IF m_count' < 0 THEN 0 ELSE m_count') + m_sema' + Total(toRelease)
    BY <1>3, <1>5, <1>6, <1>7, <2>1, <2>2
  <2>4. got' = [got EXCEPT ![w] = @ + 0] /\ 0 <= Permits /\ m_count' \in Int /\ m_sema' \in Nat
    BY <1>5, <2>1, <2>2
  <2>5. SemaphoreInv' /\ Takes(w, 0)
    BY <1>4, <2>1, <2>2, <2>3, <2>4
  <2> QED
    BY <2>5
<1> QED
  BY <1>9, <1>10, <1>11, <1>12, <1>13, <1>14 DEF Wait

(* A signaller either adds its permits, once, or makes a post for one that *)
(* was added.                                                              *)
Adds(s, k) ==
  /\ Permits' = Permits + k
  /\ k = IF pc[s] = "call" THEN count[s] ELSE 0
  /\ pc'[s] # "call" /\ \A t \in Signallers \ {s} : pc'[t] = pc[t]
  /\ \A w \in Waiters : pc'[w] = pc[w]
  /\ UNCHANGED <<got, count>>

LEMMA SignalAdds ==
  ASSUME SemaphoreInv, NEW s \in Signallers, Signal(s)
  PROVE  SemaphoreInv' /\ \E k \in Nat : Adds(s, k)
<1>1. TypeOK /\ Posting /\ PostsMatchWaiters /\ pc[s] \in Places /\ s \in Waiters \cup Signallers
  BY DEF SemaphoreInv, TypeOK
<1>2. /\ Permits = (IF m_count < 0 THEN 0 ELSE m_count) + m_sema + Total(toRelease)
      /\ Permits = m_count + Cardinality(Waiting)
      /\ Permits \in Nat /\ m_count \in Int /\ m_sema \in Nat /\ Total(toRelease) \in Nat
      /\ toRelease[s] \in Nat /\ count[s] \in Nat \ {0} /\ Cardinality(Waiting) \in Nat
  BY <1>1, PermitsThere, WaitingTyped DEF Permits, TypeOK
<1>3. ASSUME NEW x \in {"post", "done"}, Goto(s, x), NEW r \in Nat, NEW k \in Nat,
             toRelease' = [toRelease EXCEPT ![s] = r], r > 0 <=> x = "post",
             k = (IF pc[s] = "call" THEN count[s] ELSE 0),
             m_count' = m_count + k, m_sema' \in Nat,
             Permits + k = (IF m_count' < 0 THEN 0 ELSE m_count') + m_sema' + Total(toRelease) + r - toRelease[s],
             UNCHANGED <<max, got, count>>
      PROVE  SemaphoreInv' /\ Adds(s, k)
  <2>1. TypeOK'
    BY <1>1, <1>2, <1>3 DEF TypeOK, Goto, Places, Parked
  <2>2. /\ pc'[s] = x /\ \A t \in Signallers \ {s} : pc'[t] = pc[t]
        /\ \A w \in Waiters : pc'[w] = pc[w]
    BY <1>1, <1>3, ThreadsAssumption DEF TypeOK, Goto
  <2>3. Posting'
    BY <1>1, <1>3, <2>2 DEF Posting, TypeOK
  <2>4. Waiting' = Waiting
    BY <1>1, <1>3, SignallerMoves DEF Goto
  <2>5. Permits' = Permits + k
    BY <1>2, <1>3, <2>4 DEF Permits
  <2>6. Total(toRelease') = Total(toRelease) + r - toRelease[s]
    <3>1. /\ toRelease \in [Signallers -> Nat] /\ toRelease' \in [Signallers -> Nat] /\ toRelease'[s] = r
          /\ \A t \in Signallers \ {s} : toRelease[t] = toRelease'[t]
      BY <1>1, <1>3, <2>1 DEF TypeOK
    <3> QED
      BY <3>1, TotalChange, ThreadsAssumption
  <2>7. PostsMatchWaiters'
    <3>1. Permits' = (IF m_count' < 0 THEN 0 ELSE m_count') + m_sema' + Total(toRelease')
      BY <1>2, <1>3, <2>5, <2>6
    <3>2. Permits' = m_count' + Cardinality(Waiting') /\ Cardinality(Waiting') \in Nat
      BY <1>2, <2>4 DEF Permits
    <3>3. Total(toRelease') \in Nat /\ m_count' \in Int /\ m_sema' \in Nat
      BY <1>2, <1>3, <2>1, PairsFinite, ThreadsAssumption DEF TypeOK
    <3> QED
      BY <3>1, <3>2, <3>3 DEF PostsMatchWaiters
  <2> QED
    BY <1>3, <2>1, <2>2, <2>3, <2>5, <2>7 DEF Adds, SemaphoreInv
<1>4. CASE FetchAdd(s)
  <2>1. PICK r \in Nat : r = Released(m_count, count[s])
    BY <1>2 DEF Released, Smaller
  <2>2. toRelease[s] = 0 /\ pc[s] = "call"
    BY <1>1, <1>2, <1>4 DEF Posting, FetchAdd
  <2>3. PICK k \in Nat : k = count[s]
    BY <1>2
  <2>4. Permits + k = (IF m_count' < 0 THEN 0 ELSE m_count') + m_sema' + Total(toRelease) + r - toRelease[s]
    BY <1>2, <1>4, <2>1, <2>2, <2>3 DEF FetchAdd, Released, Smaller
  <2>5. PICK x \in {"post", "done"} : Goto(s, x) /\ (r > 0 <=> x = "post")
    BY <1>4, <2>1 DEF FetchAdd
  <2>6. /\ toRelease' = [toRelease EXCEPT ![s] = r] /\ m_count' = m_count + k /\ m_sema' \in Nat
        /\ UNCHANGED <<max, got, count>>
    BY <1>2, <1>4, <2>1, <2>3 DEF FetchAdd, waiterVars
  <2>7. k = IF pc[s] = "call" THEN count[s] ELSE 0
    BY <2>2, <2>3
  <2>8. SemaphoreInv' /\ Adds(s, k)
    BY <1>3, <2>4, <2>5, <2>6, <2>7
  <2> QED
    BY <2>8
<1>5. CASE Post(s)
  <2>1. pc[s] = "post" /\ toRelease[s] > 0
    BY <1>1, <1>5 DEF Posting, Post
  <2>2. PICK r \in Nat : r = toRelease[s] - 1
    BY <1>2, <2>1
  <2>3. PICK x \in {"post", "done"} : Goto(s, x) /\ (r > 0 <=> x = "post")
    BY <1>2, <1>5, <2>1, <2>2 DEF Post
  <2>4. /\ toRelease' = [toRelease EXCEPT ![s] = r] /\ m_count' = m_count + 0 /\ m_sema' = m_sema + 1 /\ m_sema' \in Nat
        /\ UNCHANGED <<max, got, count>>
    BY <1>2, <1>5, <2>2 DEF Post, waiterVars
  <2>5. Permits + 0 = (IF m_count' < 0 THEN 0 ELSE m_count') + m_sema' + Total(toRelease) + r - toRelease[s]
    <3>1. m_count' = m_count /\ m_sema' = m_sema + 1 /\ toRelease[s] = r + 1
      BY <1>2, <2>2, <2>4
    <3>2. PICK k \in Nat : k = IF m_count < 0 THEN 0 ELSE m_count
      BY <1>2
    <3>3. Permits = k + m_sema + Total(toRelease)
      BY <1>2, <3>2
    <3>4. Permits = k + (m_sema + 1) + Total(toRelease) + r - (r + 1)
      <4>1. m_sema \in Nat /\ Total(toRelease) \in Nat
        BY <1>2
      <4> QED
        BY <3>3, <4>1
    <3>5. (IF m_count' < 0 THEN 0 ELSE m_count') = k /\ Permits + 0 = Permits
      BY <1>2, <3>1, <3>2
    <3> QED
      BY <3>1, <3>4, <3>5
  <2>6. 0 = IF pc[s] = "call" THEN count[s] ELSE 0
    BY <2>1
  <2>7. SemaphoreInv' /\ Adds(s, 0)
    BY <1>3, <2>3, <2>4, <2>5, <2>6
  <2> QED
    BY <2>7
<1> QED
  BY <1>4, <1>5 DEF Signal

-----------------------------------------------------------------------------
(* The inductive invariant of the queue: signal follows enqueue, a         *)
(* consumer has no more items than permits, and the items are counted.     *)
Owing == [w \in Waiters |-> Owed(w)]

Used == /\ items \in Int
        /\ enqueued \subseteq Signallers
        /\ taken \in [Waiters -> Nat] /\ \A w \in Waiters : taken[w] <= got[w]
        /\ \A s \in Signallers \ enqueued : pc[s] = "call"

Balanced == items = Permits + Total(Owing) + Total(Unsignalled)

IInv == SemaphoreInv /\ Used /\ Balanced

LEMMA SumsTyped ==
  /\ TypeOK /\ Used => /\ Owing \in [Waiters -> Nat] /\ Total(Owing) \in Nat
                       /\ Unsignalled \in [Signallers -> Nat] /\ Total(Unsignalled) \in Nat
  /\ TypeOK' /\ Used' => /\ Owing' \in [Waiters -> Nat] /\ Total(Owing') \in Nat
                         /\ Unsignalled' \in [Signallers -> Nat] /\ Total(Unsignalled') \in Nat
<1>1. ASSUME TypeOK, Used PROVE Owing \in [Waiters -> Nat] /\ Unsignalled \in [Signallers -> Nat]
  BY <1>1 DEF TypeOK, Used, Owing, Owed, Unsignalled
<1>2. ASSUME TypeOK', Used' PROVE Owing' \in [Waiters -> Nat] /\ Unsignalled' \in [Signallers -> Nat]
  BY <1>2 DEF TypeOK, Used, Owing, Owed, Unsignalled
<1> QED
  BY <1>1, <1>2, PairsFinite, ThreadsAssumption

(* What is owed to w, or is about to be signalled by s, changes.           *)
LEMMA OwingChange ==
  ASSUME TypeOK, Used, TypeOK', Used', NEW w \in Waiters,
         \A v \in Waiters \ {w} : Owing'[v] = Owing[v]
  PROVE  Total(Owing') = Total(Owing) + Owing'[w] - Owing[w]
<1>1. PICK f, g : f = Owing /\ g = Owing'
  OBVIOUS
<1>2. f \in [Waiters -> Nat] /\ g \in [Waiters -> Nat] /\ \A v \in Waiters \ {w} : f[v] = g[v]
  BY <1>1, SumsTyped
<1>3. Total(g) = Total(f) + g[w] - f[w]
  BY <1>2, TotalChange, ThreadsAssumption
<1> QED
  BY <1>1, <1>3

LEMMA UnsignalledChange ==
  ASSUME TypeOK, Used, TypeOK', Used', NEW s \in Signallers,
         \A t \in Signallers \ {s} : Unsignalled'[t] = Unsignalled[t]
  PROVE  Total(Unsignalled') = Total(Unsignalled) + Unsignalled'[s] - Unsignalled[s]
<1>1. PICK f, g : f = Unsignalled /\ g = Unsignalled'
  OBVIOUS
<1>2. f \in [Signallers -> Nat] /\ g \in [Signallers -> Nat] /\ \A t \in Signallers \ {s} : f[t] = g[t]
  BY <1>1, SumsTyped
<1>3. Total(g) = Total(f) + g[s] - f[s]
  BY <1>2, TotalChange, ThreadsAssumption
<1> QED
  BY <1>1, <1>3

LEMMA SemaphoreInit == Init => SemaphoreInv
<1> SUFFICES ASSUME Init PROVE SemaphoreInv
  OBVIOUS
<1> USE DEF Init
<1>1. TypeOK
  BY BoundsAssumption DEF TypeOK, Places, Parked
<1>2. Posting
  BY ThreadsAssumption DEF Posting
<1>3. Waiting = {} /\ Total(toRelease) = 0
  BY TotalOfZeros DEF Waiting
<1>4. PostsMatchWaiters
  BY <1>3, FS_EmptySet, BoundsAssumption DEF PostsMatchWaiters
<1> QED
  BY <1>1, <1>2, <1>4 DEF SemaphoreInv

LEMMA InitIInv == BlockingInit => IInv
<1> SUFFICES ASSUME BlockingInit PROVE IInv
  OBVIOUS
<1>1. Init /\ SemaphoreInv
  BY SemaphoreInit DEF BlockingInit
<1>2. Used
  BY <1>1, BoundsAssumption, ThreadsAssumption DEF BlockingInit, Init, Used
<1>3. Waiting = {} /\ Permits = Initial
  <2>1. Waiting = {}
    BY <1>1 DEF Init, Waiting
  <2> QED
    BY <1>1, <2>1, FS_EmptySet, BoundsAssumption DEF Init, Permits
<1>4. Total(Owing) = 0
  <2>1. \A w \in DOMAIN Owing : Owing[w] = 0
    BY <1>1 DEF BlockingInit, Init, Owing, Owed
  <2> QED
    BY <2>1, TotalOfZeros
<1>5. Total(Unsignalled) = 0
  <2>1. \A s \in DOMAIN Unsignalled : Unsignalled[s] = 0
    BY DEF BlockingInit, Unsignalled
  <2> QED
    BY <2>1, TotalOfZeros
<1> QED
  BY <1>1, <1>2, <1>3, <1>4, <1>5, BoundsAssumption DEF BlockingInit, Balanced, IInv

(* Every step keeps the invariant; those of the semaphore are the only     *)
(* ones that move its permits.                                             *)
LEMMA NextIInv == IInv /\ [BlockingNext]_blockingVars => IInv'
<1> SUFFICES ASSUME IInv, [BlockingNext]_blockingVars PROVE IInv'
  OBVIOUS
<1>1. TypeOK /\ SemaphoreInv /\ Used /\ Balanced
  BY DEF IInv, SemaphoreInv
<1>2. /\ Permits \in Nat /\ items \in Int
      /\ Total(Owing) \in Nat /\ Total(Unsignalled) \in Nat
      /\ items = Permits + Total(Owing) + Total(Unsignalled)
      /\ \A w \in Waiters : got[w] \in Nat /\ taken[w] \in Nat /\ Owing[w] = got[w] - taken[w]
      /\ \A s \in Signallers : count[s] \in Nat
  BY <1>1, PermitsThere, SumsTyped DEF Used, Balanced, TypeOK, Owing, Owed
<1>3. ASSUME UNCHANGED vars PROVE SemaphoreInv' /\ TypeOK' /\ Permits' = Permits
  BY <1>1, <1>3 DEF vars, waiterVars, signallerVars, SemaphoreInv, TypeOK, Posting, PostsMatchWaiters,
       Permits, Waiting
<1>4. ASSUME NEW s \in Signallers, Enqueue(s) PROVE IInv'
  <2>1. UNCHANGED <<vars, room, taken>> /\ SemaphoreInv' /\ TypeOK' /\ Permits' = Permits
    BY <1>3, <1>4 DEF Enqueue
  <2>2. UNCHANGED <<pc, got, count, Owing>>
    BY <2>1 DEF vars, waiterVars, signallerVars, Owing, Owed
  <2>3. Used'
    BY <1>1, <1>2, <1>4, <2>1, <2>2 DEF Used, Enqueue
  <2>4. /\ \A t \in Signallers \ {s} : Unsignalled'[t] = Unsignalled[t]
        /\ Unsignalled[s] = 0 /\ Unsignalled'[s] = IF s \in room THEN count[s] ELSE 0
    BY <1>1, <1>4, <2>1, <2>2 DEF Used, Enqueue, Unsignalled
  <2>5. Total(Unsignalled') = Total(Unsignalled) + Unsignalled'[s] - Unsignalled[s]
    BY <1>1, <2>1, <2>3, <2>4, UnsignalledChange
  <2>6. items' = IF s \in room THEN items + count[s] ELSE items
    BY <1>4 DEF Enqueue
  <2>7. Balanced'
    BY <1>2, <2>1, <2>2, <2>4, <2>5, <2>6 DEF Balanced
  <2> QED
    BY <2>1, <2>3, <2>7 DEF IInv
<1>5. ASSUME NEW s \in Signallers, SignalItems(s) PROVE IInv'
  <2>1. PICK k \in Nat : SemaphoreInv' /\ Adds(s, k)
    BY <1>1, <1>5, SignalAdds DEF SignalItems
  <2>2. s \in enqueued \cap room /\ UNCHANGED <<items, room, enqueued, taken>>
    BY <1>5 DEF SignalItems, innerVars
  <2>3. Used'
    BY <1>1, <2>1, <2>2 DEF Used, Adds
  <2>4. UNCHANGED Owing
    BY <2>1, <2>2 DEF Adds, Owing, Owed
  <2>5. /\ \A t \in Signallers \ {s} : Unsignalled'[t] = Unsignalled[t]
        /\ Unsignalled[s] = k /\ Unsignalled'[s] = 0
    BY <2>1, <2>2 DEF Adds, Unsignalled
  <2>6. Total(Unsignalled') = Total(Unsignalled) - k
    <3>1. Total(Unsignalled') = Total(Unsignalled) + Unsignalled'[s] - Unsignalled[s]
      BY <1>1, <2>1, <2>3, <2>5, UnsignalledChange DEF SemaphoreInv
    <3> QED
      BY <1>2, <2>5, <3>1
  <2>7. Balanced'
    BY <1>2, <2>1, <2>2, <2>4, <2>6 DEF Balanced, Adds
  <2> QED
    BY <2>1, <2>3, <2>7 DEF IInv
<1>6. ASSUME NEW w \in Waiters, Wait(w), UNCHANGED innerVars PROVE IInv'
  <2>1. PICK k \in Nat : SemaphoreInv' /\ Takes(w, k)
    BY <1>1, <1>6, WaitTakes
  <2>2. /\ UNCHANGED <<items, room, enqueued, taken, count>> /\ \A s \in Signallers : pc'[s] = pc[s]
        /\ \A v \in Waiters : got'[v] = IF v = w THEN got[v] + k ELSE got[v]
    BY <1>1, <1>6, <2>1 DEF innerVars, Takes, TypeOK
  <2>3. Used'
    BY <1>1, <1>2, <2>2 DEF Used
  <2>4. Unsignalled' = Unsignalled
    BY <2>2 DEF Unsignalled
  <2>5. /\ \A v \in Waiters \ {w} : Owing'[v] = Owing[v]
        /\ Owing'[w] = Owing[w] + k
    BY <1>2, <2>2 DEF Owing, Owed
  <2>6. Total(Owing') = Total(Owing) + k
    <3>1. Total(Owing') = Total(Owing) + Owing'[w] - Owing[w]
      BY <1>1, <2>1, <2>3, <2>5, OwingChange DEF SemaphoreInv
    <3> QED
      BY <1>2, <2>5, <3>1
  <2>7. Balanced'
    BY <1>2, <2>1, <2>2, <2>4, <2>6 DEF Balanced, Takes
  <2> QED
    BY <2>1, <2>3, <2>7 DEF IInv
<1>7. ASSUME NEW w \in Waiters, Dequeue(w) PROVE IInv'
  <2>1. UNCHANGED <<vars, room, enqueued>> /\ SemaphoreInv' /\ TypeOK' /\ Permits' = Permits
    BY <1>3, <1>7 DEF Dequeue
  <2>2. UNCHANGED <<pc, got, count, Unsignalled>>
    BY <2>1 DEF vars, waiterVars, signallerVars, Unsignalled
  <2>3. PICK k \in 1 .. Smaller(Owed(w), items) :
          items' = items - k /\ taken' = [taken EXCEPT ![w] = @ + k]
    BY <1>7 DEF Dequeue
  <2>4. k \in Nat /\ k <= got[w] - taken[w]
    BY <1>2, <2>3 DEF Smaller, Owed
  <2>5. \A v \in Waiters : taken'[v] = IF v = w THEN taken[v] + k ELSE taken[v]
    BY <1>1, <2>3 DEF Used
  <2>6. Used'
    <3>1. taken' \in [Waiters -> Nat] /\ items' \in Int
      BY <1>1, <1>2, <2>3, <2>4 DEF Used
    <3> QED
      BY <1>1, <1>2, <2>1, <2>2, <2>4, <2>5, <3>1 DEF Used
  <2>7. /\ \A v \in Waiters \ {w} : Owing'[v] = Owing[v]
        /\ Owing'[w] = Owing[w] - k
    BY <1>2, <2>2, <2>4, <2>5 DEF Owing, Owed
  <2>8. Total(Owing') = Total(Owing) - k
    <3>1. Total(Owing') = Total(Owing) + Owing'[w] - Owing[w]
      BY <1>1, <2>1, <2>6, <2>7, OwingChange
    <3> QED
      BY <1>2, <2>4, <2>7, <3>1
  <2>9. Balanced'
    BY <1>2, <2>1, <2>2, <2>3, <2>4, <2>8 DEF Balanced
  <2> QED
    BY <2>1, <2>6, <2>9 DEF IInv
<1>8. CASE UNCHANGED blockingVars
  <2>1. UNCHANGED <<vars, items, room, enqueued, taken>>
    BY <1>8 DEF blockingVars, innerVars
  <2>2. SemaphoreInv' /\ Permits' = Permits
    BY <1>3, <2>1
  <2>3. UNCHANGED <<pc, got, count, Unsignalled, Owing>>
    BY <2>1 DEF vars, waiterVars, signallerVars, Unsignalled, Owing, Owed
  <2> QED
    BY <1>1, <2>1, <2>2, <2>3 DEF IInv, Used, Balanced
<1> QED
  BY <1>4, <1>5, <1>6, <1>7, <1>8 DEF BlockingNext, WaitDequeue

(* The invariant of every behaviour.                                       *)
THEOREM Invariance == BlockingSpec => []IInv
<1>1. BlockingInit => IInv
  BY InitIInv
<1>2. IInv /\ [BlockingNext]_blockingVars => IInv'
  BY NextIInv
<1> QED
  BY <1>1, <1>2, PTL DEF BlockingSpec

(* BlockingConcurrentQueue: there is an item for every permit that can be  *)
(* taken or was taken and not used, and the two halves of                  *)
(* LightweightSemaphore agree on the permits, however waits time out while *)
(* they are signalled.                                                     *)
THEOREM ItemsForPermits == BlockingSpec => []ItemForEveryPermit
<1>1. IInv => ItemForEveryPermit
  BY DEF IInv, SemaphoreInv, Balanced, Permits, Owing, ItemForEveryPermit
<1> QED
  BY <1>1, Invariance, PTL

(* LightweightSemaphore, with the decrements of the threads that wait      *)
(* given back to m_count, is a counting semaphore: signal adds permits     *)
(* once, wait takes permits that are there, and a wait that times out      *)
(* takes none.                                                             *)
THEOREM Refinement == BlockingSpec => ImplementsSemaphore
<1>1. BlockingInit => Abstract!Init
  <2> SUFFICES ASSUME BlockingInit PROVE Abstract!Init
    OBVIOUS
  <2>1. Init /\ Waiting = {}
    BY DEF BlockingInit, Init, Waiting
  <2> QED
    BY <2>1, FS_EmptySet, BoundsAssumption DEF Init, Abstract!Init
<1>2. IInv /\ [BlockingNext]_blockingVars => [Abstract!Next]_Abstract!vars
  <2> SUFFICES ASSUME IInv, [BlockingNext]_blockingVars PROVE [Abstract!Next]_Abstract!vars
    OBVIOUS
  <2>1. TypeOK /\ SemaphoreInv /\ Permits \in Nat
    BY PermitsThere DEF IInv, SemaphoreInv
  <2>2. ASSUME UNCHANGED vars PROVE UNCHANGED Abstract!vars
    BY <2>2 DEF vars, waiterVars, Abstract!vars, Waiting
  <2>3. ASSUME NEW s \in Signallers, Signal(s) PROVE [Abstract!Next]_Abstract!vars
    <3>1. PICK k \in Nat : Adds(s, k)
      BY <2>1, <2>3, SignalAdds
    <3>2. Permits' = Permits + k /\ UNCHANGED got
      BY <3>1 DEF Adds
    <3>3. CASE k = 0
      BY <2>1, <3>2, <3>3 DEF Abstract!vars, Permits
    <3>4. CASE k > 0
      <4>1. Permits' > Permits
        BY <2>1, <3>2, <3>4
      <4> QED
        BY <3>2, <4>1 DEF Abstract!Next, Abstract!Signal, Permits
    <3> QED
      BY <3>3, <3>4
  <2>4. ASSUME NEW w \in Waiters, Wait(w) PROVE [Abstract!Next]_Abstract!vars
    <3>1. PICK k \in Nat : Takes(w, k)
      BY <2>1, <2>4, WaitTakes
    <3>2. Permits' = Permits - k /\ k <= Permits /\ got' = [got EXCEPT ![w] = @ + k]
          /\ got'[w] = got[w] + k /\ got[w] \in Nat
      BY <2>1, <3>1 DEF Takes, TypeOK
    <3>3. CASE k = 0
      <4>1. got' = got
        BY <2>1, <3>2, <3>3 DEF TypeOK
      <4>2. Permits' = Permits
        BY <2>1, <3>2, <3>3
      <4> QED
        BY <4>1, <4>2 DEF Abstract!vars, Permits
    <3>4. CASE k > 0
      <4>1. got'[w] > got[w] /\ got' = [got EXCEPT ![w] = got'[w]]
        <5>1. got'[w] = got[w] + k /\ got' = [got EXCEPT ![w] = got[w] + k]
          BY <3>2
        <5>2. got' = [got EXCEPT ![w] = got'[w]]
          BY <5>1, Zenon
        <5> QED
          BY <3>2, <3>4, <5>1, <5>2
      <4>2. Permits' = Permits - (got'[w] - got[w]) /\ Permits' >= 0
        BY <2>1, <3>2
      <4>3. Abstract!Take(w)
        BY <4>1, <4>2 DEF Abstract!Take, Permits
      <4> QED
        BY <4>3 DEF Abstract!Next
    <3> QED
      BY <3>3, <3>4
  <2>5. CASE \E s \in Signallers : Enqueue(s)
    BY <2>2, <2>5 DEF Enqueue
  <2>6. CASE \E w \in Waiters : Dequeue(w)
    BY <2>2, <2>6 DEF Dequeue
  <2>7. CASE UNCHANGED blockingVars
    BY <2>2, <2>7 DEF blockingVars
  <2> QED
    BY <2>3, <2>4, <2>5, <2>6, <2>7 DEF BlockingNext, SignalItems, WaitDequeue
<1> QED
  BY <1>1, <1>2, Invariance, PTL DEF BlockingSpec, ImplementsSemaphore, Abstract!Spec
=============================================================================
