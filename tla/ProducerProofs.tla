--------------------------- MODULE ProducerProofs ---------------------------
(***************************************************************************)
(* Proofs about Producer, for any finite set of consumers, any calls and   *)
(* any bounds.  The first part is about the four counters by which         *)
(* consumers claim items of a producer of either kind; its inductive       *)
(* invariant is IInv.  The second part is about the blocks of an implicit  *)
(* producer, from which they take what they have claimed, while the        *)
(* producer inserts blocks and undoes and replaces the index: its          *)
(* inductive invariant is IPlaces, next to IInv.                           *)
(***************************************************************************)
EXTENDS Producer, QueueLemmas

-----------------------------------------------------------------------------
(* The inductive invariant.                                                *)

Claiming == {"count", "recheck", "countout", "claim"}
Dequeuing == {"locate", "key", "move", "empty", "unlink", "free"}
Some     == 1 .. MaxDequeue

TypeOK ==
  /\ tailIndex \in Nat /\ headIndex \in Nat /\ headSees \in Nat
  /\ dequeueOptimisticCount \in Nat /\ dequeueOvercommit \in Nat
  /\ pc \in [Consumers -> {"idle"} \cup Claiming \cup Dequeuing]
  /\ overcommit \in [Consumers -> Nat] /\ desiredCount \in [Consumers -> Nat]
  /\ myDequeueCount \in [Consumers -> Nat] /\ actualCount \in [Consumers -> Nat]
  /\ last \in [Consumers -> Nat] /\ sees \in [Consumers -> Nat]
  /\ "count" \in DOMAIN op /\ op.count \in Nat
  /\ isExplicit \in BOOLEAN

(* What the locals of dequeue_bulk are good for at each step.              *)
Locals(c) ==
  /\ pc[c] \in {"count", "recheck"} => desiredCount[c] \in Some
  /\ pc[c] = "count"    => overcommit[c] <= dequeueOvercommit
  /\ pc[c] = "recheck"  => myDequeueCount[c] < dequeueOptimisticCount
  /\ pc[c] = "countout" => desiredCount[c] \in Some /\ actualCount[c] < desiredCount[c]
  /\ pc[c] = "claim"    => actualCount[c] \in Some /\ desiredCount[c] = actualCount[c]
  /\ pc[c] \notin Dequeuing => last[c] = 0
  /\ last[c] <= sees[c] /\ sees[c] <= tailIndex

(* No two have counted themselves in at the same count.                    *)
InTurn == \A c, d \in Consumers :
            pc[c] = "recheck" /\ pc[d] = "recheck" /\ myDequeueCount[c] = myDequeueCount[d] => c = d

(* The first conjunct of ClaimsBacked.                                     *)
Counted == dequeueOptimisticCount - dequeueOvercommit
             = headIndex + CountOf(desiredCount, {"recheck", "countout", "claim"})

(* What each has been promised out of the items below u, when everybody   *)
(* who was counted in before m gets all that was asked for.                *)
Promised(u, m) ==
  [c \in Consumers |->
     IF pc[c] \in {"countout", "claim"} /\ sees[c] <= u THEN actualCount[c]
     ELSE IF pc[c] = "recheck" /\ myDequeueCount[c] < m THEN desiredCount[c]
     ELSE 0]

(* There is a point up to which all are served from the items that were    *)
(* there when someone after them looked; whoever comes after that point    *)
(* has a number that leaves enough for those before.                       *)
Backed(u, m) ==
  /\ headIndex + Total(Promised(u, m)) <= Larger(headSees, u)
  /\ \A c \in Consumers : pc[c] = "recheck" /\ m <= myDequeueCount[c] =>
       headIndex + Total(Promised(u, myDequeueCount[c])) <= myDequeueCount[c] - overcommit[c]

AllBacked == \A u \in Nat : \E m \in 0 .. dequeueOptimisticCount : Backed(u, m)

IInv == /\ TypeOK /\ (\A c \in Consumers : Locals(c)) /\ InTurn
        /\ Counted /\ headSees <= tailIndex /\ AllBacked

-----------------------------------------------------------------------------
(* Sums over the consumers.                                                *)

Shares == [Consumers -> Nat]

LEMMA TotalTyped == ASSUME NEW f \in Shares PROVE Total(f) \in Nat
BY ConsumersAssumption, PairsFinite DEF Shares

LEMMA SharesMonotone ==
  ASSUME NEW f \in Shares, NEW g \in Shares, \A c \in Consumers : f[c] <= g[c]
  PROVE  Total(f) <= Total(g)
BY ConsumersAssumption, TotalMonotone DEF Shares

LEMMA SharesChange ==
  ASSUME NEW f \in Shares, NEW g \in Shares, NEW c \in Consumers,
         \A d \in Consumers \ {c} : f[d] = g[d]
  PROVE  Total(g) = Total(f) + g[c] - f[c]
BY ConsumersAssumption, TotalChange DEF Shares

LEMMA SharesAtLeast == ASSUME NEW f \in Shares, NEW c \in Consumers PROVE f[c] <= Total(f)
BY ConsumersAssumption, TotalAtLeast DEF Shares

-----------------------------------------------------------------------------
(* Steps of either kind of producer.                                       *)

LEMMA ExplicitClaims == ASSUME NEW c, E!ClaimStep(c) PROVE ClaimStep(c)
<1> USE DEF E!Set, E!Goto, E!shared, E!Acquire, E!There, E!Smaller, E!Larger, Set, Goto, shared, Acquire, There, Smaller, Larger,
     E!notClaim, E!findVars, E!blockVars, notClaim, findVars, blockVars
<1> QED
  BY DEF E!ClaimStep, E!Peek, E!PeekStale, E!CountIn, E!Recheck, E!RecheckStale, E!CountOut, E!Claim,
     ClaimStep, Peek, PeekStale, CountIn, Recheck, RecheckStale, CountOut, Claim

-----------------------------------------------------------------------------
(* What a step of a claim does.                                            *)

Looks(c) == \/ \E max \in Some : Peek(c, max)
            \/ \E max \in Some, o \in 0 .. dequeueOvercommit : PeekStale(c, max, o)
Acquires(c) == \E tail \in 0 .. tailIndex : Acquire(c, tail)

LEMMA ClaimCases ==
  ASSUME TypeOK, NEW c \in Consumers, ClaimStep(c)
  PROVE  UNCHANGED op /\ (Looks(c) \/ CountIn(c) \/ Acquires(c) \/ CountOut(c) \/ Claim(c))
<1>1. tailIndex \in 0 .. tailIndex
  BY DEF TypeOK
<1>2. Recheck(c) \/ (\E tail \in 0 .. tailIndex : RecheckStale(c, tail)) => Acquires(c)
  BY <1>1 DEF Recheck, RecheckStale, Acquires
<1> QED
  BY <1>2 DEF ClaimStep, notClaim, Looks, Some

LEMMA LooksFacts ==
  ASSUME TypeOK, NEW c \in Consumers, Looks(c)
  PROVE  /\ pc[c] = "idle" /\ pc' = [pc EXCEPT ![c] = "count"]
         /\ desiredCount' = [desiredCount EXCEPT ![c] = desiredCount'[c]] /\ desiredCount'[c] \in Some
         /\ overcommit' = [overcommit EXCEPT ![c] = overcommit'[c]]
         /\ overcommit'[c] \in Nat /\ overcommit'[c] <= dequeueOvercommit
         /\ UNCHANGED <<shared, myDequeueCount, actualCount, index, last, sees>>
<1>1. CASE \E max \in Some : Peek(c, max)
  <2>1. PICK max \in Some : Peek(c, max)
    BY <1>1
  <2> DEFINE there == tailIndex - (dequeueOptimisticCount - dequeueOvercommit)
  <2>2. there \in Int /\ there > 0 /\ desiredCount' = [desiredCount EXCEPT ![c] = Smaller(there, max)]
    BY <2>1 DEF Peek, Set, TypeOK
  <2>3. Smaller(there, max) \in Some
    BY <2>2, BoundsAssumption DEF Smaller, Some
  <2> HIDE DEF there
  <2> QED
    BY <2>1, <2>2, <2>3 DEF Peek, Set, Goto, TypeOK
<1>2. CASE \E max \in Some, o \in 0 .. dequeueOvercommit : PeekStale(c, max, o)
  <2>1. PICK max \in Some, o \in 0 .. dequeueOvercommit : PeekStale(c, max, o)
    BY <1>2
  <2> QED
    BY <2>1 DEF PeekStale, Set, Goto, TypeOK, Some
<1> QED
  BY <1>1, <1>2 DEF Looks

LEMMA AcquireFacts ==
  ASSUME IInv, NEW c \in Consumers, NEW tail \in 0 .. tailIndex, Acquire(c, tail)
  PROVE  /\ pc[c] = "recheck" /\ desiredCount[c] \in Some
         /\ actualCount' = [actualCount EXCEPT ![c] = actualCount'[c]]
         /\ actualCount'[c] \in Nat /\ actualCount'[c] <= desiredCount[c]
         /\ actualCount'[c] > 0 => actualCount'[c] <= tail - (myDequeueCount[c] - overcommit[c])
         /\ pc' = [pc EXCEPT ![c] = pc'[c]]
         /\ pc'[c] = IF actualCount'[c] < desiredCount[c] THEN "countout" ELSE "claim"
         /\ sees' = [sees EXCEPT ![c] = tail] /\ tail \in Nat /\ tail <= tailIndex
         /\ myDequeueCount' = [myDequeueCount EXCEPT ![c] = 0]
         /\ overcommit' = [overcommit EXCEPT ![c] = 0]
         /\ UNCHANGED <<shared, desiredCount, index, last>>
<1> DEFINE there == tail - (myDequeueCount[c] - overcommit[c])
           actual == Larger(0, Smaller(desiredCount[c], there))
<1>1. TypeOK /\ pc[c] = "recheck" /\ desiredCount[c] \in Some
  BY DEF IInv, Locals, Acquire
<1>2. desiredCount[c] \in Nat /\ there \in Int
  BY <1>1 DEF TypeOK
<1>3. actual \in Nat /\ actual <= desiredCount[c] /\ (actual > 0 => actual <= there)
  BY <1>2 DEF Larger, Smaller
<1>4. /\ actualCount' = [actualCount EXCEPT ![c] = actual]
      /\ pc' = [pc EXCEPT ![c] = IF actual < desiredCount[c] THEN "countout" ELSE "claim"]
  BY DEF Acquire, There, Set, Goto
<1> HIDE DEF actual
<1>5. actualCount'[c] = actual /\ pc'[c] = IF actual < desiredCount[c] THEN "countout" ELSE "claim"
  BY <1>1, <1>4 DEF TypeOK
<1>6. tail \in Nat /\ tail <= tailIndex
  BY <1>1 DEF TypeOK
<1> QED
  BY <1>1, <1>3, <1>4, <1>5, <1>6 DEF Acquire, Set

LEMMA CountInFacts ==
  ASSUME IInv, NEW c \in Consumers, CountIn(c)
  PROVE  /\ pc[c] = "count" /\ pc' = [pc EXCEPT ![c] = "recheck"] /\ desiredCount[c] \in Some
         /\ overcommit[c] <= dequeueOvercommit
         /\ dequeueOptimisticCount' = dequeueOptimisticCount + desiredCount[c]
         /\ myDequeueCount' = [myDequeueCount EXCEPT ![c] = dequeueOptimisticCount]
         /\ UNCHANGED <<tailIndex, headIndex, dequeueOvercommit, headSees,
                        overcommit, desiredCount, actualCount, index, last, sees>>
BY DEF IInv, CountIn, Goto, Set, Locals

LEMMA CountOutFacts ==
  ASSUME IInv, NEW c \in Consumers, CountOut(c)
  PROVE  /\ pc[c] = "countout" /\ desiredCount[c] \in Some /\ actualCount[c] < desiredCount[c]
         /\ pc' = [pc EXCEPT ![c] = pc'[c]] /\ pc'[c] = IF actualCount[c] = 0 THEN "idle" ELSE "claim"
         /\ dequeueOvercommit' = dequeueOvercommit + desiredCount[c] - actualCount[c]
         /\ desiredCount' = [desiredCount EXCEPT ![c] = actualCount[c]]
         /\ sees' = [sees EXCEPT ![c] = sees'[c]]
         /\ sees'[c] = IF actualCount[c] = 0 THEN 0 ELSE sees[c]
         /\ UNCHANGED <<tailIndex, headIndex, dequeueOptimisticCount, headSees,
                        overcommit, myDequeueCount, actualCount, index, last>>
BY DEF IInv, TypeOK, CountOut, Goto, Set, Locals

LEMMA ClaimFacts ==
  ASSUME IInv, NEW c \in Consumers, Claim(c)
  PROVE  /\ pc[c] = "claim" /\ actualCount[c] \in Some /\ desiredCount[c] = actualCount[c]
         /\ pc' = [pc EXCEPT ![c] = "locate"]
         /\ headIndex' = headIndex + actualCount[c]
         /\ index' = [index EXCEPT ![c] = headIndex]
         /\ last' = [last EXCEPT ![c] = headIndex + actualCount[c]]
         /\ desiredCount' = [desiredCount EXCEPT ![c] = 0] /\ actualCount' = [actualCount EXCEPT ![c] = 0]
         /\ headSees' = Larger(headSees, sees[c])
         /\ sees' = [sees EXCEPT ![c] = Larger(headSees, sees[c])]
         /\ UNCHANGED <<tailIndex, dequeueOptimisticCount, dequeueOvercommit, overcommit, myDequeueCount>>
BY DEF IInv, Claim, Goto, Set, Locals

(* The locals of d are left alone.                                         *)
Same(d) == /\ pc'[d] = pc[d] /\ overcommit'[d] = overcommit[d] /\ desiredCount'[d] = desiredCount[d]
           /\ myDequeueCount'[d] = myDequeueCount[d] /\ actualCount'[d] = actualCount[d]
           /\ last'[d] = last[d] /\ sees'[d] = sees[d]

LEMMA ClaimOthers ==
  ASSUME IInv, NEW c \in Consumers, ClaimStep(c), NEW d \in Consumers, d # c
  PROVE  Same(d)
<1>1. TypeOK
  BY DEF IInv
<1>2. CASE Looks(c)
  BY <1>1, <1>2, LooksFacts DEF TypeOK, Same
<1>3. CASE CountIn(c)
  BY <1>1, <1>3, CountInFacts DEF TypeOK, Same
<1>4. CASE Acquires(c)
  BY <1>1, <1>4, AcquireFacts DEF TypeOK, Same, Acquires
<1>5. CASE CountOut(c)
  BY <1>1, <1>5, CountOutFacts DEF TypeOK, Same
<1>6. CASE Claim(c)
  BY <1>1, <1>6, ClaimFacts DEF TypeOK, Same
<1> QED
  BY <1>1, <1>2, <1>3, <1>4, <1>5, <1>6, ClaimCases

LEMMA ClaimTypes ==
  ASSUME IInv, NEW c \in Consumers, ClaimStep(c), UNCHANGED isExplicit
  PROVE  TypeOK'
<1>1. TypeOK /\ UNCHANGED op
  BY ClaimCases DEF IInv
<1> USE DEF TypeOK, Claiming, Dequeuing, shared
<1>2. CASE Looks(c)
  BY <1>1, <1>2, LooksFacts, BoundsAssumption DEF Some
<1>3. CASE CountIn(c)
  BY <1>1, <1>3, CountInFacts
<1>4. CASE Acquires(c)
  <2>1. PICK tail \in 0 .. tailIndex : Acquire(c, tail)
    BY <1>4 DEF Acquires
  <2>2. pc'[c] \in Claiming /\ actualCount'[c] \in Nat /\ tail \in Nat
    BY <2>1, AcquireFacts
  <2>3. /\ pc' = [pc EXCEPT ![c] = pc'[c]]
        /\ actualCount' = [actualCount EXCEPT ![c] = actualCount'[c]]
        /\ sees' = [sees EXCEPT ![c] = tail]
        /\ myDequeueCount' = [myDequeueCount EXCEPT ![c] = 0]
        /\ overcommit' = [overcommit EXCEPT ![c] = 0]
        /\ UNCHANGED <<shared, desiredCount, index, last>>
    BY <2>1, AcquireFacts
  <2> QED
    BY <1>1, <2>2, <2>3
<1>5. CASE CountOut(c)
  <2>1. dequeueOvercommit + desiredCount[c] - actualCount[c] \in Nat /\ sees'[c] \in Nat
    BY <1>1, <1>5, CountOutFacts
  <2> QED
    BY <1>1, <1>5, <2>1, CountOutFacts
<1>6. CASE Claim(c)
  <2>1. Larger(headSees, sees[c]) \in Nat /\ headIndex + actualCount[c] \in Nat
    BY <1>1 DEF Larger
  <2> QED
    BY <1>1, <1>6, <2>1, ClaimFacts
<1> QED
  BY <1>1, <1>2, <1>3, <1>4, <1>5, <1>6, ClaimCases

-----------------------------------------------------------------------------
(* What has been promised.                                                 *)

LEMMA PromisedShares ==
  /\ TypeOK => \A u, m : Promised(u, m) \in Shares
  /\ TypeOK' => \A u, m : Promised(u, m)' \in Shares
BY DEF TypeOK, Promised, Shares

LEMMA PromisedTotals ==
  /\ TypeOK => \A u, m : Total(Promised(u, m)) \in Nat
  /\ TypeOK' => \A u, m : Total(Promised(u, m)') \in Nat
BY PromisedShares, TotalTyped

(* Who is about to move headIndex finds enough items in what it has seen.  *)
LEMMA OneBacked ==
  ASSUME IInv, NEW c \in Consumers, pc[c] = "claim"
  PROVE  headIndex + actualCount[c] <= Larger(headSees, sees[c])
<1>1. TypeOK /\ \A d \in Consumers : Locals(d)
  BY DEF IInv
<1>2. sees[c] \in Nat /\ headIndex \in Nat /\ headSees \in Nat /\ actualCount[c] \in Nat
  BY <1>1 DEF TypeOK
<1>3. PICK m \in 0 .. dequeueOptimisticCount : Backed(sees[c], m)
  BY <1>2 DEF IInv, AllBacked
<1> DEFINE f == Promised(sees[c], m)
<1>4. f \in Shares /\ f[c] = actualCount[c]
  BY <1>1, <1>2, PromisedShares DEF Promised
<1>5. headIndex + Total(f) <= Larger(headSees, sees[c])
  BY <1>3 DEF Backed
<1> HIDE DEF f
<1>6. actualCount[c] <= Total(f) /\ Total(f) \in Nat
  BY <1>4, SharesAtLeast, TotalTyped
<1>7. Larger(headSees, sees[c]) \in Nat
  BY <1>2 DEF Larger
<1> QED
  BY <1>2, <1>5, <1>6, <1>7

LEMMA ClaimLocals ==
  ASSUME IInv, TypeOK', NEW c \in Consumers, ClaimStep(c)
  PROVE  /\ \A d \in Consumers : Locals(d)'
         /\ InTurn' /\ headSees' <= tailIndex'
         /\ dequeueOptimisticCount <= dequeueOptimisticCount'
<1>1. TypeOK /\ headSees <= tailIndex /\ InTurn /\ \A d \in Consumers : Locals(d)
  BY DEF IInv
<1>2. \A d \in Consumers \ {c} : Same(d)
  BY ClaimOthers
<1>3. /\ dequeueOptimisticCount <= dequeueOptimisticCount' /\ dequeueOvercommit <= dequeueOvercommit'
      /\ tailIndex' = tailIndex /\ headSees' <= tailIndex'
  <2>1. CASE Looks(c)
    BY <1>1, <2>1, LooksFacts DEF TypeOK, shared
  <2>2. CASE CountIn(c)
    BY <1>1, <2>2, CountInFacts DEF TypeOK
  <2>3. CASE Acquires(c)
    BY <1>1, <2>3 DEF TypeOK, Acquires, Acquire, shared
  <2>4. CASE CountOut(c)
    <3>1. desiredCount[c] - actualCount[c] \in Nat /\ desiredCount[c] \in Nat /\ actualCount[c] \in Nat
      BY <1>1, <2>4, CountOutFacts DEF TypeOK
    <3> QED
      BY <1>1, <2>4, <3>1, CountOutFacts DEF TypeOK
  <2>5. CASE Claim(c)
    BY <1>1, <2>5, ClaimFacts DEF TypeOK, Locals, Larger
  <2> QED
    BY <1>1, <2>1, <2>2, <2>3, <2>4, <2>5, ClaimCases
<1>4. Locals(c)'
  <2> USE DEF Locals, TypeOK
  <2>1. CASE Looks(c)
    BY <1>1, <1>3, <2>1, LooksFacts DEF Dequeuing, shared
  <2>2. CASE CountIn(c)
    <3>1. desiredCount[c] > 0
      BY <2>2, CountInFacts DEF Some
    <3> QED
      BY <1>1, <1>3, <2>2, <3>1, CountInFacts DEF Dequeuing
  <2>3. CASE Acquires(c)
    <3>1. PICK tail \in 0 .. tailIndex : Acquire(c, tail)
      BY <2>3 DEF Acquires
    <3>2. /\ pc[c] = "recheck" /\ desiredCount'[c] = desiredCount[c] /\ desiredCount[c] \in Some
          /\ actualCount'[c] \in Nat /\ actualCount'[c] <= desiredCount[c]
          /\ pc'[c] = IF actualCount'[c] < desiredCount[c] THEN "countout" ELSE "claim"
          /\ sees'[c] = tail /\ tail \in Nat /\ tail <= tailIndex /\ last'[c] = last[c]
      BY <1>1, <3>1, AcquireFacts
    <3>3. last[c] = 0
      BY <1>1, <3>2 DEF Dequeuing
    <3>4. pc'[c] = "claim" => actualCount'[c] = desiredCount[c]
      BY <3>2, BoundsAssumption DEF Some
    <3> QED
      BY <1>3, <3>2, <3>3, <3>4
  <2>4. CASE CountOut(c)
    <3>1. /\ actualCount[c] # 0 => actualCount[c] \in Some
          /\ last[c] = 0 /\ sees'[c] \in Nat /\ sees'[c] <= tailIndex
          /\ pc'[c] \in {"idle", "claim"} /\ (pc'[c] = "claim" => actualCount[c] # 0)
      BY <1>1, <2>4, CountOutFacts, BoundsAssumption DEF Dequeuing, Some
    <3> QED
      BY <1>1, <1>3, <2>4, <3>1, CountOutFacts
  <2>5. CASE Claim(c)
    <3>1. pc[c] = "claim" /\ headIndex + actualCount[c] <= Larger(headSees, sees[c])
      BY <2>5, ClaimFacts, OneBacked
    <3>2. /\ last'[c] = headIndex + actualCount[c] /\ sees'[c] = Larger(headSees, sees[c])
          /\ pc'[c] = "locate" /\ Larger(headSees, sees[c]) <= tailIndex
      BY <1>1, <2>5, ClaimFacts DEF Larger
    <3> QED
      BY <1>3, <3>1, <3>2 DEF Dequeuing
  <2> QED
    BY <1>1, <2>1, <2>2, <2>3, <2>4, <2>5, ClaimCases
<1>5. ASSUME NEW d \in Consumers PROVE Locals(d)'
  <2>1. CASE d = c
    BY <1>4, <2>1
  <2>2. CASE d # c
    <3>1. Same(d) /\ Locals(d)
      BY <1>1, <1>2, <2>2
    <3> QED
      BY <1>1, <1>3, <3>1 DEF Same, Locals, TypeOK
  <2> QED
    BY <2>1, <2>2
<1>6. InTurn'
  <2>1. CASE CountIn(c)
    <3>1. \A d \in Consumers \ {c} : pc'[d] = "recheck" => myDequeueCount'[d] # myDequeueCount'[c]
      BY <1>1, <1>2, <2>1, CountInFacts DEF TypeOK, Same, Locals
    <3>2. \A d, e \in Consumers \ {c} :
            pc'[d] = "recheck" /\ pc'[e] = "recheck" /\ myDequeueCount'[d] = myDequeueCount'[e] => d = e
      BY <1>1, <1>2 DEF InTurn, Same
    <3> QED
      BY <3>1, <3>2 DEF InTurn
  <2>2. CASE Looks(c) \/ Acquires(c) \/ CountOut(c) \/ Claim(c)
    <3>1. pc'[c] # "recheck"
      <4>1. CASE Looks(c)
        BY <1>1, <4>1, LooksFacts DEF TypeOK
      <4>2. CASE Acquires(c)
        BY <4>2, AcquireFacts DEF Acquires
      <4>3. CASE CountOut(c)
        BY <4>3, CountOutFacts
      <4>4. CASE Claim(c)
        BY <1>1, <4>4, ClaimFacts DEF TypeOK
      <4> QED
        BY <2>2, <4>1, <4>2, <4>3, <4>4
    <3> QED
      BY <1>1, <1>2, <3>1 DEF InTurn, Same
  <2> QED
    BY <1>1, <2>1, <2>2, ClaimCases
<1> QED
  BY <1>3, <1>5, <1>6

-----------------------------------------------------------------------------
(* The counters agree.                                                     *)

Wanted == [c \in Consumers |-> IF pc[c] \in {"recheck", "countout", "claim"} THEN desiredCount[c] ELSE 0]

LEMMA WantedShares == (TypeOK => Wanted \in Shares) /\ (TypeOK' => Wanted' \in Shares)
BY DEF TypeOK, Wanted, Shares

LEMMA CountedStep ==
  ASSUME IInv, TypeOK', \A d \in Consumers : Locals(d)', NEW c \in Consumers, ClaimStep(c)
  PROVE  Counted'
<1>1. TypeOK /\ Wanted \in Shares /\ Wanted' \in Shares
  BY WantedShares DEF IInv
<1>2. dequeueOptimisticCount - dequeueOvercommit = headIndex + Total(Wanted)
  BY DEF IInv, Counted, CountOf, Wanted
<1>3. \A d \in Consumers \ {c} : Wanted[d] = Wanted'[d]
  BY ClaimOthers DEF Same, Wanted
<1>4. Total(Wanted') = Total(Wanted) + Wanted'[c] - Wanted[c]
  BY <1>1, <1>3, SharesChange
<1>5. Total(Wanted) \in Nat /\ Wanted[c] \in Nat /\ Wanted'[c] \in Nat
  BY <1>1, TotalTyped, BoundsAssumption DEF Shares
<1>6. dequeueOptimisticCount' - dequeueOvercommit' = headIndex' + Total(Wanted')
  <2>1. CASE Looks(c)
    <3>1. Wanted[c] = 0 /\ Wanted'[c] = 0
      BY <1>1, <2>1, LooksFacts DEF Wanted, TypeOK
    <3>2. UNCHANGED <<dequeueOptimisticCount, dequeueOvercommit, headIndex>>
      BY <1>1, <2>1, LooksFacts DEF shared
    <3> QED
      BY <1>2, <1>4, <1>5, <3>1, <3>2
  <2>2. CASE CountIn(c)
    <3>1. Wanted[c] = 0 /\ Wanted'[c] = desiredCount[c]
      BY <1>1, <2>2, CountInFacts DEF Wanted, TypeOK
    <3> QED
      BY <1>1, <1>2, <1>4, <1>5, <2>2, <3>1, CountInFacts DEF TypeOK
  <2>3. CASE Acquires(c)
    <3>1. PICK tail \in 0 .. tailIndex : Acquire(c, tail)
      BY <2>3 DEF Acquires
    <3>2. Wanted[c] = Wanted'[c]
      BY <1>1, <3>1, AcquireFacts DEF Wanted, TypeOK
    <3>3. UNCHANGED <<dequeueOptimisticCount, dequeueOvercommit, headIndex>>
      BY <3>1 DEF Acquire, shared
    <3> QED
      BY <1>2, <1>4, <1>5, <3>2, <3>3
  <2>4. CASE CountOut(c)
    <3>1. Wanted[c] = desiredCount[c]
      BY <2>4, CountOutFacts DEF Wanted
    <3>2. Wanted'[c] = actualCount[c]
      BY <1>1, <2>4, CountOutFacts DEF Wanted, TypeOK
    <3>3. /\ dequeueOvercommit' = dequeueOvercommit + desiredCount[c] - actualCount[c]
          /\ UNCHANGED <<dequeueOptimisticCount, headIndex>>
      BY <2>4, CountOutFacts
    <3>4. /\ dequeueOvercommit \in Nat /\ dequeueOptimisticCount \in Nat /\ headIndex \in Nat
          /\ desiredCount[c] \in Nat /\ actualCount[c] \in Nat
      BY <1>1 DEF TypeOK
    <3> QED
      BY <1>2, <1>4, <1>5, <3>1, <3>2, <3>3, <3>4
  <2>5. CASE Claim(c)
    <3>1. Wanted[c] = actualCount[c] /\ Wanted'[c] = 0
      BY <1>1, <2>5, ClaimFacts DEF Wanted, TypeOK
    <3> QED
      BY <1>1, <1>2, <1>4, <1>5, <2>5, <3>1, ClaimFacts DEF TypeOK
  <2> QED
    BY <1>1, <2>1, <2>2, <2>3, <2>4, <2>5, ClaimCases
<1> QED
  BY <1>6 DEF Counted, CountOf, Wanted

-----------------------------------------------------------------------------
(* Everything promised stays backed.                                       *)

LEMMA PromisedOthers ==
  ASSUME NEW u, NEW m, NEW d \in Consumers, Same(d)
  PROVE  Promised(u, m)'[d] = Promised(u, m)[d]
BY DEF Promised, Same

LEMMA BackedStays ==
  ASSUME IInv, TypeOK', \A d \in Consumers : Locals(d)', NEW c \in Consumers, ClaimStep(c),
         NEW u \in Nat, NEW m \in Nat, Backed(u, m),
         UNCHANGED <<headIndex, headSees>>, pc'[c] # "recheck",
         \A k \in Nat : m <= k => Promised(u, k)'[c] <= Promised(u, k)[c]
  PROVE  Backed(u, m)'
<1>1. TypeOK /\ \A d \in Consumers : Same(d) \/ d = c
  BY ClaimOthers DEF IInv
<1>2. ASSUME NEW k \in Nat, m <= k
      PROVE  /\ Total(Promised(u, k)') <= Total(Promised(u, k))
             /\ Total(Promised(u, k)') \in Nat /\ Total(Promised(u, k)) \in Nat
  <2>1. Promised(u, k) \in Shares /\ Promised(u, k)' \in Shares
    BY PromisedShares DEF IInv
  <2>2. \A d \in Consumers : Promised(u, k)'[d] <= Promised(u, k)[d]
    <3>1. \A d \in Consumers : Promised(u, k)[d] \in Nat
      BY <2>1, BoundsAssumption DEF Shares
    <3> QED
      BY <1>1, <1>2, <3>1, PromisedOthers
  <2> QED
    BY <2>1, <2>2, SharesMonotone, TotalTyped
<1>3. headIndex \in Nat /\ headSees \in Nat /\ Larger(headSees, u) \in Nat
  BY <1>1 DEF TypeOK, Larger
<1>4. headIndex' + Total(Promised(u, m)') <= Larger(headSees', u)
  <2>1. Total(Promised(u, m)') <= Total(Promised(u, m)) /\ Total(Promised(u, m)') \in Nat
        /\ Total(Promised(u, m)) \in Nat
    BY <1>2
  <2>2. headIndex + Total(Promised(u, m)) <= Larger(headSees, u)
    BY DEF Backed
  <2> QED
    BY <1>3, <2>1, <2>2
<1>5. ASSUME NEW d \in Consumers, pc'[d] = "recheck", m <= myDequeueCount'[d]
      PROVE  headIndex' + Total(Promised(u, myDequeueCount[d])') <= myDequeueCount'[d] - overcommit'[d]
             /\ myDequeueCount'[d] = myDequeueCount[d]
  <2>1. /\ pc[d] = "recheck" /\ myDequeueCount'[d] = myDequeueCount[d] /\ overcommit'[d] = overcommit[d]
    BY <1>1, <1>5 DEF Same
  <2>2. PICK k \in Nat : k = myDequeueCount[d]
    BY <1>1 DEF TypeOK
  <2>3. /\ Total(Promised(u, k)') <= Total(Promised(u, k)) /\ Total(Promised(u, k)') \in Nat
        /\ Total(Promised(u, k)) \in Nat
    BY <1>2, <1>5, <2>1, <2>2
  <2>4. headIndex + Total(Promised(u, k)) <= k - overcommit[d]
    BY <1>5, <2>1, <2>2 DEF Backed
  <2>5. overcommit[d] \in Nat
    BY <1>1 DEF TypeOK
  <2>6. headIndex' + Total(Promised(u, k)') <= k - overcommit[d]
    BY <1>3, <2>2, <2>3, <2>4, <2>5
  <2> QED
    BY <2>1, <2>2, <2>6
<1> QED
  BY <1>4, <1>5 DEF Backed

LEMMA LooksBacked ==
  ASSUME IInv, TypeOK', \A d \in Consumers : Locals(d)', NEW c \in Consumers, ClaimStep(c), Looks(c)
  PROVE  AllBacked'
<1>1. TypeOK /\ AllBacked
  BY DEF IInv
<1>2. UNCHANGED <<headIndex, headSees, dequeueOptimisticCount>> /\ pc[c] = "idle" /\ pc'[c] = "count"
  BY <1>1, LooksFacts DEF shared, TypeOK
<1>3. \A u, k : Promised(u, k)'[c] = 0 /\ Promised(u, k)[c] = 0
  BY <1>2 DEF Promised
<1>4. ASSUME NEW u \in Nat PROVE \E m \in 0 .. dequeueOptimisticCount' : Backed(u, m)'
  <2>1. PICK m \in 0 .. dequeueOptimisticCount : Backed(u, m)
    BY <1>1 DEF AllBacked
  <2>2. m \in Nat
    BY <1>1 DEF TypeOK
  <2>3. Backed(u, m)'
    BY <1>2, <1>3, <2>1, <2>2, BackedStays
  <2> QED
    BY <1>2, <2>1, <2>3
<1> QED
  BY <1>4 DEF AllBacked

LEMMA CountOutBacked ==
  ASSUME IInv, TypeOK', \A d \in Consumers : Locals(d)', NEW c \in Consumers, ClaimStep(c), CountOut(c)
  PROVE  AllBacked'
<1>1. TypeOK /\ AllBacked
  BY DEF IInv
<1>2. /\ UNCHANGED <<headIndex, headSees, dequeueOptimisticCount, actualCount>>
      /\ pc[c] = "countout" /\ pc'[c] = IF actualCount[c] = 0 THEN "idle" ELSE "claim"
      /\ actualCount[c] # 0 => sees'[c] = sees[c]
      /\ actualCount[c] \in Nat
  BY <1>1, CountOutFacts DEF TypeOK
<1>3. \A u, k : Promised(u, k)'[c] <= Promised(u, k)[c]
  BY <1>2 DEF Promised
<1>4. ASSUME NEW u \in Nat PROVE \E m \in 0 .. dequeueOptimisticCount' : Backed(u, m)'
  <2>1. PICK m \in 0 .. dequeueOptimisticCount : Backed(u, m)
    BY <1>1 DEF AllBacked
  <2>2. m \in Nat
    BY <1>1 DEF TypeOK
  <2>3. pc'[c] # "recheck"
    BY <1>2
  <2>4. Backed(u, m)'
    BY <1>2, <1>3, <2>1, <2>2, <2>3, BackedStays
  <2> QED
    BY <1>2, <2>1, <2>4
<1> QED
  BY <1>4 DEF AllBacked

(* The consumer that counts itself in comes after everybody: what it finds *)
(* counted covers all that was promised.                                   *)
LEMMA CountInBacked ==
  ASSUME IInv, TypeOK', \A d \in Consumers : Locals(d)', NEW c \in Consumers, ClaimStep(c), CountIn(c)
  PROVE  AllBacked'
<1>1. TypeOK /\ AllBacked /\ Counted /\ \A d \in Consumers : Locals(d)
  BY DEF IInv
<1> DEFINE O == dequeueOptimisticCount
<1>2. /\ UNCHANGED <<headIndex, headSees, dequeueOvercommit, overcommit>>
      /\ pc[c] = "count" /\ pc'[c] = "recheck" /\ myDequeueCount'[c] = O
      /\ overcommit[c] <= dequeueOvercommit
      /\ dequeueOptimisticCount' = O + desiredCount[c] /\ desiredCount[c] \in Nat
  BY <1>1, CountInFacts DEF TypeOK
<1>3. ASSUME NEW u \in Nat, NEW m \in Nat, m <= O PROVE Promised(u, m)' = Promised(u, m)
  <2>1. Promised(u, m)'[c] = 0 /\ Promised(u, m)[c] = 0
    BY <1>1, <1>2, <1>3 DEF Promised, TypeOK
  <2>2. \A d \in Consumers : Promised(u, m)'[d] = Promised(u, m)[d]
    BY <2>1, ClaimOthers, PromisedOthers
  <2>3. /\ Promised(u, m) = [d \in Consumers |-> Promised(u, m)[d]]
        /\ Promised(u, m)' = [d \in Consumers |-> Promised(u, m)'[d]]
    BY DEF Promised
  <2> QED
    BY <2>2, <2>3
<1>4. ASSUME NEW u \in Nat, NEW m \in Nat
      PROVE  Total(Promised(u, m)) <= O - dequeueOvercommit - headIndex
  <2>1. Promised(u, m) \in Shares /\ Wanted \in Shares
    BY PromisedShares, WantedShares DEF IInv
  <2>2. \A d \in Consumers : Promised(u, m)[d] <= Wanted[d]
    <3>1. \A d \in Consumers : actualCount[d] \in Nat /\ desiredCount[d] \in Nat
      BY <1>1 DEF TypeOK
    <3>2. \A d \in Consumers : pc[d] \in {"countout", "claim"} => actualCount[d] <= desiredCount[d]
      BY <1>1, <3>1 DEF Locals
    <3> QED
      BY <3>1, <3>2 DEF Promised, Wanted
  <2>3. Total(Promised(u, m)) <= Total(Wanted)
    BY <2>1, <2>2, SharesMonotone
  <2>4. O - dequeueOvercommit = headIndex + Total(Wanted) /\ Total(Wanted) \in Nat
    BY <1>1, <2>1, TotalTyped DEF Counted, CountOf, Wanted
  <2>5. headIndex \in Nat /\ Total(Promised(u, m)) \in Nat /\ O \in Nat /\ dequeueOvercommit \in Nat
    BY <1>1, PromisedTotals DEF TypeOK
  <2> QED
    BY <2>3, <2>4, <2>5
<1>5. ASSUME NEW u \in Nat PROVE \E m \in 0 .. dequeueOptimisticCount' : Backed(u, m)'
  <2>1. PICK m \in 0 .. O : Backed(u, m)
    BY <1>1 DEF AllBacked
  <2>2. m \in Nat /\ m <= O /\ O \in Nat
    BY <1>1 DEF TypeOK
  <2>3. headIndex' + Total(Promised(u, m)') <= Larger(headSees', u)
    BY <1>2, <1>3, <2>1, <2>2 DEF Backed
  <2>4. ASSUME NEW d \in Consumers, pc'[d] = "recheck", m <= myDequeueCount'[d]
        PROVE  headIndex' + Total(Promised(u, myDequeueCount[d])') <= myDequeueCount'[d] - overcommit'[d]
    <3>1. PICK k \in Nat : k = myDequeueCount'[d]
      BY <1>1, <1>2, <2>2, ClaimOthers DEF Same, TypeOK
    <3>2. k <= O /\ headIndex + Total(Promised(u, k)) <= k - overcommit[d]
      <4>1. CASE d = c
        <5>1. k = O /\ overcommit[d] \in Nat /\ dequeueOvercommit \in Nat /\ headIndex \in Nat
          BY <1>1, <1>2, <3>1, <4>1 DEF TypeOK
        <5>2. Total(Promised(u, k)) <= O - dequeueOvercommit - headIndex /\ Total(Promised(u, k)) \in Nat
          BY <1>1, <1>4, PromisedTotals
        <5> QED
          BY <1>2, <2>2, <4>1, <5>1, <5>2
      <4>2. CASE d # c
        <5>1. /\ pc[d] = "recheck" /\ myDequeueCount[d] = k
              /\ overcommit[d] = overcommit'[d]
          BY <2>4, <3>1, <4>2, ClaimOthers DEF Same
        <5>2. k <= O
          BY <1>1, <2>2, <5>1 DEF Locals
        <5> QED
          BY <2>1, <2>4, <3>1, <5>1, <5>2 DEF Backed
      <4> QED
        BY <4>1, <4>2
    <3>3. headIndex' + Total(Promised(u, k)') <= k - overcommit'[d]
      BY <1>2, <1>3, <3>2
    <3> QED
      BY <3>1, <3>3
  <2>5. m \in 0 .. dequeueOptimisticCount'
    BY <1>2, <2>2
  <2> QED
    BY <2>3, <2>4, <2>5 DEF Backed
<1> QED
  BY <1>5 DEF AllBacked

(* The consumer that looks at tail takes what it was promised, or what its *)
(* number leaves below tail; in that case everybody before it is served,   *)
(* too, from the items below tail.                                         *)
LEMMA AcquireBacked ==
  ASSUME IInv, TypeOK', \A d \in Consumers : Locals(d)', NEW c \in Consumers, ClaimStep(c),
         NEW tail \in 0 .. tailIndex, Acquire(c, tail)
  PROVE  AllBacked'
<1>1. TypeOK /\ AllBacked /\ InTurn /\ \A d \in Consumers : Locals(d)
  BY DEF IInv
<1> DEFINE my == myDequeueCount[c]
           a  == actualCount'[c]
<1>2. /\ pc[c] = "recheck" /\ desiredCount[c] \in Nat /\ a \in Nat /\ a <= desiredCount[c]
      /\ a > 0 => a <= tail - (my - overcommit[c])
      /\ pc'[c] \in {"countout", "claim"} /\ sees'[c] = tail /\ tail \in Nat
      /\ UNCHANGED <<headIndex, headSees, dequeueOptimisticCount>>
      /\ my \in Nat /\ overcommit[c] \in Nat /\ my <= dequeueOptimisticCount
  BY <1>1, AcquireFacts DEF TypeOK, shared, Locals
<1>3. \A u, k \in Nat : /\ Promised(u, k)[c] = IF my < k THEN desiredCount[c] ELSE 0
                        /\ Promised(u, k)'[c] = IF tail <= u THEN a ELSE 0
  BY <1>2 DEF Promised
<1> HIDE DEF my, a
<1>4. ASSUME NEW u \in Nat PROVE \E m \in 0 .. dequeueOptimisticCount' : Backed(u, m)'
  <2>1. PICK m \in 0 .. dequeueOptimisticCount : Backed(u, m)
    BY <1>1 DEF AllBacked
  <2>2. m \in Nat /\ m \in 0 .. dequeueOptimisticCount'
    BY <1>1, <1>2, <2>1 DEF TypeOK
  <2>3. CASE my < m \/ ~(tail <= u) \/ a = 0
    <3>1. \A k \in Nat : m <= k => Promised(u, k)'[c] <= Promised(u, k)[c]
      BY <1>2, <1>3, <2>2, <2>3
    <3>2. pc'[c] # "recheck"
      BY <1>2
    <3>3. Backed(u, m)'
      BY <1>2, <2>1, <2>2, <3>1, <3>2, BackedStays
    <3> QED
      BY <2>2, <3>3
  <2>4. CASE m <= my /\ tail <= u /\ a > 0
    <3>1. PICK k \in Nat : k = my
      BY <1>2
    <3>2. headIndex + Total(Promised(u, k)) <= k - overcommit[c]
      BY <1>2, <2>1, <2>4, <3>1 DEF Backed, my
    <3>3. Total(Promised(u, k)') = Total(Promised(u, k)) + a /\ Total(Promised(u, k)) \in Nat
      <4>1. Promised(u, k) \in Shares /\ Promised(u, k)' \in Shares
        BY PromisedShares DEF IInv
      <4>2. \A d \in Consumers \ {c} : Promised(u, k)[d] = Promised(u, k)'[d]
        BY ClaimOthers, PromisedOthers
      <4>3. Promised(u, k)[c] = 0 /\ Promised(u, k)'[c] = a
        BY <1>2, <1>3, <2>4, <3>1
      <4>4. Total(Promised(u, k)') = Total(Promised(u, k)) + Promised(u, k)'[c] - Promised(u, k)[c]
        BY <4>1, <4>2, SharesChange
      <4>5. Total(Promised(u, k)) \in Nat
        BY <1>1, PromisedTotals
      <4> QED
        BY <1>2, <4>3, <4>4, <4>5
    <3>4. headIndex' + Total(Promised(u, k)') <= Larger(headSees', u)
      <4>1. headIndex \in Nat /\ headSees \in Nat
        BY <1>1 DEF TypeOK
      <4>2. headIndex + Total(Promised(u, k)) + a <= u
        BY <1>2, <2>4, <3>1, <3>2, <3>3, <4>1
      <4>3. u <= Larger(headSees, u)
        BY <4>1 DEF Larger
      <4>4. headIndex' + Total(Promised(u, k)') = headIndex + Total(Promised(u, k)) + a
        BY <1>2, <3>3, <4>1
      <4>5. Larger(headSees', u) \in Nat
        BY <1>2, <4>1 DEF Larger
      <4> QED
        BY <1>2, <3>3, <4>1, <4>2, <4>3, <4>4, <4>5
    <3>5. ASSUME NEW d \in Consumers, pc'[d] = "recheck", k <= myDequeueCount'[d]
          PROVE  headIndex' + Total(Promised(u, myDequeueCount[d])') <= myDequeueCount'[d] - overcommit'[d]
      <4>1. d # c
        BY <1>2, <3>5
      <4>2. pc[d] = "recheck" /\ myDequeueCount'[d] = myDequeueCount[d] /\ overcommit'[d] = overcommit[d]
        BY <3>5, <4>1, ClaimOthers DEF Same
      <4>3. PICK j \in Nat : j = myDequeueCount[d]
        BY <1>1 DEF TypeOK
      <4>4. k < j
        BY <1>1, <1>2, <3>1, <3>5, <4>1, <4>2, <4>3 DEF InTurn, my
      <4>5. headIndex + Total(Promised(u, j)) <= j - overcommit[d]
        BY <2>1, <2>2, <2>4, <3>1, <4>2, <4>3, <4>4 DEF Backed
      <4>6. Total(Promised(u, j)') <= Total(Promised(u, j)) /\ Total(Promised(u, j)') \in Nat
            /\ Total(Promised(u, j)) \in Nat
        <5>1. Promised(u, j) \in Shares /\ Promised(u, j)' \in Shares
          BY PromisedShares DEF IInv
        <5>2. Promised(u, j)'[c] <= Promised(u, j)[c]
          BY <1>2, <1>3, <3>1, <4>4
        <5>3. \A e \in Consumers : Promised(u, j)[e] \in Nat
          BY <5>1, BoundsAssumption DEF Shares
        <5>4. \A e \in Consumers : Promised(u, j)'[e] <= Promised(u, j)[e]
          <6>1. \A e \in Consumers \ {c} : Promised(u, j)'[e] = Promised(u, j)[e]
            BY ClaimOthers, PromisedOthers
          <6> QED
            BY <5>2, <5>3, <6>1
        <5> QED
          BY <5>1, <5>4, SharesMonotone, TotalTyped
      <4>7. headIndex \in Nat /\ overcommit[d] \in Nat
        BY <1>1 DEF TypeOK
      <4>8. headIndex' + Total(Promised(u, j)') <= j - overcommit'[d]
        BY <1>2, <4>2, <4>5, <4>6, <4>7
      <4> QED
        BY <4>2, <4>3, <4>8
    <3>6. k \in 0 .. dequeueOptimisticCount'
      BY <1>1, <1>2, <3>1 DEF TypeOK
    <3>7. Backed(u, k)'
      BY <3>4, <3>5 DEF Backed
    <3> QED
      BY <3>6, <3>7
  <2> QED
    BY <1>2, <2>2, <2>3, <2>4
<1> QED
  BY <1>4 DEF AllBacked

(* headIndex moves over items below what the consumer has seen: with fewer *)
(* items (u) nothing was promised that was not promised with those.        *)
LEMMA ClaimBacked ==
  ASSUME IInv, TypeOK', \A d \in Consumers : Locals(d)', NEW c \in Consumers, ClaimStep(c), Claim(c)
  PROVE  AllBacked'
<1>1. TypeOK /\ AllBacked /\ \A d \in Consumers : Locals(d)
  BY DEF IInv
<1> DEFINE a == actualCount[c]
           s == sees[c]
<1>2. /\ pc[c] = "claim" /\ pc'[c] = "locate" /\ a \in Nat /\ s \in Nat
      /\ headIndex' = headIndex + a /\ headSees' = Larger(headSees, s)
      /\ UNCHANGED dequeueOptimisticCount
      /\ headIndex \in Nat /\ headSees \in Nat
  BY <1>1, ClaimFacts DEF TypeOK
<1>3. \A u, k \in Nat : /\ Promised(u, k)[c] = IF s <= u THEN a ELSE 0
                        /\ Promised(u, k)'[c] = 0
  BY <1>2 DEF Promised
<1> HIDE DEF a, s
<1>4. PICK w \in Nat : w = s
  BY <1>2
<1>5. ASSUME NEW u \in Nat, NEW v \in Nat, v = (IF w <= u THEN u ELSE w), NEW k \in Nat
      PROVE  headIndex' + Total(Promised(u, k)') <= headIndex + Total(Promised(v, k))
  <2>1. /\ Promised(u, k)' \in Shares /\ Promised(v, k) \in Shares
        /\ \A d \in Consumers : Promised(u, k)'[d] \in Nat /\ Promised(v, k)[d] \in Nat
    BY PromisedShares, BoundsAssumption DEF IInv, Shares
  <2> DEFINE f == [Promised(u, k)' EXCEPT ![c] = a]
  <2>2. Promised(v, k)[c] = a
    BY <1>2, <1>3, <1>4, <1>5
  <2>3. f \in Shares /\ f[c] = a /\ \A d \in Consumers \ {c} : Promised(u, k)'[d] = f[d]
    BY <2>1, <2>2 DEF Shares
  <2>4. Promised(u, k)'[c] = 0
    BY <1>3
  <2> HIDE DEF f
  <2>5. Total(f) = Total(Promised(u, k)') + f[c] - Promised(u, k)'[c]
    BY <2>1, <2>3, SharesChange
  <2>6. \A d \in Consumers : f[d] <= Promised(v, k)[d]
    <3>1. ASSUME NEW d \in Consumers, d # c PROVE f[d] <= Promised(v, k)[d]
      <4>1. f[d] = Promised(u, k)[d]
        BY <2>3, <3>1, ClaimOthers, PromisedOthers
      <4>2. Promised(u, k)[d] <= Promised(v, k)[d]
        <5>1. /\ sees[d] \in Nat /\ myDequeueCount[d] \in Nat
              /\ desiredCount[d] \in Nat /\ actualCount[d] \in Nat
          BY <1>1 DEF TypeOK
        <5>2. sees[d] <= u => sees[d] <= v
          BY <1>5, <5>1
        <5> QED
          BY <5>1, <5>2 DEF Promised
      <4> QED
        BY <4>1, <4>2
    <3>2. f[c] <= Promised(v, k)[c]
      BY <1>2, <2>2, <2>3
    <3> QED
      BY <3>1, <3>2
  <2>7. Total(f) <= Total(Promised(v, k))
    BY <2>1, <2>3, <2>6, SharesMonotone
  <2>8. Total(f) \in Nat /\ Total(Promised(u, k)') \in Nat /\ Total(Promised(v, k)) \in Nat
    BY <2>1, <2>3, TotalTyped
  <2> QED
    BY <1>2, <2>3, <2>4, <2>5, <2>7, <2>8
<1>6. ASSUME NEW u \in Nat PROVE \E m \in 0 .. dequeueOptimisticCount' : Backed(u, m)'
  <2>1. PICK v \in Nat : v = (IF w <= u THEN u ELSE w)
    OBVIOUS
  <2>2. PICK m \in 0 .. dequeueOptimisticCount : Backed(v, m)
    BY <1>1 DEF AllBacked
  <2>3. m \in Nat /\ m \in 0 .. dequeueOptimisticCount'
    BY <1>1, <1>2, <2>2 DEF TypeOK
  <2>4. headIndex' + Total(Promised(u, m)') <= Larger(headSees', u)
    <3>1. headIndex' + Total(Promised(u, m)') <= headIndex + Total(Promised(v, m))
      BY <1>5, <2>1, <2>3
    <3>2. headIndex + Total(Promised(v, m)) <= Larger(headSees, v)
      BY <2>2 DEF Backed
    <3>3. Larger(headSees, v) <= Larger(headSees', u) /\ Larger(headSees, v) \in Nat /\ Larger(headSees', u) \in Nat
      BY <1>2, <1>4, <2>1 DEF Larger
    <3>4. Total(Promised(u, m)') \in Nat /\ Total(Promised(v, m)) \in Nat
      BY <1>1, PromisedTotals
    <3> QED
      BY <1>2, <3>1, <3>2, <3>3, <3>4
  <2>5. ASSUME NEW d \in Consumers, pc'[d] = "recheck", m <= myDequeueCount'[d]
        PROVE  headIndex' + Total(Promised(u, myDequeueCount[d])') <= myDequeueCount'[d] - overcommit'[d]
    <3>1. d # c
      BY <1>2, <2>5
    <3>2. pc[d] = "recheck" /\ myDequeueCount'[d] = myDequeueCount[d] /\ overcommit'[d] = overcommit[d]
      BY <2>5, <3>1, ClaimOthers DEF Same
    <3>3. PICK j \in Nat : j = myDequeueCount[d]
      BY <1>1 DEF TypeOK
    <3>4. headIndex + Total(Promised(v, j)) <= j - overcommit[d]
      BY <2>2, <2>5, <3>2, <3>3 DEF Backed
    <3>5. headIndex' + Total(Promised(u, j)') <= headIndex + Total(Promised(v, j))
      BY <1>5, <2>1
    <3>6. Total(Promised(u, j)') \in Nat /\ Total(Promised(v, j)) \in Nat /\ overcommit[d] \in Nat
      BY <1>1, PromisedTotals DEF TypeOK
    <3>7. headIndex' + Total(Promised(u, j)') <= j - overcommit'[d]
      BY <1>2, <3>2, <3>4, <3>5, <3>6
    <3> QED
      BY <3>2, <3>3, <3>7
  <2> QED
    BY <2>3, <2>4, <2>5 DEF Backed
<1> QED
  BY <1>6 DEF AllBacked

-----------------------------------------------------------------------------
(* The steps that leave the counters alone.                                *)

QuietEnqueue ==
  /\ UNCHANGED <<headIndex, dequeueOptimisticCount, dequeueOvercommit, headSees, pc,
                 overcommit, desiredCount, myDequeueCount, actualCount, last, sees>>
  /\ tailIndex' \in Nat /\ tailIndex <= tailIndex'
  /\ "count" \in DOMAIN op' /\ op'.count \in Nat

QuietDequeue(c) ==
  /\ UNCHANGED <<shared, overcommit, desiredCount, myDequeueCount, actualCount, op>>
  /\ pc[c] \in Dequeuing
  /\ pc' = [pc EXCEPT ![c] = pc'[c]]
  /\ last' = [last EXCEPT ![c] = last'[c]] /\ sees' = [sees EXCEPT ![c] = sees'[c]]
  /\ \/ pc'[c] \in Dequeuing /\ last'[c] = last[c] /\ sees'[c] = sees[c]
     \/ pc'[c] = "idle" /\ last'[c] = 0 /\ sees'[c] = 0

LEMMA QuietStep ==
  ASSUME IInv, UNCHANGED isExplicit,
         QuietEnqueue \/ \E c \in Consumers : QuietDequeue(c)
  PROVE  IInv'
<1>1. TypeOK /\ InTurn /\ Counted /\ headSees <= tailIndex /\ AllBacked
      /\ \A c \in Consumers : Locals(c)
  BY DEF IInv
<1>2. /\ UNCHANGED <<headIndex, dequeueOptimisticCount, dequeueOvercommit, headSees,
                     overcommit, desiredCount, myDequeueCount, actualCount>>
      /\ tailIndex' \in Nat /\ tailIndex <= tailIndex'
  BY <1>1 DEF QuietEnqueue, QuietDequeue, shared, TypeOK
<1>3. TypeOK'
  <2>1. CASE QuietEnqueue
    BY <1>1, <1>2, <2>1 DEF QuietEnqueue, TypeOK
  <2>2. CASE \E c \in Consumers : QuietDequeue(c)
    <3>1. PICK c \in Consumers : QuietDequeue(c)
      BY <2>2
    <3>2. pc'[c] \in {"idle"} \cup Claiming \cup Dequeuing /\ last'[c] \in Nat /\ sees'[c] \in Nat
      BY <1>1, <3>1 DEF QuietDequeue, TypeOK
    <3> QED
      BY <1>1, <1>2, <3>1, <3>2 DEF QuietDequeue, TypeOK
  <2> QED
    BY <2>1, <2>2
<1>4. ASSUME NEW d \in Consumers
      PROVE  \/ pc'[d] = pc[d] /\ last'[d] = last[d] /\ sees'[d] = sees[d]
             \/ /\ pc[d] \in Dequeuing
                /\ \/ pc'[d] \in Dequeuing /\ last'[d] = last[d] /\ sees'[d] = sees[d]
                   \/ pc'[d] = "idle" /\ last'[d] = 0 /\ sees'[d] = 0
  <2>1. CASE QuietEnqueue
    BY <2>1 DEF QuietEnqueue
  <2>2. CASE \E c \in Consumers : QuietDequeue(c)
    <3>1. PICK c \in Consumers : QuietDequeue(c)
      BY <2>2
    <3>2. d # c => pc'[d] = pc[d] /\ last'[d] = last[d] /\ sees'[d] = sees[d]
      BY <1>1, <3>1 DEF QuietDequeue, TypeOK
    <3> QED
      BY <3>1, <3>2 DEF QuietDequeue
  <2> QED
    BY <2>1, <2>2
<1>5. ASSUME NEW d \in Consumers PROVE Locals(d)'
  <2>1. last[d] \in Nat /\ sees[d] \in Nat /\ tailIndex \in Nat
    BY <1>1 DEF TypeOK
  <2>2. CASE pc'[d] = pc[d] /\ last'[d] = last[d] /\ sees'[d] = sees[d]
    BY <1>1, <1>2, <2>1, <2>2 DEF Locals
  <2>3. CASE /\ pc[d] \in Dequeuing
             /\ \/ pc'[d] \in Dequeuing /\ last'[d] = last[d] /\ sees'[d] = sees[d]
                \/ pc'[d] = "idle" /\ last'[d] = 0 /\ sees'[d] = 0
    BY <1>1, <1>2, <2>1, <2>3 DEF Locals, Dequeuing
  <2> QED
    BY <1>4, <2>2, <2>3
<1>6. \A d \in Consumers :
        \/ pc'[d] = pc[d] /\ sees'[d] = sees[d]
        \/ {pc[d], pc'[d]} \cap {"recheck", "countout", "claim"} = {}
  BY <1>4 DEF Dequeuing
<1>7. InTurn'
  BY <1>1, <1>2, <1>6 DEF InTurn
<1>8. Wanted' = Wanted
  BY <1>2, <1>6 DEF Wanted
<1>9. Counted'
  BY <1>1, <1>2, <1>8 DEF Counted, CountOf, Wanted
<1>10. ASSUME NEW u \in Nat, NEW m \in Nat PROVE Promised(u, m)' = Promised(u, m)
  <2>1. ASSUME NEW d \in Consumers PROVE Promised(u, m)'[d] = Promised(u, m)[d]
    BY <1>2, <1>6 DEF Promised
  <2>2. /\ Promised(u, m) = [d \in Consumers |-> Promised(u, m)[d]]
        /\ Promised(u, m)' = [d \in Consumers |-> Promised(u, m)'[d]]
    BY DEF Promised
  <2> QED
    BY <2>1, <2>2
<1>11. ASSUME NEW u \in Nat, NEW m \in Nat, Backed(u, m) PROVE Backed(u, m)'
  <2>1. headIndex' + Total(Promised(u, m)') <= Larger(headSees', u)
    BY <1>2, <1>10, <1>11 DEF Backed
  <2>2. ASSUME NEW d \in Consumers, pc'[d] = "recheck", m <= myDequeueCount'[d]
        PROVE  headIndex' + Total(Promised(u, myDequeueCount[d])') <= myDequeueCount'[d] - overcommit'[d]
    <3>1. PICK k \in Nat : k = myDequeueCount[d]
      BY <1>1 DEF TypeOK
    <3>2. pc[d] = "recheck" /\ k = myDequeueCount'[d] /\ overcommit'[d] = overcommit[d]
      BY <1>2, <1>6, <2>2, <3>1
    <3>3. headIndex + Total(Promised(u, k)) <= k - overcommit[d]
      BY <1>11, <2>2, <3>1, <3>2 DEF Backed
    <3>4. headIndex' + Total(Promised(u, k)') <= k - overcommit'[d]
      BY <1>2, <1>10, <3>2, <3>3
    <3> QED
      BY <3>1, <3>2, <3>4
  <2> QED
    BY <2>1, <2>2 DEF Backed
<1>12. AllBacked'
  <2>1. ASSUME NEW u \in Nat PROVE \E m \in 0 .. dequeueOptimisticCount' : Backed(u, m)'
    <3>1. PICK m \in 0 .. dequeueOptimisticCount : Backed(u, m)
      BY <1>1 DEF AllBacked
    <3>2. m \in Nat
      BY <1>1 DEF TypeOK
    <3> QED
      BY <1>2, <1>11, <3>1, <3>2
  <2> QED
    BY <2>1 DEF AllBacked
<1>13. headSees' <= tailIndex'
  BY <1>1, <1>2 DEF TypeOK
<1> QED
  BY <1>3, <1>5, <1>7, <1>9, <1>12, <1>13 DEF IInv

LEMMA ClaimInv ==
  ASSUME IInv, NEW c \in Consumers, ClaimStep(c), UNCHANGED isExplicit
  PROVE  IInv'
<1>1. TypeOK'
  BY ClaimTypes
<1>2. (\A d \in Consumers : Locals(d)') /\ InTurn' /\ headSees' <= tailIndex'
  BY <1>1, ClaimLocals
<1>3. Counted'
  BY <1>1, <1>2, CountedStep
<1>4. AllBacked'
  <2>1. TypeOK
    BY DEF IInv
  <2> QED
    BY <1>1, <1>2, <2>1, ClaimCases, LooksBacked, CountInBacked, AcquireBacked, CountOutBacked,
       ClaimBacked DEF Acquires
<1> QED
  BY <1>1, <1>2, <1>3, <1>4 DEF IInv

LEMMA InitIInv == Init => IInv
<1> SUFFICES ASSUME Init PROVE IInv
  OBVIOUS
<1> USE DEF Init, BaseInit
<1>1. TypeOK
  <2>1. "count" \in DOMAIN op /\ op.count \in Nat
    BY DEF NoCall
  <2> QED
    BY <2>1, KindsAssumption DEF TypeOK
<1>2. ASSUME NEW c \in Consumers PROVE Locals(c)
  BY DEF Locals
<1>3. InTurn
  BY DEF InTurn
<1>4. ASSUME NEW f, f = [c \in Consumers |-> 0] PROVE Total(f) = 0
  BY <1>4, ConsumersAssumption, TotalOfZeros
<1>5. Counted
  <2>1. [c \in Consumers |-> IF pc[c] \in {"recheck", "countout", "claim"} THEN desiredCount[c] ELSE 0]
          = [c \in Consumers |-> 0]
    OBVIOUS
  <2>2. 0 - 0 = 0 + 0
    OBVIOUS
  <2> QED
    BY <1>4, <2>1, <2>2 DEF Counted, CountOf
<1>6. AllBacked
  <2>1. ASSUME NEW u \in Nat PROVE Backed(u, 0)
    <3>1. Promised(u, 0) = [c \in Consumers |-> 0]
      BY DEF Promised
    <3>2. Total(Promised(u, 0)) = 0
      BY <1>4, <3>1
    <3> QED
      BY <3>2 DEF Backed, Larger
  <2> QED
    BY <2>1 DEF AllBacked
<1> QED
  BY <1>1, <1>2, <1>3, <1>5, <1>6 DEF IInv

-----------------------------------------------------------------------------
(* The steps of an explicit producer.                                      *)

LEMMA ExplicitEnqueue ==
  ASSUME TypeOK, E!Enqueue \/ E!Destroy
  PROVE  QuietEnqueue
<1> USE DEF TypeOK, QuietEnqueue, E!claimVars, E!shared
<1>0. tailIndex <= tailIndex
  OBVIOUS
<1>1. CASE \E e \in ExplicitEnqueues : E!Begin(e)
  BY <1>0, <1>1, EnqueuesAssumption, ExplicitAssumption DEF E!Begin, E!Locals
<1>2. CASE E!Reuse \/ E!Inject
  BY <1>0, <1>2 DEF E!Reuse, E!Inject, E!PutOnIndex
<1>3. CASE E!NewBlockIndex
  BY <1>0, <1>3 DEF E!NewBlockIndex
<1>4. CASE E!Fail \/ E!Expose \/ E!Destroy
  BY <1>0, <1>4 DEF E!Fail, E!Expose, E!Destroy, E!NoCall
<1>5. CASE E!Fill
  BY <1>5 DEF E!Fill, E!FillBlocks, E!NoCall
<1> QED
  BY <1>1, <1>2, <1>3, <1>4, <1>5 DEF E!Enqueue

LEMMA ExplicitDequeue ==
  ASSUME TypeOK, NEW c \in Consumers, E!Locate(c) \/ E!Move(c) \/ E!SetEmpty(c)
  PROVE  QuietDequeue(c)
<1> USE DEF TypeOK, QuietDequeue, E!shared, shared, E!Set, E!Goto, Dequeuing
<1>1. CASE E!Locate(c)
  BY <1>1 DEF E!Locate, E!Finding
<1>2. CASE E!Move(c)
  BY <1>2 DEF E!Move, E!Finding
<1>3. CASE E!SetEmpty(c)
  BY <1>3 DEF E!SetEmpty, E!NextBlock
<1> QED
  BY <1>1, <1>2, <1>3

-----------------------------------------------------------------------------
(* The steps of an implicit producer.                                      *)

LEMMA ImplicitEnqueue ==
  ASSUME TypeOK, Enqueue \/ Destroy
  PROVE  QuietEnqueue
<1> USE DEF TypeOK, QuietEnqueue, claimVars
<1>0. tailIndex <= tailIndex
  OBVIOUS
<1>1. CASE \E e \in Enqueues : Begin(e)
  BY <1>0, <1>1, EnqueuesAssumption DEF Begin
<1>2. CASE InsertEntry \/ NewBlockIndex \/ NoIndex
  BY <1>0, <1>2 DEF InsertEntry, NewBlockIndex, NoIndex
<1>3. CASE GetBlock \/ NoBlock
  BY <1>0, <1>3 DEF GetBlock, NoBlock
<1>4. CASE UndoOne
  BY <1>0, <1>4 DEF UndoOne
<1>5. CASE Fail
  BY <1>0, <1>5 DEF Fail, NoCall
<1>6. CASE Destroy
  BY <1>0, <1>6 DEF Destroy
<1>7. CASE Fill
  BY <1>7 DEF Fill, FillBlocks, NoCall
<1> QED
  BY <1>1, <1>2, <1>3, <1>4, <1>5, <1>6, <1>7 DEF Enqueue

LEMMA ImplicitDequeue ==
  ASSUME TypeOK, NEW c \in Consumers,
         Locate(c) \/ ReadKey(c) \/ Move(c) \/ SetEmpty(c) \/ Unlink(c) \/ Free(c)
  PROVE  QuietDequeue(c)
<1> USE DEF TypeOK, QuietDequeue, shared, shared, Set, Goto, Dequeuing
<1>1. CASE Locate(c) \/ ReadKey(c)
  BY <1>1 DEF Locate, ReadKey, Finding
<1>2. CASE Move(c) \/ Unlink(c)
  BY <1>2 DEF Move, Unlink, Finding
<1>3. CASE SetEmpty(c)
  BY <1>3 DEF SetEmpty, NextBlock, Finding
<1>4. CASE Free(c)
  BY <1>4 DEF Free, NextBlock
<1> QED
  BY <1>1, <1>2, <1>3, <1>4

-----------------------------------------------------------------------------
LEMMA NextIInv == IInv /\ [Next]_vars => IInv'
<1>1. ASSUME IInv, UNCHANGED vars PROVE IInv'
  <2>1. QuietEnqueue /\ UNCHANGED isExplicit
    <3>1. tailIndex \in Nat
      BY <1>1 DEF IInv, TypeOK
    <3>2. tailIndex <= tailIndex
      BY <3>1
    <3> QED
      BY <1>1, <3>1, <3>2 DEF IInv, TypeOK, QuietEnqueue, vars, baseVars, claimVars
  <2> QED
    BY <1>1, <2>1, QuietStep
<1>2. ASSUME IInv, isExplicit, E!ExplicitNext, UNCHANGED isExplicit PROVE IInv'
  <2>1. CASE E!Enqueue \/ E!Destroy
    BY <1>2, <2>1, ExplicitEnqueue, QuietStep DEF IInv
  <2>2. ASSUME NEW c \in Consumers, E!Dequeue(c) PROVE IInv'
    BY <1>2, <2>2, ExplicitClaims, ClaimInv, ExplicitDequeue, QuietStep DEF IInv, E!Dequeue
  <2> QED
    BY <1>2, <2>1, <2>2 DEF E!ExplicitNext
<1>3. ASSUME IInv, ~isExplicit, ImplicitNext, UNCHANGED isExplicit PROVE IInv'
  <2>1. CASE Enqueue \/ Destroy
    BY <1>3, <2>1, ImplicitEnqueue, QuietStep DEF IInv
  <2>2. ASSUME NEW c \in Consumers, Dequeue(c) PROVE IInv'
    BY <1>3, <2>2, ClaimInv, ImplicitDequeue, QuietStep DEF IInv, Dequeue
  <2> QED
    BY <1>3, <2>1, <2>2 DEF ImplicitNext
<1> QED
  BY <1>1, <1>2, <1>3 DEF Next

(* The inductive invariant holds for either kind of producer, with any     *)
(* number of consumers and any calls.                                      *)
THEOREM Invariance == Spec => []IInv
BY InitIInv, NextIInv, PTL DEF Spec

(* The four counters agree at every step, although each consumer counts    *)
(* itself in before it knows that there is an item, counts out later, and  *)
(* loads tailIndex as it likes: headIndex never passes tailIndex, and      *)
(* nobody is on its way to an item that is not there.                      *)
THEOREM CountersAgree == Spec => []ClaimsBacked
<1>1. ASSUME IInv PROVE ClaimsBacked
  <2>1. TypeOK /\ Counted /\ headSees <= tailIndex /\ AllBacked /\ \A c \in Consumers : Locals(c)
    BY <1>1 DEF IInv
  <2>2. PICK u \in Nat : u = tailIndex
    BY <2>1 DEF TypeOK
  <2>3. PICK m \in 0 .. dequeueOptimisticCount : Backed(u, m)
    BY <2>1 DEF AllBacked
  <2> DEFINE taken == [c \in Consumers |-> IF pc[c] \in {"countout", "claim"} THEN actualCount[c] ELSE 0]
  <2>4. Promised(u, m) \in Shares
    BY <2>1, PromisedShares
  <2>5. \A c \in Consumers : pc[c] \in {"countout", "claim"} => taken[c] = Promised(u, m)[c]
    BY <2>1, <2>2 DEF Promised, Locals
  <2>6. \A c \in Consumers : taken[c] \in Nat /\ taken[c] <= Promised(u, m)[c]
    <3>1. \A c \in Consumers : Promised(u, m)[c] \in Nat
      BY <2>4 DEF Shares
    <3>2. \A c \in Consumers : pc[c] \notin {"countout", "claim"} => taken[c] = 0
      OBVIOUS
    <3> HIDE DEF taken
    <3> QED
      BY <2>5, <3>1, <3>2
  <2>7. taken \in Shares
    <3>1. taken = [c \in Consumers |-> taken[c]]
      OBVIOUS
    <3> QED
      BY <2>6, <3>1 DEF Shares
  <2>8. Total(taken) <= Total(Promised(u, m)) /\ Total(taken) \in Nat /\ Total(Promised(u, m)) \in Nat
    BY <2>4, <2>6, <2>7, SharesMonotone, TotalTyped
  <2>9. headIndex + Total(Promised(u, m)) <= Larger(headSees, u)
    BY <2>3 DEF Backed
  <2>10. headIndex + Total(taken) <= tailIndex
    BY <2>1, <2>2, <2>8, <2>9 DEF TypeOK, Larger
  <2> QED
    BY <2>1, <2>10 DEF ClaimsBacked, Counted, CountOf
<1> QED
  BY <1>1, Invariance, PTL

(* Whoever has claimed items has acquired the store of tailIndex that      *)
(* published them, itself or through those who moved headIndex before it:  *)
(* also when it looked at tailIndex before they were there.                *)
THEOREM ClaimedItemsVisible == Spec => []ItemsVisible
<1>1. IInv => ItemsVisible
  BY DEF IInv, Locals, ItemsVisible
<1> QED
  BY <1>1, Invariance, PTL

-----------------------------------------------------------------------------
(* The blocks of an implicit producer.                                     *)

LEMMA BlockSizeType == BlockSize \in Nat /\ BlockSize > 1 /\ InitialIndexSize \in Nat /\ InitialIndexSize > 1
BY SizeAssumption

(* How far the producer is.  Block numbers count the blocks from 0: item i *)
(* is in block number i \div BlockSize.                                    *)
BlockNo(i) == i \div BlockSize
LastBlock  == BlockNo(tailIndex - 1)
Reverted   == IF prPc = "undo" THEN (op.currentTailIndex - LastBlock * BlockSize) \div BlockSize ELSE 0
Top        == LastBlock + Len(got) + (IF prPc = "block" THEN 1 ELSE 0)
TailNo     == Top - Reverted

(* The entry of a block number in the current index.                       *)
EntryAt(q) == Newest.index[(Newest.tail + (q - TailNo)) % Newest.capacity]
BlockAt(q) == entries[EntryAt(q)].value
KeyAt(q)   == entries[EntryAt(q)].key

(* The items of a block, and those of them that count as dequeued.         *)
ItemsOf(q) == q * BlockSize .. q * BlockSize + BlockSize - 1
Pending(c) == CASE pc[c] \in {"locate", "key", "move", "empty"} -> index[c] .. last[c] - 1
                [] pc[c] \in {"unlink", "free"}                 -> EndIndex(c) .. last[c] - 1
                [] OTHER                                        -> {}
Taken(q)   == {i \in ItemsOf(q) : i < headIndex /\ \A c \in Consumers : i \notin Pending(c)}
Unlinks(c, q) == pc[c] = "unlink" /\ BlockNo(index[c]) = q
Gone(q)    == Taken(q) = ItemsOf(q) /\ \A c \in Consumers : ~Unlinks(c, q)

(* The block numbers that have an entry with a block.                      *)
Inserted == LastBlock + Reverted + 1 .. LastBlock + Len(got)
Live     == {q \in 0 .. LastBlock : ~Gone(q)} \cup Inserted

(* The items that were not moved out.                                      *)
Remaining == headIndex .. tailIndex - 1 \cup UNION {NotMoved(c) : c \in Consumers}

-----------------------------------------------------------------------------
(* An index header, an entry and the locals of a call of the producer.     *)
Headers == UNION {[capacity : {n}, tail : 0 .. n - 1, index : [0 .. n - 1 -> Nat]] : n \in Nat \ {0}}
Entry   == [key : Int, value : Blocks \cup {None}]
Op      == [count : Nat \ {0}, canAlloc : BOOLEAN, need : Nat, currentTailIndex : Int,
            startBlock : Blocks \cup {None}]

(* The inductive invariant: the values the fields of ImplicitProducer and  *)
(* its index take.                                                         *)
ImplicitTypes ==
  /\ slots \in [Blocks -> [Offsets -> Int]]
  /\ unused \in SUBSET Blocks /\ tailBlock \in Blocks \cup {None}
  /\ elementsCompletelyDequeued \in [Blocks -> Nat]
  /\ entries \in Seq(Entry)
  /\ indexes \in Seq(Headers) /\ Len(indexes) > 0
  /\ got \in Seq(Blocks)
  /\ index \in [Consumers -> Nat] /\ localBlockIndex \in [Consumers -> Nat]
  /\ indexIndex \in [Consumers -> Nat] /\ block \in [Consumers -> Blocks \cup {None}]
  /\ prPc \in {"idle", "index", "block", "undo", "fill"}
  /\ prPc # "idle" => op \in Op

(* What the consumers have claimed.                                        *)
Ranges ==
  /\ \A c \in Consumers : IF pc[c] \in Dequeuing THEN index[c] < last[c] /\ last[c] <= headIndex
                          ELSE last[c] = 0
  /\ \A c, d \in Consumers : c # d /\ pc[c] \in Dequeuing /\ pc[d] \in Dequeuing =>
       last[c] <= index[d] \/ last[d] <= index[c]
  /\ headIndex <= tailIndex

(* What the producer has got at each step of a call.                       *)
Calling ==
  /\ prPc = "idle" => got = << >>
  /\ prPc \in {"index", "block"} => op.need > 0
  /\ prPc \in {"index", "block", "fill"} =>
       /\ op.need + Len(got) = BlocksNeeded(op.count)
       /\ tailBlock = IF got = << >> THEN op.startBlock ELSE got[Len(got)]
  /\ prPc = "fill" => op.need = 0
  /\ prPc \in {"index", "block"} => op.currentTailIndex = Top * BlockSize
  /\ prPc = "undo" => /\ op.currentTailIndex = (LastBlock + Reverted) * BlockSize
                      /\ Reverted \in 0 .. Len(got)

(* The current index has each entry once.                                  *)
WholeIndex ==
  /\ Len(entries) = Newest.capacity
  /\ \A i \in 1 .. Len(indexes) : \A p \in 0 .. indexes[i].capacity - 1 :
       indexes[i].index[p] \in 1 .. Len(entries)
  /\ \A i, j \in 0 .. Newest.capacity - 1 : Newest.index[i] = Newest.index[j] => i = j

(* Which entries have which blocks.                                        *)
StartBlock == IF prPc = "idle" THEN tailBlock ELSE op.startBlock

Placed ==
  /\ \A q \in Live : /\ Top - Newest.capacity < q
                     /\ BlockAt(q) \in Blocks
                     /\ \A s \in q .. Top : KeyAt(s) = s * BlockSize
  /\ \A s \in LastBlock + 1 .. Top : KeyAt(s) = s * BlockSize
  /\ \A e \in 1 .. Len(entries) : entries[e].value # None => \E q \in Live : e = EntryAt(q)
  /\ LastBlock \in Live => StartBlock = BlockAt(LastBlock)
  /\ \A q \in Inserted : BlockAt(q) = got[q - LastBlock]

(* A block that still has an entry has counted the items dequeued from it. *)
Counts == \A q \in Live : elementsCompletelyDequeued[BlockAt(q)] = Cardinality(Taken(q))

(* The slots of a block hold those of its items that are left; a block     *)
(* without an entry holds nothing.                                         *)
Contents ==
  /\ \A q \in Live : \A i \in ItemsOf(q) :
       slots[BlockAt(q)][i % BlockSize] = IF i \in Remaining THEN i ELSE NoItem
  /\ \A b \in Blocks : (\A e \in 1 .. Len(entries) : entries[e].value # b) =>
       \A o \in Offsets : slots[b][o] = NoItem

(* What the locals of a consumer lead to: from a place in an index, old or *)
(* new, that stands for block number t, to the entries of its items.       *)
Leads(c, t, from) ==
  LET h == indexes[localBlockIndex[c]]
  IN  /\ localBlockIndex[c] \in 1 .. Len(indexes) /\ indexIndex[c] \in 0 .. h.capacity - 1
      /\ \A r \in from .. BlockNo(last[c] - 1) : h.index[(indexIndex[c] + (r - t)) % h.capacity] = EntryAt(r)

FromTail(c, t) ==
  LET h == indexes[localBlockIndex[c]]
      e == h.index[indexIndex[c]]
  IN  /\ BlockNo(last[c] - 1) <= t /\ t < BlockNo(index[c]) + Newest.capacity
      /\ Leads(c, t, BlockNo(index[c]))
      /\ e = EntryAt(t) /\ entries[e].key = t * BlockSize
      /\ \A s \in LastBlock + 1 .. t : BlockAt(s) # None => s \in Inserted

(* What leads a consumer to its items at each step.                        *)
Finds(c) ==
  LET q == BlockNo(index[c])
  IN  /\ pc[c] = "key" => \E t \in Int : FromTail(c, t)
      /\ pc[c] \in {"move", "empty", "unlink"} => Leads(c, q, q)
      /\ pc[c] = "free" => Leads(c, q, q + 1) /\ block[c] \in Blocks
      /\ pc[c] \in {"empty", "unlink"} => block[c] = BlockAt(q)
      /\ pc[c] = "unlink" => Taken(q) = ItemsOf(q)
      /\ \A d \in Consumers : pc[c] = "unlink" /\ Unlinks(d, q) => c = d

(* Who has a block: an entry, a consumer that is about to give it back, or *)
(* the producer, after it has taken it out of the index again.             *)
HasBlock(b)  == {e \in 1 .. Len(entries) : entries[e].value = b}
FreedBy(b)   == {c \in Consumers : pc[c] = "free" /\ block[c] = b}
UndoneOf(b)  == {k \in 1 .. Reverted : got[k] = b}

OneOwner ==
  \A b \in Blocks :
    /\ b \in unused <=> HasBlock(b) = {} /\ FreedBy(b) = {} /\ UndoneOf(b) = {}
    /\ \A e, f \in HasBlock(b) : e = f
    /\ \A c, d \in FreedBy(b) : c = d
    /\ \A k, l \in UndoneOf(b) : k = l
    /\ HasBlock(b) # {} => FreedBy(b) = {} /\ UndoneOf(b) = {}
    /\ FreedBy(b) # {} => UndoneOf(b) = {}

PlacesOK == /\ ImplicitTypes /\ Ranges /\ Calling /\ WholeIndex /\ Placed /\ Counts /\ Contents
            /\ (\A c \in Consumers : Finds(c)) /\ OneOwner

(* Once the producer is destroyed there is nothing more to keep: nobody is *)
(* in a call.                                                              *)
IPlaces == ~isExplicit => IF prPc = "destroyed" THEN \A c \in Consumers : pc[c] = "idle" ELSE PlacesOK

-----------------------------------------------------------------------------
(* Items and block numbers.                                                *)

LEMMA BlockNoOf ==
  ASSUME NEW i \in Int
  PROVE  /\ BlockNo(i) \in Int /\ BaseOf(i) = BlockNo(i) * BlockSize /\ i % BlockSize \in Offsets
         /\ i = BlockNo(i) * BlockSize + (i % BlockSize)
         /\ i >= 0 => BlockNo(i) >= 0
<1> DEFINE q == i \div BlockSize
           r == i % BlockSize
<1>1. BlockSize \in Nat \ {0}
  BY BlockSizeType
<1>2. i = BlockSize * q + r /\ r \in 0 .. BlockSize - 1 /\ q \in Int
  BY <1>1, DivModInt
<1>3. i >= 0 => q >= 0
  <2>1. CASE q < 0
    <3>1. BlockSize * q + BlockSize <= BlockSize * 0
      BY <1>1, <1>2, <2>1, Laps
    <3> QED
      BY <1>1, <1>2, <3>1
  <2> QED
    BY <1>2, <2>1
<1> QED
  BY <1>1, <1>2, <1>3 DEF BlockNo, BaseOf, Offsets

LEMMA ItemsOfNo ==
  ASSUME NEW q \in Int
  PROVE  /\ q * BlockSize \in Int /\ BlockNo(q * BlockSize) = q
         /\ (q + 1) * BlockSize = q * BlockSize + BlockSize
         /\ \A i \in Int : i \in ItemsOf(q) <=> BlockNo(i) = q
         /\ \A o \in Offsets : q * BlockSize + o \in ItemsOf(q) /\ (q * BlockSize + o) % BlockSize = o
         /\ ItemsOf(q) \subseteq Int
<1>1. BlockSize \in Nat \ {0} /\ BlockSize > 1
  BY BlockSizeType
<1>2. q * BlockSize \in Int /\ BlockSize * q = q * BlockSize /\ (q + 1) * BlockSize = q * BlockSize + BlockSize
  BY <1>1
<1>3. ASSUME NEW i \in Int, i \in ItemsOf(q) PROVE BlockNo(i) = q
  <2>1. i - q * BlockSize \in 0 .. BlockSize - 1
    BY <1>1, <1>2, <1>3 DEF ItemsOf
  <2>2. i = BlockSize * q + (i - q * BlockSize)
    BY <1>2
  <2> QED
    BY <1>1, <2>1, <2>2, Quotient DEF BlockNo
<1>4. ASSUME NEW i \in Int, BlockNo(i) = q PROVE i \in ItemsOf(q)
  <2>1. i = q * BlockSize + (i % BlockSize) /\ i % BlockSize \in 0 .. BlockSize - 1
    BY <1>4, BlockNoOf DEF Offsets
  <2> QED
    BY <1>1, <1>2, <2>1 DEF ItemsOf
<1>5. ASSUME NEW o \in Offsets
      PROVE  q * BlockSize + o \in ItemsOf(q) /\ (q * BlockSize + o) % BlockSize = o
  <2>1. o \in 0 .. BlockSize - 1 /\ q * BlockSize + o \in Int /\ q * BlockSize + o = BlockSize * q + o
    BY <1>1, <1>2 DEF Offsets
  <2> QED
    BY <1>1, <1>2, <2>1, Quotient DEF ItemsOf
<1>6. q * BlockSize \in ItemsOf(q)
  BY <1>1, <1>2 DEF ItemsOf
<1>7. ItemsOf(q) \subseteq Int
  BY <1>1, <1>2 DEF ItemsOf
<1> QED
  BY <1>2, <1>3, <1>4, <1>5, <1>6, <1>7

(* A larger item has no smaller block number.                              *)
LEMMA BlockNoMonotone ==
  ASSUME NEW i \in Int, NEW j \in Int, i <= j
  PROVE  BlockNo(i) <= BlockNo(j)
<1>1. BlockSize \in Nat \ {0}
  BY BlockSizeType
<1> DEFINE p == BlockNo(i)
           q == BlockNo(j)
<1>2. /\ p \in Int /\ i \in p * BlockSize .. p * BlockSize + BlockSize - 1
      /\ q \in Int /\ j \in q * BlockSize .. q * BlockSize + BlockSize - 1
  BY BlockNoOf, ItemsOfNo DEF ItemsOf
<1> HIDE DEF p, q
<1>3. ASSUME q < p PROVE FALSE
  <2>1. BlockSize * q + BlockSize <= BlockSize * p
    BY <1>1, <1>2, <1>3, Laps
  <2> QED
    BY <1>1, <1>2, <2>1
<1>4. p <= q
  BY <1>2, <1>3
<1> QED
  BY <1>4 DEF p, q

(* Two items of a block are in different slots of it.                      *)
LEMMA OneItemPerSlot ==
  ASSUME NEW q \in Int, NEW i \in ItemsOf(q), NEW j \in ItemsOf(q), i % BlockSize = j % BlockSize
  PROVE  i = j
<1>1. i \in Int /\ j \in Int /\ BlockNo(i) = q /\ BlockNo(j) = q
  BY ItemsOfNo
<1>2. i = q * BlockSize + (i % BlockSize) /\ j = q * BlockSize + (j % BlockSize)
  BY <1>1, BlockNoOf
<1> QED
  BY <1>2

-----------------------------------------------------------------------------
(* The current index and its entries.                                      *)

LEMMA HeaderFacts ==
  ASSUME NEW h \in Headers
  PROVE  /\ h.capacity \in Nat \ {0} /\ h.tail \in 0 .. h.capacity - 1
         /\ h.index \in [0 .. h.capacity - 1 -> Nat]
         /\ h = IndexHeader(h.capacity, h.tail, h.index)
BY DEF Headers, IndexHeader

LEMMA HeaderMade ==
  ASSUME NEW n \in Nat \ {0}, NEW t \in 0 .. n - 1, NEW x \in [0 .. n - 1 -> Nat]
  PROVE  IndexHeader(n, t, x) \in Headers
BY DEF Headers, IndexHeader

LEMMA NewestFacts ==
  ASSUME ImplicitTypes
  PROVE  /\ Newest \in Headers /\ current \in 1 .. Len(indexes) /\ current \in Nat
         /\ Newest.capacity \in Nat \ {0} /\ Newest.tail \in 0 .. Newest.capacity - 1
         /\ Newest.index \in [0 .. Newest.capacity - 1 -> Nat]
         /\ Newest = IndexHeader(Newest.capacity, Newest.tail, Newest.index)
<1>1. current \in 1 .. Len(indexes) /\ current \in Nat
  BY DEF ImplicitTypes, current
<1>2. Newest \in Headers
  BY <1>1 DEF ImplicitTypes, Newest
<1> QED
  BY <1>1, <1>2, HeaderFacts

LEMMA Numbers ==
  ASSUME TypeOK, ImplicitTypes, Calling
  PROVE  /\ LastBlock \in Int /\ LastBlock >= -1 /\ Len(got) \in Nat
         /\ Reverted \in Nat /\ Reverted <= Len(got) /\ (prPc # "undo" => Reverted = 0)
         /\ Top \in Int /\ TailNo \in Int /\ LastBlock <= TailNo /\ TailNo <= Top
         /\ (tailIndex > 0 => LastBlock >= 0)
         /\ LastBlock * BlockSize \in Int /\ BaseOf(tailIndex - 1) = LastBlock * BlockSize
<1>1. tailIndex - 1 \in Int /\ tailIndex \in Nat /\ Len(got) \in Nat
  BY DEF TypeOK, ImplicitTypes
<1>2. LastBlock \in Int /\ BaseOf(tailIndex - 1) = LastBlock * BlockSize /\ (tailIndex > 0 => LastBlock >= 0)
  BY <1>1, BlockNoOf DEF LastBlock
<1>3. LastBlock >= -1
  <2>1. BlockNo(-1) <= LastBlock
    BY <1>1, BlockNoMonotone DEF LastBlock
  <2>2. -1 \in ItemsOf(-1)
    BY BlockSizeType DEF ItemsOf
  <2>3. BlockNo(-1) = -1
    BY <2>2, ItemsOfNo
  <2> QED
    BY <1>2, <2>1, <2>3
<1>4. Reverted \in Nat /\ Reverted <= Len(got) /\ (prPc # "undo" => Reverted = 0)
  <2>1. prPc = "undo" => Reverted \in 0 .. Len(got)
    BY DEF Calling
  <2>2. prPc # "undo" => Reverted = 0
    BY DEF Reverted
  <2> QED
    BY <1>1, <2>1, <2>2
<1>5. Top \in Int /\ Top >= LastBlock + Len(got)
  BY <1>1, <1>2 DEF Top
<1>6. LastBlock * BlockSize \in Int
  BY <1>2, BlockSizeType
<1> QED
  BY <1>1, <1>2, <1>3, <1>4, <1>5, <1>6 DEF TailNo

(* The places of the current index, as entries of consecutive numbers.     *)
LEMMA EntryPlace ==
  ASSUME TypeOK, ImplicitTypes, Calling, WholeIndex, NEW q \in Int
  PROVE  /\ (Newest.tail + (q - TailNo)) % Newest.capacity \in 0 .. Newest.capacity - 1
         /\ EntryAt(q) \in 1 .. Len(entries) /\ entries[EntryAt(q)] \in Entry
<1>1. Newest.capacity \in Nat \ {0} /\ Newest.tail \in Nat
  BY NewestFacts
<1>2. Newest.tail + (q - TailNo) \in Int
  BY <1>1, Numbers
<1>3. (Newest.tail + (q - TailNo)) % Newest.capacity \in 0 .. Newest.capacity - 1
  BY <1>1, <1>2, DivModInt
<1>4. EntryAt(q) \in 1 .. Len(entries)
  BY <1>3, NewestFacts DEF EntryAt, WholeIndex, Newest
<1>5. entries[EntryAt(q)] \in Entry
  BY <1>4 DEF ImplicitTypes
<1> QED
  BY <1>3, <1>4, <1>5

LEMMA EntryOfTail ==
  ASSUME TypeOK, ImplicitTypes, Calling
  PROVE  EntryAt(TailNo) = Newest.index[Newest.tail]
<1>1. Newest.capacity \in Nat \ {0} /\ Newest.tail \in Nat /\ Newest.tail < Newest.capacity
  BY NewestFacts
<1>2. Newest.tail + (TailNo - TailNo) = Newest.tail
  BY <1>1, Numbers
<1>3. Newest.tail % Newest.capacity = Newest.tail
  BY <1>1, SmallMod
<1> QED
  BY <1>2, <1>3 DEF EntryAt

LEMMA EntriesDiffer ==
  ASSUME TypeOK, ImplicitTypes, Calling, WholeIndex,
         NEW p \in Int, NEW q \in Int, p < q, q - p < Newest.capacity
  PROVE  EntryAt(p) # EntryAt(q)
<1>1. Newest.capacity \in Nat \ {0} /\ Newest.tail \in Nat /\ TailNo \in Int
  BY NewestFacts, Numbers
<1> DEFINE a == Newest.tail + (p - TailNo)
           b == Newest.tail + (q - TailNo)
<1>2. a \in Int /\ b \in Int /\ a < b /\ b - a < Newest.capacity
  BY <1>1
<1> HIDE DEF a, b
<1>3. a % Newest.capacity # b % Newest.capacity
  BY <1>1, <1>2, DifferentSlotsInt
<1>4. /\ a % Newest.capacity \in 0 .. Newest.capacity - 1
      /\ b % Newest.capacity \in 0 .. Newest.capacity - 1
  BY <1>1, <1>2, DivModInt
<1>5. Newest.index[a % Newest.capacity] # Newest.index[b % Newest.capacity]
  BY <1>3, <1>4 DEF WholeIndex
<1> QED
  BY <1>5 DEF EntryAt, a, b

LEMMA EntryALapBack ==
  ASSUME TypeOK, ImplicitTypes, Calling, NEW q \in Int
  PROVE  EntryAt(q - Newest.capacity) = EntryAt(q)
<1>1. Newest.capacity \in Nat \ {0} /\ Newest.tail \in Nat /\ TailNo \in Int
  BY NewestFacts, Numbers
<1> DEFINE a == Newest.tail + (q - TailNo)
<1>2. a \in Int /\ Newest.tail + ((q - Newest.capacity) - TailNo) = a - Newest.capacity
  BY <1>1
<1> HIDE DEF a
<1>3. (a - Newest.capacity) % Newest.capacity = a % Newest.capacity
  BY <1>1, <1>2, SameSlotInt
<1> QED
  BY <1>2, <1>3 DEF EntryAt, a

LEMMA LiveRange ==
  ASSUME TypeOK, ImplicitTypes, Calling, NEW q \in Live
  PROVE  q \in Int /\ 0 <= q /\ q <= LastBlock + Len(got) /\ q <= Top
<1>1. q \in 0 .. LastBlock \/ q \in LastBlock + Reverted + 1 .. LastBlock + Len(got)
  BY DEF Live, Inserted
<1> QED
  BY <1>1, Numbers DEF Top

LEMMA LiveEntries ==
  ASSUME TypeOK, PlacesOK, NEW p \in Live, NEW q \in Live
  PROVE  EntryAt(p) = EntryAt(q) \/ BlockAt(p) = BlockAt(q) => p = q
<1> USE DEF PlacesOK
<1>1. /\ p \in Int /\ q \in Int /\ p <= Top /\ q <= Top /\ Top \in Int
      /\ Top - Newest.capacity < p /\ Top - Newest.capacity < q /\ Newest.capacity \in Nat
  BY LiveRange, Numbers, NewestFacts DEF Placed
<1>2. EntryAt(p) = EntryAt(q) => p = q
  <2>1. CASE p < q
    BY <1>1, <2>1, EntriesDiffer
  <2>2. CASE q < p
    BY <1>1, <2>2, EntriesDiffer
  <2> QED
    BY <1>1, <2>1, <2>2
<1>3. BlockAt(p) = BlockAt(q) => EntryAt(p) = EntryAt(q)
  <2>1. EntryAt(p) \in 1 .. Len(entries) /\ EntryAt(q) \in 1 .. Len(entries) /\ BlockAt(p) \in Blocks
    BY <1>1, EntryPlace DEF Placed
  <2>2. BlockAt(p) = BlockAt(q) => EntryAt(p) \in HasBlock(BlockAt(p)) /\ EntryAt(q) \in HasBlock(BlockAt(p))
    BY <2>1 DEF HasBlock, BlockAt
  <2> QED
    BY <2>1, <2>2 DEF OneOwner
<1> QED
  BY <1>2, <1>3

View == <<tailIndex, got, prPc, op, indexes>>

LEMMA SameView ==
  ASSUME UNCHANGED View
  PROVE  /\ UNCHANGED <<LastBlock, Reverted, Top, TailNo, Inserted, Newest, current>>
         /\ \A q : EntryAt(q)' = EntryAt(q)
<1>1. UNCHANGED <<LastBlock, Reverted, Top, TailNo, Inserted, Newest, current>>
  BY DEF View, LastBlock, BlockNo, Reverted, Top, TailNo, Inserted, Newest, current
<1> QED
  BY <1>1 DEF EntryAt

(* The locals of d by which it finds its items are left alone.             *)
Stays(d) == /\ pc'[d] = pc[d] /\ index'[d] = index[d] /\ last'[d] = last[d]
            /\ localBlockIndex'[d] = localBlockIndex[d] /\ indexIndex'[d] = indexIndex[d]
            /\ block'[d] = block[d]

LEMMA StaysFacts ==
  ASSUME NEW d, Stays(d)
  PROVE  /\ EndIndex(d)' = EndIndex(d) /\ Pending(d)' = Pending(d) /\ NotMoved(d)' = NotMoved(d)
         /\ \A q : Unlinks(d, q)' = Unlinks(d, q)
BY DEF Stays, EndIndex, Pending, NotMoved, Unlinks, BlockNo, BaseOf, Smaller

LEMMA SameLive ==
  ASSUME UNCHANGED View, \A q \in 0 .. LastBlock : Gone(q)' <=> Gone(q)
  PROVE  Live' = Live
BY SameView DEF Live

LEMMA SameTaken ==
  ASSUME UNCHANGED headIndex, \A d \in Consumers : Pending(d)' = Pending(d)
  PROVE  \A q : Taken(q)' = Taken(q)
BY DEF Taken, ItemsOf

LEMMA SameGone ==
  ASSUME NEW q, Taken(q)' = Taken(q), \A d \in Consumers : Unlinks(d, q)' = Unlinks(d, q)
  PROVE  Gone(q)' <=> Gone(q)
BY DEF Gone, ItemsOf

LEMMA SameRemaining ==
  ASSUME UNCHANGED <<headIndex, tailIndex>>, \A d \in Consumers : NotMoved(d)' = NotMoved(d)
  PROVE  Remaining' = Remaining
BY DEF Remaining

-----------------------------------------------------------------------------
(* What a step keeps, by what it leaves alone.                             *)

LEMMA KeepCalling == ASSUME Calling, UNCHANGED <<View, tailBlock>> PROVE Calling'
<1>1. UNCHANGED View
  BY DEF View
<1> QED
  BY <1>1, SameView DEF Calling, View, BlocksNeeded

LEMMA KeepWhole == ASSUME WholeIndex, UNCHANGED indexes, Len(entries') = Len(entries) PROVE WholeIndex'
BY DEF WholeIndex, Newest, current

LEMMA KeepPlaced ==
  ASSUME Placed, UNCHANGED <<View, entries, tailBlock>>, Live' = Live
  PROVE  Placed'
<1>1. UNCHANGED View
  BY DEF View
<1>2. \A q : EntryAt(q)' = EntryAt(q) /\ BlockAt(q)' = BlockAt(q) /\ KeyAt(q)' = KeyAt(q)
  BY <1>1, SameView DEF BlockAt, KeyAt
<1>3. UNCHANGED <<LastBlock, Top, Inserted, Newest, StartBlock, got, entries>>
  BY <1>1, SameView DEF View, StartBlock
<1> QED
  BY <1>2, <1>3 DEF Placed

LEMMA KeepCounts ==
  ASSUME Counts, UNCHANGED <<View, entries, elementsCompletelyDequeued>>, Live' = Live,
         \A q \in Live : Taken(q)' = Taken(q)
  PROVE  Counts'
<1>1. UNCHANGED View
  BY DEF View
<1> QED
  BY <1>1, SameView DEF Counts, BlockAt

LEMMA KeepContents ==
  ASSUME Contents, UNCHANGED <<View, entries, slots>>, Live' = Live, Remaining' = Remaining
  PROVE  Contents'
<1>1. UNCHANGED View
  BY DEF View
<1>2. \A q : BlockAt(q)' = BlockAt(q)
  BY <1>1, SameView DEF BlockAt
<1> QED
  BY <1>2 DEF Contents, ItemsOf

LEMMA KeepOwner ==
  ASSUME OneOwner, UNCHANGED <<View, entries, unused>>, \A b \in Blocks : FreedBy(b)' = FreedBy(b)
  PROVE  OneOwner'
<1>1. UNCHANGED View
  BY DEF View
<1>2. UNCHANGED Reverted /\ UNCHANGED got
  BY <1>1, SameView DEF View
<1>3. \A b : HasBlock(b)' = HasBlock(b) /\ UndoneOf(b)' = UndoneOf(b)
  BY <1>2 DEF HasBlock, UndoneOf
<1> QED
  BY <1>3 DEF OneOwner

(* The steps of others let d find its way, if they do not change the entry *)
(* of the block it is in.                                                  *)
LEMMA KeepFinds ==
  ASSUME UNCHANGED View, NEW d \in Consumers, Finds(d), Stays(d),
         \A q \in Int : BlockAt(q)' = BlockAt(q) \/ BlockAt(q)' = None,
         \A t \in Int : entries'[EntryAt(t)].key = entries[EntryAt(t)].key,
         pc[d] \in {"empty", "unlink"} => BlockAt(BlockNo(index[d]))' = BlockAt(BlockNo(index[d])),
         pc[d] = "unlink" =>
            /\ Taken(BlockNo(index[d]))' = Taken(BlockNo(index[d]))
            /\ \A e \in Consumers : Unlinks(e, BlockNo(index[d]))' => Unlinks(e, BlockNo(index[d]))
  PROVE  Finds(d)'
<1> DEFINE q == BlockNo(index[d])
<1>1. q' = q /\ BlockNo(last[d] - 1)' = BlockNo(last[d] - 1)
  BY DEF Stays, BlockNo
<1>2. ASSUME NEW t, NEW f PROVE Leads(d, t, f)' = Leads(d, t, f)
  BY SameView DEF Leads, Stays, View, BlockNo
<1>3. ASSUME NEW t \in Int, FromTail(d, t) PROVE FromTail(d, t)'
  <2>1. Leads(d, t, q)' = Leads(d, t, q)
    <3>1. PICK f : f = q
      OBVIOUS
    <3>2. Leads(d, t, f)' = Leads(d, t, f)
      BY <1>2
    <3>3. Leads(d, t, f) = Leads(d, t, q)
      BY <3>1
    <3>4. Leads(d, t, f)' = Leads(d, t, q)'
      BY <1>1, <3>1 DEF Leads
    <3> QED
      BY <3>2, <3>3, <3>4
  <2>2. UNCHANGED <<LastBlock, Inserted, Newest>> /\ \A s : EntryAt(s)' = EntryAt(s)
    BY SameView
  <2>3. indexes' = indexes /\ indexIndex'[d] = indexIndex[d] /\ localBlockIndex'[d] = localBlockIndex[d]
    BY DEF View, Stays
  <2>4. \A s \in LastBlock + 1 .. t : BlockAt(s)' # None => s \in Inserted
    BY <1>3 DEF FromTail
  <2>5. /\ indexes[localBlockIndex[d]].index[indexIndex[d]] = EntryAt(t)
        /\ entries'[EntryAt(t)].key = t * BlockSize
    BY <1>3 DEF FromTail
  <2>6. BlockNo(last[d] - 1) <= t /\ t < q + Newest.capacity /\ Leads(d, t, q)
    BY <1>3 DEF FromTail
  <2> HIDE DEF q
  <2> QED
    BY <1>1, <2>1, <2>2, <2>3, <2>4, <2>5, <2>6 DEF FromTail, q
<1>4. pc'[d] = pc[d] /\ block'[d] = block[d]
  BY DEF Stays
<1>5. pc[d] = "unlink" => Taken(q)' = ItemsOf(q)
  BY DEF Finds
<1>6. \A e \in Consumers : pc[d] = "unlink" /\ Unlinks(e, q)' => d = e
  BY DEF Finds
<1>7. pc[d] \in {"empty", "unlink"} => block[d] = BlockAt(q)'
  BY DEF Finds
<1>8. /\ pc[d] = "key" => \E t \in Int : FromTail(d, t)
      /\ pc[d] \in {"move", "empty", "unlink"} => Leads(d, q, q)
      /\ pc[d] = "free" => Leads(d, q, q + 1) /\ block[d] \in Blocks
  BY DEF Finds
<1>9. ItemsOf(q)' = ItemsOf(q) /\ Unlinks(d, q) = Unlinks(d, q)
  BY <1>1 DEF ItemsOf
<1> QED
  BY <1>1, <1>2, <1>3, <1>4, <1>5, <1>6, <1>7, <1>8, <1>9 DEF Finds

(* What a consumer has claimed and the block it is in.                     *)
LEMMA ClaimOf ==
  ASSUME TypeOK, ImplicitTypes, Ranges, NEW c \in Consumers, pc[c] \in Dequeuing
  PROVE  /\ index[c] \in Nat /\ last[c] \in Nat /\ EndIndex(c) \in Nat
         /\ index[c] < EndIndex(c) /\ EndIndex(c) <= last[c] /\ last[c] <= headIndex
         /\ headIndex \in Nat /\ tailIndex \in Nat /\ headIndex <= tailIndex
         /\ BlockNo(index[c]) \in Nat /\ BlockNo(last[c] - 1) \in Nat
         /\ BlockNo(index[c]) <= BlockNo(last[c] - 1) /\ BlockNo(last[c] - 1) <= LastBlock
         /\ \A i \in Claimed(c) : BlockNo(i) = BlockNo(index[c])
         /\ Claimed(c) \subseteq ItemsOf(BlockNo(index[c]))
         /\ EndIndex(c) # last[c] => BlockNo(EndIndex(c)) = BlockNo(index[c]) + 1
<1> DEFINE q == BlockNo(index[c])
<1>1. /\ index[c] \in Nat /\ last[c] \in Nat /\ index[c] < last[c] /\ last[c] <= headIndex
      /\ headIndex \in Nat /\ tailIndex \in Nat /\ headIndex <= tailIndex
  BY DEF TypeOK, ImplicitTypes, Ranges
<1>2. q \in Nat /\ BaseOf(index[c]) = q * BlockSize /\ index[c] \in ItemsOf(q)
  <2>1. index[c] \in Int /\ index[c] >= 0
    BY <1>1
  <2>2. q \in Nat /\ BaseOf(index[c]) = q * BlockSize
    BY <2>1, BlockNoOf
  <2> QED
    BY <2>1, <2>2, ItemsOfNo
<1>3. BlockSize \in Nat /\ BlockSize > 1 /\ q * BlockSize \in Int
  BY <1>2, BlockSizeType, ItemsOfNo
<1>4. q * BlockSize <= index[c] /\ index[c] < q * BlockSize + BlockSize
  BY <1>1, <1>2, <1>3 DEF ItemsOf
<1>5. EndIndex(c) = IF last[c] < q * BlockSize + BlockSize THEN last[c] ELSE q * BlockSize + BlockSize
  BY <1>2 DEF EndIndex, Smaller
<1>6. /\ EndIndex(c) \in Nat /\ index[c] < EndIndex(c) /\ EndIndex(c) <= last[c]
      /\ EndIndex(c) <= q * BlockSize + BlockSize
  <2> HIDE DEF q
  <2> QED
    BY <1>1, <1>3, <1>4, <1>5
<1>7. Claimed(c) \subseteq ItemsOf(q)
  <2> HIDE DEF q
  <2> QED
    BY <1>1, <1>3, <1>4, <1>6 DEF Claimed, ItemsOf
<1>8. ASSUME EndIndex(c) # last[c] PROVE BlockNo(EndIndex(c)) = q + 1
  <2>1. EndIndex(c) = (q + 1) * BlockSize
    BY <1>2, <1>5, <1>8, ItemsOfNo
  <2> QED
    BY <1>2, <2>1, ItemsOfNo
<1>9. BlockNo(last[c] - 1) \in Nat /\ q <= BlockNo(last[c] - 1) /\ BlockNo(last[c] - 1) <= LastBlock
  <2>1. last[c] - 1 \in Nat /\ index[c] <= last[c] - 1 /\ last[c] - 1 <= tailIndex - 1
    BY <1>1
  <2> QED
    BY <1>1, <2>1, BlockNoOf, BlockNoMonotone DEF LastBlock
<1>10. \A i \in Claimed(c) : BlockNo(i) = q
  BY <1>2, <1>7, ItemsOfNo
<1> QED
  BY <1>1, <1>2, <1>6, <1>7, <1>8, <1>9, <1>10

LEMMA PendingFacts ==
  ASSUME TypeOK, ImplicitTypes, Ranges, NEW c \in Consumers
  PROVE  /\ pc[c] \in Dequeuing => Pending(c) \subseteq index[c] .. last[c] - 1
         /\ pc[c] \notin Dequeuing => Pending(c) = {} /\ NotMoved(c) = {}
         /\ NotMoved(c) \subseteq Pending(c)
         /\ \A i \in Pending(c) : i \in Nat /\ i < headIndex
<1>1. CASE pc[c] \in Dequeuing
  <2>1. /\ index[c] \in Nat /\ last[c] \in Nat /\ EndIndex(c) \in Nat
        /\ index[c] < EndIndex(c) /\ EndIndex(c) <= last[c] /\ last[c] <= headIndex /\ headIndex \in Nat
    BY <1>1, ClaimOf
  <2>2. Pending(c) = IF pc[c] \in {"unlink", "free"} THEN EndIndex(c) .. last[c] - 1
                     ELSE index[c] .. last[c] - 1
    BY <1>1 DEF Pending, Dequeuing
  <2>3. NotMoved(c) = IF pc[c] \in {"locate", "key", "move"} THEN index[c] .. last[c] - 1
                      ELSE EndIndex(c) .. last[c] - 1
    BY <1>1 DEF NotMoved, Dequeuing
  <2> QED
    BY <1>1, <2>1, <2>2, <2>3
<1>2. CASE pc[c] \notin Dequeuing
  <2>1. last[c] = 0
    BY <1>2 DEF Ranges
  <2> QED
    BY <1>2, <2>1 DEF Pending, NotMoved, Dequeuing
<1> QED
  BY <1>1, <1>2

LEMMA PendingApart ==
  ASSUME TypeOK, ImplicitTypes, Ranges, NEW c \in Consumers, NEW d \in Consumers, c # d,
         NEW i \in Pending(c)
  PROVE  i \notin Pending(d)
<1>1. CASE pc[c] \in Dequeuing /\ pc[d] \in Dequeuing
  <2>1. /\ last[c] <= index[d] \/ last[d] <= index[c]
        /\ i \in index[c] .. last[c] - 1 /\ Pending(d) \subseteq index[d] .. last[d] - 1
        /\ index[c] \in Nat /\ last[c] \in Nat /\ index[d] \in Nat /\ last[d] \in Nat
    BY <1>1, PendingFacts, ClaimOf DEF Ranges
  <2> QED
    BY <2>1
<1>2. CASE ~(pc[c] \in Dequeuing /\ pc[d] \in Dequeuing)
  BY <1>2, PendingFacts
<1> QED
  BY <1>1, <1>2

(* A block is live as long as one of its items is not counted as dequeued, *)
(* or the consumer that counted the last one has not unlinked it.          *)
LEMMA LiveIfLeft ==
  ASSUME TypeOK, NEW i \in Nat, i < tailIndex, i \notin Taken(BlockNo(i))
  PROVE  BlockNo(i) \in Live /\ BlockNo(i) \in 0 .. LastBlock
<1>1. BlockNo(i) \in Nat /\ i \in ItemsOf(BlockNo(i))
  BY BlockNoOf, ItemsOfNo
<1>2. BlockNo(i) <= LastBlock /\ LastBlock \in Int
  BY BlockNoMonotone, BlockNoOf DEF TypeOK, LastBlock
<1> QED
  BY <1>1, <1>2 DEF Live, Gone

LEMMA LiveIfPending ==
  ASSUME TypeOK, ImplicitTypes, Ranges, NEW c \in Consumers, NEW i \in Pending(c)
  PROVE  BlockNo(i) \in Live /\ BlockNo(i) \in 0 .. LastBlock
<1>1. i \in Nat /\ i < headIndex /\ headIndex \in Nat /\ tailIndex \in Nat /\ headIndex <= tailIndex
  BY PendingFacts DEF TypeOK, Ranges
<1>2. i \notin Taken(BlockNo(i))
  BY DEF Taken
<1> QED
  BY <1>1, <1>2, LiveIfLeft

LEMMA LiveIfUnlinking ==
  ASSUME TypeOK, ImplicitTypes, Ranges, NEW c \in Consumers, pc[c] = "unlink"
  PROVE  BlockNo(index[c]) \in Live /\ BlockNo(index[c]) \in 0 .. LastBlock
<1>1. /\ BlockNo(index[c]) \in Nat /\ BlockNo(index[c]) <= BlockNo(last[c] - 1)
      /\ BlockNo(last[c] - 1) \in Nat /\ BlockNo(last[c] - 1) <= LastBlock
  BY ClaimOf DEF Dequeuing
<1>2. LastBlock \in Int
  BY BlockNoOf DEF TypeOK, LastBlock
<1> QED
  BY <1>1, <1>2 DEF Live, Gone, Unlinks

(* All blocks a consumer still has to visit are live.                      *)
LEMMA LiveAhead ==
  ASSUME TypeOK, ImplicitTypes, Ranges, NEW c \in Consumers, pc[c] \in Dequeuing,
         NEW r \in Int, BlockNo(index[c]) <= r, r <= BlockNo(last[c] - 1),
         pc[c] = "free" => BlockNo(index[c]) < r
  PROVE  r \in Live /\ r \in 0 .. LastBlock
<1> DEFINE q == BlockNo(index[c])
<1>1. /\ index[c] \in Nat /\ last[c] \in Nat /\ EndIndex(c) \in Nat /\ index[c] < EndIndex(c)
      /\ EndIndex(c) <= last[c] /\ q \in Nat /\ BlockNo(last[c] - 1) \in Nat
      /\ EndIndex(c) # last[c] => BlockNo(EndIndex(c)) = q + 1
      /\ EndIndex(c) - 1 \in Claimed(c) /\ BlockNo(EndIndex(c) - 1) = q
  <2>1. EndIndex(c) - 1 \in Claimed(c)
    BY ClaimOf DEF Claimed
  <2> QED
    BY <2>1, ClaimOf
<1>2. CASE r = q /\ pc[c] = "unlink"
  BY <1>2, LiveIfUnlinking
<1>3. CASE r = q /\ pc[c] # "unlink"
  <2>1. index[c] \in Pending(c)
    BY <1>1, <1>3 DEF Pending, Dequeuing
  <2> QED
    BY <1>3, <2>1, LiveIfPending
<1>4. CASE q < r
  <2>1. EndIndex(c) # last[c]
    BY <1>1, <1>4
  <2>2. \A i \in EndIndex(c) .. last[c] - 1 : i \in Pending(c)
    BY <1>1 DEF Pending, Dequeuing
  <2>3. r * BlockSize \in Int /\ BlockNo(r * BlockSize) = r /\ r \in Nat
    BY <1>1, <1>4, ItemsOfNo
  <2>4. r * BlockSize \in EndIndex(c) .. last[c] - 1 \/ r = BlockNo(EndIndex(c)) \/ r = BlockNo(last[c] - 1)
    <3>1. CASE r * BlockSize < EndIndex(c)
      <4>1. BlockNo(r * BlockSize) <= BlockNo(EndIndex(c))
        BY <1>1, <2>3, <3>1, BlockNoMonotone
      <4> QED
        BY <1>1, <1>4, <2>1, <2>3, <4>1
    <3>2. CASE last[c] - 1 < r * BlockSize
      <4>1. BlockNo(last[c] - 1) <= BlockNo(r * BlockSize)
        BY <1>1, <2>3, <3>2, BlockNoMonotone
      <4> QED
        BY <1>1, <2>3, <4>1
    <3> QED
      BY <1>1, <2>3, <3>1, <3>2
  <2>5. EndIndex(c) \in EndIndex(c) .. last[c] - 1 /\ last[c] - 1 \in EndIndex(c) .. last[c] - 1
    BY <1>1, <2>1
  <2> QED
    BY <2>2, <2>3, <2>4, <2>5, LiveIfPending
<1> QED
  BY <1>1, <1>2, <1>3, <1>4

LEMMA Between ==
  ASSUME NEW a \in Int, NEW b \in Int, NEW j \in Int
  PROVE  j \in a .. b - 1 <=> a <= j /\ j < b
OBVIOUS

-----------------------------------------------------------------------------
(* The steps of a consumer that only change its locals.                    *)

LEMMA LocalStep ==
  ASSUME TypeOK, PlacesOK, NEW c \in Consumers,
         UNCHANGED <<View, blockVars, elementsCompletelyDequeued, entries>>,
         \A d \in Consumers \ {c} : Stays(d),
         \A q : Taken(q)' = Taken(q) /\ (Unlinks(c, q)' = Unlinks(c, q)),
         Remaining' = Remaining, pc[c] # "free", pc'[c] # "free",
         ImplicitTypes', Ranges', Finds(c)'
  PROVE  PlacesOK'
<1> USE DEF PlacesOK
<1>1. /\ UNCHANGED View /\ UNCHANGED slots /\ UNCHANGED unused /\ UNCHANGED tailBlock
      /\ UNCHANGED elementsCompletelyDequeued /\ UNCHANGED entries /\ UNCHANGED indexes
  BY DEF blockVars, View
<1>2. \A d \in Consumers : \A q : Unlinks(d, q)' = Unlinks(d, q)
  <2>1. ASSUME NEW d \in Consumers, d # c PROVE \A q : Unlinks(d, q)' = Unlinks(d, q)
    BY <2>1, StaysFacts
  <2> QED
    BY <2>1
<1>3. \A q : Gone(q)' <=> Gone(q)
  BY <1>2, SameGone
<1>4. Live' = Live
  BY <1>1, <1>3, SameLive
<1>5. Calling' /\ WholeIndex' /\ Placed' /\ Counts' /\ Contents'
  BY <1>1, <1>4, KeepCalling, KeepWhole, KeepPlaced, KeepCounts, KeepContents
<1>6. OneOwner'
  <2>1. ASSUME NEW b \in Blocks PROVE FreedBy(b)' = FreedBy(b)
    BY DEF FreedBy, Stays
  <2> QED
    BY <1>1, <2>1, KeepOwner
<1>7. ASSUME NEW d \in Consumers, d # c PROVE Finds(d)'
  <2>1. Stays(d) /\ Finds(d)
    BY <1>7
  <2>2. \A q : BlockAt(q)' = BlockAt(q) /\ KeyAt(q)' = KeyAt(q)
    BY <1>1, SameView DEF BlockAt, KeyAt
  <2>3. PICK r : r = BlockNo(index[d])
    OBVIOUS
  <2>4. BlockNo(index[d])' = r
    BY <2>1, <2>3 DEF Stays, BlockNo
  <2>5. Taken(r)' = Taken(r) /\ \A e \in Consumers : Unlinks(e, r)' => Unlinks(e, r)
    BY <1>2
  <2>6. /\ Taken(BlockNo(index[d]))' = Taken(BlockNo(index[d]))
        /\ \A e \in Consumers : Unlinks(e, BlockNo(index[d]))' => Unlinks(e, BlockNo(index[d]))
    BY <2>3, <2>4, <2>5 DEF Taken, Unlinks
  <2>7. /\ BlockAt(BlockNo(index[d]))' = BlockAt(BlockNo(index[d]))
        /\ \A t \in Int : entries'[EntryAt(t)].key = entries[EntryAt(t)].key
    <3>1. BlockAt(r)' = BlockAt(r)
      BY <2>2
    <3> QED
      BY <1>1, <2>3, <2>4, <3>1 DEF BlockAt, EntryAt
  <2> QED
    BY <1>1, <2>1, <2>2, <2>6, <2>7, KeepFinds
<1> QED
  BY <1>5, <1>6, <1>7

LEMMA ClaimApart ==
  ASSUME IInv, ImplicitTypes, NEW c \in Consumers, ClaimStep(c)
  PROVE  /\ pc[c] \notin Dequeuing /\ UNCHANGED <<tailIndex, notClaim>>
         /\ pc' = [pc EXCEPT ![c] = pc'[c]] /\ last' = [last EXCEPT ![c] = last'[c]]
         /\ index' = [index EXCEPT ![c] = index'[c]]
         /\ \/ /\ pc[c] = "claim" /\ pc'[c] = "locate" /\ actualCount[c] \in Some
               /\ headIndex' = headIndex + actualCount[c]
               /\ index' = [index EXCEPT ![c] = headIndex]
               /\ last' = [last EXCEPT ![c] = headIndex + actualCount[c]]
            \/ pc'[c] \notin Dequeuing /\ UNCHANGED <<headIndex, index, last>>
<1>1. TypeOK
  BY DEF IInv
<1>2. UNCHANGED notClaim
  BY DEF ClaimStep
<1> USE DEF Dequeuing, TypeOK, ImplicitTypes, shared
<1>3. CASE Looks(c)
  <2>1. CASE \E max \in Some : Peek(c, max)
    BY <1>1, <1>2, <2>1 DEF Peek, Goto
  <2>2. CASE \E max \in Some, o \in 0 .. dequeueOvercommit : PeekStale(c, max, o)
    BY <1>1, <1>2, <2>2 DEF PeekStale, Goto
  <2> QED
    BY <1>3, <2>1, <2>2 DEF Looks
<1>4. CASE CountIn(c)
  BY <1>1, <1>2, <1>4 DEF CountIn, Goto
<1>5. CASE Acquires(c)
  BY <1>1, <1>2, <1>5 DEF Acquires, Acquire, Goto
<1>6. CASE CountOut(c)
  BY <1>1, <1>2, <1>6 DEF CountOut, Goto
<1>7. CASE Claim(c)
  <2>1. /\ pc[c] = "claim" /\ actualCount[c] \in Some /\ pc' = [pc EXCEPT ![c] = "locate"]
        /\ headIndex' = headIndex + actualCount[c] /\ tailIndex' = tailIndex
        /\ index' = [index EXCEPT ![c] = headIndex]
        /\ last' = [last EXCEPT ![c] = headIndex + actualCount[c]]
    BY <1>7, ClaimFacts
  <2>2. /\ pc'[c] = "locate" /\ index'[c] = headIndex /\ last'[c] = headIndex + actualCount[c]
    BY <1>1, <2>1
  <2> QED
    BY <1>2, <2>1, <2>2
<1> QED
  BY <1>1, <1>3, <1>4, <1>5, <1>6, <1>7, ClaimCases

(* The steps by which a consumer claims items change no block.             *)
LEMMA PlacesClaim ==
  ASSUME IInv, PlacesOK, NEW c \in Consumers, ClaimStep(c), UNCHANGED implicitOnly
  PROVE  PlacesOK'
<1> USE DEF PlacesOK
<1>1. TypeOK
  BY DEF IInv
<1>2. /\ UNCHANGED <<View, blockVars, elementsCompletelyDequeued, entries>> /\ UNCHANGED findVars
      /\ UNCHANGED <<tailIndex, prPc, op, indexes>>
  BY ClaimApart DEF notClaim, implicitOnly, View
<1>3. ASSUME NEW d \in Consumers, d # c PROVE Stays(d)
  <2>1. /\ pc' = [pc EXCEPT ![c] = pc'[c]] /\ last' = [last EXCEPT ![c] = last'[c]]
        /\ index' = [index EXCEPT ![c] = index'[c]]
    BY ClaimApart
  <2>2. pc'[d] = pc[d] /\ last'[d] = last[d] /\ index'[d] = index[d]
    BY <1>1, <1>3, <2>1 DEF TypeOK, ImplicitTypes
  <2> QED
    BY <1>2, <2>2 DEF Stays, findVars
<1>4. pc[c] \notin Dequeuing /\ Pending(c) = {} /\ NotMoved(c) = {}
  BY <1>1, ClaimApart, PendingFacts
<1>5. \A q : Unlinks(c, q)' = Unlinks(c, q)
  BY <1>4, ClaimApart DEF Unlinks, Dequeuing
<1>6. Finds(c)' /\ pc[c] # "free" /\ pc'[c] # "free"
  BY <1>4, ClaimApart DEF Finds, Dequeuing
<1>7. CASE pc'[c] \notin Dequeuing /\ UNCHANGED <<headIndex, index, last>>
  <2>1. Pending(c)' = Pending(c) /\ NotMoved(c)' = NotMoved(c)
    BY <1>4, <1>7 DEF Pending, NotMoved, Dequeuing
  <2>2. \A d \in Consumers : Pending(d)' = Pending(d) /\ NotMoved(d)' = NotMoved(d)
    BY <1>3, <2>1, StaysFacts
  <2>3. (\A q : Taken(q)' = Taken(q)) /\ Remaining' = Remaining
    BY <1>2, <1>7, <2>2, SameTaken, SameRemaining
  <2>4. ImplicitTypes'
    BY <1>2, <1>7 DEF ImplicitTypes, findVars, blockVars, View
  <2>5. Ranges'
    <3>1. \A d \in Consumers : pc'[d] \in Dequeuing <=> pc[d] \in Dequeuing
      BY <1>3, <1>4, <1>7 DEF Stays
    <3> QED
      BY <1>2, <1>7, <3>1 DEF Ranges
  <2> QED
    BY <1>1, <1>2, <1>3, <1>5, <1>6, <2>3, <2>4, <2>5, LocalStep
<1>8. CASE /\ pc[c] = "claim" /\ pc'[c] = "locate" /\ actualCount[c] \in Some
           /\ headIndex' = headIndex + actualCount[c]
           /\ index' = [index EXCEPT ![c] = headIndex]
           /\ last' = [last EXCEPT ![c] = headIndex + actualCount[c]]
  <2>1. /\ headIndex \in Nat /\ tailIndex \in Nat /\ actualCount[c] \in Nat /\ actualCount[c] > 0
        /\ headIndex' \in Nat /\ headIndex < headIndex' /\ headIndex' <= tailIndex
        /\ index'[c] = headIndex /\ last'[c] = headIndex'
    <3>1. headIndex \in Nat /\ tailIndex \in Nat /\ actualCount[c] \in Nat /\ actualCount[c] > 0
      BY <1>1, <1>8, BoundsAssumption DEF TypeOK, Some
    <3>2. headIndex + actualCount[c] <= Larger(headSees, sees[c])
      BY <1>8, OneBacked
    <3>3. Larger(headSees, sees[c]) <= tailIndex /\ Larger(headSees, sees[c]) \in Nat
      BY DEF IInv, Locals, Larger, TypeOK
    <3>4. index'[c] = headIndex /\ last'[c] = headIndex'
      BY <1>1, <1>8 DEF TypeOK, ImplicitTypes
    <3> QED
      BY <1>8, <3>1, <3>2, <3>3, <3>4
  <2>2. Pending(c)' = headIndex .. headIndex' - 1 /\ NotMoved(c)' = headIndex .. headIndex' - 1
    BY <1>8, <2>1 DEF Pending, NotMoved
  <2>3. ASSUME NEW q PROVE Taken(q)' = Taken(q)
    <3>1. ItemsOf(q)' = ItemsOf(q)
      BY DEF ItemsOf
    <3>2. ASSUME NEW i \in ItemsOf(q)
          PROVE  i < headIndex' /\ (\A d \in Consumers : i \notin Pending(d)')
                   <=> i < headIndex /\ (\A d \in Consumers : i \notin Pending(d))
      <4>1. i \in Int
        BY DEF ItemsOf
      <4>2. \A d \in Consumers : d # c => Pending(d)' = Pending(d)
        BY <1>3, StaysFacts
      <4>3. (i < headIndex' /\ i \notin Pending(c)') <=> i < headIndex
        <5>1. PICK h \in Int, k \in Int, j \in Int : h = headIndex /\ k = headIndex' /\ j = i /\ h < k
          BY <2>1, <4>1
        <5>2. i \in Pending(c)' <=> j \in h .. k - 1
          BY <2>2, <5>1, Zenon
        <5>3. j \in h .. k - 1 <=> h <= j /\ j < k
          BY Between
        <5>4. (j < k /\ ~(h <= j /\ j < k)) <=> j < h
          BY <5>1
        <5> QED
          BY <5>1, <5>2, <5>3, <5>4
      <4> QED
        BY <1>4, <4>2, <4>3
    <3> QED
      BY <3>1, <3>2 DEF Taken
  <2>4. Remaining' = Remaining
    <3>1. headIndex .. tailIndex - 1 = (headIndex' .. tailIndex - 1) \cup NotMoved(c)'
      BY <2>1, <2>2
    <3>2. \A d \in Consumers : d # c => NotMoved(d)' = NotMoved(d)
      BY <1>3, StaysFacts
    <3> QED
      BY <1>2, <1>4, <3>1, <3>2 DEF Remaining
  <2>5. ImplicitTypes'
    BY <1>2, <1>8, <2>1 DEF ImplicitTypes, findVars, blockVars, View
  <2>6. Ranges'
    <3>1. \A d \in Consumers : d # c => pc'[d] = pc[d] /\ index'[d] = index[d] /\ last'[d] = last[d]
      BY <1>3 DEF Stays
    <3>2. \A d \in Consumers : d # c /\ pc[d] \in Dequeuing => last[d] <= headIndex /\ last[d] \in Nat
      BY <1>1 DEF TypeOK, Ranges
    <3>3. ASSUME NEW d \in Consumers
          PROVE  IF pc'[d] \in Dequeuing THEN index'[d] < last'[d] /\ last'[d] <= headIndex' ELSE last'[d] = 0
      BY <1>8, <2>1, <3>1, <3>2 DEF Ranges, Dequeuing
    <3>4. ASSUME NEW e \in Consumers, NEW d \in Consumers, e # d, pc'[e] \in Dequeuing, pc'[d] \in Dequeuing
          PROVE  last'[e] <= index'[d] \/ last'[d] <= index'[e]
      BY <2>1, <3>1, <3>2, <3>4 DEF Ranges
    <3>5. headIndex' <= tailIndex'
      BY <1>2, <2>1
    <3> QED
      BY <3>3, <3>4, <3>5 DEF Ranges
  <2> QED
    BY <1>1, <1>2, <1>3, <1>5, <1>6, <2>3, <2>4, <2>5, <2>6, LocalStep
<1> QED
  BY <1>7, <1>8, ClaimApart

(* A consumer that goes from one step to the next, with the same claim.    *)
Passes(c, from, to) ==
  /\ pc[c] = from /\ pc' = [pc EXCEPT ![c] = to]
  /\ UNCHANGED <<shared, index, last>>

LEMMA FindingPasses == ASSUME NEW c, NEW from, NEW to, Finding(c, from, to) PROVE Passes(c, from, to)
BY DEF Finding, Passes, Goto

LEMMA PassingRanges ==
  ASSUME TypeOK, Ranges, NEW c \in Consumers, NEW from \in Dequeuing, NEW to \in Dequeuing, Passes(c, from, to)
  PROVE  Ranges' /\ pc[c] \in Dequeuing /\ pc'[c] = to /\ \A d \in Consumers \ {c} : pc'[d] = pc[d]
<1>1. /\ pc[c] \in Dequeuing /\ pc'[c] = to /\ \A d \in Consumers : d # c => pc'[d] = pc[d]
      /\ UNCHANGED <<headIndex, tailIndex, index, last>>
  BY DEF Passes, TypeOK, shared
<1>2. \A d \in Consumers : pc'[d] \in Dequeuing <=> pc[d] \in Dequeuing
  BY <1>1
<1> QED
  BY <1>1, <1>2 DEF Ranges

(* The consumer takes the index and its tail as they are now: from there   *)
(* it is led to its first item.                                            *)
LEMMA PlacesLocate ==
  ASSUME IInv, PlacesOK, NEW c \in Consumers, Locate(c)
  PROVE  PlacesOK'
<1> USE DEF PlacesOK
<1>1. TypeOK
  BY DEF IInv
<1>2. /\ Passes(c, "locate", "key") /\ UNCHANGED <<shared, index, last>>
      /\ localBlockIndex' = [localBlockIndex EXCEPT ![c] = current]
      /\ indexIndex' = [indexIndex EXCEPT ![c] = Newest.tail]
      /\ UNCHANGED <<block, blockVars, prPc, op, implicitOnly>>
  BY FindingPasses DEF Locate, Set, Passes
<1>3. UNCHANGED <<View, blockVars, elementsCompletelyDequeued, entries>> /\ UNCHANGED View
  BY <1>2 DEF shared, implicitOnly, View
<1>4. /\ Ranges' /\ pc[c] \in Dequeuing /\ pc[c] = "locate" /\ pc'[c] = "key"
      /\ \A d \in Consumers \ {c} : pc'[d] = pc[d]
  BY <1>1, <1>2, PassingRanges DEF Passes, Dequeuing
<1>5. ASSUME NEW d \in Consumers, d # c PROVE Stays(d)
  BY <1>1, <1>2, <1>4, <1>5 DEF Stays, ImplicitTypes
<1>6. /\ Pending(c)' = Pending(c) /\ NotMoved(c)' = NotMoved(c)
      /\ \A q : Unlinks(c, q)' = Unlinks(c, q)
  BY <1>2, <1>4 DEF Pending, NotMoved, Unlinks
<1>7. \A d \in Consumers : Pending(d)' = Pending(d) /\ NotMoved(d)' = NotMoved(d)
  BY <1>5, <1>6, StaysFacts
<1>8. (\A q : Taken(q)' = Taken(q)) /\ Remaining' = Remaining
  BY <1>2, <1>7, SameTaken, SameRemaining DEF shared
<1>9. Newest.tail \in 0 .. Newest.capacity - 1 /\ current \in 1 .. Len(indexes) /\ current \in Nat /\ Newest.capacity \in Nat
  BY NewestFacts
<1>10. ImplicitTypes'
  BY <1>2, <1>3, <1>9 DEF ImplicitTypes, View, blockVars, implicitOnly
<1>11. Finds(c)'
  <2> DEFINE q == BlockNo(index[c])
             l == BlockNo(last[c] - 1)
  <2>1. /\ index[c] \in Nat /\ last[c] \in Nat /\ q \in Nat /\ l \in Nat /\ q <= l /\ l <= LastBlock
        /\ q \in Live
    <3>1. q <= q
      BY <1>1, <1>4, ClaimOf
    <3>2. q \in Live
      BY <1>1, <1>4, <3>1, ClaimOf, LiveAhead
    <3> QED
      BY <1>1, <1>4, <3>2, ClaimOf
  <2>2. /\ LastBlock \in Int /\ TailNo \in Int /\ Top \in Int /\ LastBlock <= TailNo /\ TailNo <= Top
        /\ Top - Newest.capacity < q
    BY <1>1, <2>1, Numbers DEF Placed
  <2>3. KeyAt(TailNo) = TailNo * BlockSize
    BY <2>1, <2>2 DEF Placed
  <2>4. ASSUME NEW s \in LastBlock + 1 .. TailNo, BlockAt(s) # None PROVE s \in Inserted
    <3>1. s \in Int /\ EntryAt(s) \in 1 .. Len(entries)
      <4>1. s \in Int
        BY <2>2, <2>4
      <4> QED
        BY <1>1, <4>1, EntryPlace
    <3>2. PICK p \in Live : EntryAt(s) = EntryAt(p)
      BY <2>4, <3>1 DEF Placed, BlockAt
    <3>3. p \in Int /\ p <= Top /\ Top - Newest.capacity < p
      BY <1>1, <3>2, LiveRange DEF Placed
    <3>4. s = p
      <4>1. CASE s < p
        BY <1>1, <1>9, <2>1, <2>2, <3>1, <3>2, <3>3, <4>1, EntriesDiffer
      <4>2. CASE p < s
        BY <1>1, <1>9, <2>1, <2>2, <3>1, <3>2, <3>3, <4>2, EntriesDiffer
      <4> QED
        BY <3>1, <3>3, <4>1, <4>2
    <3> QED
      BY <2>2, <2>4, <3>2, <3>4 DEF Live
  <2>5. /\ UNCHANGED <<LastBlock, TailNo, Inserted, Newest>>
        /\ \A s : EntryAt(s)' = EntryAt(s) /\ BlockAt(s)' = BlockAt(s)
    BY <1>3, SameView DEF BlockAt
  <2>6. localBlockIndex'[c] = current /\ indexIndex'[c] = Newest.tail /\ Newest = indexes[current]
    BY <1>2 DEF ImplicitTypes, Newest
  <2>7. BlockNo(index[c])' = q /\ BlockNo(last[c] - 1)' = l /\ UNCHANGED <<indexes, entries>>
    BY <1>2, <1>3 DEF BlockNo, View
  <2>8. \A r \in Int : Newest.index[(Newest.tail + (r - TailNo)) % Newest.capacity] = EntryAt(r)
    BY DEF EntryAt
  <2>9. Newest.index[Newest.tail] = EntryAt(TailNo)
    BY <1>1, EntryOfTail
  <2> HIDE DEF q, l
  <2>10. Leads(c, TailNo, q)'
    <3>1. ASSUME NEW r \in q .. l
          PROVE  indexes'[localBlockIndex'[c]].index
                   [(indexIndex'[c] + (r - TailNo')) % indexes'[localBlockIndex'[c]].capacity] = EntryAt(r)'
      BY <2>1, <2>5, <2>6, <2>7, <2>8
    <3>2. q' .. BlockNo(last[c] - 1)' = q .. l
      BY <2>7 DEF q
    <3> QED
      BY <1>9, <2>6, <2>7, <3>1, <3>2 DEF Leads
  <2>11. FromTail(c, TailNo)'
    <3>1. BlockNo(last[c] - 1)' <= TailNo' /\ TailNo' < BlockNo(index[c])' + Newest'.capacity
      BY <1>9, <2>1, <2>2, <2>5, <2>7
    <3>2. /\ indexes'[localBlockIndex'[c]].index[indexIndex'[c]] = EntryAt(TailNo)'
          /\ entries'[EntryAt(TailNo)'].key = TailNo' * BlockSize
      BY <2>3, <2>5, <2>6, <2>7, <2>9 DEF KeyAt
    <3>3. \A s \in LastBlock' + 1 .. TailNo' : BlockAt(s)' # None => s \in Inserted'
      BY <2>4, <2>5
    <3> QED
      BY <2>10, <3>1, <3>2, <3>3 DEF FromTail, q
  <2>12. PICK t \in Int : t = TailNo
    BY <2>2
  <2>13. FromTail(c, t)'
    <3>1. t = TailNo'
      BY <2>5, <2>12
    <3> QED
      BY <2>11, <3>1 DEF FromTail, Leads
  <2> QED
    BY <1>4, <2>13 DEF Finds
<1> QED
  BY <1>1, <1>3, <1>4, <1>5, <1>6, <1>8, <1>10, <1>11, LocalStep

(* The key of the tail entry gives the way to the entry of the first item. *)
LEMMA PlacesReadKey ==
  ASSUME IInv, PlacesOK, NEW c \in Consumers, ReadKey(c)
  PROVE  PlacesOK'
<1> USE DEF PlacesOK
<1> DEFINE h == indexes[localBlockIndex[c]]
           e == h.index[indexIndex[c]]
           new == Place(h, indexIndex[c], entries[e].key, index[c])
           q == BlockNo(index[c])
           l == BlockNo(last[c] - 1)
<1>1. TypeOK
  BY DEF IInv
<1>2. /\ Passes(c, "key", "move") /\ UNCHANGED <<shared, index, last>>
      /\ indexIndex' = [indexIndex EXCEPT ![c] = new]
      /\ UNCHANGED <<localBlockIndex, block, blockVars, prPc, op, implicitOnly>>
  BY FindingPasses DEF ReadKey, Set, Passes
<1>3. UNCHANGED <<View, blockVars, elementsCompletelyDequeued, entries>> /\ UNCHANGED View
  BY <1>2 DEF shared, implicitOnly, View
<1>4. /\ Ranges' /\ pc[c] \in Dequeuing /\ pc[c] = "key" /\ pc'[c] = "move"
      /\ \A d \in Consumers \ {c} : pc'[d] = pc[d]
  BY <1>1, <1>2, PassingRanges DEF Passes, Dequeuing
<1>5. ASSUME NEW d \in Consumers, d # c PROVE Stays(d)
  <2> HIDE DEF new
  <2> QED
    BY <1>1, <1>2, <1>4, <1>5 DEF Stays, ImplicitTypes
<1>6. /\ Pending(c)' = Pending(c) /\ NotMoved(c)' = NotMoved(c)
      /\ \A r : Unlinks(c, r)' = Unlinks(c, r)
  BY <1>2, <1>4 DEF Pending, NotMoved, Unlinks
<1>7. \A d \in Consumers : Pending(d)' = Pending(d) /\ NotMoved(d)' = NotMoved(d)
  BY <1>5, <1>6, StaysFacts
<1>8. (\A r : Taken(r)' = Taken(r)) /\ Remaining' = Remaining
  BY <1>2, <1>7, SameTaken, SameRemaining DEF shared
<1>9. PICK t \in Int : FromTail(c, t)
  BY <1>4 DEF Finds
<1>10. q \in Nat /\ l \in Nat /\ index[c] \in Nat /\ last[c] \in Nat /\ BaseOf(index[c]) = q * BlockSize
  BY <1>1, <1>4, ClaimOf, BlockNoOf
<1>11. /\ h \in Headers /\ h.capacity \in Nat \ {0} /\ indexIndex[c] \in 0 .. h.capacity - 1
       /\ localBlockIndex[c] \in 1 .. Len(indexes)
  BY <1>9, HeaderFacts DEF FromTail, Leads, ImplicitTypes
<1>12. new = (indexIndex[c] + (q - t)) % h.capacity
  <2>1. entries[e].key = t * BlockSize
    BY <1>9 DEF FromTail
  <2>2. q * BlockSize - t * BlockSize = BlockSize * (q - t) + 0 /\ q * BlockSize - t * BlockSize \in Int
    BY <1>10, BlockSizeType
  <2>3. (q * BlockSize - t * BlockSize) \div BlockSize = q - t
    <3>1. q - t \in Int /\ 0 \in 0 .. BlockSize - 1 /\ BlockSize \in Nat \ {0}
      BY <1>10, BlockSizeType
    <3> HIDE DEF q
    <3> QED
      BY <2>2, <3>1, Quotient
  <2> QED
    BY <1>10, <2>1, <2>3 DEF Place
<1>13. new \in 0 .. h.capacity - 1 /\ new \in Nat
  <2>1. indexIndex[c] + (q - t) \in Int
    BY <1>10, <1>11
  <2> QED
    <3> DEFINE a == indexIndex[c] + (q - t)
    <3>1. a \in Int
      BY <2>1
    <3>2. h.capacity \in Nat \ {0} /\ new = a % h.capacity
      BY <1>11, <1>12
    <3> HIDE DEF a, new, h
    <3>3. a % h.capacity \in 0 .. h.capacity - 1
      BY <3>1, <3>2, DivModInt
    <3> QED
      BY <3>2, <3>3
<1> HIDE DEF new
<1>14. ImplicitTypes'
  BY <1>2, <1>3, <1>13 DEF ImplicitTypes, View, blockVars, implicitOnly
<1>15. Finds(c)'
  <2>1. ASSUME NEW r \in q .. l
        PROVE  h.index[(new + (r - q)) % h.capacity] = EntryAt(r)
    <3>1. h.index[(indexIndex[c] + (r - t)) % h.capacity] = EntryAt(r)
      BY <1>9 DEF FromTail, Leads
    <3>2. r \in Int /\ indexIndex[c] + (q - t) \in Int /\ r - q \in Int
      BY <1>10, <1>11
    <3>3. (new + (r - q)) % h.capacity = ((indexIndex[c] + (q - t)) + (r - q)) % h.capacity
      <4> DEFINE a == indexIndex[c] + (q - t)
                 b == r - q
      <4>1. a \in Int /\ b \in Int
        BY <3>2
      <4> HIDE DEF a, b, h
      <4>2. ((a % h.capacity) + b) % h.capacity = (a + b) % h.capacity
        BY <1>11, <4>1, ModShift
      <4> QED
        BY <1>12, <4>2 DEF a, b
    <3>4. (indexIndex[c] + (q - t)) + (r - q) = indexIndex[c] + (r - t)
      <4>1. indexIndex[c] \in Int /\ q \in Int /\ t \in Int
        BY <1>10, <1>11
      <4> HIDE DEF q
      <4> QED
        BY <3>2, <4>1
    <3> QED
      BY <3>1, <3>3, <3>4
  <2>2. \A s : EntryAt(s)' = EntryAt(s)
    BY <1>3, SameView
  <2>3. localBlockIndex'[c] = localBlockIndex[c] /\ indexIndex'[c] = new /\ indexes' = indexes
    BY <1>2, <1>3 DEF ImplicitTypes, View
  <2>4. BlockNo(index[c])' = q /\ BlockNo(last[c] - 1)' = l
    BY <1>2 DEF BlockNo
  <2> HIDE DEF q, l
  <2>5. Leads(c, q, q)'
    <3>1. q' = q
      BY <2>4 DEF q
    <3> QED
      BY <1>11, <1>13, <2>1, <2>2, <2>3, <2>4, <3>1 DEF Leads
  <2> QED
    BY <1>4, <2>5 DEF Finds, q
<1> QED
  BY <1>1, <1>3, <1>4, <1>5, <1>6, <1>8, <1>14, <1>15, LocalStep

-----------------------------------------------------------------------------
(* The entry a consumer has found.                                         *)
LEMMA FoundEntry ==
  ASSUME TypeOK, PlacesOK, NEW c \in Consumers, pc[c] \in {"move", "empty", "unlink"}
  PROVE  /\ BlockNo(index[c]) \in Live /\ BlockNo(index[c]) \in 0 .. LastBlock /\ BlockNo(index[c]) \in Int
         /\ EntryOf(c) = EntryAt(BlockNo(index[c])) /\ Located(c) = BlockAt(BlockNo(index[c]))
         /\ EntryOf(c) \in 1 .. Len(entries) /\ Located(c) \in Blocks
         /\ Claimed(c) \subseteq ItemsOf(BlockNo(index[c]))
<1> USE DEF PlacesOK
<1> DEFINE q == BlockNo(index[c])
           h == indexes[localBlockIndex[c]]
<1>1. /\ pc[c] \in Dequeuing /\ q \in Nat /\ BlockNo(last[c] - 1) \in Nat /\ q <= BlockNo(last[c] - 1)
      /\ Claimed(c) \subseteq ItemsOf(q)
  <2>1. pc[c] \in Dequeuing
    BY DEF Dequeuing
  <2> QED
    BY <2>1, ClaimOf
<1>2. q \in Live /\ q \in 0 .. LastBlock
  <2>1. q \in Int /\ q <= q /\ pc[c] # "free"
    BY <1>1
  <2> QED
    BY <1>1, <2>1, LiveAhead
<1>3. Leads(c, q, q)
  BY DEF Finds
<1>4. h \in Headers /\ h.capacity \in Nat \ {0} /\ indexIndex[c] \in 0 .. h.capacity - 1
  BY <1>3, HeaderFacts DEF Leads, ImplicitTypes
<1>5. h.index[(indexIndex[c] + (q - q)) % h.capacity] = EntryAt(q)
  <2>1. q \in q .. BlockNo(last[c] - 1)
    BY <1>1
  <2> QED
    BY <1>3, <2>1 DEF Leads
<1>6. (indexIndex[c] + (q - q)) % h.capacity = indexIndex[c]
  <2>1. indexIndex[c] + (q - q) = indexIndex[c]
    BY <1>1, <1>4
  <2>2. indexIndex[c] % h.capacity = indexIndex[c]
    <3> HIDE DEF h
    <3> QED
      BY <1>4, SmallMod
  <2> QED
    BY <2>1, <2>2
<1>7. EntryOf(c) = EntryAt(q)
  BY <1>5, <1>6 DEF EntryOf
<1>8. EntryAt(q) \in 1 .. Len(entries) /\ BlockAt(q) \in Blocks
  BY <1>1, <1>2, EntryPlace DEF Placed
<1> QED
  BY <1>1, <1>2, <1>7, <1>8 DEF Located, BlockAt

(* A consumer in a step before set_empty has not counted its first item.   *)
LEMMA FirstPending ==
  ASSUME TypeOK, ImplicitTypes, Ranges, NEW c \in Consumers, pc[c] \in {"locate", "key", "move", "empty"}
  PROVE  /\ index[c] \in ItemsOf(BlockNo(index[c])) /\ index[c] \in Pending(c)
         /\ Taken(BlockNo(index[c])) # ItemsOf(BlockNo(index[c]))
<1>1. pc[c] \in Dequeuing
  BY DEF Dequeuing
<1>2. index[c] \in Nat /\ last[c] \in Nat /\ index[c] < last[c] /\ BlockNo(index[c]) \in Nat
  BY <1>1, ClaimOf DEF Ranges
<1>3. index[c] \in ItemsOf(BlockNo(index[c]))
  BY <1>2, ItemsOfNo
<1>4. index[c] \in Pending(c)
  BY <1>2 DEF Pending
<1> QED
  BY <1>3, <1>4 DEF Taken

(* What the steps of one consumer leave to the others.                     *)
LEMMA OthersFind ==
  ASSUME UNCHANGED View, NEW c \in Consumers, NEW d \in Consumers, d # c, Finds(d), Stays(d),
         \A q \in Int : BlockAt(q)' = BlockAt(q) \/ BlockAt(q)' = None,
         \A t \in Int : entries'[EntryAt(t)].key = entries[EntryAt(t)].key,
         NEW r, r = BlockNo(index[d]),
         pc[d] \in {"empty", "unlink"} => BlockAt(r)' = BlockAt(r),
         pc[d] = "unlink" => Taken(r)' = Taken(r) /\ \A e \in Consumers : Unlinks(e, r)' => Unlinks(e, r)
  PROVE  Finds(d)'
<1>1. BlockNo(index[d])' = r
  BY DEF Stays, BlockNo
<1>2. pc[d] \in {"empty", "unlink"} => BlockAt(BlockNo(index[d]))' = BlockAt(BlockNo(index[d]))
  BY <1>1 DEF BlockAt, EntryAt
<1>3. pc[d] = "unlink" => /\ Taken(BlockNo(index[d]))' = Taken(BlockNo(index[d]))
                          /\ \A e \in Consumers : Unlinks(e, BlockNo(index[d]))' => Unlinks(e, BlockNo(index[d]))
  BY <1>1 DEF Taken, Unlinks
<1>4. \A t \in Int : entries'[EntryAt(t)].key = entries[EntryAt(t)].key
  OBVIOUS
<1>5. \A t \in Int : BlockAt(t)' = BlockAt(t) \/ BlockAt(t)' = None
  OBVIOUS
<1> QED
  BY <1>2, <1>3, <1>4, <1>5, KeepFinds

-----------------------------------------------------------------------------
(* The steps of a consumer that has found its block.                       *)

(* The items that are moved out are no longer in their slots nor left.     *)
LEMMA PlacesMove ==
  ASSUME IInv, PlacesOK, NEW c \in Consumers, Move(c)
  PROVE  PlacesOK'
<1> USE DEF PlacesOK
<1> DEFINE q == BlockNo(index[c])
           b == Located(c)
           gone(o) == \E i \in Claimed(c) : i % BlockSize = o
<1>1. TypeOK
  BY DEF IInv
<1>2. /\ Passes(c, "move", "empty") /\ UNCHANGED <<shared, index, last>>
      /\ block' = [block EXCEPT ![c] = b]
      /\ slots' = [slots EXCEPT ![b] = [o \in Offsets |-> IF gone(o) THEN NoItem ELSE slots[b][o]]]
      /\ UNCHANGED <<localBlockIndex, indexIndex, unused, tailBlock, prPc, op, implicitOnly>>
  BY FindingPasses DEF Move, MoveFrom, Set, Passes
<1>3. /\ UNCHANGED View /\ UNCHANGED entries /\ UNCHANGED elementsCompletelyDequeued
      /\ UNCHANGED unused /\ UNCHANGED tailBlock /\ UNCHANGED tailIndex /\ UNCHANGED headIndex
  BY <1>2 DEF shared, implicitOnly, View
<1>4. /\ Ranges' /\ pc[c] \in Dequeuing /\ pc[c] = "move" /\ pc'[c] = "empty"
      /\ \A d \in Consumers \ {c} : pc'[d] = pc[d]
  BY <1>1, <1>2, PassingRanges DEF Passes, Dequeuing
<1>5. /\ q \in Live /\ q \in Int /\ b = BlockAt(q) /\ b \in Blocks /\ EntryAt(q) \in 1 .. Len(entries)
      /\ Claimed(c) \subseteq ItemsOf(q)
  BY <1>1, <1>4, FoundEntry
<1> HIDE DEF b
<1>6. ASSUME NEW d \in Consumers, d # c PROVE Stays(d)
  BY <1>1, <1>2, <1>4, <1>6 DEF Stays, ImplicitTypes
<1>7. Pending(c)' = Pending(c) /\ \A r : Unlinks(c, r)' = Unlinks(c, r)
  BY <1>2, <1>4 DEF Pending, Unlinks
<1>8. (\A d \in Consumers : Pending(d)' = Pending(d)) /\ \A d \in Consumers : \A r : Unlinks(d, r)' = Unlinks(d, r)
  BY <1>6, <1>7, StaysFacts
<1>9. \A r : Taken(r)' = Taken(r)
  BY <1>3, <1>8, SameTaken
<1>10. Live' = Live
  <2>1. \A r : Gone(r)' <=> Gone(r)
    BY <1>8, <1>9, SameGone
  <2> QED
    BY <1>3, <2>1, SameLive
<1>11. Calling' /\ WholeIndex' /\ Placed' /\ Counts'
  <2>1. UNCHANGED indexes
    BY <1>3 DEF View
  <2> QED
    BY <1>3, <1>9, <1>10, <2>1, KeepCalling, KeepWhole, KeepPlaced, KeepCounts
<1>12. OneOwner'
  <2>1. ASSUME NEW x \in Blocks PROVE FreedBy(x)' = FreedBy(x)
    <3>1. \A d \in Consumers : pc'[d] = "free" /\ block'[d] = x <=> pc[d] = "free" /\ block[d] = x
      BY <1>4, <1>6 DEF Stays
    <3> QED
      BY <3>1 DEF FreedBy
  <2> QED
    BY <1>3, <2>1, KeepOwner
<1>13. \A r : BlockAt(r)' = BlockAt(r) /\ KeyAt(r)' = KeyAt(r) /\ EntryAt(r)' = EntryAt(r)
  BY <1>3, SameView DEF BlockAt, KeyAt
<1>14. Finds(c)'
  <2>1. Leads(c, q, q)
    BY <1>4 DEF Finds
  <2>2. q' = q /\ BlockNo(last[c] - 1)' = BlockNo(last[c] - 1)
    BY <1>2 DEF BlockNo
  <2>3. Leads(c, q, q)'
    <3> HIDE DEF q
    <3> QED
      BY <1>2, <1>3, <1>13, <2>1, <2>2 DEF Leads, View
  <2>4. block'[c] = BlockAt(q)'
    <3>1. block'[c] = BlockAt(q)
      BY <1>2, <1>5 DEF ImplicitTypes
    <3>2. PICK r : r = q
      OBVIOUS
    <3>3. BlockAt(r)' = BlockAt(r) /\ BlockAt(q)' = BlockAt(r)'
      BY <1>13, <2>2, <3>2 DEF BlockAt, EntryAt
    <3> QED
      BY <3>1, <3>2, <3>3
  <2> HIDE DEF q
  <2> QED
    BY <1>4, <2>3, <2>4 DEF Finds, q
<1>15. ASSUME NEW d \in Consumers, d # c PROVE Finds(d)'
  <2>1. PICK r : r = BlockNo(index[d])
    OBVIOUS
  <2>2. \A t \in Int : entries'[EntryAt(t)].key = entries[EntryAt(t)].key
    BY <1>3
  <2>3. BlockAt(r)' = BlockAt(r) /\ Taken(r)' = Taken(r) /\ \A e \in Consumers : Unlinks(e, r)' => Unlinks(e, r)
    BY <1>8, <1>9, <1>13
  <2> QED
    BY <1>3, <1>6, <1>13, <1>15, <2>1, <2>2, <2>3, OthersFind
<1>16. ImplicitTypes'
  <2>1. slots' \in [Blocks -> [Offsets -> Int]]
    <3>1. NoItem \in Int
      BY DEF NoItem
    <3>2. [o \in Offsets |-> IF gone(o) THEN NoItem ELSE slots[b][o]] \in [Offsets -> Int]
      <4> HIDE DEF gone
      <4> QED
        BY <1>5, <3>1 DEF ImplicitTypes
    <3> QED
      BY <1>2, <1>5, <3>2 DEF ImplicitTypes
  <2>2. block' \in [Consumers -> Blocks \cup {None}]
    BY <1>2, <1>5 DEF ImplicitTypes
  <2> HIDE DEF gone
  <2> QED
    BY <1>2, <1>3, <2>1, <2>2 DEF ImplicitTypes, View, implicitOnly
<1>17. \A i \in Int : i \in Remaining' <=> i \in Remaining /\ i \notin Claimed(c)
  <2>1. ASSUME NEW d \in Consumers, d # c PROVE NotMoved(d)' = NotMoved(d)
    BY <1>6, <2>1, StaysFacts
  <2>2. /\ index[c] \in Nat /\ last[c] \in Nat /\ EndIndex(c) \in Nat /\ index[c] < EndIndex(c)
        /\ EndIndex(c) <= last[c] /\ last[c] <= headIndex /\ headIndex \in Nat /\ tailIndex \in Nat
    BY <1>1, <1>4, ClaimOf
  <2>3. EndIndex(c)' = EndIndex(c)
    BY <1>2 DEF EndIndex, BaseOf, Smaller
  <2>4. /\ NotMoved(c) = index[c] .. last[c] - 1 /\ Pending(c) = index[c] .. last[c] - 1
        /\ NotMoved(c)' = EndIndex(c) .. last[c] - 1 /\ Claimed(c) = index[c] .. EndIndex(c) - 1
    BY <1>2, <1>4, <2>3 DEF NotMoved, Pending, Claimed
  <2>5. ASSUME NEW i \in Int
        PROVE  /\ i \in NotMoved(c)' <=> i \in NotMoved(c) /\ i \notin Claimed(c)
               /\ i \in Claimed(c) => i \in Pending(c) /\ i < headIndex
    <3>1. PICK a \in Nat, z \in Nat, e \in Nat, hd \in Nat :
             a = index[c] /\ z = last[c] /\ e = EndIndex(c) /\ hd = headIndex /\ a < e /\ e <= z /\ z <= hd
      BY <2>2
    <3>2. /\ i \in e .. z - 1 <=> i \in a .. z - 1 /\ i \notin a .. e - 1
          /\ i \in a .. e - 1 => i \in a .. z - 1 /\ i < hd
      BY <3>1
    <3> QED
      BY <2>4, <3>1, <3>2
  <2>6. ASSUME NEW i \in Int, i \in Claimed(c)
        PROVE  i \notin headIndex .. tailIndex - 1 /\ \A d \in Consumers : d # c => i \notin NotMoved(d)
    <3>1. i \in Pending(c) /\ i < headIndex
      BY <2>5, <2>6
    <3>2. \A d \in Consumers : d # c => i \notin Pending(d)
      BY <1>1, <3>1, PendingApart
    <3>3. \A d \in Consumers : NotMoved(d) \subseteq Pending(d)
      BY <1>1, PendingFacts
    <3> QED
      BY <2>2, <3>1, <3>2, <3>3
  <2> QED
    BY <1>3, <2>1, <2>5, <2>6 DEF Remaining
<1>18. Contents'
  <2>1. ASSUME NEW p \in Live, NEW i \in ItemsOf(p)
        PROVE  slots'[BlockAt(p)][i % BlockSize] = IF i \in Remaining' THEN i ELSE NoItem
    <3>1. p \in Int /\ i \in Int /\ i % BlockSize \in Offsets
      <4>1. p \in Int
        BY <1>1, LiveRange
      <4> QED
        BY <4>1, ItemsOfNo, BlockNoOf
    <3>2. slots[BlockAt(p)][i % BlockSize] = IF i \in Remaining THEN i ELSE NoItem
      BY <2>1 DEF Contents
    <3>3. CASE p = q
      <4>1. slots'[b][i % BlockSize] = IF gone(i % BlockSize) THEN NoItem ELSE slots[b][i % BlockSize]
        <5> HIDE DEF gone
        <5> QED
          BY <1>2, <1>5, <3>1 DEF ImplicitTypes
      <4>2. gone(i % BlockSize) <=> i \in Claimed(c)
        <5>1. ASSUME NEW j \in Claimed(c), j % BlockSize = i % BlockSize PROVE j = i
          BY <1>5, <2>1, <3>3, <5>1, OneItemPerSlot
        <5> QED
          BY <5>1
      <4> QED
        BY <1>5, <1>17, <3>1, <3>2, <3>3, <4>1, <4>2
    <3>4. CASE p # q
      <4>1. BlockAt(p) # b /\ BlockAt(p) \in Blocks
        BY <1>1, <1>5, <3>4, LiveEntries DEF Placed
      <4>2. slots'[BlockAt(p)] = slots[BlockAt(p)]
        BY <1>2, <4>1 DEF ImplicitTypes
      <4>3. i \notin Claimed(c)
        <5>1. BlockNo(i) = p
          BY <2>1, <3>1, ItemsOfNo
        <5>2. i \in ItemsOf(q) => BlockNo(i) = q
          BY <1>5, <3>1, ItemsOfNo
        <5> QED
          BY <1>5, <3>4, <5>1, <5>2
      <4> QED
        BY <1>17, <3>1, <3>2, <4>2, <4>3
    <3> QED
      BY <3>3, <3>4
  <2>2. ASSUME NEW x \in Blocks, \A e \in 1 .. Len(entries) : entries[e].value # x, NEW o \in Offsets
        PROVE  slots'[x][o] = NoItem
    <3>1. x # b
      BY <1>5, <2>2 DEF BlockAt
    <3>2. slots'[x] = slots[x]
      BY <1>2, <2>2, <3>1 DEF ImplicitTypes
    <3> QED
      BY <2>2, <3>2 DEF Contents
  <2>3. UNCHANGED entries /\ \A p : ItemsOf(p)' = ItemsOf(p)
    BY <1>3 DEF ItemsOf
  <2> QED
    BY <1>10, <1>13, <2>1, <2>2, <2>3 DEF Contents
<1> QED
  BY <1>4, <1>11, <1>12, <1>14, <1>15, <1>16, <1>18

(* On to the next block, or back to the caller.                            *)
LEMMA NextBlockFacts ==
  ASSUME TypeOK, ImplicitTypes, Ranges, NEW c \in Consumers, pc[c] \in {"empty", "free"},
         Leads(c, BlockNo(index[c]), BlockNo(index[c]) + 1),
         NextBlock(c, indexes[localBlockIndex[c]].capacity), UNCHANGED View
  PROVE  /\ \A d \in Consumers : d # c => Stays(d)
         /\ pc'[c] \in {"idle", "move"}
         /\ Pending(c)' = EndIndex(c) .. last[c] - 1 /\ NotMoved(c)' = EndIndex(c) .. last[c] - 1
         /\ \A r : ~Unlinks(c, r)'
         /\ Ranges' /\ Finds(c)' /\ UNCHANGED shared
         /\ index' \in [Consumers -> Nat] /\ localBlockIndex' \in [Consumers -> Nat]
         /\ indexIndex' \in [Consumers -> Nat] /\ block' \in [Consumers -> Blocks \cup {None}]
<1> DEFINE q == BlockNo(index[c])
           l == BlockNo(last[c] - 1)
           h == indexes[localBlockIndex[c]]
           done == EndIndex(c) = last[c]
           new == (indexIndex[c] + 1) % h.capacity
<1>1. /\ pc' = [pc EXCEPT ![c] = IF done THEN "idle" ELSE "move"]
      /\ index' = [index EXCEPT ![c] = IF done THEN 0 ELSE EndIndex(c)]
      /\ last' = [last EXCEPT ![c] = IF done THEN 0 ELSE last[c]]
      /\ indexIndex' = [indexIndex EXCEPT ![c] = IF done THEN 0 ELSE new]
      /\ localBlockIndex' = [localBlockIndex EXCEPT ![c] = IF done THEN 0 ELSE localBlockIndex[c]]
      /\ block' = [block EXCEPT ![c] = None]
      /\ UNCHANGED shared
  BY DEF NextBlock, Set, Goto
<1>2. pc[c] \in Dequeuing
  BY DEF Dequeuing
<1>3. /\ index[c] \in Nat /\ last[c] \in Nat /\ EndIndex(c) \in Nat /\ index[c] < EndIndex(c)
      /\ EndIndex(c) <= last[c] /\ last[c] <= headIndex /\ headIndex \in Nat /\ tailIndex \in Nat
      /\ headIndex <= tailIndex /\ q \in Nat /\ l \in Nat /\ (~done => BlockNo(EndIndex(c)) = q + 1)
  BY <1>2, ClaimOf
<1>4. h \in Headers /\ h.capacity \in Nat \ {0} /\ indexIndex[c] \in 0 .. h.capacity - 1
  BY HeaderFacts DEF Leads, ImplicitTypes
<1>5. new \in 0 .. h.capacity - 1
  <2> HIDE DEF h
  <2>1. indexIndex[c] + 1 \in Int
    BY <1>4
  <2> QED
    BY <1>4, <2>1, DivModInt
<1> HIDE DEF new, done, h
<1>6. /\ index' \in [Consumers -> Nat] /\ localBlockIndex' \in [Consumers -> Nat]
      /\ indexIndex' \in [Consumers -> Nat] /\ block' \in [Consumers -> Blocks \cup {None}]
  <2>1. new \in Nat
    BY <1>4, <1>5
  <2> QED
    BY <1>1, <1>3, <2>1 DEF ImplicitTypes
<1>7. \A d \in Consumers : d # c => Stays(d)
  BY <1>1 DEF Stays, TypeOK, ImplicitTypes
<1>8. /\ pc'[c] = (IF done THEN "idle" ELSE "move") /\ index'[c] = (IF done THEN 0 ELSE EndIndex(c))
      /\ last'[c] = (IF done THEN 0 ELSE last[c]) /\ indexIndex'[c] = (IF done THEN 0 ELSE new)
      /\ localBlockIndex'[c] = (IF done THEN 0 ELSE localBlockIndex[c])
  BY <1>1 DEF TypeOK, ImplicitTypes
<1>9. Pending(c)' = EndIndex(c) .. last[c] - 1 /\ NotMoved(c)' = EndIndex(c) .. last[c] - 1
  <2>1. CASE done
    <3>1. Pending(c)' = {} /\ NotMoved(c)' = {}
      BY <1>8, <2>1 DEF Pending, NotMoved
    <3>2. EndIndex(c) .. last[c] - 1 = {}
      BY <1>3, <2>1 DEF done
    <3> QED
      BY <3>1, <3>2
  <2>2. CASE ~done
    BY <1>8, <2>2 DEF Pending, NotMoved
  <2> QED
    BY <2>1, <2>2
<1>10. \A r : ~Unlinks(c, r)'
  BY <1>8 DEF Unlinks
<1>11. Ranges'
  <2>1. UNCHANGED <<headIndex, tailIndex>>
    BY <1>1 DEF shared
  <2>2. ASSUME NEW d \in Consumers
        PROVE  IF pc'[d] \in Dequeuing THEN index'[d] < last'[d] /\ last'[d] <= headIndex' ELSE last'[d] = 0
    <3>1. CASE d = c
      BY <1>3, <1>8, <2>1, <3>1 DEF Dequeuing, done
    <3>2. CASE d # c
      BY <1>7, <2>1, <3>2 DEF Ranges, Stays
    <3> QED
      BY <3>1, <3>2
  <2>3. ASSUME NEW d \in Consumers, NEW e \in Consumers, d # e, pc'[d] \in Dequeuing, pc'[e] \in Dequeuing
        PROVE  last'[d] <= index'[e] \/ last'[e] <= index'[d]
    <3>1. \A x \in Consumers : pc'[x] \in Dequeuing =>
             /\ pc[x] \in Dequeuing /\ index[x] <= index'[x] /\ last'[x] = last[x]
             /\ index[x] \in Nat /\ last[x] \in Nat /\ index'[x] \in Nat
      <4>1. ASSUME NEW x \in Consumers, pc'[x] \in Dequeuing
            PROVE  pc[x] \in Dequeuing /\ index[x] <= index'[x] /\ last'[x] = last[x]
        <5>1. CASE x = c
          BY <1>2, <1>3, <1>8, <4>1, <5>1 DEF Dequeuing
        <5>2. CASE x # c
          <6>1. pc[x] \in Dequeuing /\ index'[x] = index[x] /\ last'[x] = last[x] /\ index[x] \in Nat
            BY <1>7, <4>1, <5>2 DEF Stays, ImplicitTypes
          <6> QED
            BY <6>1
        <5> QED
          BY <5>1, <5>2
      <4> QED
        BY <1>6, <4>1 DEF TypeOK, ImplicitTypes
    <3>2. last[d] <= index[e] \/ last[e] <= index[d]
      BY <2>3, <3>1 DEF Ranges
    <3> QED
      BY <2>3, <3>1, <3>2
  <2> QED
    BY <1>3, <2>1, <2>2, <2>3 DEF Ranges
<1>12. Finds(c)'
  <2>1. CASE done
    BY <1>8, <2>1 DEF Finds
  <2>2. CASE ~done
    <3>1. /\ pc'[c] = "move" /\ index'[c] = EndIndex(c) /\ last'[c] = last[c] /\ indexIndex'[c] = new
          /\ localBlockIndex'[c] = localBlockIndex[c]
      BY <1>8, <2>2
    <3>2. BlockNo(index[c])' = q + 1 /\ BlockNo(last[c] - 1)' = l
      BY <1>3, <2>2, <3>1 DEF BlockNo
    <3>3. ASSUME NEW r \in q + 1 .. l
          PROVE  h.index[(new + (r - (q + 1))) % h.capacity] = EntryAt(r)
      <4>1. h.index[(indexIndex[c] + (r - q)) % h.capacity] = EntryAt(r)
        BY <3>3 DEF Leads, h
      <4> DEFINE a == indexIndex[c] + 1
                 x == r - (q + 1)
      <4>2. a \in Int /\ x \in Int /\ a + x = indexIndex[c] + (r - q)
        BY <1>3, <1>4, <3>3
      <4>3. new = a % h.capacity
        BY DEF new
      <4> HIDE DEF a, x
      <4>4. ((a % h.capacity) + x) % h.capacity = (a + x) % h.capacity
        BY <1>4, <4>2, ModShift
      <4>5. (new + x) % h.capacity = (indexIndex[c] + (r - q)) % h.capacity
        BY <4>2, <4>3, <4>4
      <4> QED
        BY <4>1, <4>5 DEF x
    <3>4. indexes' = indexes /\ \A r : EntryAt(r)' = EntryAt(r)
      BY SameView DEF View
    <3>5. PICK p \in Int : p = q + 1
      BY <1>3
    <3>6. Leads(c, p, p)'
      <4>1. localBlockIndex[c] \in 1 .. Len(indexes)
        BY DEF Leads
      <4>2. indexes'[localBlockIndex'[c]] = h
        BY <3>1, <3>4 DEF h
      <4> HIDE DEF q, l
      <4> QED
        BY <1>5, <3>1, <3>2, <3>3, <3>4, <3>5, <4>1, <4>2 DEF Leads
    <3>7. Leads(c, BlockNo(index[c]), BlockNo(index[c]))'
      <4>1. BlockNo(index[c])' = p
        BY <3>2, <3>5
      <4> QED
        BY <3>6, <4>1 DEF Leads
    <3> QED
      BY <3>1, <3>7 DEF Finds
  <2> QED
    BY <2>1, <2>2
<1> QED
  BY <1>1, <1>6, <1>7, <1>8, <1>9, <1>10, <1>11, <1>12

-----------------------------------------------------------------------------
(* Counting the items of a block.                                          *)

LEMMA TakenCounted ==
  ASSUME NEW q \in Int
  PROVE  /\ IsFiniteSet(ItemsOf(q)) /\ Cardinality(ItemsOf(q)) = BlockSize
         /\ \A S \in SUBSET ItemsOf(q) :
              IsFiniteSet(S) /\ Cardinality(S) \in Nat /\ (Cardinality(S) = BlockSize => S = ItemsOf(q))
<1>1. BlockSize \in Nat /\ BlockSize > 1 /\ q * BlockSize \in Int
  BY BlockSizeType, ItemsOfNo
<1>2. IsFiniteSet(ItemsOf(q)) /\ Cardinality(ItemsOf(q)) = BlockSize
  <2> DEFINE a == q * BlockSize
             z == q * BlockSize + BlockSize - 1
  <2>1. a \in Int /\ z \in Int /\ z - a + 1 = BlockSize /\ ~(a > z)
    BY <1>1
  <2>2. ItemsOf(q) = a .. z
    BY DEF ItemsOf
  <2> HIDE DEF a, z
  <2> QED
    BY <2>1, <2>2, FS_Interval
<1>3. ASSUME NEW S \in SUBSET ItemsOf(q)
      PROVE  IsFiniteSet(S) /\ Cardinality(S) \in Nat /\ (Cardinality(S) = BlockSize => S = ItemsOf(q))
  BY <1>2, <1>3, FS_Subset, FS_CardinalityType
<1> QED
  BY <1>2, <1>3

(* The items of c in its block count as dequeued once they are counted.    *)
LEMMA CountedItems ==
  ASSUME TypeOK, PlacesOK, NEW c \in Consumers, pc[c] = "empty",
         UNCHANGED headIndex, \A d \in Consumers : d # c => Pending(d)' = Pending(d),
         Pending(c)' = EndIndex(c) .. last[c] - 1, NEW q, q = BlockNo(index[c])
  PROVE  /\ Taken(q)' = Taken(q) \cup Claimed(c)
         /\ Cardinality(Taken(q) \cup Claimed(c))
              = elementsCompletelyDequeued[block[c]] + EndIndex(c) - index[c]
         /\ \A r \in Int : r # q => Taken(r)' = Taken(r)
<1> USE DEF PlacesOK
<1>1. /\ index[c] \in Nat /\ last[c] \in Nat /\ EndIndex(c) \in Nat /\ index[c] < EndIndex(c)
      /\ EndIndex(c) <= last[c] /\ last[c] <= headIndex /\ headIndex \in Nat /\ q \in Int
      /\ Claimed(c) \subseteq ItemsOf(q)
  <2>1. pc[c] \in Dequeuing
    BY DEF Dequeuing
  <2> QED
    BY <2>1, ClaimOf
<1>2. q \in Live /\ block[c] = BlockAt(q)
  BY FoundEntry DEF Finds
<1>3. Pending(c) = index[c] .. last[c] - 1 /\ Claimed(c) = index[c] .. EndIndex(c) - 1
  BY DEF Pending, Claimed
<1>4. ASSUME NEW i \in Int
      PROVE  /\ i \in Pending(c)' <=> i \in Pending(c) /\ i \notin Claimed(c)
             /\ i \in Claimed(c) => i \in Pending(c) /\ i < headIndex
  <2>1. PICK a \in Nat, z \in Nat, e \in Nat, hd \in Nat :
           a = index[c] /\ z = last[c] /\ e = EndIndex(c) /\ hd = headIndex /\ a < e /\ e <= z /\ z <= hd
    BY <1>1
  <2>2. /\ i \in e .. z - 1 <=> i \in a .. z - 1 /\ i \notin a .. e - 1
        /\ i \in a .. e - 1 => i \in a .. z - 1 /\ i < hd
    BY <2>1
  <2> QED
    BY <1>3, <2>1, <2>2
<1>5. ASSUME NEW i \in Int, i \in Claimed(c) PROVE \A d \in Consumers : d # c => i \notin Pending(d)
  BY <1>4, <1>5, PendingApart
<1>6. ASSUME NEW i \in Int
      PROVE  i < headIndex /\ (\A d \in Consumers : i \notin Pending(d)')
               <=> i \in Claimed(c) \/ (i < headIndex /\ \A d \in Consumers : i \notin Pending(d))
  BY <1>4, <1>5
<1>7. ASSUME NEW r \in Int
      PROVE  /\ Taken(r)' = {i \in ItemsOf(r) : i < headIndex /\ \A d \in Consumers : i \notin Pending(d)'}
             /\ ItemsOf(r) \subseteq Int
  <2>1. ItemsOf(r)' = ItemsOf(r)
    BY DEF ItemsOf
  <2> QED
    BY <2>1, ItemsOfNo DEF Taken
<1>8. \A r \in Int : Taken(r)' = Taken(r) \cup (ItemsOf(r) \cap Claimed(c))
  BY <1>6, <1>7 DEF Taken
<1>9. Taken(q)' = Taken(q) \cup Claimed(c)
  BY <1>1, <1>8
<1>12. Cardinality(Taken(q) \cup Claimed(c)) = elementsCompletelyDequeued[block[c]] + EndIndex(c) - index[c]
  <2>1. Taken(q) \in SUBSET ItemsOf(q) /\ Taken(q) \cap Claimed(c) = {}
    <3>1. ASSUME NEW i \in Taken(q), i \in Claimed(c) PROVE FALSE
      <4>1. i \in Int /\ i \notin Pending(c)
        BY <1>1, <3>1, ItemsOfNo DEF Taken
      <4> QED
        BY <1>4, <3>1, <4>1
    <3> QED
      BY <3>1 DEF Taken
  <2>2. IsFiniteSet(Taken(q)) /\ IsFiniteSet(Claimed(c)) /\ Cardinality(Taken(q)) \in Nat
    BY <1>1, <2>1, TakenCounted
  <2>3. Cardinality(Claimed(c)) = EndIndex(c) - index[c]
    <3>1. PICK a \in Int, z \in Int : a = index[c] /\ z = EndIndex(c) - 1 /\ ~(a > z) /\ z - a + 1 = EndIndex(c) - index[c]
      BY <1>1
    <3> QED
      BY <1>3, <3>1, FS_Interval
  <2>4. Cardinality(Taken(q) \cup Claimed(c)) = Cardinality(Taken(q)) + Cardinality(Claimed(c))
    <3>1. Cardinality(Taken(q) \cup Claimed(c))
            = Cardinality(Taken(q)) + Cardinality(Claimed(c)) - Cardinality(Taken(q) \cap Claimed(c))
      BY <2>2, FS_Union
    <3>2. Cardinality({}) = 0
      BY FS_EmptySet
    <3>3. Cardinality(Claimed(c)) \in Nat
      BY <2>2, FS_CardinalityType
    <3>4. Cardinality(Taken(q) \cap Claimed(c)) = 0
      BY <2>1, <3>2
    <3> QED
      BY <2>2, <3>1, <3>3, <3>4
  <2>5. elementsCompletelyDequeued[block[c]] = Cardinality(Taken(q))
    BY <1>2 DEF Counts
  <2> QED
    BY <1>1, <2>2, <2>3, <2>4, <2>5
<1>13. ASSUME NEW r \in Int, r # q PROVE Taken(r)' = Taken(r)
  <2>1. ItemsOf(r) \cap Claimed(c) = {}
    <3>1. ASSUME NEW i \in ItemsOf(r), i \in Claimed(c) PROVE FALSE
      <4>1. i \in Int /\ BlockNo(i) = r
        BY <1>13, ItemsOfNo
      <4>2. BlockNo(i) = q
        BY <1>1, <3>1, <4>1, ItemsOfNo
      <4> QED
        BY <1>13, <4>1, <4>2
    <3> QED
      BY <3>1
  <2> QED
    BY <1>8, <1>13, <2>1
<1> QED
  BY <1>9, <1>12, <1>13

(* What set_empty changes, whether the block becomes empty or not.         *)
LEMMA PlacesCounted ==
  ASSUME TypeOK, PlacesOK, NEW c \in Consumers, pc[c] = "empty", NEW p, p = BlockNo(index[c]),
         NEW all, all = elementsCompletelyDequeued[block[c]] + EndIndex(c) - index[c],
         elementsCompletelyDequeued' = [elementsCompletelyDequeued EXCEPT ![block[c]] = all],
         UNCHANGED View, UNCHANGED <<blockVars, headIndex, entries>>,
         \A d \in Consumers : d # c => Stays(d),
         Pending(c)' = EndIndex(c) .. last[c] - 1, NotMoved(c)' = NotMoved(c), Ranges',
         index' \in [Consumers -> Nat], localBlockIndex' \in [Consumers -> Nat],
         indexIndex' \in [Consumers -> Nat], block' \in [Consumers -> Blocks \cup {None}],
         all = BlockSize => pc'[c] = "unlink" /\ UNCHANGED <<index, last, findVars>>,
         all # BlockSize => pc'[c] \in {"idle", "move"} /\ Finds(c)'
  PROVE  PlacesOK'
<1> USE DEF PlacesOK
<1>1. UNCHANGED <<headIndex, tailIndex>> /\ UNCHANGED <<slots, unused, tailBlock, indexes>>
  BY DEF View, blockVars
<1>2. /\ p \in Live /\ p \in Int /\ block[c] = BlockAt(p) /\ BlockAt(p) \in Blocks /\ Leads(c, p, p)
  BY FoundEntry DEF Finds
<1>3. Taken(p) # ItemsOf(p)
  BY FirstPending
<1>4. \A d \in Consumers : pc[d] = "unlink" => BlockNo(index[d]) # p /\ BlockNo(index[d]) \in Int
  BY <1>3, FoundEntry DEF Finds
<1>5. /\ Cardinality(Taken(p)') = all /\ all \in Nat
      /\ (all = BlockSize <=> Taken(p)' = ItemsOf(p))
      /\ \A r \in Int : r # p => Taken(r)' = Taken(r)
  <2>1. \A d \in Consumers : d # c => Pending(d)' = Pending(d)
    BY StaysFacts
  <2>2. /\ Taken(p)' = Taken(p) \cup Claimed(c) /\ Cardinality(Taken(p)') = all
        /\ \A r \in Int : r # p => Taken(r)' = Taken(r)
    BY <1>1, <2>1, CountedItems
  <2>3. Taken(p)' \in SUBSET ItemsOf(p)
    BY <2>2, FoundEntry DEF Taken
  <2> QED
    BY <1>2, <2>2, <2>3, TakenCounted
<1>6. /\ \A d \in Consumers, r \in Int : d # c \/ r # p => (Unlinks(d, r)' <=> Unlinks(d, r))
      /\ \A d \in Consumers : ~Unlinks(d, p)
      /\ Unlinks(c, p)' <=> all = BlockSize
      /\ \A r : ~Unlinks(c, r)
  <2>1. \A d \in Consumers : d # c => \A r : Unlinks(d, r)' = Unlinks(d, r)
    BY StaysFacts
  <2>2. all = BlockSize => pc'[c] = "unlink" /\ BlockNo(index'[c]) = p
    OBVIOUS
  <2>3. all # BlockSize => \A r : ~Unlinks(c, r)'
    BY DEF Unlinks
  <2>4. all = BlockSize => Unlinks(c, p)' /\ \A r : r # p => ~Unlinks(c, r)'
    BY <2>2 DEF Unlinks, BlockNo
  <2> QED
    BY <1>4, <2>1, <2>3, <2>4 DEF Unlinks
<1>7. ASSUME NEW r \in Int PROVE Gone(r)' <=> Gone(r)
  <2>1. CASE r = p
    <3>1. ItemsOf(p)' = ItemsOf(p)
      BY DEF ItemsOf
    <3>2. ~Gone(p) /\ ~Gone(p)'
      BY <1>3, <1>5, <1>6, <3>1 DEF Gone
    <3> QED
      BY <2>1, <3>2 DEF Gone, Taken, ItemsOf, Unlinks
  <2>2. CASE r # p
    <3>1. Taken(r)' = Taken(r) /\ \A d \in Consumers : Unlinks(d, r)' <=> Unlinks(d, r)
      BY <1>5, <1>6, <2>2
    <3>2. ItemsOf(r)' = ItemsOf(r)
      BY DEF ItemsOf
    <3> QED
      BY <3>1, <3>2 DEF Gone
  <2> QED
    BY <2>1, <2>2
<1>8. Live' = Live
  <2>1. \A r \in 0 .. LastBlock : Gone(r)' <=> Gone(r)
    BY <1>7
  <2> QED
    BY <2>1, SameLive
<1>9. \A r : BlockAt(r)' = BlockAt(r) /\ KeyAt(r)' = KeyAt(r) /\ EntryAt(r)' = EntryAt(r)
  BY SameView DEF BlockAt, KeyAt
<1>10. Remaining' = Remaining
  <2>1. \A d \in Consumers : NotMoved(d)' = NotMoved(d)
    BY StaysFacts
  <2> QED
    BY <1>1, <2>1, SameRemaining
<1>11. Calling' /\ WholeIndex' /\ Placed' /\ Contents'
  BY <1>1, <1>8, <1>10, KeepCalling, KeepWhole, KeepPlaced, KeepContents
<1>12. ImplicitTypes'
  BY <1>1, <1>5 DEF ImplicitTypes, View
<1>13. Counts'
  <2>1. ASSUME NEW r \in Live PROVE elementsCompletelyDequeued'[BlockAt(r)] = Cardinality(Taken(r)')
    <3>1. CASE r = p
      BY <1>2, <1>5, <3>1 DEF ImplicitTypes
    <3>2. CASE r # p
      <4>1. BlockAt(r) # BlockAt(p) /\ BlockAt(r) \in Blocks /\ r \in Int
        BY <1>2, <3>2, LiveEntries, LiveRange DEF Placed
      <4>2. elementsCompletelyDequeued'[BlockAt(r)] = elementsCompletelyDequeued[BlockAt(r)]
        BY <1>2, <4>1 DEF ImplicitTypes
      <4> QED
        BY <1>5, <3>2, <4>1, <4>2 DEF Counts
    <3> QED
      BY <3>1, <3>2
  <2> QED
    BY <1>8, <1>9, <2>1 DEF Counts
<1>14. OneOwner'
  <2>1. ASSUME NEW x \in Blocks PROVE FreedBy(x)' = FreedBy(x)
    <3>1. \A d \in Consumers : pc'[d] = "free" /\ block'[d] = x <=> pc[d] = "free" /\ block[d] = x
      BY DEF Stays
    <3> QED
      BY <3>1 DEF FreedBy
  <2> QED
    BY <1>1, <2>1, KeepOwner
<1>15. Finds(c)'
  <2>1. CASE all = BlockSize
    <3>1. pc'[c] = "unlink" /\ UNCHANGED indexes /\ index'[c] = index[c] /\ last'[c] = last[c]
          /\ localBlockIndex'[c] = localBlockIndex[c] /\ indexIndex'[c] = indexIndex[c] /\ block'[c] = block[c]
      BY <1>1, <2>1 DEF findVars
    <3>2. BlockNo(index[c])' = p /\ BlockNo(last[c] - 1)' = BlockNo(last[c] - 1)
      BY <3>1 DEF BlockNo
    <3>3. Leads(c, p, p)'
      BY <1>2, <1>9, <3>1, <3>2 DEF Leads
    <3>4. block'[c] = BlockAt(p)' /\ Taken(p)' = ItemsOf(p)' /\ \A d \in Consumers : Unlinks(d, p)' => c = d
      BY <1>2, <1>5, <1>6, <1>9, <2>1, <3>1 DEF ItemsOf
    <3>5. /\ Leads(c, BlockNo(index[c]), BlockNo(index[c]))'
          /\ BlockAt(BlockNo(index[c]))' = BlockAt(p)'
          /\ Taken(BlockNo(index[c]))' = ItemsOf(BlockNo(index[c]))'
          /\ \A d \in Consumers : Unlinks(d, BlockNo(index[c]))' => c = d
      BY <3>2, <3>3, <3>4 DEF Leads, BlockAt, EntryAt, Taken, ItemsOf, Unlinks
    <3> QED
      BY <3>1, <3>4, <3>5 DEF Finds
  <2> QED
    BY <2>1
<1>16. ASSUME NEW d \in Consumers, d # c PROVE Finds(d)'
  <2>1. PICK r : r = BlockNo(index[d])
    OBVIOUS
  <2>2. \A t \in Int : entries'[EntryAt(t)].key = entries[EntryAt(t)].key
    OBVIOUS
  <2>3. BlockAt(r)' = BlockAt(r)
    BY <1>9
  <2>4. pc[d] = "unlink" => Taken(r)' = Taken(r) /\ \A e \in Consumers : Unlinks(e, r)' => Unlinks(e, r)
    BY <1>4, <1>5, <1>6, <2>1
  <2> QED
    BY <1>9, <1>16, <2>1, <2>2, <2>3, <2>4, OthersFind
<1> QED
  BY <1>11, <1>12, <1>13, <1>14, <1>15, <1>16

(* set_many_empty, whether the block becomes empty by it or not.           *)
LEMMA PlacesSetEmpty ==
  ASSUME IInv, PlacesOK, NEW c \in Consumers, SetEmpty(c)
  PROVE  PlacesOK'
<1> USE DEF PlacesOK
<1>1. TypeOK
  BY DEF IInv
<1>2. PICK all : all = elementsCompletelyDequeued[block[c]] + EndIndex(c) - index[c]
  OBVIOUS
<1>3. PICK p : p = BlockNo(index[c])
  OBVIOUS
<1>4. /\ pc[c] = "empty" /\ pc[c] \in Dequeuing
      /\ elementsCompletelyDequeued' = [elementsCompletelyDequeued EXCEPT ![block[c]] = all]
      /\ UNCHANGED <<blockVars, prPc, op, entries, indexes, got>>
  BY <1>2 DEF SetEmpty, Dequeuing
<1>5. NotMoved(c) = EndIndex(c) .. last[c] - 1
  BY <1>4 DEF NotMoved
<1>6. CASE all = BlockSize
  <2>1. Passes(c, "empty", "unlink") /\ UNCHANGED <<shared, index, last, findVars>>
    BY <1>2, <1>6, FindingPasses DEF SetEmpty, Passes
  <2>2. Ranges' /\ pc'[c] = "unlink" /\ \A d \in Consumers \ {c} : pc'[d] = pc[d]
    BY <1>1, <2>1, PassingRanges DEF Dequeuing
  <2>3. \A d \in Consumers : d # c => Stays(d)
    BY <2>1, <2>2 DEF Stays, findVars
  <2>4. Pending(c)' = EndIndex(c) .. last[c] - 1 /\ NotMoved(c)' = NotMoved(c)
    <3>1. EndIndex(c)' = EndIndex(c)
      BY <2>1 DEF EndIndex, BaseOf, Smaller
    <3> QED
      BY <1>5, <2>1, <2>2, <3>1 DEF Pending, NotMoved
  <2>5. UNCHANGED View /\ UNCHANGED <<blockVars, headIndex, entries>>
    BY <1>4, <2>1 DEF View, shared
  <2>6. /\ index' \in [Consumers -> Nat] /\ localBlockIndex' \in [Consumers -> Nat]
        /\ indexIndex' \in [Consumers -> Nat] /\ block' \in [Consumers -> Blocks \cup {None}]
    BY <2>1 DEF ImplicitTypes, findVars
  <2> QED
    BY <1>1, <1>2, <1>3, <1>4, <1>6, <2>1, <2>2, <2>3, <2>4, <2>5, <2>6, PlacesCounted
<1>7. CASE all # BlockSize
  <2>1. NextBlock(c, indexes[localBlockIndex[c]].capacity) /\ UNCHANGED shared
    BY <1>2, <1>7 DEF SetEmpty, NextBlock
  <2>2. UNCHANGED View /\ UNCHANGED <<blockVars, headIndex, entries>>
    BY <1>4, <2>1 DEF View, shared
  <2>3. Leads(c, BlockNo(index[c]), BlockNo(index[c]) + 1)
    <3>1. p \in Int /\ Leads(c, p, p) /\ BlockNo(last[c] - 1) \in Int
      BY <1>1, <1>3, <1>4, FoundEntry, ClaimOf DEF Finds
    <3>2. p + 1 .. BlockNo(last[c] - 1) \subseteq p .. BlockNo(last[c] - 1)
      BY <3>1
    <3>3. Leads(c, p, p + 1)
      BY <3>1, <3>2 DEF Leads
    <3> QED
      BY <1>3, <3>3
  <2>4. /\ \A d \in Consumers : d # c => Stays(d)
        /\ pc'[c] \in {"idle", "move"}
        /\ Pending(c)' = EndIndex(c) .. last[c] - 1 /\ NotMoved(c)' = EndIndex(c) .. last[c] - 1
        /\ Ranges' /\ Finds(c)'
        /\ index' \in [Consumers -> Nat] /\ localBlockIndex' \in [Consumers -> Nat]
        /\ indexIndex' \in [Consumers -> Nat] /\ block' \in [Consumers -> Blocks \cup {None}]
    BY <1>1, <1>4, <2>1, <2>2, <2>3, NextBlockFacts
  <2> QED
    BY <1>1, <1>2, <1>3, <1>4, <1>5, <1>7, <2>2, <2>4, PlacesCounted
<1> QED
  BY <1>6, <1>7

-----------------------------------------------------------------------------
(* Giving back an empty block.                                             *)

(* Whoever counted the last item of a block takes it from its entry.       *)
LEMMA PlacesUnlink ==
  ASSUME IInv, PlacesOK, NEW c \in Consumers, Unlink(c)
  PROVE  PlacesOK'
<1> USE DEF PlacesOK
<1>1. TypeOK
  BY DEF IInv
<1>2. PICK q : q = BlockNo(index[c])
  OBVIOUS
<1>3. /\ Passes(c, "unlink", "free") /\ UNCHANGED <<shared, index, last, findVars>>
      /\ entries' = [entries EXCEPT ![EntryOf(c)].value = None]
      /\ UNCHANGED <<blockVars, prPc, op, elementsCompletelyDequeued, indexes, got>>
  BY FindingPasses DEF Unlink, Passes
<1>4. /\ Ranges' /\ pc[c] = "unlink" /\ pc[c] \in Dequeuing /\ pc'[c] = "free"
      /\ \A d \in Consumers \ {c} : pc'[d] = pc[d]
  BY <1>1, <1>3, PassingRanges DEF Passes, Dequeuing
<1>5. /\ UNCHANGED View /\ UNCHANGED <<headIndex, tailIndex>> /\ UNCHANGED <<slots, unused, tailBlock>>
  BY <1>3 DEF View, shared, blockVars
<1>6. ASSUME NEW d \in Consumers, d # c PROVE Stays(d)
  BY <1>3, <1>4, <1>6 DEF Stays, findVars
<1>7. Pending(c)' = Pending(c) /\ NotMoved(c)' = NotMoved(c)
  <2>1. EndIndex(c)' = EndIndex(c)
    BY <1>3 DEF EndIndex, BaseOf, Smaller
  <2> QED
    BY <1>3, <1>4, <2>1 DEF Pending, NotMoved
<1>8. (\A r : Taken(r)' = Taken(r)) /\ Remaining' = Remaining
  <2>1. \A d \in Consumers : Pending(d)' = Pending(d) /\ NotMoved(d)' = NotMoved(d)
    BY <1>6, <1>7, StaysFacts
  <2> QED
    BY <1>5, <2>1, SameTaken, SameRemaining
<1>9. /\ q \in Live /\ q \in 0 .. LastBlock /\ q \in Int /\ EntryOf(c) = EntryAt(q)
      /\ EntryAt(q) \in 1 .. Len(entries) /\ BlockAt(q) \in Blocks /\ block[c] = BlockAt(q)
      /\ Leads(c, q, q) /\ Taken(q) = ItemsOf(q) /\ \A d \in Consumers : Unlinks(d, q) => c = d
  <2>1. Finds(c)
    OBVIOUS
  <2> QED
    BY <1>1, <1>2, <1>4, <2>1, FoundEntry DEF Finds
(* The step as seen from the index.                                        *)
<1>10. /\ Len(entries') = Len(entries)
       /\ entries'[EntryAt(q)].value = None /\ entries'[EntryAt(q)].key = entries[EntryAt(q)].key
       /\ \A e \in 1 .. Len(entries) : e # EntryAt(q) => entries'[e] = entries[e]
       /\ entries' \in Seq(Entry)
  <2>1. entries \in Seq(Entry) /\ entries[EntryAt(q)] \in Entry
    BY <1>9 DEF ImplicitTypes
  <2>2. entries' = [entries EXCEPT ![EntryAt(q)] = [entries[EntryAt(q)] EXCEPT !.value = None]]
    BY <1>3, <1>9
  <2>3. [entries[EntryAt(q)] EXCEPT !.value = None] \in Entry
    BY <2>1 DEF Entry
  <2>4. entries' \in Seq(Entry) /\ Len(entries') = Len(entries)
    BY <1>9, <2>1, <2>2, <2>3
  <2> QED
    BY <1>9, <2>1, <2>2, <2>4 DEF Entry
<1>11. /\ \A r \in Int : EntryAt(r) \in 1 .. Len(entries)
       /\ \A r : EntryAt(r)' = EntryAt(r) /\ BlockAt(r)' = entries'[EntryAt(r)].value /\ KeyAt(r)' = entries'[EntryAt(r)].key
  BY <1>1, <1>5, EntryPlace, SameView DEF BlockAt, KeyAt
<1>12. /\ \A r \in Int : KeyAt(r)' = KeyAt(r)
       /\ \A r \in Int : BlockAt(r)' = BlockAt(r) \/ BlockAt(r)' = None
       /\ \A r \in Live : r # q => BlockAt(r)' = BlockAt(r) /\ EntryAt(r) # EntryAt(q)
  <2>1. ASSUME NEW r \in Live, r # q PROVE EntryAt(r) # EntryAt(q) /\ r \in Int
    BY <1>1, <1>9, <2>1, LiveEntries, LiveRange
  <2> QED
    BY <1>10, <1>11, <2>1 DEF BlockAt, KeyAt
<1>13. Live' = Live \ {q}
  <2>1. \A d \in Consumers, r \in Int : r # q => (Unlinks(d, r)' <=> Unlinks(d, r))
    <3>1. \A r \in Int : r # q => ~Unlinks(c, r) /\ ~Unlinks(c, r)'
      BY <1>2, <1>4 DEF Unlinks
    <3>2. \A d \in Consumers : d # c => \A r : Unlinks(d, r)' = Unlinks(d, r)
      BY <1>6, StaysFacts
    <3> QED
      BY <3>1, <3>2
  <2>2. \A r \in Int : r # q => (Gone(r)' <=> Gone(r))
    BY <1>8, <2>1 DEF Gone, ItemsOf
  <2>3. Gone(q)'
    <3>1. Taken(q)' = ItemsOf(q)'
      BY <1>8, <1>9 DEF ItemsOf
    <3>2. \A d \in Consumers : ~Unlinks(d, q)'
      <4>1. ASSUME NEW d \in Consumers, d # c PROVE ~Unlinks(d, q)'
        <5>1. Unlinks(d, q)' = Unlinks(d, q)
          BY <1>6, <4>1, StaysFacts
        <5> QED
          BY <1>9, <4>1, <5>1
      <4>2. ~Unlinks(c, q)'
        BY <1>4 DEF Unlinks
      <4> QED
        BY <4>1, <4>2
    <3> QED
      BY <3>1, <3>2 DEF Gone
  <2>4. q \notin Inserted
    BY <1>1, <1>9, Numbers DEF Inserted
  <2>5. UNCHANGED <<LastBlock, Inserted>>
    BY <1>5, SameView
  <2>6. Live' = {r \in 0 .. LastBlock : ~Gone(r)'} \cup Inserted
    BY <2>5 DEF Live
  <2>7. \A r \in 0 .. LastBlock : ~Gone(r)' <=> ~Gone(r) /\ r # q
    BY <2>2, <2>3
  <2> QED
    BY <2>4, <2>6, <2>7 DEF Live
<1>14. Calling' /\ WholeIndex'
  <2>1. UNCHANGED indexes
    BY <1>3
  <2> QED
    BY <1>5, <1>10, <2>1, KeepCalling, KeepWhole
<1>15. UNCHANGED <<LastBlock, Top, Inserted, Newest, got, prPc, op>> /\ UNCHANGED StartBlock
  BY <1>5, SameView DEF View, StartBlock
<1>16. Placed'
  <2>1. LastBlock \in Int /\ Top \in Int
    BY <1>1, Numbers
  <2>2. ASSUME NEW r \in Live, r # q
        PROVE  /\ Top - Newest.capacity < r /\ BlockAt(r)' \in Blocks
               /\ \A s \in r .. Top : KeyAt(s)' = s * BlockSize
    <3>1. r \in Int
      BY <1>1, LiveRange
    <3>2. \A s \in r .. Top : s \in Int
      BY <2>1, <3>1
    <3> QED
      BY <1>12, <2>2, <3>2 DEF Placed
  <2>3. \A s \in LastBlock + 1 .. Top : KeyAt(s)' = s * BlockSize
    <3>1. \A s \in LastBlock + 1 .. Top : s \in Int
      BY <2>1
    <3> QED
      BY <1>12, <3>1 DEF Placed
  <2>4. ASSUME NEW e \in 1 .. Len(entries'), entries'[e].value # None PROVE \E r \in Live' : e = EntryAt(r)'
    <3>1. e \in 1 .. Len(entries) /\ e # EntryAt(q) /\ entries[e].value # None
      BY <1>10, <2>4
    <3>2. PICK r \in Live : e = EntryAt(r)
      BY <3>1 DEF Placed
    <3> QED
      BY <1>11, <1>13, <3>1, <3>2
  <2>5. LastBlock \in Live' => StartBlock = BlockAt(LastBlock)'
    <3>1. ASSUME LastBlock \in Live' PROVE StartBlock = BlockAt(LastBlock)'
      <4>1. LastBlock \in Live /\ LastBlock # q
        BY <1>13, <3>1
      <4>2. \A r : r = LastBlock => BlockAt(r)' = BlockAt(LastBlock)'
        BY <1>15 DEF BlockAt, EntryAt
      <4>3. PICK r : r = LastBlock
        OBVIOUS
      <4>4. BlockAt(r)' = BlockAt(r)
        BY <1>12, <4>1, <4>3
      <4> QED
        BY <4>1, <4>2, <4>3, <4>4 DEF Placed
    <3> QED
      BY <3>1
  <2>6. \A r \in Inserted : BlockAt(r)' = got[r - LastBlock]
    <3>1. \A r \in Inserted : r \in Live /\ r # q
      BY <2>1, <1>1, <1>9, Numbers DEF Live, Inserted
    <3> QED
      BY <1>12, <3>1 DEF Placed
  <2>7. \A r \in Live' : r \in Live /\ r # q
    BY <1>13
  <2> QED
    BY <1>15, <2>2, <2>3, <2>4, <2>5, <2>6, <2>7 DEF Placed, BlockAt, EntryAt
<1>17. Counts'
  BY <1>3, <1>8, <1>12, <1>13 DEF Counts
<1>18. \A i \in Int : BlockNo(i) = q => i \notin Remaining
  <2>1. ASSUME NEW i \in Int, BlockNo(i) = q PROVE i \notin Remaining
    <3>1. i \in Taken(q)
      BY <1>9, <2>1, ItemsOfNo
    <3>2. i < headIndex /\ \A d \in Consumers : i \notin Pending(d)
      BY <3>1 DEF Taken
    <3>3. \A d \in Consumers : i \notin NotMoved(d)
      BY <1>1, <3>2, PendingFacts
    <3>4. headIndex \in Int /\ i \notin headIndex .. tailIndex - 1
      BY <1>1, <3>2 DEF TypeOK
    <3> QED
      BY <3>3, <3>4 DEF Remaining
  <2> QED
    BY <2>1
<1>19. Contents'
  <2>1. ASSUME NEW b \in Blocks, \A e \in 1 .. Len(entries') : entries'[e].value # b, NEW o \in Offsets
        PROVE  slots[b][o] = NoItem
    <3>1. CASE \A e \in 1 .. Len(entries) : entries[e].value # b
      BY <3>1 DEF Contents
    <3>2. CASE b = BlockAt(q)
      <4>1. /\ q * BlockSize + o \in ItemsOf(q) /\ (q * BlockSize + o) % BlockSize = o
            /\ q * BlockSize + o \in Int /\ BlockNo(q * BlockSize + o) = q
        BY <1>9, ItemsOfNo
      <4>2. slots[BlockAt(q)][(q * BlockSize + o) % BlockSize] = NoItem
        BY <1>9, <1>18, <4>1 DEF Contents
      <4> QED
        BY <3>2, <4>1, <4>2
    <3>3. ASSUME NEW e \in 1 .. Len(entries), entries[e].value = b PROVE b = BlockAt(q)
      <4>1. e = EntryAt(q)
        BY <1>10, <2>1, <3>3
      <4> QED
        BY <3>3, <4>1 DEF BlockAt
    <3> QED
      BY <3>1, <3>2, <3>3
  <2>2. ASSUME NEW r \in Live, r # q, NEW i \in ItemsOf(r)
        PROVE  slots[BlockAt(r)'][i % BlockSize] = IF i \in Remaining THEN i ELSE NoItem
    BY <1>12, <2>2 DEF Contents
  <2>3. \A r : ItemsOf(r)' = ItemsOf(r)
    BY DEF ItemsOf
  <2>4. UNCHANGED slots
    BY <1>5
  <2> QED
    BY <1>8, <1>13, <2>1, <2>2, <2>3, <2>4 DEF Contents
<1>20. OneOwner'
  <2>1. UNCHANGED Reverted /\ UNCHANGED got /\ UNCHANGED unused
    BY <1>5, SameView DEF View
  <2>2. \A b \in Blocks : UndoneOf(b)' = UndoneOf(b)
    BY <2>1 DEF UndoneOf
  <2>3. \A b \in Blocks : HasBlock(b)' = HasBlock(b) \ {EntryAt(q)}
    <3>1. \A b \in Blocks : b # None
      BY BlocksAssumption
    <3> QED
      BY <1>10, <3>1 DEF HasBlock
  <2>4. EntryAt(q) \in HasBlock(BlockAt(q)) /\ \A b \in Blocks : b # BlockAt(q) => EntryAt(q) \notin HasBlock(b)
    BY <1>9 DEF HasBlock, BlockAt
  <2>5. /\ \A b \in Blocks : b # BlockAt(q) => FreedBy(b)' = FreedBy(b)
        /\ \A b \in Blocks : b = BlockAt(q) => FreedBy(b)' = FreedBy(b) \cup {c}
    <3>1. \A b \in Blocks, d \in Consumers :
            pc'[d] = "free" /\ block'[d] = b <=> (pc[d] = "free" /\ block[d] = b) \/ (d = c /\ b = BlockAt(q))
      BY <1>3, <1>4, <1>6, <1>9 DEF Stays, findVars
    <3> QED
      BY <3>1 DEF FreedBy
  <2>6. ASSUME NEW b \in Blocks, b # BlockAt(q)
        PROVE  HasBlock(b)' = HasBlock(b) /\ FreedBy(b)' = FreedBy(b) /\ UndoneOf(b)' = UndoneOf(b)
    BY <2>2, <2>3, <2>4, <2>5, <2>6
  <2>7. ASSUME NEW b \in Blocks, b = BlockAt(q)
        PROVE  HasBlock(b)' = {} /\ FreedBy(b)' = {c} /\ UndoneOf(b)' = {} /\ b \notin unused
    <3>1. HasBlock(b) = {EntryAt(q)} /\ FreedBy(b) = {} /\ UndoneOf(b) = {} /\ b \notin unused
      BY <2>4, <2>7 DEF OneOwner
    <3> QED
      BY <2>2, <2>3, <2>5, <2>7, <3>1
  <2> QED
    BY <2>1, <2>6, <2>7 DEF OneOwner
<1>21. Finds(c)'
  <2>1. /\ index'[c] = index[c] /\ last'[c] = last[c] /\ localBlockIndex'[c] = localBlockIndex[c]
        /\ indexIndex'[c] = indexIndex[c] /\ block'[c] = block[c] /\ indexes' = indexes
    BY <1>3 DEF findVars
  <2>2. BlockNo(index[c])' = q /\ BlockNo(last[c] - 1)' = BlockNo(last[c] - 1)
    BY <1>2, <2>1 DEF BlockNo
  <2>3. Leads(c, q, q + 1)'
    <3>1. BlockNo(last[c] - 1) \in Int
      BY <1>1, <1>4, ClaimOf
    <3>2. q + 1 .. BlockNo(last[c] - 1) \subseteq q .. BlockNo(last[c] - 1)
      BY <1>9, <3>1
    <3> QED
      BY <1>9, <1>11, <2>1, <2>2, <3>2 DEF Leads
  <2>4. Leads(c, BlockNo(index[c]), BlockNo(index[c]) + 1)'
    BY <2>2, <2>3 DEF Leads
  <2> QED
    BY <1>4, <1>9, <2>1, <2>4 DEF Finds
<1>22. ASSUME NEW d \in Consumers, d # c PROVE Finds(d)'
  <2>1. PICK r : r = BlockNo(index[d])
    OBVIOUS
  <2>2. \A t \in Int : entries'[EntryAt(t)].key = entries[EntryAt(t)].key
    BY <1>10, <1>11
  <2>3. pc[d] \in {"empty", "unlink"} => r \in Live /\ r # q
    <3>1. CASE pc[d] = "empty"
      BY <1>1, <1>9, <2>1, <3>1, FoundEntry, FirstPending
    <3>2. CASE pc[d] = "unlink"
      <4>1. Unlinks(d, r)
        BY <2>1, <3>2 DEF Unlinks
      <4> QED
        BY <1>1, <1>9, <1>22, <2>1, <3>2, <4>1, FoundEntry
    <3> QED
      BY <3>1, <3>2
  <2>4. pc[d] \in {"empty", "unlink"} => BlockAt(r)' = BlockAt(r)
    BY <1>12, <2>3
  <2>5. pc[d] = "unlink" => Taken(r)' = Taken(r) /\ \A e \in Consumers : Unlinks(e, r)' => Unlinks(e, r)
    <3>1. \A e \in Consumers : e # c => Unlinks(e, r)' = Unlinks(e, r)
      BY <1>6, StaysFacts
    <3>2. ~Unlinks(c, r)'
      BY <1>4 DEF Unlinks
    <3> QED
      BY <1>8, <3>1, <3>2
  <2> QED
    BY <1>5, <1>6, <1>12, <1>22, <2>1, <2>2, <2>4, <2>5, OthersFind
<1>23. ImplicitTypes'
  BY <1>3, <1>10 DEF ImplicitTypes, findVars, blockVars
<1> QED
  BY <1>4, <1>14, <1>16, <1>17, <1>19, <1>20, <1>21, <1>22, <1>23

(* The block goes back to the list, and the consumer on to the next one.   *)
LEMMA PlacesFree ==
  ASSUME IInv, PlacesOK, NEW c \in Consumers, Free(c)
  PROVE  PlacesOK'
<1> USE DEF PlacesOK
<1>1. TypeOK
  BY DEF IInv
<1>2. /\ pc[c] = "free" /\ pc[c] \in Dequeuing /\ unused' = unused \cup {block[c]}
      /\ NextBlock(c, indexes[localBlockIndex[c]].capacity)
      /\ UNCHANGED <<slots, tailBlock, prPc, op, implicitOnly>> /\ UNCHANGED shared
  BY DEF Free, Dequeuing, NextBlock
<1>3. /\ UNCHANGED View /\ UNCHANGED <<headIndex, tailIndex>> /\ UNCHANGED entries
      /\ UNCHANGED elementsCompletelyDequeued /\ UNCHANGED indexes
  BY <1>2 DEF View, shared, implicitOnly
<1>4. block[c] \in Blocks /\ Leads(c, BlockNo(index[c]), BlockNo(index[c]) + 1)
  BY <1>2 DEF Finds
<1>5. /\ \A d \in Consumers : d # c => Stays(d)
      /\ pc'[c] \in {"idle", "move"}
      /\ Pending(c)' = EndIndex(c) .. last[c] - 1 /\ NotMoved(c)' = EndIndex(c) .. last[c] - 1
      /\ \A r : ~Unlinks(c, r)'
      /\ Ranges' /\ Finds(c)'
      /\ index' \in [Consumers -> Nat] /\ localBlockIndex' \in [Consumers -> Nat]
      /\ indexIndex' \in [Consumers -> Nat] /\ block' \in [Consumers -> Blocks \cup {None}]
  BY <1>1, <1>2, <1>3, <1>4, NextBlockFacts
<1>6. Pending(c) = EndIndex(c) .. last[c] - 1 /\ NotMoved(c) = EndIndex(c) .. last[c] - 1
  BY <1>2 DEF Pending, NotMoved
<1>7. /\ \A d \in Consumers : Pending(d)' = Pending(d) /\ NotMoved(d)' = NotMoved(d)
      /\ \A d \in Consumers : \A r : Unlinks(d, r)' = Unlinks(d, r)
  BY <1>2, <1>5, <1>6, StaysFacts DEF Unlinks
<1>8. (\A r : Taken(r)' = Taken(r)) /\ Remaining' = Remaining
  BY <1>3, <1>7, SameTaken, SameRemaining
<1>9. Live' = Live
  <2>1. \A r : Gone(r)' <=> Gone(r)
    BY <1>7, <1>8, SameGone
  <2> QED
    BY <1>3, <2>1, SameLive
<1>10. Calling' /\ WholeIndex' /\ Placed' /\ Counts' /\ Contents'
  BY <1>2, <1>3, <1>8, <1>9, KeepCalling, KeepWhole, KeepPlaced, KeepCounts, KeepContents
<1>11. ImplicitTypes'
  BY <1>2, <1>3, <1>4, <1>5 DEF ImplicitTypes, View
<1>12. OneOwner'
  <2>1. UNCHANGED Reverted /\ UNCHANGED got
    BY <1>3, SameView DEF View
  <2>2. \A b \in Blocks : HasBlock(b)' = HasBlock(b) /\ UndoneOf(b)' = UndoneOf(b)
    BY <1>3, <2>1 DEF HasBlock, UndoneOf
  <2>3. \A b \in Blocks : FreedBy(b)' = FreedBy(b) \ {c}
    <3>1. \A b \in Blocks, d \in Consumers :
            pc'[d] = "free" /\ block'[d] = b <=> pc[d] = "free" /\ block[d] = b /\ d # c
      BY <1>5 DEF Stays
    <3> QED
      BY <3>1 DEF FreedBy
  <2>4. c \in FreedBy(block[c]) /\ \A b \in Blocks : b # block[c] => c \notin FreedBy(b)
    BY <1>2 DEF FreedBy
  <2>5. ASSUME NEW b \in Blocks, b # block[c] PROVE FreedBy(b)' = FreedBy(b) /\ (b \in unused' <=> b \in unused)
    BY <1>2, <2>3, <2>4, <2>5
  <2>6. FreedBy(block[c]) = {c} /\ HasBlock(block[c]) = {} /\ UndoneOf(block[c]) = {}
    BY <1>4, <2>4 DEF OneOwner
  <2>7. ASSUME NEW b \in Blocks, b = block[c]
        PROVE  FreedBy(b)' = {} /\ HasBlock(b)' = {} /\ UndoneOf(b)' = {} /\ b \in unused'
    BY <1>2, <2>2, <2>3, <2>6, <2>7
  <2> QED
    BY <2>2, <2>5, <2>7 DEF OneOwner
<1>13. ASSUME NEW d \in Consumers, d # c PROVE Finds(d)'
  <2>1. PICK r : r = BlockNo(index[d])
    OBVIOUS
  <2>2. \A t \in Int : entries'[EntryAt(t)].key = entries[EntryAt(t)].key
    BY <1>3
  <2>3. \A s : BlockAt(s)' = BlockAt(s) /\ KeyAt(s)' = KeyAt(s)
    BY <1>3, SameView DEF BlockAt, KeyAt
  <2>4. BlockAt(r)' = BlockAt(r) /\ Taken(r)' = Taken(r) /\ \A e \in Consumers : Unlinks(e, r)' => Unlinks(e, r)
    BY <1>7, <1>8, <2>3
  <2> QED
    BY <1>3, <1>5, <1>13, <2>1, <2>2, <2>3, <2>4, OthersFind
<1> QED
  BY <1>5, <1>10, <1>11, <1>12, <1>13

-----------------------------------------------------------------------------
(* The steps of the producer.                                              *)

Waits == UNCHANGED <<headIndex, pc, index, last, findVars>>

LEMMA WaitsFacts ==
  ASSUME Waits
  PROVE  /\ \A q : Taken(q)' = Taken(q) /\ (Gone(q)' <=> Gone(q)) /\ ItemsOf(q)' = ItemsOf(q)
         /\ \A c \in Consumers : NotMoved(c)' = NotMoved(c)
         /\ \A c \in Consumers, q \in Int : Unlinks(c, q)' = Unlinks(c, q)
         /\ \A b : FreedBy(b)' = FreedBy(b)
         /\ tailIndex' = tailIndex => Remaining' = Remaining
<1>1. \A c \in Consumers : Stays(c)
  BY DEF Waits, Stays, findVars
<1>2. \A c \in Consumers : Pending(c)' = Pending(c) /\ NotMoved(c)' = NotMoved(c) /\ \A q : Unlinks(c, q)' = Unlinks(c, q)
  BY <1>1, StaysFacts
<1>3. UNCHANGED headIndex /\ UNCHANGED pc /\ UNCHANGED block
  BY DEF Waits, findVars
<1>4. \A q : Taken(q)' = Taken(q)
  BY <1>2, <1>3, SameTaken
<1>5. \A q : Gone(q)' <=> Gone(q)
  BY <1>2, <1>4, SameGone
<1>6. \A b : FreedBy(b)' = FreedBy(b)
  BY <1>3 DEF FreedBy
<1>7. tailIndex' = tailIndex => Remaining' = Remaining
  BY <1>2, <1>3, SameRemaining
<1> QED
  BY <1>2, <1>4, <1>5, <1>6, <1>7 DEF ItemsOf

LEMMA WaitsRanges == ASSUME Ranges, Waits, headIndex <= tailIndex' PROVE Ranges'
BY DEF Ranges, Waits

(* What consumers do with the index depends on no tail.                    *)
Widened == /\ Len(indexes) <= Len(indexes')
           /\ \A i \in 1 .. Len(indexes) : /\ indexes'[i].index = indexes[i].index
                                           /\ indexes'[i].capacity = indexes[i].capacity

LEMMA WaitsFinds ==
  ASSUME TypeOK, PlacesOK, Waits, Widened, Newest.capacity <= Newest'.capacity, Newest'.capacity \in Nat,
         \A q \in Live : q <= LastBlock => EntryAt(q)' = EntryAt(q) /\ BlockAt(q)' = BlockAt(q),
         \A c \in Consumers, t \in Int : pc[c] = "key" /\ FromTail(c, t) =>
           /\ EntryAt(t)' = EntryAt(t) /\ entries'[EntryAt(t)].key = t * BlockSize
           /\ \A s \in LastBlock' + 1 .. t : BlockAt(s)' # None => s \in Inserted',
         NEW c \in Consumers
  PROVE  Finds(c)'
<1> USE DEF PlacesOK
<1>1. PICK q : q = BlockNo(index[c])
  OBVIOUS
<1>2. PICK l : l = BlockNo(last[c] - 1)
  OBVIOUS
<1>3. BlockNo(index[c])' = q /\ BlockNo(last[c] - 1)' = l
  BY <1>1, <1>2 DEF Waits, BlockNo
<1>4. /\ pc'[c] = pc[c] /\ localBlockIndex'[c] = localBlockIndex[c] /\ indexIndex'[c] = indexIndex[c]
      /\ block'[c] = block[c]
  BY DEF Waits, findVars
<1>5. ASSUME NEW r \in Int, pc[c] \in Dequeuing, q <= r, r <= l, pc[c] = "free" => q < r
      PROVE  r \in Live /\ EntryAt(r)' = EntryAt(r) /\ BlockAt(r)' = BlockAt(r)
  <2>1. r \in Live /\ r \in 0 .. LastBlock
    BY <1>1, <1>2, <1>5, LiveAhead
  <2>2. r <= LastBlock
    BY <2>1
  <2> QED
    BY <2>1, <2>2
<1>6. pc[c] \in Dequeuing => q \in Nat /\ l \in Nat /\ q <= l
  BY <1>1, <1>2, ClaimOf
<1>7. ASSUME NEW t, NEW f \in Int, Leads(c, t, f), pc[c] \in Dequeuing, q <= f, pc[c] = "free" => q < f
      PROVE  Leads(c, t, f)'
  <2>1. /\ localBlockIndex[c] \in 1 .. Len(indexes')
        /\ indexes'[localBlockIndex[c]].index = indexes[localBlockIndex[c]].index
        /\ indexes'[localBlockIndex[c]].capacity = indexes[localBlockIndex[c]].capacity
    <3>1. localBlockIndex[c] \in 1 .. Len(indexes)
      BY <1>7 DEF Leads
    <3>2. Len(indexes) \in Nat /\ Len(indexes) <= Len(indexes')
      BY DEF ImplicitTypes, Widened
    <3> QED
      BY <3>1, <3>2 DEF Widened
  <2>2. \A r \in f .. l : EntryAt(r)' = EntryAt(r)
    BY <1>5, <1>6, <1>7
  <2> QED
    BY <1>2, <1>3, <1>4, <1>7, <2>1, <2>2 DEF Leads
<1>8. CASE pc[c] = "key"
  <2>1. PICK t \in Int : FromTail(c, t)
    BY <1>8 DEF Finds
  <2>2. l <= t /\ t < q + Newest.capacity /\ Leads(c, t, q)
    BY <1>1, <1>2, <2>1 DEF FromTail
  <2>3. pc[c] \in Dequeuing /\ q \in Int /\ q <= q
    BY <1>6, <1>8 DEF Dequeuing
  <2>4. Leads(c, t, q)'
    BY <1>7, <1>8, <2>2, <2>3
  <2>5. /\ EntryAt(t)' = EntryAt(t) /\ entries'[EntryAt(t)].key = t * BlockSize
        /\ \A s \in LastBlock' + 1 .. t : BlockAt(s)' # None => s \in Inserted'
    BY <1>8, <2>1
  <2>6. indexes'[localBlockIndex'[c]].index[indexIndex'[c]] = EntryAt(t)'
    <3>1. indexes[localBlockIndex[c]].index[indexIndex[c]] = EntryAt(t) /\ localBlockIndex[c] \in 1 .. Len(indexes)
      BY <2>1 DEF FromTail, Leads
    <3> QED
      BY <1>4, <2>5, <3>1 DEF Widened
  <2>7. t < q + Newest'.capacity
    <3>1. Newest.capacity \in Nat
      BY NewestFacts
    <3> QED
      BY <2>2, <2>3, <3>1
  <2>8. Leads(c, t, BlockNo(index[c]))'
    BY <1>3, <2>4 DEF Leads
  <2>9. FromTail(c, t)'
    BY <1>3, <2>2, <2>5, <2>6, <2>7, <2>8 DEF FromTail
  <2> QED
    BY <1>4, <1>8, <2>9 DEF Finds
<1>9. CASE pc[c] \in {"move", "empty", "unlink"}
  <2>1. pc[c] \in Dequeuing /\ q \in Int /\ q <= q /\ q <= l
    BY <1>6, <1>9 DEF Dequeuing
  <2>2. Leads(c, q, q)
    BY <1>1, <1>9 DEF Finds
  <2>3. Leads(c, q, q)'
    BY <1>7, <1>9, <2>1, <2>2
  <2>4. BlockAt(q)' = BlockAt(q)
    BY <1>5, <1>9, <2>1
  <2>5. /\ pc[c] \in {"empty", "unlink"} => block[c] = BlockAt(q)
        /\ pc[c] = "unlink" => Taken(q) = ItemsOf(q)
        /\ \A d \in Consumers : pc[c] = "unlink" /\ Unlinks(d, q) => c = d
    BY <1>1 DEF Finds
  <2>6. /\ Leads(c, BlockNo(index[c]), BlockNo(index[c]))' /\ BlockAt(BlockNo(index[c]))' = BlockAt(q)'
        /\ Taken(BlockNo(index[c]))' = Taken(q)' /\ ItemsOf(BlockNo(index[c]))' = ItemsOf(q)'
        /\ \A d \in Consumers : Unlinks(d, BlockNo(index[c]))' = Unlinks(d, q)'
    BY <1>3, <2>3 DEF Leads, BlockAt, EntryAt, Taken, ItemsOf, Unlinks
  <2>7. Taken(q)' = Taken(q) /\ ItemsOf(q)' = ItemsOf(q) /\ \A d \in Consumers : Unlinks(d, q)' = Unlinks(d, q)
    BY <2>1, WaitsFacts
  <2> QED
    BY <1>4, <1>9, <2>4, <2>5, <2>6, <2>7 DEF Finds
<1>10. CASE pc[c] = "free"
  <2>1. pc[c] \in Dequeuing /\ q + 1 \in Int /\ q <= q + 1 /\ q < q + 1
    BY <1>6, <1>10 DEF Dequeuing
  <2>2. Leads(c, q, q + 1) /\ block[c] \in Blocks
    BY <1>1, <1>10 DEF Finds
  <2>3. Leads(c, q, q + 1)'
    BY <1>7, <2>1, <2>2
  <2>4. Leads(c, BlockNo(index[c]), BlockNo(index[c]) + 1)'
    BY <1>3, <2>3 DEF Leads
  <2> QED
    BY <1>4, <1>10, <2>2, <2>4 DEF Finds
<1>11. CASE pc[c] \notin {"key", "move", "empty", "unlink", "free"}
  BY <1>4, <1>11 DEF Finds
<1> QED
  BY <1>8, <1>9, <1>10, <1>11

-----------------------------------------------------------------------------
(* A step that only moves the tail of the current index.                   *)

LEMMA TailMoves ==
  ASSUME ImplicitTypes, NEW t \in 0 .. Newest.capacity - 1,
         indexes' = [indexes EXCEPT ![current].tail = t]
  PROVE  /\ indexes' \in Seq(Headers) /\ Len(indexes') = Len(indexes) /\ Widened
         /\ Newest'.capacity = Newest.capacity /\ Newest'.index = Newest.index /\ Newest'.tail = t
<1>1. indexes \in Seq(Headers) /\ current \in 1 .. Len(indexes) /\ Newest = indexes[current]
  BY NewestFacts DEF ImplicitTypes, Newest
<1>2. /\ Newest.capacity \in Nat \ {0} /\ Newest.index \in [0 .. Newest.capacity - 1 -> Nat]
      /\ Newest = IndexHeader(Newest.capacity, Newest.tail, Newest.index)
  BY NewestFacts
<1>3. indexes' = [indexes EXCEPT ![current] = [Newest EXCEPT !.tail = t]]
  BY <1>1
<1>4. [Newest EXCEPT !.tail = t] = IndexHeader(Newest.capacity, t, Newest.index)
  BY <1>2 DEF IndexHeader
<1>5. IndexHeader(Newest.capacity, t, Newest.index) \in Headers
  BY <1>2, HeaderMade
<1>6. indexes' \in Seq(Headers) /\ Len(indexes') = Len(indexes)
  BY <1>1, <1>3, <1>4, <1>5
<1>7. Newest' = IndexHeader(Newest.capacity, t, Newest.index)
  BY <1>1, <1>3, <1>4, <1>6 DEF Newest, current
<1>8. Widened
  <2>1. \A i \in 1 .. Len(indexes) : i # current => indexes'[i] = indexes[i]
    BY <1>1, <1>3
  <2>2. indexes'[current].index = indexes[current].index /\ indexes'[current].capacity = indexes[current].capacity
    BY <1>1, <1>3, <1>4 DEF IndexHeader
  <2>3. Len(indexes) <= Len(indexes')
    BY <1>1, <1>6
  <2> QED
    BY <2>1, <2>2, <2>3 DEF Widened
<1> QED
  BY <1>6, <1>7, <1>8 DEF IndexHeader

LEMMA EntriesStay ==
  ASSUME TypeOK, ImplicitTypes, Calling, NEW d \in Int, TailNo' = TailNo + d,
         Newest'.capacity = Newest.capacity, Newest'.index = Newest.index,
         Newest'.tail = (Newest.tail + d) % Newest.capacity
  PROVE  \A q \in Int : EntryAt(q)' = EntryAt(q)
<1>1. Newest.capacity \in Nat \ {0} /\ Newest.tail \in Nat /\ TailNo \in Int
  BY NewestFacts, Numbers
<1>2. ASSUME NEW q \in Int PROVE EntryAt(q)' = EntryAt(q)
  <2> DEFINE n == Newest.capacity
             a == Newest.tail + d
             b == q - TailNo'
  <2>1. a \in Int /\ b \in Int /\ a + b = Newest.tail + (q - TailNo) /\ n \in Nat \ {0}
    BY <1>1
  <2> HIDE DEF a, b, n
  <2>2. ((a % n) + b) % n = (a + b) % n
    BY <2>1, ModShift
  <2>3. Newest'.tail = a % n /\ Newest'.capacity = n /\ Newest'.index = Newest.index
    BY DEF a, n
  <2>4. EntryAt(q)' = Newest.index[((a % n) + b) % n]
    BY <2>3 DEF EntryAt, b
  <2>5. EntryAt(q) = Newest.index[(a + b) % n]
    BY <2>1 DEF EntryAt, n
  <2> QED
    BY <2>2, <2>4, <2>5
<1> QED
  BY <1>2

LEMMA IndexUnmoved ==
  ASSUME TypeOK, ImplicitTypes, Calling, UNCHANGED indexes, TailNo' = TailNo
  PROVE  /\ UNCHANGED Newest /\ Widened /\ \A q : EntryAt(q)' = EntryAt(q)
         /\ Newest.capacity <= Newest'.capacity /\ Newest'.capacity \in Nat
<1>1. UNCHANGED Newest
  BY DEF Newest, current
<1>2. Newest.capacity \in Nat /\ Len(indexes) \in Nat
  BY NewestFacts DEF ImplicitTypes
<1> QED
  BY <1>1, <1>2 DEF EntryAt, Widened

(* The steps of the producer that change no entry and at most shorten the  *)
(* part of the index that counts.                                          *)
LEMMA NoEntryChanged ==
  ASSUME TypeOK, PlacesOK, Waits, UNCHANGED <<tailIndex, slots, elementsCompletelyDequeued, entries>>,
         Widened, Len(indexes') = Len(indexes),
         Newest'.capacity = Newest.capacity, Newest'.index = Newest.index,
         \A q \in Int : EntryAt(q)' = EntryAt(q),
         Top' \in Int, Top' <= Top, Inserted' = Inserted, StartBlock' = StartBlock,
         \A q \in Inserted : got'[q - LastBlock] = got[q - LastBlock],
         ImplicitTypes', Calling', OneOwner'
  PROVE  PlacesOK'
<1> USE DEF PlacesOK
<1>1. UNCHANGED LastBlock
  BY DEF LastBlock, BlockNo
<1>2. LastBlock \in Int /\ Top \in Int /\ Newest.capacity \in Nat
  BY Numbers, NewestFacts
<1>3. \A q : Taken(q)' = Taken(q) /\ (Gone(q)' <=> Gone(q)) /\ ItemsOf(q)' = ItemsOf(q)
  BY WaitsFacts
<1>4. Live' = Live
  BY <1>1, <1>3 DEF Live
<1>5. \A q \in Int : BlockAt(q)' = BlockAt(q) /\ KeyAt(q)' = KeyAt(q)
  BY DEF BlockAt, KeyAt
<1>6. \A q \in Live : q \in Int
  BY LiveRange
<1>7. WholeIndex'
  <2>1. ASSUME NEW i \in 1 .. Len(indexes')
        PROVE  indexes'[i].index = indexes[i].index /\ indexes'[i].capacity = indexes[i].capacity
    BY <2>1 DEF Widened
  <2> QED
    BY <2>1 DEF WholeIndex
<1>8. Placed'
  <2>1. ASSUME NEW q \in Live
        PROVE  /\ Top' - Newest'.capacity < q /\ BlockAt(q)' \in Blocks
               /\ \A s \in q .. Top' : KeyAt(s)' = s * BlockSize
    <3>1. \A s \in q .. Top' : s \in q .. Top /\ s \in Int
      BY <1>2, <1>6
    <3>2. Top - Newest.capacity < q /\ BlockAt(q) \in Blocks /\ \A s \in q .. Top : KeyAt(s) = s * BlockSize
      BY DEF Placed
    <3>3. Top' - Newest.capacity < q
      BY <1>2, <1>6, <3>2
    <3> QED
      BY <1>5, <1>6, <3>1, <3>2, <3>3
  <2>2. \A s \in LastBlock + 1 .. Top' : KeyAt(s)' = s * BlockSize
    <3>1. \A s \in LastBlock + 1 .. Top' : s \in LastBlock + 1 .. Top /\ s \in Int
      BY <1>2
    <3> QED
      BY <1>5, <3>1 DEF Placed
  <2>3. \A e \in 1 .. Len(entries') : entries'[e].value # None => \E q \in Live' : e = EntryAt(q)'
    BY <1>4, <1>6 DEF Placed
  <2>4. LastBlock' \in Live' => StartBlock' = BlockAt(LastBlock)'
    <3>1. PICK l \in Int : l = LastBlock
      BY <1>2
    <3>2. BlockAt(l)' = BlockAt(LastBlock)'
      BY <1>1, <3>1 DEF BlockAt, EntryAt
    <3> QED
      BY <1>1, <1>4, <1>5, <3>1, <3>2 DEF Placed
  <2>5. \A q \in Inserted' : BlockAt(q)' = got'[q - LastBlock']
    <3>1. \A q \in Inserted : q \in Int
      BY <1>2 DEF Inserted
    <3> QED
      BY <1>1, <1>5, <3>1 DEF Placed
  <2> QED
    BY <1>1, <1>4, <2>1, <2>2, <2>3, <2>4, <2>5 DEF Placed
<1>9. Counts'
  BY <1>3, <1>4, <1>5, <1>6 DEF Counts
<1>10. Contents'
  <2>1. UNCHANGED Remaining
    BY WaitsFacts
  <2> QED
    BY <1>3, <1>4, <1>5, <1>6, <2>1 DEF Contents
<1>11. \A c \in Consumers : Finds(c)'
  <2>1. \A q \in Live : q <= LastBlock => EntryAt(q)' = EntryAt(q) /\ BlockAt(q)' = BlockAt(q)
    BY <1>5, <1>6
  <2>2. ASSUME NEW c \in Consumers, NEW t \in Int, FromTail(c, t)
        PROVE  /\ EntryAt(t)' = EntryAt(t) /\ entries'[EntryAt(t)].key = t * BlockSize
               /\ \A s \in LastBlock' + 1 .. t : BlockAt(s)' # None => s \in Inserted'
    BY <1>1, <1>2, <1>5, <2>2 DEF FromTail
  <2>3. Newest.capacity <= Newest'.capacity /\ Newest'.capacity \in Nat
    BY <1>2
  <2> QED
    BY <2>1, <2>2, <2>3, WaitsFinds
<1>12. Ranges'
  BY WaitsRanges DEF Ranges
<1> QED
  BY <1>7, <1>8, <1>9, <1>10, <1>11, <1>12

(* Nothing is undone, before and after.                                    *)
LEMMA OwnersStay ==
  ASSUME PlacesOK, Waits, UNCHANGED <<unused, entries>>, Reverted = 0, Reverted' = 0
  PROVE  OneOwner'
<1>1. \A b : HasBlock(b)' = HasBlock(b) /\ UndoneOf(b)' = UndoneOf(b)
  BY DEF HasBlock, UndoneOf
<1>2. \A b : FreedBy(b)' = FreedBy(b)
  BY WaitsFacts
<1> QED
  BY <1>1, <1>2 DEF PlacesOK, OneOwner

LEMMA NeededBlocks ==
  ASSUME TypeOK, NEW n \in Nat \ {0}
  PROVE  /\ BlocksNeeded(n) = BlockNo(tailIndex + n - 1) - LastBlock
         /\ BlocksNeeded(n) \in Nat
<1>1. tailIndex \in Nat
  BY DEF TypeOK
<1>2. tailIndex + n - 1 \in Int /\ tailIndex - 1 \in Int /\ tailIndex - 1 <= tailIndex + n - 1
  BY <1>1
<1>3. BlockNo(tailIndex + n - 1) \in Int /\ LastBlock \in Int /\ LastBlock <= BlockNo(tailIndex + n - 1)
  BY <1>2, BlockNoOf, BlockNoMonotone DEF LastBlock
<1>4. BlocksNeeded(n) = BlockNo(tailIndex + n - 1) - LastBlock
  BY DEF BlocksNeeded, BlockNo, LastBlock
<1> QED
  BY <1>3, <1>4

LEMMA WaitingProducer ==
  ASSUME UNCHANGED <<claimVars, findVars>>
  PROVE  Waits /\ UNCHANGED <<tailIndex, headIndex>> /\ UNCHANGED LastBlock
         /\ UNCHANGED <<index, localBlockIndex, indexIndex, block>>
BY DEF claimVars, Waits, findVars, LastBlock, BlockNo

(* A call that starts has nothing inserted yet.                            *)
LEMMA PlacesBegin ==
  ASSUME IInv, PlacesOK, NEW e \in Enqueues, Begin(e)
  PROVE  PlacesOK'
<1> USE DEF PlacesOK
<1>1. TypeOK
  BY DEF IInv
<1>2. e \in [count : Nat \ {0}, canAlloc : BOOLEAN] /\ e.count \in Nat \ {0} /\ e.canAlloc \in BOOLEAN
  BY EnqueuesAssumption
<1>3. BlocksNeeded(e.count) \in Nat
  BY <1>1, <1>2, NeededBlocks
<1>4. /\ prPc = "idle" /\ got = << >>
      /\ op' = [count |-> e.count, canAlloc |-> e.canAlloc, need |-> BlocksNeeded(e.count),
                currentTailIndex |-> BaseOf(tailIndex - 1), startBlock |-> tailBlock]
      /\ prPc' = IF BlocksNeeded(e.count) = 0 THEN "fill" ELSE "index"
      /\ UNCHANGED <<claimVars, findVars>> /\ UNCHANGED <<blockVars, implicitOnly>>
  BY DEF Begin, Calling
<1>5. /\ Waits /\ UNCHANGED <<tailIndex, headIndex>> /\ UNCHANGED LastBlock
      /\ UNCHANGED <<index, localBlockIndex, indexIndex, block>>
      /\ UNCHANGED <<slots, unused, tailBlock, elementsCompletelyDequeued, entries, indexes, got>>
  BY <1>4, WaitingProducer DEF blockVars, implicitOnly
<1>6. /\ LastBlock \in Int /\ Top \in Int /\ Len(got) = 0
      /\ BaseOf(tailIndex - 1) = LastBlock * BlockSize /\ LastBlock * BlockSize \in Int
  BY <1>1, <1>4, Numbers
<1>7. Reverted = 0 /\ Reverted' = 0 /\ Top = LastBlock /\ Top' = LastBlock /\ TailNo' = TailNo /\ Inserted' = Inserted
  BY <1>4, <1>5, <1>6 DEF Reverted, Top, TailNo, Inserted
<1>8. UNCHANGED Newest /\ Widened /\ \A q : EntryAt(q)' = EntryAt(q)
  BY <1>1, <1>5, <1>7, IndexUnmoved
<1>9. op' \in Op
  BY <1>2, <1>3, <1>4, <1>6 DEF Op, ImplicitTypes
<1>10. ImplicitTypes'
  BY <1>4, <1>5, <1>9 DEF ImplicitTypes
<1>11. Calling'
  <2>1. /\ op'.count = e.count /\ op'.need = BlocksNeeded(e.count)
        /\ op'.startBlock = tailBlock /\ op'.currentTailIndex = Top' * BlockSize
    BY <1>4, <1>5, <1>6, <1>7
  <2>2. BlocksNeeded(op.count)' = BlocksNeeded(e.count)
    BY <1>5, <2>1 DEF BlocksNeeded
  <2>3. op'.need + Len(got') = BlocksNeeded(op.count)'
    BY <1>3, <1>5, <1>6, <2>1, <2>2
  <2> QED
    BY <1>3, <1>4, <1>5, <2>1, <2>3 DEF Calling
<1>12. StartBlock' = StartBlock
  BY <1>4 DEF StartBlock
<1>13. OneOwner'
  BY <1>5, <1>7, OwnersStay
<1> QED
  BY <1>1, <1>5, <1>6, <1>7, <1>8, <1>10, <1>11, <1>12, <1>13, NoEntryChanged

(* A full index that cannot be replaced: the call goes on to undo what it  *)
(* inserted.                                                               *)
LEMMA PlacesNoIndex ==
  ASSUME IInv, PlacesOK, NoIndex
  PROVE  PlacesOK'
<1> USE DEF PlacesOK
<1>1. TypeOK
  BY DEF IInv
<1>2. /\ prPc = "index" /\ prPc' = "undo" /\ op' = [op EXCEPT !.currentTailIndex = BaseOf(tailIndex - 1)]
      /\ UNCHANGED <<claimVars, findVars>> /\ UNCHANGED <<blockVars, implicitOnly>>
  BY DEF NoIndex
<1>3. /\ Waits /\ UNCHANGED <<tailIndex, headIndex>> /\ UNCHANGED LastBlock
      /\ UNCHANGED <<index, localBlockIndex, indexIndex, block>>
      /\ UNCHANGED <<slots, unused, tailBlock, elementsCompletelyDequeued, entries, indexes, got>>
  BY <1>2, WaitingProducer DEF blockVars, implicitOnly
<1>4. /\ LastBlock \in Int /\ Top \in Int /\ Len(got) \in Nat
      /\ BaseOf(tailIndex - 1) = LastBlock * BlockSize /\ LastBlock * BlockSize \in Int
  BY <1>1, Numbers
<1>5. /\ op \in Op /\ op' \in Op /\ op'.currentTailIndex = LastBlock * BlockSize
      /\ op'.startBlock = op.startBlock
  BY <1>2, <1>4 DEF Op, ImplicitTypes
<1>6. Reverted = 0 /\ Reverted' = 0
  <2>1. Reverted' = (LastBlock * BlockSize - LastBlock * BlockSize) \div BlockSize
    BY <1>2, <1>3, <1>5 DEF Reverted
  <2>2. LastBlock * BlockSize - LastBlock * BlockSize = BlockSize * 0 + 0
    BY <1>4, BlockSizeType
  <2>3. 0 \div BlockSize = 0
    <3>1. BlockSize \in Nat \ {0} /\ 0 \in 0 .. BlockSize - 1 /\ 0 = BlockSize * 0 + 0
      BY BlockSizeType
    <3> QED
      BY <3>1, Quotient
  <2> QED
    BY <1>2, <1>4, <2>1, <2>3 DEF Reverted
<1>7. Top' = Top /\ TailNo' = TailNo /\ Inserted' = Inserted
  BY <1>2, <1>3, <1>4, <1>6 DEF Top, TailNo, Inserted
<1>8. UNCHANGED Newest /\ Widened /\ \A q : EntryAt(q)' = EntryAt(q)
  BY <1>1, <1>3, <1>7, IndexUnmoved
<1>9. ImplicitTypes'
  BY <1>2, <1>3, <1>5 DEF ImplicitTypes
<1>10. Calling'
  <2>1. op'.currentTailIndex = (LastBlock' + Reverted') * BlockSize /\ Reverted' \in 0 .. Len(got')
    BY <1>3, <1>4, <1>5, <1>6
  <2> QED
    BY <1>2, <2>1 DEF Calling
<1>11. StartBlock' = StartBlock
  BY <1>2, <1>5 DEF StartBlock
<1>12. OneOwner'
  BY <1>3, <1>6, OwnersStay
<1> QED
  BY <1>1, <1>3, <1>4, <1>6, <1>7, <1>8, <1>9, <1>10, <1>11, <1>12, NoEntryChanged

(* A call that gets no block takes the last entry back and goes on to undo *)
(* the others.                                                             *)
LEMMA PlacesNoBlock ==
  ASSUME IInv, PlacesOK, NoBlock
  PROVE  PlacesOK'
<1> USE DEF PlacesOK
<1>1. TypeOK
  BY DEF IInv
<1>2. /\ prPc = "block" /\ prPc' = "undo" /\ op' = [op EXCEPT !.currentTailIndex = BaseOf(tailIndex - 1)]
      /\ indexes' = [indexes EXCEPT ![current].tail = (Newest.tail - 1) % Newest.capacity]
      /\ entries' = [entries EXCEPT ![Newest.index[Newest.tail]].value = None]
      /\ UNCHANGED <<claimVars, findVars>> /\ UNCHANGED <<blockVars, elementsCompletelyDequeued, got>>
  BY DEF NoBlock, Rewind, Newest
<1>3. /\ Waits /\ UNCHANGED <<tailIndex, headIndex>> /\ UNCHANGED LastBlock
      /\ UNCHANGED <<index, localBlockIndex, indexIndex, block>>
      /\ UNCHANGED <<slots, unused, tailBlock, elementsCompletelyDequeued, got>>
  BY <1>2, WaitingProducer DEF blockVars
<1>4. /\ LastBlock \in Int /\ Top \in Int /\ Len(got) \in Nat /\ Top = LastBlock + Len(got) + 1
      /\ BaseOf(tailIndex - 1) = LastBlock * BlockSize /\ LastBlock * BlockSize \in Int
      /\ Reverted = 0 /\ TailNo = Top
  BY <1>1, <1>2, Numbers DEF Top, TailNo
<1>5. /\ op \in Op /\ op' \in Op /\ op'.currentTailIndex = LastBlock * BlockSize
      /\ op'.startBlock = op.startBlock
  BY <1>2, <1>4 DEF Op, ImplicitTypes
<1>6. Reverted' = 0
  <2>1. Reverted' = (LastBlock * BlockSize - LastBlock * BlockSize) \div BlockSize
    BY <1>2, <1>3, <1>5 DEF Reverted
  <2>2. LastBlock * BlockSize - LastBlock * BlockSize = BlockSize * 0 + 0
    BY <1>4, BlockSizeType
  <2>3. 0 \div BlockSize = 0
    <3>1. BlockSize \in Nat \ {0} /\ 0 \in 0 .. BlockSize - 1 /\ 0 = BlockSize * 0 + 0
      BY BlockSizeType
    <3> QED
      BY <3>1, Quotient
  <2> QED
    BY <1>4, <2>1, <2>2, <2>3
<1>7. Top' = Top - 1 /\ TailNo' = TailNo - 1 /\ Inserted' = Inserted
  BY <1>2, <1>3, <1>4, <1>6 DEF Top, TailNo, Inserted
<1>8. /\ indexes' \in Seq(Headers) /\ Len(indexes') = Len(indexes) /\ Widened
      /\ Newest'.capacity = Newest.capacity /\ Newest'.index = Newest.index
      /\ Newest'.tail = (Newest.tail - 1) % Newest.capacity
  <2>1. (Newest.tail - 1) % Newest.capacity \in 0 .. Newest.capacity - 1
    <3> DEFINE a == Newest.tail - 1
               n == Newest.capacity
    <3>1. a \in Int /\ n \in Nat \ {0}
      BY NewestFacts
    <3> HIDE DEF a, n
    <3>2. a % n \in 0 .. n - 1
      BY <3>1, DivModInt
    <3> QED
      BY <3>2 DEF a, n
  <2> QED
    BY <1>2, <2>1, TailMoves
<1>9. \A q \in Int : EntryAt(q)' = EntryAt(q)
  <2>1. /\ -1 \in Int /\ TailNo' = TailNo + (-1)
        /\ Newest'.tail = (Newest.tail + (-1)) % Newest.capacity
    <3>1. Newest.tail - 1 = Newest.tail + (-1)
      BY NewestFacts
    <3> QED
      BY <1>4, <1>7, <1>8, <3>1
  <2> QED
    BY <1>1, <1>8, <2>1, EntriesStay
(* The entry had no block yet.                                             *)
<1>10. entries' = entries
  <2>1. Newest.index[Newest.tail] = EntryAt(Top) /\ EntryAt(Top) \in 1 .. Len(entries) /\ entries[EntryAt(Top)] \in Entry
    BY <1>1, <1>4, EntryOfTail, EntryPlace
  <2>2. entries[EntryAt(Top)].value = None
    <3>1. ASSUME NEW q \in Live, EntryAt(Top) = EntryAt(q) PROVE FALSE
      <4>1. q \in Int /\ q <= LastBlock + Len(got) /\ Top - Newest.capacity < q /\ Newest.capacity \in Nat
        BY <1>1, LiveRange, NewestFacts DEF Placed
      <4>2. q < Top /\ Top - q < Newest.capacity
        BY <1>4, <4>1
      <4> QED
        BY <1>1, <1>4, <3>1, <4>1, <4>2, EntriesDiffer
    <3> QED
      BY <2>1, <3>1 DEF Placed
  <2>3. [entries[EntryAt(Top)] EXCEPT !.value = None] = entries[EntryAt(Top)]
    BY <2>1, <2>2 DEF Entry
  <2>4. entries' = [entries EXCEPT ![EntryAt(Top)] = [entries[EntryAt(Top)] EXCEPT !.value = None]]
    BY <1>2, <2>1
  <2> QED
    BY <2>1, <2>3, <2>4 DEF ImplicitTypes
<1>11. ImplicitTypes'
  BY <1>2, <1>3, <1>5, <1>8, <1>10 DEF ImplicitTypes
<1>12. Calling'
  <2>1. op'.currentTailIndex = (LastBlock' + Reverted') * BlockSize /\ Reverted' \in 0 .. Len(got')
    BY <1>3, <1>4, <1>5, <1>6
  <2> QED
    BY <1>2, <2>1 DEF Calling
<1>13. StartBlock' = StartBlock
  BY <1>2, <1>5 DEF StartBlock
<1>14. OneOwner'
  BY <1>3, <1>4, <1>6, <1>10, OwnersStay
<1> QED
  BY <1>1, <1>3, <1>4, <1>7, <1>8, <1>9, <1>10, <1>11, <1>12, <1>13, <1>14, NoEntryChanged

(* The blocks of a call that failed go back to the list.                   *)
LEMMA PlacesFail ==
  ASSUME IInv, PlacesOK, Fail
  PROVE  PlacesOK'
<1> USE DEF PlacesOK
<1>1. TypeOK
  BY DEF IInv
<1>2. /\ prPc = "undo" /\ prPc' = "idle"
      /\ op.currentTailIndex = BaseOf(tailIndex - 1) + BlockSize * Len(got)
      /\ unused' = unused \cup Range(got) /\ got' = << >> /\ tailBlock' = op.startBlock
      /\ UNCHANGED <<claimVars, findVars>> /\ UNCHANGED <<slots, elementsCompletelyDequeued, entries, indexes>>
  BY DEF Fail
<1>3. /\ Waits /\ UNCHANGED <<tailIndex, headIndex>> /\ UNCHANGED LastBlock
      /\ UNCHANGED <<index, localBlockIndex, indexIndex, block>>
  BY <1>2, WaitingProducer
<1>4. /\ LastBlock \in Int /\ Top \in Int /\ Len(got) \in Nat /\ Top = LastBlock + Len(got)
      /\ BaseOf(tailIndex - 1) = LastBlock * BlockSize /\ LastBlock * BlockSize \in Int
      /\ Reverted \in Nat /\ Reverted <= Len(got)
  BY <1>1, <1>2, Numbers DEF Top
<1>5. Reverted = Len(got) /\ Reverted' = 0 /\ Len(got') = 0
  <2>1. LastBlock * BlockSize + BlockSize * Len(got) = (LastBlock + Reverted) * BlockSize
    BY <1>2, <1>4 DEF Calling
  <2>2. BlockSize * Len(got) = BlockSize * Reverted
    BY <1>4, <2>1, BlockSizeType
  <2>3. Reverted < Len(got) => BlockSize * Reverted + BlockSize <= BlockSize * Len(got)
    BY <1>4, BlockSizeType, Laps
  <2>4. BlockSize * Reverted \in Int
    BY <1>4, BlockSizeType
  <2> QED
    BY <1>2, <1>4, <2>2, <2>3, <2>4, BlockSizeType DEF Reverted
<1>6. Top' = LastBlock /\ TailNo = LastBlock /\ TailNo' = LastBlock /\ Inserted = {} /\ Inserted' = {}
  BY <1>2, <1>3, <1>4, <1>5 DEF Top, TailNo, Inserted
<1>7. UNCHANGED Newest /\ Widened /\ \A q : EntryAt(q)' = EntryAt(q)
  BY <1>1, <1>2, <1>6, IndexUnmoved
<1>8. op.startBlock \in Blocks \cup {None} /\ Range(got) \subseteq Blocks
      /\ Range(got) = {got[k] : k \in 1 .. Len(got)}
  BY <1>2 DEF ImplicitTypes, Op, Range
<1>9. ImplicitTypes'
  BY <1>2, <1>3, <1>8 DEF ImplicitTypes
<1>10. Calling'
  BY <1>2 DEF Calling
<1>11. StartBlock' = StartBlock
  BY <1>2 DEF StartBlock
<1>12. OneOwner'
  <2>1. \A b : HasBlock(b)' = HasBlock(b) /\ FreedBy(b)' = FreedBy(b)
    BY <1>2, <1>3, WaitsFacts DEF HasBlock
  <2>2. \A b : UndoneOf(b)' = {}
    BY <1>5 DEF UndoneOf
  <2>3. \A b : UndoneOf(b) # {} <=> b \in Range(got)
    BY <1>4, <1>5, <1>8 DEF UndoneOf
  <2>4. ASSUME NEW b \in Blocks PROVE b \in unused' <=> HasBlock(b)' = {} /\ FreedBy(b)' = {} /\ UndoneOf(b)' = {}
    <3>1. b \in unused' <=> b \in unused \/ UndoneOf(b) # {}
      BY <1>2, <2>3
    <3>2. UndoneOf(b) # {} => HasBlock(b) = {} /\ FreedBy(b) = {}
      BY DEF OneOwner
    <3>3. b \in unused <=> HasBlock(b) = {} /\ FreedBy(b) = {} /\ UndoneOf(b) = {}
      BY DEF OneOwner
    <3> QED
      BY <2>1, <2>2, <3>1, <3>2, <3>3
  <2> QED
    BY <2>1, <2>2, <2>4 DEF OneOwner
<1> QED
  BY <1>1, <1>2, <1>3, <1>4, <1>6, <1>7, <1>9, <1>10, <1>11, <1>12, NoEntryChanged

-----------------------------------------------------------------------------
(* Inserting an entry.                                                     *)

(* A step of the producer after which the same entries have the same       *)
(* blocks.                                                                 *)
LEMMA ValuesStay ==
  ASSUME TypeOK, PlacesOK, Waits, UNCHANGED <<tailIndex, slots, elementsCompletelyDequeued, unused, got>>,
         Widened, Newest.capacity <= Newest'.capacity, Newest'.capacity \in Nat,
         Inserted' = Inserted, StartBlock' = StartBlock, Reverted = 0, Reverted' = 0,
         \A q \in Live : EntryAt(q)' = EntryAt(q) /\ Top' - Newest'.capacity < q,
         \A q \in Live : \A s \in q .. Top' : KeyAt(s)' = s * BlockSize,
         \A s \in LastBlock + 1 .. Top' : KeyAt(s)' = s * BlockSize,
         Len(entries) <= Len(entries'),
         \A e \in 1 .. Len(entries) : entries'[e].value = entries[e].value,
         \A e \in 1 .. Len(entries') : e \notin 1 .. Len(entries) => entries'[e].value = None,
         \A c \in Consumers, t \in Int : pc[c] = "key" /\ FromTail(c, t) =>
           /\ EntryAt(t)' = EntryAt(t) /\ entries'[EntryAt(t)].key = t * BlockSize
           /\ \A s \in LastBlock + 1 .. t : BlockAt(s)' # None => s \in Inserted,
         ImplicitTypes', Calling', WholeIndex'
  PROVE  PlacesOK'
<1> USE DEF PlacesOK
<1>1. UNCHANGED LastBlock
  BY DEF LastBlock, BlockNo
<1>2. LastBlock \in Int /\ Len(entries) \in Nat /\ Len(entries') \in Nat /\ \A q \in Live : q \in Int
  BY Numbers, LiveRange DEF ImplicitTypes
<1>3. \A q : Taken(q)' = Taken(q) /\ (Gone(q)' <=> Gone(q)) /\ ItemsOf(q)' = ItemsOf(q)
  BY WaitsFacts
<1>4. Live' = Live
  BY <1>1, <1>3 DEF Live
<1>5. \A e \in 1 .. Len(entries) : e \in 1 .. Len(entries')
  BY <1>2
<1>6. \A q \in Live : EntryAt(q) \in 1 .. Len(entries)
  BY <1>2, EntryPlace
<1>7. \A q \in Live : BlockAt(q)' = BlockAt(q)
  BY <1>6 DEF BlockAt
<1>8. Placed'
  <2>1. \A q \in Live' : /\ Top' - Newest'.capacity < q /\ BlockAt(q)' \in Blocks
                         /\ \A s \in q .. Top' : KeyAt(s)' = s * BlockSize
    BY <1>4, <1>7 DEF Placed
  <2>2. \A s \in LastBlock' + 1 .. Top' : KeyAt(s)' = s * BlockSize
    BY <1>1
  <2>3. ASSUME NEW e \in 1 .. Len(entries'), entries'[e].value # None
        PROVE  \E q \in Live' : e = EntryAt(q)'
    <3>1. e \in 1 .. Len(entries) /\ entries[e].value # None
      BY <2>3
    <3>2. PICK q \in Live : e = EntryAt(q)
      BY <3>1 DEF Placed
    <3> QED
      BY <1>4, <3>2
  <2>4. LastBlock' \in Live' => StartBlock' = BlockAt(LastBlock)'
    <3>1. PICK l \in Int : l = LastBlock
      BY <1>2
    <3>2. BlockAt(l)' = BlockAt(LastBlock)'
      BY <1>1, <3>1 DEF BlockAt, EntryAt
    <3> QED
      BY <1>1, <1>4, <1>7, <3>1, <3>2 DEF Placed
  <2>5. \A q \in Inserted' : BlockAt(q)' = got'[q - LastBlock']
    <3>1. Inserted \subseteq Live
      BY DEF Live
    <3> QED
      BY <1>1, <1>7, <3>1 DEF Placed
  <2> QED
    BY <2>1, <2>2, <2>3, <2>4, <2>5 DEF Placed
<1>9. Counts'
  BY <1>3, <1>4, <1>7 DEF Counts
<1>10. Contents'
  <2>1. UNCHANGED Remaining
    BY WaitsFacts
  <2>2. ASSUME NEW b \in Blocks, \A e \in 1 .. Len(entries') : entries'[e].value # b
        PROVE  \A e \in 1 .. Len(entries) : entries[e].value # b
    BY <1>5, <2>2
  <2> QED
    BY <1>3, <1>4, <1>7, <2>1, <2>2 DEF Contents
<1>11. \A c \in Consumers : Finds(c)'
  <2>1. \A q \in Live : q <= LastBlock => EntryAt(q)' = EntryAt(q) /\ BlockAt(q)' = BlockAt(q)
    BY <1>7
  <2>2. \A c \in Consumers, t \in Int : pc[c] = "key" /\ FromTail(c, t) =>
           /\ EntryAt(t)' = EntryAt(t) /\ entries'[EntryAt(t)].key = t * BlockSize
           /\ \A s \in LastBlock' + 1 .. t : BlockAt(s)' # None => s \in Inserted'
    BY <1>1
  <2> QED
    BY <2>1, <2>2, WaitsFinds
<1>12. Ranges'
  BY WaitsRanges DEF Ranges
<1>13. OneOwner'
  <2>1. ASSUME NEW b \in Blocks PROVE HasBlock(b)' = HasBlock(b)
    <3>1. b # None
      BY BlocksAssumption
    <3> QED
      BY <1>5, <3>1 DEF HasBlock
  <2>2. \A b : UndoneOf(b)' = UndoneOf(b)
    BY DEF UndoneOf
  <2>3. \A b : FreedBy(b)' = FreedBy(b)
    BY WaitsFacts
  <2> QED
    BY <2>1, <2>2, <2>3 DEF OneOwner
<1> QED
  BY <1>8, <1>9, <1>10, <1>11, <1>12, <1>13

(* The producer uses the entry after the tail again: it is that of no live *)
(* block.                                                                  *)
LEMMA PlacesInsertEntry ==
  ASSUME IInv, PlacesOK, InsertEntry
  PROVE  PlacesOK'
<1> USE DEF PlacesOK
<1> DEFINE n == Newest.capacity
           here == EntryAt(Top + 1)
<1>1. TypeOK
  BY DEF IInv
<1>2. /\ prPc = "index" /\ prPc' = "block" /\ NextIsFree
      /\ entries' = [entries EXCEPT ![NextEntry].key = op.currentTailIndex + BlockSize]
      /\ indexes' = [indexes EXCEPT ![current].tail = NextTail]
      /\ op' = [op EXCEPT !.currentTailIndex = @ + BlockSize]
      /\ UNCHANGED <<claimVars, findVars>> /\ UNCHANGED <<blockVars, elementsCompletelyDequeued, got>>
  BY DEF InsertEntry
<1>3. /\ Waits /\ UNCHANGED <<tailIndex, headIndex>> /\ UNCHANGED LastBlock
      /\ UNCHANGED <<index, localBlockIndex, indexIndex, block>>
      /\ UNCHANGED <<slots, unused, tailBlock, elementsCompletelyDequeued, got>>
  BY <1>2, WaitingProducer DEF blockVars
<1>4. /\ LastBlock \in Int /\ Top \in Int /\ Len(got) \in Nat /\ Top = LastBlock + Len(got)
      /\ Reverted = 0 /\ TailNo = Top /\ Top + 1 \in Int
      /\ n \in Nat \ {0} /\ Newest.tail \in 0 .. n - 1
  BY <1>1, <1>2, Numbers, NewestFacts DEF Top, TailNo
<1>5. Reverted' = 0 /\ Top' = Top + 1 /\ TailNo' = TailNo + 1 /\ Inserted' = Inserted
  BY <1>2, <1>3, <1>4 DEF Reverted, Top, TailNo, Inserted
<1>6. /\ op \in Op /\ op.currentTailIndex = Top * BlockSize /\ op.need > 0
      /\ op.currentTailIndex + BlockSize = (Top + 1) * BlockSize /\ (Top + 1) * BlockSize \in Int
      /\ op' \in Op /\ op'.currentTailIndex = (Top + 1) * BlockSize
      /\ op'.count = op.count /\ op'.need = op.need /\ op'.startBlock = op.startBlock
  <2>1. op \in Op /\ op.currentTailIndex = Top * BlockSize /\ op.need > 0
    BY <1>2 DEF ImplicitTypes, Calling
  <2>2. Top * BlockSize + BlockSize = (Top + 1) * BlockSize /\ (Top + 1) * BlockSize \in Int
    BY <1>4, ItemsOfNo, BlockSizeType
  <2> QED
    BY <1>2, <2>1, <2>2 DEF Op
<1>7. NextTail \in 0 .. n - 1 /\ NextEntry = here /\ here \in 1 .. Len(entries) /\ entries[here] \in Entry
  <2>1. NextTail \in 0 .. n - 1
    <3> DEFINE a == Newest.tail + 1
    <3>1. a \in Int
      BY <1>4
    <3>2. NextTail = a % n
      BY DEF NextTail
    <3> HIDE DEF a, n
    <3> QED
      BY <1>4, <3>1, <3>2, DivModInt
  <2>2. Newest.tail + ((Top + 1) - TailNo) = Newest.tail + 1
    BY <1>4
  <2>3. NextEntry = here
    BY <2>2 DEF NextEntry, NextTail, EntryAt
  <2> QED
    BY <1>1, <1>4, <2>1, <2>3, EntryPlace
<1>8. /\ indexes' \in Seq(Headers) /\ Len(indexes') = Len(indexes) /\ Widened
      /\ Newest'.capacity = n /\ Newest'.index = Newest.index /\ Newest'.tail = NextTail
  BY <1>2, <1>7, TailMoves
<1>9. \A q \in Int : EntryAt(q)' = EntryAt(q)
  <2>1. 1 \in Int /\ Newest'.tail = (Newest.tail + 1) % Newest.capacity
    BY <1>8 DEF NextTail
  <2> QED
    BY <1>1, <1>5, <1>8, <2>1, EntriesStay
<1> HIDE DEF n
<1>10. /\ Len(entries') = Len(entries) /\ entries' \in Seq(Entry)
       /\ entries'[here].key = (Top + 1) * BlockSize /\ entries'[here].value = entries[here].value
       /\ \A e \in 1 .. Len(entries) : e # here => entries'[e] = entries[e]
  <2>1. entries' = [entries EXCEPT ![here] = [entries[here] EXCEPT !.key = (Top + 1) * BlockSize]]
    BY <1>2, <1>6, <1>7
  <2>2. [entries[here] EXCEPT !.key = (Top + 1) * BlockSize] \in Entry
    BY <1>6, <1>7 DEF Entry
  <2>3. entries \in Seq(Entry)
    BY DEF ImplicitTypes
  <2> HIDE DEF here
  <2> QED
    BY <1>7, <2>1, <2>2, <2>3 DEF Entry
<1>11. \A q \in Int : EntryAt(q) \in 1 .. Len(entries)
  BY <1>1, EntryPlace
<1>12. \A q \in Int : BlockAt(q)' = BlockAt(q)
  <2> HIDE DEF here
  <2> QED
    BY <1>9, <1>10, <1>11 DEF BlockAt
(* No live block has the entry that is used again.                         *)
<1>13. \A q \in Live : q \in Int /\ 0 <= q /\ q <= Top /\ Top + 1 - n < q
  <2>1. ASSUME NEW q \in Live, Top + 1 - n = q PROVE FALSE
    <3>1. q \in Int /\ 0 <= q /\ q <= Top /\ BlockAt(q) \in Blocks /\ KeyAt(q) = q * BlockSize
      <4>1. q \in Int /\ 0 <= q /\ q <= Top
        BY <1>1, LiveRange
      <4>2. q \in q .. Top
        BY <1>4, <4>1
      <4> QED
        BY <4>1, <4>2 DEF Placed
    <3>2. EntryAt(q) = here
      <4>1. EntryAt((Top + 1) - Newest.capacity) = EntryAt(Top + 1)
        BY <1>1, <1>4, EntryALapBack
      <4>2. (Top + 1) - Newest.capacity = q
        <5>1. Newest.capacity = n
          BY DEF n
        <5> QED
          BY <1>4, <2>1, <5>1
      <4> QED
        BY <4>1, <4>2
    <3>3. entries[here].key # InvalidBlockBase
      <4>1. q * BlockSize # 1
        <5>1. CASE q = 0
          BY <5>1, BlockSizeType
        <5>2. CASE q > 0
          <6>1. BlockSize * 0 + BlockSize <= BlockSize * q /\ BlockSize * q = q * BlockSize
            BY <3>1, <5>2, BlockSizeType, Laps
          <6> QED
            BY <3>1, <6>1, BlockSizeType
        <5> QED
          BY <3>1, <5>1, <5>2
      <4> QED
        BY <3>1, <3>2, <4>1 DEF KeyAt, InvalidBlockBase
    <3>4. entries[here].value # None
      BY <3>1, <3>2, BlocksAssumption DEF BlockAt
    <3> QED
      BY <1>2, <1>7, <3>3, <3>4 DEF NextIsFree
  <2>2. \A q \in Live : q \in Int /\ 0 <= q /\ q <= Top /\ Top - n < q
    BY <1>1, LiveRange DEF Placed, n
  <2> QED
    BY <1>4, <2>1, <2>2
<1>14. ASSUME NEW s \in Int, Top + 1 - n < s, s <= Top PROVE KeyAt(s)' = KeyAt(s) /\ EntryAt(s) # here
  <2>1. s < Top + 1 /\ (Top + 1) - s < Newest.capacity
    BY <1>4, <1>14 DEF n
  <2>2. EntryAt(s) # here
    BY <1>1, <1>4, <2>1, EntriesDiffer
  <2> HIDE DEF here
  <2> QED
    BY <1>9, <1>10, <1>11, <2>2 DEF KeyAt
<1>15. ASSUME NEW s \in Int, s = Top + 1 PROVE KeyAt(s)' = s * BlockSize
  <2>1. entries'[EntryAt(s)].key = (Top + 1) * BlockSize
    BY <1>10, <1>15
  <2> QED
    BY <1>9, <1>15, <2>1 DEF KeyAt
<1>16. \A q \in Live : \A s \in q .. Top' : KeyAt(s)' = s * BlockSize
  <2>1. ASSUME NEW q \in Live, NEW s \in q .. Top' PROVE KeyAt(s)' = s * BlockSize
    <3>1. q \in Int /\ Top + 1 - n < q /\ s \in Int /\ q <= s /\ s <= Top + 1
      BY <1>4, <1>5, <1>13
    <3>2. CASE s = Top + 1
      BY <1>15, <3>1, <3>2
    <3>3. CASE s # Top + 1
      <4>1. s <= Top /\ s \in q .. Top /\ Top + 1 - n < s
        BY <1>4, <3>1, <3>3 DEF n
      <4>2. KeyAt(s) = s * BlockSize
        BY <4>1 DEF Placed
      <4> QED
        BY <1>14, <3>1, <4>1, <4>2
    <3> QED
      BY <3>2, <3>3
  <2> QED
    BY <2>1
<1>17. \A s \in LastBlock + 1 .. Top' : KeyAt(s)' = s * BlockSize
  <2>1. ASSUME NEW s \in LastBlock + 1 .. Top' PROVE KeyAt(s)' = s * BlockSize
    <3>1. s \in Int /\ LastBlock + 1 <= s /\ s <= Top + 1
      BY <1>4, <1>5
    <3>2. CASE s = Top + 1
      BY <1>15, <3>1, <3>2
    <3>3. CASE s # Top + 1
      <4>1. s <= Top /\ s \in LastBlock + 1 .. Top
        BY <1>4, <3>1, <3>3
      <4>2. s \in Inserted
        BY <1>4, <4>1 DEF Inserted
      <4>3. Top + 1 - n < s
        BY <1>13, <4>2 DEF Live
      <4> QED
        BY <1>14, <3>1, <4>1, <4>3 DEF Placed
    <3> QED
      BY <3>2, <3>3
  <2> QED
    BY <2>1
<1>18. ASSUME NEW c \in Consumers, NEW t \in Int, pc[c] = "key", FromTail(c, t)
       PROVE  /\ EntryAt(t)' = EntryAt(t) /\ entries'[EntryAt(t)].key = t * BlockSize
              /\ \A s \in LastBlock + 1 .. t : BlockAt(s)' # None => s \in Inserted
  <2>1. PICK q : q = BlockNo(index[c])
    OBVIOUS
  <2>2. q \in Live /\ q \in Int /\ q <= BlockNo(last[c] - 1) /\ BlockNo(last[c] - 1) \in Int
    <3>1. pc[c] \in Dequeuing /\ pc[c] # "free"
      BY <1>18 DEF Dequeuing
    <3>2. q \in Int /\ q <= BlockNo(last[c] - 1) /\ BlockNo(last[c] - 1) \in Int
      BY <1>1, <2>1, <3>1, ClaimOf
    <3> QED
      BY <1>1, <2>1, <3>1, <3>2, LiveAhead
  <2>3. BlockNo(last[c] - 1) <= t /\ t < q + n /\ entries[EntryAt(t)].key = t * BlockSize
    BY <1>18, <2>1 DEF FromTail, n
  <2>4. Top + 1 - n < t /\ t < Top + 1 + n
    BY <1>4, <1>13, <2>2, <2>3
  <2>5. entries'[EntryAt(t)].key = t * BlockSize
    <3>1. CASE t = Top + 1
      BY <1>10, <3>1
    <3>2. CASE t # Top + 1
      <4>1. EntryAt(t) # here
        <5>1. CASE t < Top + 1
          <6>1. t <= Top
            BY <1>4, <5>1
          <6> QED
            BY <1>14, <2>4, <6>1
        <5>2. CASE Top + 1 < t
          <6>1. t - (Top + 1) < Newest.capacity
            BY <1>4, <2>4 DEF n
          <6> QED
            BY <1>1, <1>4, <5>2, <6>1, EntriesDiffer
        <5> QED
          BY <1>4, <3>2, <5>1, <5>2
      <4> HIDE DEF here
      <4> QED
        BY <1>10, <1>11, <2>3, <4>1
    <3> QED
      BY <3>1, <3>2
  <2>6. \A s \in LastBlock + 1 .. t : BlockAt(s)' # None => s \in Inserted
    BY <1>4, <1>12, <1>18 DEF FromTail
  <2> QED
    BY <1>9, <2>5, <2>6
<1>19. ImplicitTypes'
  BY <1>2, <1>3, <1>6, <1>8, <1>10 DEF ImplicitTypes
<1>20. Calling'
  <2>1. BlocksNeeded(op.count)' = BlocksNeeded(op.count)
    BY <1>3, <1>6 DEF BlocksNeeded
  <2>2. op'.currentTailIndex = Top' * BlockSize
    BY <1>5, <1>6
  <2> QED
    BY <1>2, <1>3, <1>6, <2>1, <2>2 DEF Calling
<1>21. WholeIndex'
  <2>1. ASSUME NEW i \in 1 .. Len(indexes')
        PROVE  indexes'[i].index = indexes[i].index /\ indexes'[i].capacity = indexes[i].capacity
    BY <1>8, <2>1 DEF Widened
  <2>2. /\ Newest'.index = Newest.index /\ Newest'.capacity = Newest.capacity
        /\ Len(indexes') = Len(indexes) /\ Len(entries') = Len(entries)
    BY <1>8, <1>10 DEF n
  <2> QED
    BY <2>1, <2>2 DEF WholeIndex
<1>22. StartBlock' = StartBlock
  BY <1>2, <1>6 DEF StartBlock
<1>23. /\ Newest.capacity <= Newest'.capacity /\ Newest'.capacity \in Nat
       /\ \A q \in Live : EntryAt(q)' = EntryAt(q) /\ Top' - Newest'.capacity < q
  <2>1. n \in Nat /\ Newest.capacity = n /\ Newest'.capacity = n /\ n <= n
    BY <1>4, <1>8 DEF n
  <2>2. ASSUME NEW q \in Live PROVE EntryAt(q)' = EntryAt(q) /\ Top' - n < q
    BY <1>4, <1>5, <1>9, <1>13
  <2> QED
    BY <2>1, <2>2
<1>24. /\ Len(entries) <= Len(entries')
       /\ \A e \in 1 .. Len(entries) : entries'[e].value = entries[e].value
       /\ \A e \in 1 .. Len(entries') : e \in 1 .. Len(entries)
  <2> HIDE DEF here
  <2>1. Len(entries) \in Nat
    BY DEF ImplicitTypes
  <2> QED
    BY <1>10, <2>1
<1> QED
  BY <1>1, <1>3, <1>4, <1>5, <1>8, <1>16, <1>17, <1>18, <1>19, <1>20, <1>21, <1>22, <1>23, <1>24, ValuesStay

(* The new index has the entries of the old one, in order, and as many new *)
(* ones; the old one keeps leading those who have it to the same entries.  *)
LEMMA PlacesNewBlockIndex ==
  ASSUME IInv, PlacesOK, NewBlockIndex
  PROVE  PlacesOK'
<1> USE DEF PlacesOK
<1> DEFINE n == Newest.capacity
           x == [i \in 0 .. 2 * n - 1 |->
                   IF i < n THEN Newest.index[(Newest.tail + 1 + i) % n] ELSE Len(entries) + 1 + i - n]
<1>1. TypeOK
  BY DEF IInv
<1>2. /\ prPc = "index" /\ ~NextIsFree /\ UNCHANGED <<prPc, op>>
      /\ indexes' = Append(indexes, IndexHeader(2 * n, n - 1, x))
      /\ entries' = entries \o NewEntries(n)
      /\ UNCHANGED <<claimVars, findVars>> /\ UNCHANGED <<blockVars, elementsCompletelyDequeued, got>>
  BY DEF NewBlockIndex
<1>3. /\ Waits /\ UNCHANGED <<tailIndex, headIndex>> /\ UNCHANGED LastBlock
      /\ UNCHANGED <<index, localBlockIndex, indexIndex, block>>
      /\ UNCHANGED <<slots, unused, tailBlock, elementsCompletelyDequeued, got>>
  BY <1>2, WaitingProducer DEF blockVars
<1>4. /\ LastBlock \in Int /\ Top \in Int /\ Len(got) \in Nat /\ Top = LastBlock + Len(got)
      /\ Reverted = 0 /\ TailNo = Top
      /\ n \in Nat \ {0} /\ Newest.tail \in 0 .. n - 1 /\ Newest.index \in [0 .. n - 1 -> Nat]
      /\ Len(entries) = n
  BY <1>1, <1>2, Numbers, NewestFacts DEF Top, TailNo, WholeIndex
<1>5. Reverted' = 0 /\ Top' = Top /\ TailNo' = Top /\ Inserted' = Inserted /\ StartBlock' = StartBlock
  BY <1>2, <1>3, <1>4 DEF Reverted, Top, TailNo, Inserted, StartBlock
<1>6. /\ Len(entries') = 2 * n /\ entries' \in Seq(Entry)
      /\ \A e \in 1 .. Len(entries) : entries'[e] = entries[e]
      /\ \A e \in 1 .. Len(entries') : e \notin 1 .. Len(entries) => entries'[e].value = None
  <2> DEFINE m == n
  <2>1. m \in Nat /\ entries \in Seq(Entry) /\ Len(entries) = m
    BY <1>4 DEF ImplicitTypes
  <2>2. NewEntries(m) = [i \in 1 .. m |-> [key |-> 1, value |-> None]]
    BY DEF NewEntries, InvalidBlockBase
  <2>3. [key |-> 1, value |-> None] \in Entry
    BY DEF Entry
  <2>4. PICK z \in [1 .. m -> Entry] : z = NewEntries(m)
    BY <2>2, <2>3
  <2>5. entries' = entries \o z
    BY <1>2, <2>4
  <2> HIDE DEF m
  <2>6. /\ Len(entries') = m + m /\ entries' \in Seq(Entry)
        /\ \A e \in 1 .. Len(entries) : entries'[e] = entries[e]
        /\ \A e \in 1 .. Len(entries') : e \notin 1 .. Len(entries) =>
             e - m \in 1 .. m /\ entries'[e] = z[e - m]
    <3>1. PICK a \in Seq(Entry) : a = entries
      BY <2>1
    <3>2. PICK k \in Nat : k = m /\ z \in [1 .. k -> Entry]
      BY <2>1, <2>4
    <3>3. /\ a \o z \in Seq(Entry) /\ Len(a \o z) = Len(a) + k
          /\ \A e \in 1 .. Len(a) : (a \o z)[e] = a[e]
          /\ \A e \in 1 .. Len(a \o z) :
               e \notin 1 .. Len(a) => e - Len(a) \in 1 .. k /\ (a \o z)[e] = z[e - Len(a)]
      BY <3>2, AppendedEntries
    <3>4. entries' = a \o z /\ Len(a) = k /\ entries = a
      BY <2>1, <2>5, <3>1, <3>2
    <3> QED
      BY <3>2, <3>3, <3>4
  <2>7. \A e \in 1 .. m : z[e].value = None
    BY <2>2, <2>4
  <2>8. m + m = 2 * m
    BY <2>1
  <2> QED
    BY <2>6, <2>7, <2>8 DEF m
<1>7. /\ x \in [0 .. 2 * n - 1 -> Nat] /\ 2 * n \in Nat \ {0} /\ n - 1 \in 0 .. 2 * n - 1
      /\ \A i \in 0 .. n - 1 : /\ x[i] = Newest.index[(Newest.tail + 1 + i) % n]
                               /\ (Newest.tail + 1 + i) % n \in 0 .. n - 1 /\ x[i] \in 1 .. n
      /\ \A i \in 0 .. 2 * n - 1 : i \notin 0 .. n - 1 => x[i] = i + 1 /\ x[i] \in n + 1 .. 2 * n
  <2>1. \A p \in 0 .. n - 1 : Newest.index[p] \in 1 .. n
    BY <1>4, NewestFacts DEF WholeIndex, Newest
  <2>2. PICK m \in Nat \ {0} : m = n
    BY <1>4
  <2>3. PICK t \in 0 .. m - 1 : t = Newest.tail
    BY <1>4, <2>2
  <2>4. \A i \in 0 .. m - 1 : (t + 1 + i) % m \in 0 .. m - 1
    BY DivModInt
  <2>5. \A i \in 0 .. 2 * m - 1 : x[i] = IF i < m THEN Newest.index[(t + 1 + i) % m] ELSE m + 1 + i - m
    BY <1>4, <2>2, <2>3
  <2>6. DOMAIN x = 0 .. 2 * m - 1 /\ x = [i \in 0 .. 2 * m - 1 |-> x[i]]
    BY <2>2
  <2> HIDE DEF n, x
  <2>7. \A i \in 0 .. m - 1 : x[i] = Newest.index[(t + 1 + i) % m] /\ x[i] \in 1 .. m /\ x[i] \in Nat
    BY <2>1, <2>2, <2>4, <2>5
  <2>8. \A i \in 0 .. 2 * m - 1 : i \notin 0 .. m - 1 => x[i] = i + 1 /\ x[i] \in m + 1 .. 2 * m /\ x[i] \in Nat
    BY <2>5
  <2>9. x \in [0 .. 2 * m - 1 -> Nat]
    BY <2>6, <2>7, <2>8
  <2>10. /\ x \in [0 .. 2 * n - 1 -> Nat]
         /\ \A i \in 0 .. n - 1 : /\ x[i] = Newest.index[(Newest.tail + 1 + i) % n]
                                  /\ (Newest.tail + 1 + i) % n \in 0 .. n - 1 /\ x[i] \in 1 .. n
    BY <2>2, <2>3, <2>4, <2>7, <2>9
  <2>11. \A i \in 0 .. 2 * n - 1 : i \notin 0 .. n - 1 => x[i] = i + 1 /\ x[i] \in n + 1 .. 2 * n
    BY <2>2, <2>8
  <2>12. 2 * n \in Nat \ {0} /\ n - 1 \in 0 .. 2 * n - 1
    <3>1. 2 * m \in Nat \ {0} /\ m - 1 \in 0 .. 2 * m - 1
      OBVIOUS
    <3> QED
      BY <2>2, <3>1
  <2> QED
    BY <2>10, <2>11, <2>12
<1>8. /\ indexes' \in Seq(Headers) /\ Len(indexes') = Len(indexes) + 1 /\ Widened
      /\ Newest'.capacity = 2 * n /\ Newest'.index = x /\ Newest'.tail = n - 1
      /\ \A i \in 1 .. Len(indexes) : indexes'[i] = indexes[i]
      /\ indexes'[Len(indexes')] = Newest'
  <2> DEFINE h == IndexHeader(2 * n, n - 1, x)
  <2>1. h \in Headers
    <3>1. 2 * n - 1 = (2 * n) - 1
      BY <1>4
    <3> QED
      BY <1>7, <3>1, HeaderMade
  <2>2. indexes \in Seq(Headers) /\ indexes' = Append(indexes, h)
    BY <1>2 DEF ImplicitTypes
  <2>3. h.capacity = 2 * n /\ h.index = x /\ h.tail = n - 1
    BY DEF IndexHeader
  <2> HIDE DEF h
  <2>4. /\ indexes' \in Seq(Headers) /\ Len(indexes') = Len(indexes) + 1
        /\ \A i \in 1 .. Len(indexes) : indexes'[i] = indexes[i]
        /\ indexes'[Len(indexes')] = h /\ Len(indexes) \in Nat
    BY <2>1, <2>2
  <2> QED
    BY <2>3, <2>4 DEF Newest, current, Widened
<1> HIDE DEF n, x
(* The newest entries keep their order.                                    *)
<1>9. \A q \in Int : Top - n < q /\ q <= Top => EntryAt(q)' = EntryAt(q)
  <2>1. ASSUME NEW q \in Int, Top - n < q, q <= Top PROVE EntryAt(q)' = EntryAt(q)
    <3>1. PICK i \in Int : i = n - 1 + (q - Top)
      <4>1. n - 1 + (q - Top) \in Int
        BY <1>4
      <4> QED
        BY <4>1
    <3>2. i \in 0 .. n - 1 /\ i \in 0 .. 2 * n - 1
      BY <1>4, <2>1, <3>1
    <3>3. i % (2 * n) = i
      <4>1. PICK m \in Nat \ {0} : m = 2 * n
        BY <1>4
      <4>2. i \in 0 .. m - 1 /\ i = m * 0 + i
        BY <3>2, <4>1
      <4> QED
        BY <4>1, <4>2, Quotient
    <3>4. EntryAt(q)' = x[i]
      BY <1>5, <1>8, <3>1, <3>3 DEF EntryAt
    <3>5. x[i] = Newest.index[(Newest.tail + 1 + i) % n]
      BY <1>7, <3>2
    <3>6. Newest.tail + 1 + i = Newest.tail + ((q + n) - TailNo)
      <4>1. Newest.tail \in Int /\ TailNo = Top /\ Top \in Int /\ n \in Int
        BY <1>4
      <4> QED
        BY <3>1, <4>1
    <3>7. x[i] = EntryAt(q + n)
      BY <3>5, <3>6 DEF EntryAt, n
    <3>8. EntryAt(q + n) = EntryAt(q)
      <4>1. q + n \in Int /\ (q + n) - Newest.capacity = q
        <5>1. Newest.capacity = n
          BY DEF n
        <5> QED
          BY <1>4, <5>1
      <4> QED
        BY <1>1, <4>1, EntryALapBack
    <3> QED
      BY <3>4, <3>7, <3>8
  <2> QED
    BY <2>1
<1>10. \A q \in Int : EntryAt(q) \in 1 .. Len(entries)
  BY <1>1, EntryPlace
<1>11. \A s \in Int : Top - n < s /\ s <= Top => KeyAt(s)' = KeyAt(s)
  BY <1>6, <1>9, <1>10 DEF KeyAt
<1>12. \A q \in Live : q \in Int /\ q <= Top /\ Top - n < q
  BY <1>1, LiveRange DEF Placed, n
<1>13. \A q \in Live : \A s \in q .. Top' : KeyAt(s)' = s * BlockSize
  <2>1. ASSUME NEW q \in Live, NEW s \in q .. Top PROVE KeyAt(s)' = s * BlockSize
    <3>1. s \in Int /\ Top - n < s /\ s <= Top
      BY <1>4, <1>12
    <3>2. KeyAt(s) = s * BlockSize
      BY DEF Placed
    <3> QED
      BY <1>11, <3>1, <3>2
  <2> QED
    BY <1>5, <2>1
<1>14. \A s \in LastBlock + 1 .. Top' : KeyAt(s)' = s * BlockSize
  <2>1. ASSUME NEW s \in LastBlock + 1 .. Top PROVE KeyAt(s)' = s * BlockSize
    <3>1. s \in Live
      BY <1>4 DEF Live, Inserted
    <3>2. KeyAt(s) = s * BlockSize
      BY DEF Placed
    <3> QED
      BY <1>11, <1>12, <3>1, <3>2
  <2> QED
    BY <1>5, <2>1
(* The entry after the tail has a block, so nobody starts beyond the tail. *)
<1>15. ASSUME NEW c \in Consumers, NEW t \in Int, pc[c] = "key", FromTail(c, t)
       PROVE  /\ EntryAt(t)' = EntryAt(t) /\ entries'[EntryAt(t)].key = t * BlockSize
              /\ \A s \in LastBlock + 1 .. t : BlockAt(s)' # None => s \in Inserted
  <2>1. PICK q : q = BlockNo(index[c])
    OBVIOUS
  <2>2. q \in Live /\ q \in Int /\ q <= BlockNo(last[c] - 1) /\ BlockNo(last[c] - 1) \in Int
        /\ BlockNo(last[c] - 1) <= LastBlock
    <3>1. pc[c] \in Dequeuing /\ pc[c] # "free"
      BY <1>15 DEF Dequeuing
    <3>2. q \in Int /\ q <= BlockNo(last[c] - 1) /\ BlockNo(last[c] - 1) \in Int
          /\ BlockNo(last[c] - 1) <= LastBlock
      BY <1>1, <2>1, <3>1, ClaimOf
    <3> QED
      BY <1>1, <2>1, <3>1, <3>2, LiveAhead
  <2>3. BlockNo(last[c] - 1) <= t /\ entries[EntryAt(t)].key = t * BlockSize
    BY <1>15, <2>1 DEF FromTail
  <2>4. BlockAt(Top + 1) # None
    <3>1. entries[NextEntry].value # None
      BY <1>2 DEF NextIsFree
    <3>2. Newest.tail + ((Top + 1) - TailNo) = Newest.tail + 1
      BY <1>4
    <3>3. NextEntry = EntryAt(Top + 1)
      BY <3>2 DEF NextEntry, NextTail, EntryAt
    <3> QED
      BY <3>1, <3>3 DEF BlockAt
  <2>5. t <= Top
    <3>1. ASSUME Top < t PROVE FALSE
      <4>1. Top + 1 \in LastBlock + 1 .. t
        BY <1>4, <3>1
      <4>2. Top + 1 \in Inserted
        BY <1>15, <2>4, <4>1 DEF FromTail
      <4> QED
        BY <1>4, <4>2 DEF Inserted
    <3> QED
      BY <1>4, <3>1
  <2>6. Top - n < t
    BY <1>4, <1>12, <2>2, <2>3
  <2>7. \A s \in LastBlock + 1 .. t : s \in Inserted
    BY <1>4, <2>5 DEF Inserted
  <2> QED
    BY <1>6, <1>9, <1>10, <2>3, <2>5, <2>6, <2>7
<1>16. ImplicitTypes'
  <2>1. Len(indexes') > 0
    BY <1>8 DEF ImplicitTypes
  <2> QED
    BY <1>2, <1>3, <1>6, <1>8, <2>1 DEF ImplicitTypes
<1>17. Calling'
  <2>1. BlocksNeeded(op.count)' = BlocksNeeded(op.count)
    BY <1>2, <1>3 DEF BlocksNeeded
  <2>2. op'.currentTailIndex = Top' * BlockSize
    BY <1>2, <1>5 DEF Calling
  <2> QED
    BY <1>2, <1>3, <2>1, <2>2 DEF Calling
<1>18. WholeIndex'
  <2>1. \A i \in 1 .. Len(indexes') : \A p \in 0 .. indexes'[i].capacity - 1 : indexes'[i].index[p] \in 1 .. Len(entries')
    <3>1. ASSUME NEW i \in 1 .. Len(indexes), NEW p \in 0 .. indexes'[i].capacity - 1
          PROVE  indexes'[i].index[p] \in 1 .. Len(entries')
      <4>1. indexes'[i] = indexes[i]
        BY <1>8
      <4>2. indexes[i].index[p] \in 1 .. Len(entries)
        BY <3>1, <4>1 DEF WholeIndex
      <4> QED
        BY <1>4, <1>6, <4>1, <4>2
    <3>2. ASSUME NEW p \in 0 .. 2 * n - 1 PROVE x[p] \in 1 .. Len(entries')
      <4>1. CASE p \in 0 .. n - 1
        <5>1. x[p] \in 1 .. n
          BY <1>7, <4>1
        <5> QED
          BY <1>4, <1>6, <5>1
      <4>2. CASE p \notin 0 .. n - 1
        <5>1. x[p] \in n + 1 .. 2 * n
          BY <1>7, <4>2
        <5> QED
          BY <1>4, <1>6, <5>1
      <4> QED
        BY <4>1, <4>2
    <3>3. \A i \in 1 .. Len(indexes') : i \in 1 .. Len(indexes) \/ i = Len(indexes')
      BY <1>8 DEF ImplicitTypes
    <3> QED
      BY <1>8, <3>1, <3>2, <3>3
  <2>2. ASSUME NEW i \in 0 .. 2 * n - 1, NEW j \in 0 .. 2 * n - 1, i < j PROVE x[i] # x[j]
    <3>1. CASE j \in 0 .. n - 1
      <4>1. PICK m \in Nat \ {0} : m = n
        BY <1>4
      <4> DEFINE a == Newest.tail + 1 + i
                 b == Newest.tail + 1 + j
      <4>2. a \in Int /\ b \in Int /\ a = Newest.tail + 1 + i /\ b = Newest.tail + 1 + j
        BY <1>4
      <4>3. i \in 0 .. n - 1 /\ i \in Int /\ j \in Int /\ a < b /\ b - a < m
        <5>1. i \in Int /\ j \in Int /\ 0 <= i /\ j <= m - 1 /\ i < j
          BY <2>2, <3>1, <4>1
        <5>2. i \in 0 .. m - 1
          BY <5>1
        <5> QED
          BY <1>4, <4>1, <5>1, <5>2
      <4> HIDE DEF a, b
      <4>4. a % m # b % m
        BY <4>1, <4>2, <4>3, DifferentSlotsInt
      <4>5. Newest.index[a % n] # Newest.index[b % n]
        BY <1>7, <3>1, <4>1, <4>2, <4>3, <4>4 DEF WholeIndex, n
      <4> QED
        BY <1>7, <3>1, <4>2, <4>3, <4>5
    <3>2. CASE j \notin 0 .. n - 1
      <4>1. x[j] = j + 1 /\ x[j] \in n + 1 .. 2 * n
        BY <1>7, <3>2
      <4>2. CASE i \in 0 .. n - 1
        <5>1. x[i] \in 1 .. n
          BY <1>7, <4>2
        <5> QED
          BY <1>4, <4>1, <5>1
      <4>3. CASE i \notin 0 .. n - 1
        <5>1. x[i] = i + 1
          BY <1>7, <4>3
        <5> QED
          BY <2>2, <4>1, <5>1
      <4> QED
        BY <4>2, <4>3
    <3> QED
      BY <3>1, <3>2
  <2>3. ASSUME NEW i \in 0 .. 2 * n - 1, NEW j \in 0 .. 2 * n - 1, x[i] = x[j] PROVE i = j
    BY <1>4, <2>2, <2>3
  <2> QED
    BY <1>6, <1>8, <2>1, <2>3 DEF WholeIndex
<1>19. /\ Newest.capacity <= Newest'.capacity /\ Newest'.capacity \in Nat
       /\ \A q \in Live : EntryAt(q)' = EntryAt(q) /\ Top' - Newest'.capacity < q
  <2>1. Newest.capacity = n /\ n <= 2 * n /\ 2 * n \in Nat
    BY <1>4 DEF n
  <2>2. ASSUME NEW q \in Live PROVE EntryAt(q)' = EntryAt(q) /\ Top' - 2 * n < q
    BY <1>4, <1>5, <1>9, <1>12
  <2> QED
    BY <1>8, <2>1, <2>2
<1>20. Len(entries) <= Len(entries')
  BY <1>4, <1>6
<1> QED
  BY <1>1, <1>3, <1>4, <1>5, <1>6, <1>8, <1>13, <1>14, <1>15, <1>16, <1>17, <1>18, <1>19, <1>20, ValuesStay

-----------------------------------------------------------------------------
(* Getting a block.                                                        *)

(* The items that are left were enqueued.                                  *)
LEMMA RemainingRange ==
  ASSUME TypeOK, ImplicitTypes, Ranges, NEW i \in Remaining
  PROVE  i \in Int /\ i < tailIndex
<1>1. headIndex \in Nat /\ tailIndex \in Nat /\ headIndex <= tailIndex
  BY DEF TypeOK, Ranges
<1>2. CASE i \in headIndex .. tailIndex - 1
  BY <1>1, <1>2
<1>3. CASE \E c \in Consumers : i \in NotMoved(c)
  <2>1. i \in Nat /\ i < headIndex
    BY <1>3, PendingFacts
  <2> QED
    BY <1>1, <2>1
<1> QED
  BY <1>2, <1>3 DEF Remaining

(* Nothing of a block beyond the last one counts as dequeued, or is left.  *)
LEMMA BeyondTheItems ==
  ASSUME TypeOK, ImplicitTypes, Ranges, NEW q \in Int, LastBlock < q
  PROVE  Taken(q) = {} /\ \A i \in ItemsOf(q) : i \notin Remaining
<1>1. headIndex \in Nat /\ tailIndex \in Nat /\ headIndex <= tailIndex
  BY DEF TypeOK, Ranges
<1>2. ASSUME NEW i \in ItemsOf(q), i < tailIndex PROVE FALSE
  <2>1. i \in Int /\ BlockNo(i) = q /\ tailIndex - 1 \in Int /\ i <= tailIndex - 1
    BY <1>1, <1>2, ItemsOfNo
  <2>2. q <= LastBlock
    BY <2>1, BlockNoMonotone DEF LastBlock
  <2>3. LastBlock \in Int
    BY <2>1, BlockNoOf DEF LastBlock
  <2> QED
    BY <2>2, <2>3
<1>3. \A i \in ItemsOf(q) : i \in Int /\ ~(i < tailIndex)
  BY <1>2, ItemsOfNo
<1>4. Taken(q) = {}
  BY <1>1, <1>3 DEF Taken
<1> QED
  BY <1>3, <1>4, RemainingRange

(* A block number's entry, once inserted, has no block yet.                *)
LEMMA NoBlockYet ==
  ASSUME TypeOK, PlacesOK, prPc = "block"
  PROVE  /\ Newest.index[Newest.tail] = EntryAt(Top) /\ Top \notin Live
         /\ EntryAt(Top) \in 1 .. Len(entries) /\ entries[EntryAt(Top)] \in Entry
         /\ entries[EntryAt(Top)].value = None
         /\ \A q \in Live : q \in Int /\ q < Top /\ EntryAt(q) # EntryAt(Top)
<1> USE DEF PlacesOK
<1>1. /\ LastBlock \in Int /\ Top \in Int /\ Len(got) \in Nat /\ Top = LastBlock + Len(got) + 1
      /\ Reverted = 0 /\ TailNo = Top
  BY Numbers DEF Top, TailNo
<1>2. Newest.index[Newest.tail] = EntryAt(Top) /\ EntryAt(Top) \in 1 .. Len(entries) /\ entries[EntryAt(Top)] \in Entry
  BY <1>1, EntryOfTail, EntryPlace
<1>3. ASSUME NEW q \in Live PROVE q \in Int /\ q < Top /\ EntryAt(q) # EntryAt(Top)
  <2>1. q \in Int /\ q <= LastBlock + Len(got) /\ Top - Newest.capacity < q /\ Newest.capacity \in Nat
    BY LiveRange, NewestFacts DEF Placed
  <2>2. q < Top /\ Top - q < Newest.capacity
    BY <1>1, <2>1
  <2> QED
    BY <1>1, <2>1, <2>2, EntriesDiffer
<1>4. Top \notin Live
  BY <1>3
<1>5. entries[EntryAt(Top)].value = None
  BY <1>2, <1>3 DEF Placed
<1> QED
  BY <1>2, <1>3, <1>4, <1>5

(* The block the producer gets had no entry, and becomes that of the block *)
(* number inserted last.                                                   *)
LEMMA PlacesGetBlock ==
  ASSUME IInv, PlacesOK, GetBlock
  PROVE  PlacesOK'
<1> USE DEF PlacesOK
<1> DEFINE here == EntryAt(Top)
<1>1. TypeOK
  BY DEF IInv
<1>2. PICK b \in unused :
        /\ elementsCompletelyDequeued' = [elementsCompletelyDequeued EXCEPT ![b] = 0]
        /\ entries' = [entries EXCEPT ![Newest.index[Newest.tail]].value = b]
        /\ unused' = unused \ {b} /\ tailBlock' = b /\ got' = Append(got, b)
  <2>1. Requisition(op.canAlloc) # {} /\ Requisition(op.canAlloc) \subseteq unused
    BY DEF GetBlock, Requisition
  <2>2. (CHOOSE y \in Requisition(op.canAlloc) : TRUE) \in unused
    BY <2>1
  <2> QED
    BY <2>2 DEF GetBlock
<1>3. /\ prPc = "block" /\ prPc' = (IF op.need = 1 THEN "fill" ELSE "index")
      /\ op' = [op EXCEPT !.need = @ - 1]
      /\ UNCHANGED <<claimVars, findVars>> /\ UNCHANGED <<slots, indexes>>
  BY DEF GetBlock
<1>4. /\ Waits /\ UNCHANGED <<tailIndex, headIndex>> /\ UNCHANGED LastBlock
      /\ UNCHANGED <<index, localBlockIndex, indexIndex, block>>
  BY <1>3, WaitingProducer
<1>5. /\ LastBlock \in Int /\ Top \in Int /\ Len(got) \in Nat /\ Top = LastBlock + Len(got) + 1
      /\ Reverted = 0 /\ TailNo = Top /\ got \in Seq(Blocks)
      /\ Newest.capacity \in Nat \ {0}
  <2>1. LastBlock \in Int /\ Top \in Int /\ got \in Seq(Blocks) /\ Newest.capacity \in Nat \ {0}
    BY <1>1, Numbers, NewestFacts DEF ImplicitTypes
  <2>2. Reverted = 0 /\ Top = LastBlock + Len(got) + 1
    BY <1>3 DEF Reverted, Top
  <2> QED
    BY <2>1, <2>2 DEF TailNo
<1>6. b \in Blocks /\ b # None
  BY BlocksAssumption DEF ImplicitTypes
<1>7. got' \in Seq(Blocks) /\ Len(got') = Len(got) + 1 /\ got'[Len(got) + 1] = b
      /\ \A k \in 1 .. Len(got) : got'[k] = got[k]
  BY <1>2, <1>5, <1>6
<1>8. Reverted' = 0 /\ Top' = Top /\ TailNo' = TailNo /\ UNCHANGED Newest
  BY <1>3, <1>4, <1>5, <1>7 DEF Reverted, Top, TailNo, Newest, current
<1>9. Inserted' = Inserted \cup {Top} /\ Top \notin Inserted
  <2>1. \A s \in Int : s \in LastBlock + 1 .. Top <=> s \in LastBlock + 1 .. Top - 1 \/ s = Top
    BY <1>5
  <2>2. Inserted' = LastBlock + 1 .. Top /\ Inserted = LastBlock + 1 .. Top - 1
    BY <1>4, <1>5, <1>7, <1>8 DEF Inserted
  <2> QED
    BY <1>5, <2>1, <2>2
<1>10. \A q : Taken(q)' = Taken(q) /\ (Gone(q)' <=> Gone(q)) /\ ItemsOf(q)' = ItemsOf(q)
  BY <1>4, WaitsFacts
<1>11. Live' = Live \cup {Top}
  BY <1>4, <1>9, <1>10 DEF Live
<1>12. /\ Newest.index[Newest.tail] = here /\ Top \notin Live
       /\ here \in 1 .. Len(entries) /\ entries[here] \in Entry /\ entries[here].value = None
       /\ \A q \in Live : q \in Int /\ q < Top /\ EntryAt(q) # here
  BY <1>1, <1>3, NoBlockYet
<1>13. \A q : EntryAt(q)' = EntryAt(q)
  BY <1>8 DEF EntryAt
<1>14. \A q \in Int : EntryAt(q) \in 1 .. Len(entries)
  BY <1>1, EntryPlace
<1> HIDE DEF here
<1>15. /\ Len(entries') = Len(entries) /\ entries' \in Seq(Entry)
       /\ entries'[here].value = b
       /\ \A e \in 1 .. Len(entries) : entries'[e].key = entries[e].key
       /\ \A e \in 1 .. Len(entries) : e # here => entries'[e] = entries[e]
  <2>1. entries' = [entries EXCEPT ![here] = [entries[here] EXCEPT !.value = b]]
    BY <1>2, <1>12
  <2>2. [entries[here] EXCEPT !.value = b] \in Entry
    BY <1>6, <1>12 DEF Entry
  <2>3. entries \in Seq(Entry)
    BY DEF ImplicitTypes
  <2> QED
    BY <1>12, <2>1, <2>2, <2>3 DEF Entry
<1>16. \A q \in Int : KeyAt(q)' = KeyAt(q)
  BY <1>13, <1>14, <1>15 DEF KeyAt
<1>17. \A q \in Int : EntryAt(q) # here => BlockAt(q)' = BlockAt(q)
  BY <1>13, <1>14, <1>15 DEF BlockAt
<1>18. \A q \in Live : BlockAt(q)' = BlockAt(q)
  BY <1>12, <1>17
<1>19. ASSUME NEW q, q = Top PROVE BlockAt(q)' = b
  BY <1>13, <1>15, <1>19 DEF BlockAt, here
<1>20. \A e \in 1 .. Len(entries) : entries[e].value # b
  BY <1>2, <1>6 DEF OneOwner, HasBlock
<1>21. \A q \in Live : BlockAt(q) # b /\ BlockAt(q) \in Blocks
  BY <1>12, <1>14, <1>20 DEF BlockAt, Placed
<1>22. ImplicitTypes'
  <2>1. op' \in Op
    <3>1. op \in Op /\ op.need \in Nat /\ op.need > 0
      BY <1>3 DEF ImplicitTypes, Calling, Op
    <3>2. op.need - 1 \in Nat
      BY <3>1
    <3> QED
      BY <1>3, <3>1, <3>2 DEF Op
  <2>2. elementsCompletelyDequeued' \in [Blocks -> Nat]
    BY <1>2, <1>6 DEF ImplicitTypes
  <2> QED
    BY <1>2, <1>3, <1>4, <1>6, <1>7, <1>15, <2>1, <2>2 DEF ImplicitTypes
<1>23. Calling'
  <2>1. op \in Op /\ op.need > 0 /\ op.need + Len(got) = BlocksNeeded(op.count)
        /\ op.currentTailIndex = Top * BlockSize
    BY <1>3 DEF Calling, ImplicitTypes
  <2>2. /\ op'.need = op.need - 1 /\ op'.count = op.count /\ op.need \in Nat
        /\ op'.currentTailIndex = op.currentTailIndex
    BY <1>3, <2>1 DEF Op
  <2>3. BlocksNeeded(op.count)' = BlocksNeeded(op.count)
    BY <1>4, <2>2 DEF BlocksNeeded
  <2>4. op'.need + Len(got') = BlocksNeeded(op.count)'
    <3>1. PICK n \in Nat : n = op.need
      BY <2>2
    <3>2. PICK l \in Nat : l = Len(got)
      BY <1>5
    <3>3. (n - 1) + (l + 1) = n + l
      OBVIOUS
    <3>4. op'.need + Len(got') = (n - 1) + (l + 1)
      BY <1>7, <2>2, <3>1, <3>2
    <3> QED
      BY <2>1, <2>3, <3>1, <3>2, <3>3, <3>4
  <2>5. got' # << >> /\ tailBlock' = got'[Len(got')]
    BY <1>2, <1>5, <1>7
  <2>6. op'.currentTailIndex = Top' * BlockSize
    BY <1>8, <2>1, <2>2
  <2>7. prPc' = "fill" => op'.need = 0
    BY <1>3, <2>2
  <2>8. prPc' = "index" => op'.need > 0
    BY <1>3, <2>1, <2>2
  <2>9. prPc' \in {"index", "fill"}
    BY <1>3
  <2> QED
    BY <2>4, <2>5, <2>6, <2>7, <2>8, <2>9 DEF Calling
<1>24. WholeIndex'
  BY <1>3, <1>15, KeepWhole
<1>25. Placed'
  <2>1. ASSUME NEW q \in Live'
        PROVE  /\ Top' - Newest'.capacity < q /\ BlockAt(q)' \in Blocks
               /\ \A s \in q .. Top' : KeyAt(s)' = s * BlockSize
    <3>1. CASE q \in Live
      <4>1. \A s \in q .. Top : s \in Int /\ KeyAt(s) = s * BlockSize
        BY <1>5, <1>12, <3>1 DEF Placed
      <4> QED
        BY <1>8, <1>16, <1>18, <3>1, <4>1 DEF Placed
    <3>2. CASE q = Top
      <4>1. BlockAt(q)' \in Blocks
        BY <1>6, <1>19, <3>2
      <4>2. Top - Newest.capacity < q
        BY <1>5, <3>2
      <4>3. Top \in LastBlock + 1 .. Top /\ KeyAt(Top) = Top * BlockSize
        <5>1. Top \in LastBlock + 1 .. Top
          BY <1>5
        <5> QED
          BY <5>1 DEF Placed
      <4>4. \A s \in q .. Top : s = Top /\ s \in Int
        BY <1>5, <3>2
      <4>5. \A s \in q .. Top : KeyAt(s) = s * BlockSize
        BY <4>3, <4>4
      <4> QED
        BY <1>8, <1>16, <4>1, <4>2, <4>4, <4>5
    <3> QED
      BY <1>11, <3>1, <3>2
  <2>2. \A s \in LastBlock' + 1 .. Top' : KeyAt(s)' = s * BlockSize
    <3>1. \A s \in LastBlock + 1 .. Top : s \in Int /\ KeyAt(s) = s * BlockSize
      BY <1>5 DEF Placed
    <3> QED
      BY <1>4, <1>8, <1>16, <3>1
  <2>3. ASSUME NEW e \in 1 .. Len(entries'), entries'[e].value # None
        PROVE  \E q \in Live' : e = EntryAt(q)'
    <3>1. CASE e = here
      <4>1. PICK q : q = Top
        OBVIOUS
      <4>2. e = EntryAt(q)' /\ q \in Live'
        BY <1>11, <1>13, <3>1, <4>1 DEF here
      <4> QED
        BY <4>2
    <3>2. CASE e # here
      <4>1. e \in 1 .. Len(entries) /\ entries[e].value # None
        BY <1>15, <2>3, <3>2
      <4>2. PICK q \in Live : e = EntryAt(q)
        BY <4>1 DEF Placed
      <4> QED
        BY <1>11, <1>13, <4>2
    <3> QED
      BY <3>1, <3>2
  <2>4. LastBlock' \in Live' => StartBlock' = BlockAt(LastBlock)'
    <3>1. PICK l \in Int : l = LastBlock
      BY <1>5
    <3>2. l \in Live' => l \in Live
      BY <1>5, <1>11, <3>1
    <3>3. BlockAt(LastBlock)' = BlockAt(l)'
      BY <1>4, <3>1 DEF BlockAt, EntryAt
    <3>4. StartBlock' = op.startBlock /\ StartBlock = op.startBlock
      BY <1>3 DEF StartBlock, ImplicitTypes, Op
    <3>5. l \in Live => StartBlock = BlockAt(l)
      BY <3>1 DEF Placed
    <3> QED
      BY <1>4, <1>18, <3>1, <3>2, <3>3, <3>4, <3>5
  <2>5. ASSUME NEW q \in Inserted' PROVE BlockAt(q)' = got'[q - LastBlock']
    <3>1. CASE q \in Inserted
      <4>1. q \in Live /\ q \in Int /\ q - LastBlock \in 1 .. Len(got)
        BY <1>5, <3>1 DEF Inserted, Live
      <4> QED
        BY <1>4, <1>7, <1>18, <3>1, <4>1 DEF Placed
    <3>2. CASE q = Top
      BY <1>4, <1>5, <1>7, <1>19, <3>2
    <3> QED
      BY <1>9, <3>1, <3>2
  <2> QED
    BY <2>1, <2>2, <2>3, <2>4, <2>5 DEF Placed
<1>26. PICK top \in Int : top = Top
  BY <1>5
<1>27. Taken(top) = {} /\ \A i \in ItemsOf(top) : i \notin Remaining
  <2>1. LastBlock < top
    BY <1>5, <1>26
  <2> QED
    BY <1>1, <2>1, BeyondTheItems
<1>28. Counts'
  <2>1. \A q \in Live : elementsCompletelyDequeued'[BlockAt(q)'] = Cardinality(Taken(q)')
    BY <1>2, <1>10, <1>18, <1>21 DEF Counts, ImplicitTypes
  <2>2. elementsCompletelyDequeued'[BlockAt(top)'] = Cardinality(Taken(top)')
    <3>1. elementsCompletelyDequeued'[b] = 0
      BY <1>2, <1>6 DEF ImplicitTypes
    <3>2. Cardinality({}) = 0
      BY FS_EmptySet
    <3> QED
      BY <1>10, <1>19, <1>26, <1>27, <3>1, <3>2
  <2> QED
    BY <1>11, <1>26, <2>1, <2>2 DEF Counts
<1>29. Contents'
  <2>1. Remaining' = Remaining
    BY <1>4, WaitsFacts
  <2>2. \A q \in Live : \A i \in ItemsOf(q) :
          slots[BlockAt(q)'][i % BlockSize] = IF i \in Remaining THEN i ELSE NoItem
    BY <1>18 DEF Contents
  <2>3. \A i \in ItemsOf(top) : slots[BlockAt(top)'][i % BlockSize] = IF i \in Remaining THEN i ELSE NoItem
    <3>1. BlockAt(top)' = b
      BY <1>19, <1>26
    <3>2. \A o \in Offsets : slots[b][o] = NoItem
      BY <1>6, <1>20 DEF Contents
    <3>3. \A i \in ItemsOf(top) : i % BlockSize \in Offsets
      BY BlockNoOf, ItemsOfNo
    <3> QED
      BY <1>27, <3>1, <3>2, <3>3
  <2>4. ASSUME NEW k \in Blocks, \A e \in 1 .. Len(entries') : entries'[e].value # k, NEW o \in Offsets
        PROVE  slots[k][o] = NoItem
    <3>1. \A e \in 1 .. Len(entries) : entries[e].value # k
      BY <1>12, <1>15, <2>4, BlocksAssumption
    <3> QED
      BY <3>1 DEF Contents
  <2> QED
    BY <1>3, <1>10, <1>11, <1>26, <2>1, <2>2, <2>3, <2>4 DEF Contents
<1>30. \A c \in Consumers : Finds(c)'
  <2>1. \A q \in Live : q <= LastBlock => EntryAt(q)' = EntryAt(q) /\ BlockAt(q)' = BlockAt(q)
    BY <1>13, <1>18
  <2>2. ASSUME NEW c \in Consumers, NEW t \in Int, pc[c] = "key", FromTail(c, t)
        PROVE  /\ EntryAt(t)' = EntryAt(t) /\ entries'[EntryAt(t)].key = t * BlockSize
               /\ \A s \in LastBlock' + 1 .. t : BlockAt(s)' # None => s \in Inserted'
    <3>1. PICK q : q = BlockNo(index[c])
      OBVIOUS
    <3>2. q \in Live /\ q \in Int /\ q <= LastBlock
      <4>1. pc[c] \in Dequeuing /\ pc[c] # "free"
        BY <2>2 DEF Dequeuing
      <4>2. q \in Int /\ q <= BlockNo(last[c] - 1) /\ BlockNo(last[c] - 1) \in Int
            /\ BlockNo(last[c] - 1) <= LastBlock
        BY <1>1, <3>1, <4>1, ClaimOf
      <4> QED
        BY <1>1, <1>5, <3>1, <4>1, <4>2, LiveAhead
    <3>3. t < q + Newest.capacity /\ entries[EntryAt(t)].key = t * BlockSize
      BY <2>2, <3>1 DEF FromTail
    <3>4. Top - Newest.capacity < q
      BY <3>2 DEF Placed
    <3>5. ASSUME NEW s \in LastBlock + 1 .. t, BlockAt(s)' # None PROVE s \in Inserted'
      <4>1. s \in Int /\ q < s /\ s < q + Newest.capacity /\ LastBlock < s
        BY <1>5, <3>2, <3>3
      <4>2. CASE EntryAt(s) = here
        <5>1. s < Top /\ Top - s < Newest.capacity => FALSE
          BY <1>1, <1>5, <4>1, <4>2, EntriesDiffer DEF here
        <5>2. Top < s /\ s - Top < Newest.capacity => FALSE
          BY <1>1, <1>5, <4>1, <4>2, EntriesDiffer DEF here
        <5>3. s = Top
          BY <1>5, <3>2, <3>4, <4>1, <5>1, <5>2
        <5> QED
          BY <1>9, <5>3
      <4>3. CASE EntryAt(s) # here
        <5>1. BlockAt(s) # None
          BY <1>17, <3>5, <4>1, <4>3
        <5>2. s \in Inserted
          BY <2>2, <5>1 DEF FromTail
        <5> QED
          BY <1>9, <5>2
      <4> QED
        BY <4>2, <4>3
    <3> QED
      BY <1>4, <1>13, <1>14, <1>15, <3>3, <3>5
  <2>3. Widened /\ Newest.capacity <= Newest'.capacity /\ Newest'.capacity \in Nat
    BY <1>1, <1>3, <1>8, IndexUnmoved
  <2> QED
    BY <1>1, <1>4, <2>1, <2>2, <2>3, WaitsFinds
<1>31. OneOwner'
  <2>1. \A k : FreedBy(k)' = FreedBy(k)
    BY <1>4, WaitsFacts
  <2>2. \A k : UndoneOf(k)' = {} /\ UndoneOf(k) = {}
    BY <1>5, <1>8 DEF UndoneOf
  <2>3. ASSUME NEW k \in Blocks, k # b PROVE HasBlock(k)' = HasBlock(k) /\ (k \in unused' <=> k \in unused)
    <3>1. \A e \in 1 .. Len(entries) : entries'[e].value = k <=> entries[e].value = k
      BY <1>12, <1>15, <2>3, BlocksAssumption
    <3> QED
      BY <1>2, <1>15, <2>3, <3>1 DEF HasBlock
  <2>4. HasBlock(b)' = {here} /\ b \notin unused' /\ FreedBy(b) = {}
    <3>1. \A e \in 1 .. Len(entries') : entries'[e].value = b <=> e = here
      BY <1>15, <1>20
    <3>2. HasBlock(b)' = {here}
      BY <1>12, <1>15, <3>1 DEF HasBlock
    <3> QED
      BY <1>2, <1>6, <3>2 DEF OneOwner
  <2> QED
    BY <2>1, <2>2, <2>3, <2>4 DEF OneOwner
<1>32. Ranges'
  <2>1. headIndex <= tailIndex'
    BY <1>4 DEF Ranges
  <2> QED
    BY <1>4, <2>1, WaitsRanges
<1> QED
  BY <1>22, <1>23, <1>24, <1>25, <1>28, <1>29, <1>30, <1>31, <1>32

-----------------------------------------------------------------------------
(* Taking back what a failed call inserted.                                *)

(* The next entry to be undone is the one of the first block that was      *)
(* inserted and not undone yet.                                            *)
LEMMA NextUndone ==
  ASSUME TypeOK, PlacesOK, prPc = "undo",
         op.currentTailIndex < BaseOf(tailIndex - 1) + BlockSize * Len(got)
  PROVE  \E x \in Inserted :
           /\ x \in Int /\ x = LastBlock + Reverted + 1 /\ Reverted < Len(got)
           /\ op.currentTailIndex + BlockSize = x * BlockSize /\ x * BlockSize \in Int
           /\ EntryFor(op.currentTailIndex + BlockSize) = EntryAt(x)
           /\ (x * BlockSize - LastBlock * BlockSize) \div BlockSize = Reverted + 1
<1> USE DEF PlacesOK
<1>1. PICK r \in Nat : r = Reverted
  BY Numbers
<1>2. PICK l \in Int : l = LastBlock
  BY Numbers
<1>3. PICK g \in Nat : g = Len(got)
  BY Numbers
<1>4. PICK t \in Int : t = TailNo
  BY Numbers
<1>5. BlockSize \in Nat \ {0} /\ BlockSize > 1
  BY BlockSizeType
<1>6. /\ op.currentTailIndex = (l + r) * BlockSize /\ r <= g /\ Top = l + g /\ t = l + g - r
      /\ BaseOf(tailIndex - 1) = l * BlockSize /\ l * BlockSize \in Int
  BY <1>1, <1>2, <1>3, <1>4, Numbers DEF Calling, Top, TailNo
<1> DEFINE x == l + r + 1
<1>7. x \in Int /\ x * BlockSize = (l + r) * BlockSize + BlockSize /\ x * BlockSize \in Int
  BY <1>5
<1>8. r < g
  <2>1. (l + r) * BlockSize < l * BlockSize + BlockSize * g
    BY <1>3, <1>6
  <2>2. BlockSize * r < BlockSize * g
    BY <1>5, <2>1
  <2>3. g <= r => BlockSize * g <= BlockSize * r
    <3>1. g < r => BlockSize * g + BlockSize <= BlockSize * r
      BY <1>5, Laps
    <3>2. BlockSize * g \in Int /\ BlockSize * r \in Int
      BY <1>5
    <3> QED
      BY <1>5, <3>1, <3>2
  <2>4. BlockSize * g \in Int /\ BlockSize * r \in Int
    BY <1>5
  <2> QED
    BY <2>2, <2>3, <2>4
<1> HIDE DEF x
<1>9. x = l + r + 1
  BY DEF x
<1>10. x \in Inserted /\ t \in l + 1 .. l + g
  BY <1>1, <1>2, <1>3, <1>6, <1>7, <1>8, <1>9 DEF Inserted
<1>11. KeyAt(t) = t * BlockSize
  <2>1. t \in LastBlock + 1 .. Top
    BY <1>2, <1>6, <1>10
  <2> QED
    BY <2>1 DEF Placed
<1>12. entries[Newest.index[Newest.tail]].key = t * BlockSize
  <2>1. EntryAt(TailNo) = Newest.index[Newest.tail]
    BY EntryOfTail
  <2> QED
    BY <1>4, <1>11, <2>1 DEF KeyAt
<1>13. EntryFor(x * BlockSize) = EntryAt(x)
  <2>1. BaseOf(x * BlockSize) = x * BlockSize
    BY <1>7, BlockNoOf, ItemsOfNo
  <2>2. (x * BlockSize - t * BlockSize) \div BlockSize = x - t
    <3>1. PICK d \in Int : d = x - t
      BY <1>7
    <3>2. x * BlockSize - t * BlockSize = BlockSize * d + 0 /\ x * BlockSize - t * BlockSize \in Int
      BY <1>5, <1>7, <3>1
    <3>3. 0 \in 0 .. BlockSize - 1
      BY <1>5
    <3> QED
      BY <1>5, <3>1, <3>2, <3>3, Quotient
  <2> QED
    BY <1>4, <1>12, <2>1, <2>2 DEF EntryFor, Place, EntryAt
<1>14. op.currentTailIndex + BlockSize = x * BlockSize
  BY <1>6, <1>7
<1>15. (x * BlockSize - LastBlock * BlockSize) \div BlockSize = Reverted + 1
  <2>1. x * BlockSize - l * BlockSize = BlockSize * (r + 1) + 0 /\ x * BlockSize - l * BlockSize \in Int
    BY <1>5, <1>7, <1>9
  <2>2. 0 \in 0 .. BlockSize - 1 /\ r + 1 \in Int
    BY <1>5
  <2> QED
    BY <1>1, <1>2, <1>5, <2>1, <2>2, Quotient
<1>16. EntryFor(op.currentTailIndex + BlockSize) = EntryAt(x)
  BY <1>13, <1>14
<1> QED
  BY <1>1, <1>2, <1>3, <1>7, <1>8, <1>9, <1>10, <1>14, <1>15, <1>16

(* The producer takes back the block of an entry; no consumer was to find  *)
(* it.                                                                     *)
LEMMA PlacesUndoOne ==
  ASSUME IInv, PlacesOK, UndoOne
  PROVE  PlacesOK'
<1> USE DEF PlacesOK
<1>1. TypeOK
  BY DEF IInv
<1>2. /\ prPc = "undo" /\ op.currentTailIndex < BaseOf(tailIndex - 1) + BlockSize * Len(got)
      /\ op' = [op EXCEPT !.currentTailIndex = @ + BlockSize]
      /\ entries' = [entries EXCEPT ![EntryFor(op.currentTailIndex + BlockSize)].value = None]
      /\ indexes' = [indexes EXCEPT ![current].tail = (Newest.tail - 1) % Newest.capacity]
      /\ UNCHANGED <<claimVars, findVars>>
      /\ UNCHANGED <<blockVars, elementsCompletelyDequeued, got, prPc>>
  BY DEF UndoOne, Rewind, Newest
<1>3. /\ Waits /\ UNCHANGED <<tailIndex, headIndex>> /\ UNCHANGED LastBlock
      /\ UNCHANGED <<index, localBlockIndex, indexIndex, block>>
      /\ UNCHANGED <<slots, unused, tailBlock, elementsCompletelyDequeued, got, prPc>>
  BY <1>2, WaitingProducer DEF blockVars
<1>4. PICK x \in Inserted :
        /\ x \in Int /\ x = LastBlock + Reverted + 1 /\ Reverted < Len(got)
        /\ op.currentTailIndex + BlockSize = x * BlockSize /\ x * BlockSize \in Int
        /\ EntryFor(op.currentTailIndex + BlockSize) = EntryAt(x)
        /\ (x * BlockSize - LastBlock * BlockSize) \div BlockSize = Reverted + 1
  BY <1>1, <1>2, NextUndone
<1>5. /\ LastBlock \in Int /\ Top \in Int /\ Len(got) \in Nat /\ Top = LastBlock + Len(got)
      /\ Reverted \in Nat /\ TailNo = Top - Reverted /\ TailNo \in Int
  BY <1>1, <1>2, Numbers DEF Top, TailNo
<1>6. op \in Op /\ op' \in Op /\ op'.currentTailIndex = x * BlockSize /\ op'.startBlock = op.startBlock
  <2>1. op \in Op
    BY <1>2 DEF ImplicitTypes
  <2> QED
    BY <1>2, <1>4, <2>1 DEF Op
<1>7. Reverted' = Reverted + 1
  BY <1>2, <1>3, <1>4, <1>6 DEF Reverted
<1>8. Top' = Top /\ TailNo' = TailNo - 1
  BY <1>2, <1>3, <1>5, <1>7 DEF Top, TailNo
<1>9. Inserted' = Inserted \ {x} /\ LastBlock < x
  <2>1. Inserted' = LastBlock + (Reverted + 1) + 1 .. LastBlock + Len(got)
    BY <1>3, <1>7 DEF Inserted
  <2>2. PICK l \in Int, r \in Nat, g \in Nat : l = LastBlock /\ r = Reverted /\ g = Len(got)
    BY <1>5
  <2>3. x = l + r + 1 /\ l < x /\ r + 1 \in Nat
    BY <1>4, <2>2
  <2>4. l + (r + 1) + 1 .. l + g = (l + r + 1 .. l + g) \ {x}
    BY <2>3
  <2>5. Inserted = l + r + 1 .. l + g
    BY <2>2 DEF Inserted
  <2> QED
    BY <2>1, <2>2, <2>3, <2>4, <2>5
<1>10. \A q : Taken(q)' = Taken(q) /\ (Gone(q)' <=> Gone(q)) /\ ItemsOf(q)' = ItemsOf(q)
  BY <1>3, WaitsFacts
<1>11. Live' = Live \ {x} /\ x \in Live
  BY <1>3, <1>5, <1>9, <1>10 DEF Live
<1>12. /\ indexes' \in Seq(Headers) /\ Len(indexes') = Len(indexes) /\ Widened
       /\ Newest'.capacity = Newest.capacity /\ Newest'.index = Newest.index
       /\ Newest'.tail = (Newest.tail - 1) % Newest.capacity
  <2>1. (Newest.tail - 1) % Newest.capacity \in 0 .. Newest.capacity - 1
    <3> DEFINE a == Newest.tail - 1
               n == Newest.capacity
    <3>1. a \in Int /\ n \in Nat \ {0}
      BY NewestFacts
    <3> HIDE DEF a, n
    <3>2. a % n \in 0 .. n - 1
      BY <3>1, DivModInt
    <3> QED
      BY <3>2 DEF a, n
  <2> QED
    BY <1>2, <2>1, TailMoves
<1>13. \A q \in Int : EntryAt(q)' = EntryAt(q)
  <2>1. /\ -1 \in Int /\ TailNo' = TailNo + (-1)
        /\ Newest'.tail = (Newest.tail + (-1)) % Newest.capacity
    <3>1. Newest.tail - 1 = Newest.tail + (-1)
      BY NewestFacts
    <3> QED
      BY <1>5, <1>8, <1>12, <3>1
  <2> QED
    BY <1>1, <1>12, <2>1, EntriesStay
<1>14. \A q \in Int : EntryAt(q) \in 1 .. Len(entries)
  BY <1>1, EntryPlace
<1>15. PICK here \in 1 .. Len(entries) : here = EntryAt(x) /\ entries[here] \in Entry
  BY <1>1, <1>4, EntryPlace
<1>16. /\ Len(entries') = Len(entries) /\ entries' \in Seq(Entry)
       /\ entries'[here].value = None
       /\ \A e \in 1 .. Len(entries) : entries'[e].key = entries[e].key
       /\ \A e \in 1 .. Len(entries) : e # here => entries'[e] = entries[e]
  <2>1. entries' = [entries EXCEPT ![here] = [entries[here] EXCEPT !.value = None]]
    BY <1>2, <1>4, <1>15
  <2>2. [entries[here] EXCEPT !.value = None] \in Entry
    BY <1>15 DEF Entry
  <2>3. entries \in Seq(Entry)
    BY DEF ImplicitTypes
  <2> QED
    BY <1>15, <2>1, <2>2, <2>3 DEF Entry
<1>17. \A q \in Int : KeyAt(q)' = KeyAt(q)
  BY <1>13, <1>14, <1>16 DEF KeyAt
<1>18. \A q \in Int : EntryAt(q) # here => BlockAt(q)' = BlockAt(q)
  BY <1>13, <1>14, <1>16 DEF BlockAt
<1>19. \A q \in Int : EntryAt(q) = here => BlockAt(q)' = None
  BY <1>13, <1>16 DEF BlockAt
<1>20. \A q \in Live' : q \in Live /\ q \in Int /\ EntryAt(q) # here /\ BlockAt(q)' = BlockAt(q)
  <2>1. ASSUME NEW q \in Live, q # x PROVE q \in Int /\ EntryAt(q) # here
    BY <1>1, <1>11, <1>15, <2>1, LiveEntries, LiveRange
  <2> QED
    BY <1>11, <1>18, <2>1
<1>21. ImplicitTypes'
  BY <1>2, <1>3, <1>6, <1>12, <1>16 DEF ImplicitTypes
<1>22. Calling'
  <2>1. op'.currentTailIndex = (LastBlock' + Reverted') * BlockSize /\ Reverted' \in 0 .. Len(got')
    <3>1. LastBlock' + Reverted' = x
      BY <1>3, <1>4, <1>5, <1>7
    <3>2. Reverted' \in 0 .. Len(got')
      BY <1>3, <1>4, <1>5, <1>7
    <3> QED
      BY <1>6, <3>1, <3>2
  <2> QED
    BY <1>2, <2>1 DEF Calling
<1>23. WholeIndex'
  <2>1. ASSUME NEW i \in 1 .. Len(indexes')
        PROVE  indexes'[i].index = indexes[i].index /\ indexes'[i].capacity = indexes[i].capacity
    BY <1>12, <2>1 DEF Widened
  <2> QED
    BY <1>12, <1>16, <2>1 DEF WholeIndex
<1>24. StartBlock' = StartBlock
  BY <1>2, <1>6 DEF StartBlock
<1>25. Placed'
  <2>1. ASSUME NEW q \in Live'
        PROVE  /\ Top' - Newest'.capacity < q /\ BlockAt(q)' \in Blocks
               /\ \A s \in q .. Top' : KeyAt(s)' = s * BlockSize
    <3>1. \A s \in q .. Top : s \in Int /\ KeyAt(s) = s * BlockSize
      BY <1>5, <1>20 DEF Placed
    <3> QED
      BY <1>8, <1>12, <1>17, <1>20, <3>1 DEF Placed
  <2>2. \A s \in LastBlock' + 1 .. Top' : KeyAt(s)' = s * BlockSize
    <3>1. \A s \in LastBlock + 1 .. Top : s \in Int /\ KeyAt(s) = s * BlockSize
      BY <1>5 DEF Placed
    <3> QED
      BY <1>3, <1>8, <1>17, <3>1
  <2>3. ASSUME NEW e \in 1 .. Len(entries'), entries'[e].value # None
        PROVE  \E q \in Live' : e = EntryAt(q)'
    <3>1. e # here /\ e \in 1 .. Len(entries) /\ entries[e].value # None
      BY <1>16, <2>3
    <3>2. PICK q \in Live : e = EntryAt(q)
      BY <3>1 DEF Placed
    <3>3. q \in Live'
      BY <1>11, <1>15, <3>1, <3>2
    <3> QED
      BY <1>13, <1>20, <3>2, <3>3
  <2>4. LastBlock' \in Live' => StartBlock' = BlockAt(LastBlock)'
    <3>1. PICK l \in Int : l = LastBlock
      BY <1>5
    <3>2. BlockAt(LastBlock)' = BlockAt(l)'
      BY <1>3, <3>1 DEF BlockAt, EntryAt
    <3> QED
      BY <1>3, <1>20, <1>24, <3>1, <3>2 DEF Placed
  <2>5. ASSUME NEW q \in Inserted' PROVE BlockAt(q)' = got'[q - LastBlock']
    <3>1. q \in Inserted /\ q \in Live'
      BY <1>9, <1>11 DEF Live
    <3> QED
      BY <1>3, <1>20, <3>1 DEF Placed
  <2> QED
    BY <2>1, <2>2, <2>3, <2>4, <2>5 DEF Placed
<1>26. Counts'
  BY <1>3, <1>10, <1>20 DEF Counts
<1>27. Contents'
  <2>1. Remaining' = Remaining
    BY <1>3, WaitsFacts
  <2>2. \A q \in Live' : \A i \in ItemsOf(q) :
          slots[BlockAt(q)'][i % BlockSize] = IF i \in Remaining THEN i ELSE NoItem
    BY <1>20 DEF Contents
  <2>3. ASSUME NEW k \in Blocks, \A e \in 1 .. Len(entries') : entries'[e].value # k, NEW o \in Offsets
        PROVE  slots[k][o] = NoItem
    <3>1. CASE k = BlockAt(x)
      <4>1. PICK i \in ItemsOf(x) : i % BlockSize = o
        BY <1>4, ItemsOfNo
      <4>2. i \notin Remaining
        BY <1>1, <1>4, <1>9, BeyondTheItems
      <4> QED
        BY <1>11, <3>1, <4>1, <4>2 DEF Contents
    <3>2. CASE k # BlockAt(x)
      <4>1. \A e \in 1 .. Len(entries) : entries[e].value # k
        BY <1>15, <1>16, <2>3, <3>2 DEF BlockAt
      <4> QED
        BY <4>1 DEF Contents
    <3> QED
      BY <3>1, <3>2
  <2> QED
    BY <1>3, <1>10, <2>1, <2>2, <2>3 DEF Contents
<1>28. \A c \in Consumers : Finds(c)'
  <2>1. \A q \in Live : q <= LastBlock => EntryAt(q)' = EntryAt(q) /\ BlockAt(q)' = BlockAt(q)
    <3>1. \A q \in Live : q <= LastBlock => q \in Live' /\ q \in Int
      BY <1>1, <1>5, <1>9, <1>11, LiveRange
    <3> QED
      BY <1>13, <1>20, <3>1
  <2>2. ASSUME NEW c \in Consumers, NEW t \in Int, pc[c] = "key", FromTail(c, t)
        PROVE  /\ EntryAt(t)' = EntryAt(t) /\ entries'[EntryAt(t)].key = t * BlockSize
               /\ \A s \in LastBlock' + 1 .. t : BlockAt(s)' # None => s \in Inserted'
    <3>1. entries[EntryAt(t)].key = t * BlockSize
      BY <2>2 DEF FromTail
    <3>2. ASSUME NEW s \in LastBlock + 1 .. t, BlockAt(s)' # None PROVE s \in Inserted'
      <4>1. s \in Int /\ EntryAt(s) # here /\ BlockAt(s) # None
        BY <1>5, <1>18, <1>19, <3>2
      <4>2. s \in Inserted
        BY <2>2, <4>1 DEF FromTail
      <4> QED
        BY <1>9, <1>15, <4>1, <4>2
    <3> QED
      BY <1>3, <1>13, <1>14, <1>16, <3>1, <3>2
  <2>3. Newest.capacity <= Newest'.capacity /\ Newest'.capacity \in Nat
    BY <1>12, NewestFacts
  <2> QED
    BY <1>1, <1>3, <1>12, <2>1, <2>2, <2>3, WaitsFinds
<1>29. OneOwner'
  <2>1. \A k : FreedBy(k)' = FreedBy(k)
    BY <1>3, WaitsFacts
  <2>2. PICK b \in Blocks : b = BlockAt(x) /\ b = got[Reverted + 1] /\ b # None
    <3>1. BlockAt(x) \in Blocks
      BY <1>11 DEF Placed
    <3>2. BlockAt(x) = got[x - LastBlock] /\ x - LastBlock = Reverted + 1
      BY <1>4, <1>5 DEF Placed
    <3> QED
      BY <3>1, <3>2, BlocksAssumption
  <2>3. here \in HasBlock(b) /\ FreedBy(b) = {} /\ UndoneOf(b) = {} /\ b \notin unused
    <3>1. here \in HasBlock(b)
      BY <1>15, <2>2 DEF HasBlock, BlockAt
    <3> QED
      BY <3>1 DEF OneOwner
  <2>4. HasBlock(b)' = {}
    <3>1. \A e \in 1 .. Len(entries) : entries[e].value = b => e = here
      BY <2>3 DEF OneOwner, HasBlock
    <3>2. \A e \in 1 .. Len(entries) : entries'[e].value # b
      BY <1>16, <2>2, <3>1
    <3> QED
      BY <1>16, <3>2 DEF HasBlock
  <2>5. UndoneOf(b)' = {Reverted + 1}
    <3>1. \A k \in 1 .. Reverted + 1 : k \in 1 .. Reverted \/ k = Reverted + 1
      BY <1>5
    <3>2. Reverted + 1 \in 1 .. Reverted + 1
      BY <1>5
    <3>3. UndoneOf(b)' = {k \in 1 .. Reverted + 1 : got[k] = b}
      BY <1>3, <1>7 DEF UndoneOf
    <3>4. \A k \in 1 .. Reverted : got[k] # b
      BY <2>3 DEF UndoneOf
    <3> QED
      BY <2>2, <3>1, <3>2, <3>3, <3>4
  <2>6. ASSUME NEW k \in Blocks, k # b PROVE HasBlock(k)' = HasBlock(k) /\ UndoneOf(k)' = UndoneOf(k)
    <3>1. \A e \in 1 .. Len(entries) : entries'[e].value = k <=> entries[e].value = k
      BY <1>15, <1>16, <2>2, <2>6, BlocksAssumption DEF BlockAt
    <3>2. \A j \in Int : j \in 1 .. Reverted + 1 <=> j \in 1 .. Reverted \/ j = Reverted + 1
      BY <1>5
    <3>3. UndoneOf(k)' = {j \in 1 .. Reverted + 1 : got[j] = k}
      BY <1>3, <1>7 DEF UndoneOf
    <3>4. UndoneOf(k)' = UndoneOf(k)
      BY <1>5, <2>2, <2>6, <3>2, <3>3 DEF UndoneOf
    <3> QED
      BY <1>16, <3>1, <3>4 DEF HasBlock
  <2> DEFINE Owned(k, un, has, freed, undone) ==
        /\ k \in un <=> has = {} /\ freed = {} /\ undone = {}
        /\ \A e, f \in has : e = f
        /\ \A c, d \in freed : c = d
        /\ \A i, j \in undone : i = j
        /\ has # {} => freed = {} /\ undone = {}
        /\ freed # {} => undone = {}
  <2>7. ASSUME NEW k \in Blocks PROVE Owned(k, unused', HasBlock(k)', FreedBy(k)', UndoneOf(k)')
    <3>1. CASE k = b
      <4>1. Owned(b, unused, {}, {}, {Reverted + 1})
        BY <2>3
      <4> HIDE DEF Owned
      <4> QED
        BY <1>3, <2>1, <2>3, <2>4, <2>5, <3>1, <4>1
    <3>2. CASE k # b
      <4>1. Owned(k, unused, HasBlock(k), FreedBy(k), UndoneOf(k))
        BY DEF OneOwner
      <4> HIDE DEF Owned
      <4> QED
        BY <1>3, <2>1, <2>6, <3>2, <4>1
    <3> QED
      BY <3>1, <3>2
  <2> QED
    BY <2>7 DEF OneOwner
<1>30. Ranges'
  <2>1. headIndex <= tailIndex'
    BY <1>3 DEF Ranges
  <2> QED
    BY <1>3, <2>1, WaitsRanges
<1> QED
  BY <1>21, <1>22, <1>23, <1>25, <1>26, <1>27, <1>28, <1>29, <1>30

-----------------------------------------------------------------------------
(* Filling the blocks.                                                     *)

(* A call writes each item into the block its entry has.                   *)
LEMMA FillsPlaces ==
  ASSUME TypeOK, PlacesOK, prPc = "fill", NEW j \in tailIndex .. tailIndex + op.count - 1
  PROVE  /\ BlockNo(tailIndex + op.count - 1) = Top
         /\ j \in Int /\ BlockNo(j) \in Live /\ BlockFor(j) = BlockAt(BlockNo(j))
<1> USE DEF PlacesOK
<1>1. tailIndex \in Nat /\ headIndex \in Nat /\ headIndex <= tailIndex /\ j \in Int /\ tailIndex <= j
  BY DEF TypeOK, Ranges
<1>2. op.count \in Nat \ {0} /\ op.need = 0 /\ op.need + Len(got) = BlocksNeeded(op.count)
  BY DEF ImplicitTypes, Calling, Op
<1>3. PICK l \in Int : l = LastBlock /\ l >= -1
  BY Numbers
<1>4. PICK g \in Nat : g = Len(got)
  BY Numbers
<1>5. Top = l + g /\ Inserted = l + 1 .. l + g
  BY <1>3, <1>4, Numbers DEF Top, Inserted
<1>6. BlockNo(tailIndex + op.count - 1) - l = g /\ BlockNo(tailIndex + op.count - 1) \in Int
  <2>1. BlocksNeeded(op.count) = BlockNo(tailIndex + op.count - 1) - LastBlock
    BY <1>2, NeededBlocks
  <2>2. tailIndex + op.count - 1 \in Int
    BY <1>1, <1>2
  <2>3. PICK n \in Int : n = BlockNo(tailIndex + op.count - 1)
    BY <2>2, BlockNoOf
  <2>4. g = n - l
    BY <1>2, <1>3, <1>4, <2>1, <2>3
  <2>5. n - l = g /\ n \in Int
    BY <2>4
  <2> QED
    BY <2>3, <2>5
<1>7. BlockNo(tailIndex + op.count - 1) = l + g
  BY <1>6
<1>8. PICK q \in Int : q = BlockNo(j) /\ q >= 0
  BY <1>1, BlockNoOf
<1>9. l <= q /\ q <= l + g
  <2>1. tailIndex - 1 \in Int /\ tailIndex - 1 <= j /\ j <= tailIndex + op.count - 1
        /\ tailIndex + op.count - 1 \in Int
    BY <1>1, <1>2
  <2>2. BlockNo(tailIndex - 1) <= q /\ q <= BlockNo(tailIndex + op.count - 1)
    BY <1>1, <1>8, <2>1, BlockNoMonotone
  <2> QED
    BY <1>3, <1>7, <2>2 DEF LastBlock
<1>10. BlockFor(j) = IF q - l = 0 THEN op.startBlock ELSE got[q - l]
  BY <1>3, <1>8 DEF BlockFor, BlockNo, LastBlock
<1>11. CASE q = l
  <2>1. j \in ItemsOf(q) /\ j \notin Taken(q)
    BY <1>1, <1>8, ItemsOfNo DEF Taken
  <2>2. q \in Live
    BY <1>3, <1>8, <1>11, <2>1 DEF Live, Gone
  <2>3. BlockAt(q) = StartBlock /\ StartBlock = op.startBlock
    BY <1>3, <1>11, <2>2 DEF Placed, StartBlock
  <2> QED
    BY <1>1, <1>5, <1>7, <1>8, <1>10, <1>11, <2>2, <2>3
<1>12. CASE q # l
  <2>1. q \in Inserted /\ q - l # 0
    BY <1>3, <1>5, <1>8, <1>9, <1>12
  <2>2. q \in Live /\ BlockAt(q) = got[q - l]
    BY <1>3, <2>1 DEF Live, Placed
  <2> QED
    BY <1>1, <1>5, <1>7, <1>8, <1>10, <2>1, <2>2
<1> QED
  BY <1>11, <1>12

(* The items are in the blocks, and counted in tailIndex.                  *)
LEMMA PlacesFill ==
  ASSUME IInv, PlacesOK, Fill
  PROVE  PlacesOK'
<1> USE DEF PlacesOK
<1> DEFINE new == tailIndex .. tailIndex + op.count - 1
           here(k, o) == {j \in new : j % BlockSize = o /\ BlockFor(j) = k}
<1>1. TypeOK
  BY DEF IInv
<1>2. /\ prPc = "fill" /\ prPc' = "idle" /\ got' = << >> /\ tailIndex' = tailIndex + op.count
      /\ slots' = [k \in Blocks |-> [o \in Offsets |->
                     IF here(k, o) # {} THEN Max(here(k, o)) ELSE slots[k][o]]]
      /\ UNCHANGED <<headIndex, pc, index, last, findVars, unused>>
      /\ UNCHANGED <<tailBlock, elementsCompletelyDequeued, entries, indexes>>
  <2> DEFINE b == [i \in new |-> BlockFor(i)]
             there(k, o) == {i \in new : i % BlockSize = o /\ b[i] = k}
  <2>1. FillBlocks(b) /\ got' = << >> /\ UNCHANGED <<tailBlock, elementsCompletelyDequeued, entries, indexes>>
    BY DEF Fill
  <2>2. \A k, o : there(k, o) = here(k, o)
    OBVIOUS
  <2>3. slots' = [k \in Blocks |-> [o \in Offsets |->
                     IF there(k, o) # {} THEN Max(there(k, o)) ELSE slots[k][o]]]
    BY <2>1 DEF FillBlocks
  <2>4. slots' = [k \in Blocks |-> [o \in Offsets |->
                     IF here(k, o) # {} THEN Max(here(k, o)) ELSE slots[k][o]]]
    <3> HIDE DEF there, here
    <3> QED
      BY <2>2, <2>3
  <2> HIDE DEF b
  <2> QED
    BY <2>1, <2>4 DEF FillBlocks
<1>3. /\ Waits /\ tailIndex \in Nat /\ headIndex \in Nat /\ headIndex <= tailIndex
      /\ op.count \in Nat \ {0} /\ tailIndex' \in Nat /\ tailIndex <= tailIndex'
  BY <1>1, <1>2 DEF Waits, Ranges, TypeOK, ImplicitTypes, Op
<1>4. /\ LastBlock \in Int /\ LastBlock >= -1 /\ Top \in Int /\ Len(got) \in Nat /\ Top = LastBlock + Len(got)
      /\ Reverted = 0 /\ TailNo = Top
  BY <1>1, <1>2, Numbers DEF Top, TailNo
<1>5. \A j \in new : j \in Int /\ BlockNo(j) \in Live /\ BlockFor(j) = BlockAt(BlockNo(j))
  BY <1>1, <1>2, FillsPlaces
<1>6. LastBlock' = Top
  <2>1. tailIndex \in new
    BY <1>3
  <2>2. BlockNo(tailIndex + op.count - 1) = Top
    BY <1>1, <1>2, <2>1, FillsPlaces
  <2>3. LastBlock' = (tailIndex' - 1) \div BlockSize
    BY DEF LastBlock, BlockNo
  <2>4. tailIndex' - 1 = tailIndex + op.count - 1
    <3>1. tailIndex' = tailIndex + op.count
      BY <1>2
    <3>2. tailIndex + op.count \in Int /\ tailIndex + op.count - 1 = (tailIndex + op.count) - 1
      BY <1>3
    <3> QED
      BY <3>1, <3>2, Zenon
  <2>5. BlockNo(tailIndex + op.count - 1) = (tailIndex + op.count - 1) \div BlockSize
    BY DEF BlockNo
  <2> QED
    BY <2>2, <2>3, <2>4, <2>5
<1>7. /\ Len(got') = 0 /\ Reverted' = 0 /\ Top' = Top /\ TailNo' = TailNo
      /\ Inserted = LastBlock + 1 .. Top /\ Inserted' = {}
  BY <1>2, <1>4, <1>6 DEF Reverted, Top, TailNo, Inserted
<1>8. UNCHANGED Newest /\ Widened /\ (\A q : EntryAt(q)' = EntryAt(q))
      /\ Newest.capacity <= Newest'.capacity /\ Newest'.capacity \in Nat
  BY <1>1, <1>2, <1>7, IndexUnmoved
<1>9. \A q : BlockAt(q)' = BlockAt(q) /\ KeyAt(q)' = KeyAt(q)
  BY <1>2, <1>8 DEF BlockAt, KeyAt
<1>10. \A q : Taken(q)' = Taken(q) /\ (Gone(q)' <=> Gone(q)) /\ ItemsOf(q)' = ItemsOf(q)
  BY <1>3, WaitsFacts
<1>11. Live' = Live
  <2>1. ASSUME NEW q \in Int, LastBlock < q PROVE ~Gone(q)
    <3>1. Taken(q) = {} /\ q * BlockSize \in ItemsOf(q)
      BY <1>1, <2>1, BeyondTheItems, ItemsOfNo, BlockSizeType DEF Offsets, ItemsOf
    <3> QED
      BY <3>1 DEF Gone
  <2>2. PICK l \in Int, t \in Int : l = LastBlock /\ t = Top /\ l <= t /\ l >= -1
    BY <1>4
  <2>3. Live = {q \in 0 .. l : ~Gone(q)} \cup (l + 1 .. t)
    BY <1>7, <2>2 DEF Live
  <2>4. Live' = {q \in 0 .. t : ~Gone(q)}
    BY <1>6, <1>7, <1>10, <2>2 DEF Live
  <2>5. \A q \in Int : q \in 0 .. t <=> q \in 0 .. l \/ q \in l + 1 .. t
    BY <2>2
  <2>6. \A q \in l + 1 .. t : ~Gone(q)
    BY <2>1, <2>2
  <2> QED
    BY <2>3, <2>4, <2>5, <2>6
(* Each slot gets one item at most.                                        *)
<1>12. ASSUME NEW q \in Live, NEW i \in ItemsOf(q)
       PROVE  here(BlockAt(q), i % BlockSize) = IF i \in new THEN {i} ELSE {}
  <2>1. q \in Int /\ i \in Int /\ BlockNo(i) = q
    BY <1>1, LiveRange, ItemsOfNo
  <2>2. ASSUME NEW j \in here(BlockAt(q), i % BlockSize) PROVE j = i
    <3>1. j \in new /\ BlockNo(j) \in Live /\ BlockAt(BlockNo(j)) = BlockAt(q) /\ j % BlockSize = i % BlockSize
          /\ j \in Int
      BY <1>5, <2>2
    <3>2. BlockNo(j) = q
      BY <1>1, <3>1, LiveEntries
    <3>3. j \in ItemsOf(q)
      BY <2>1, <3>1, <3>2, ItemsOfNo
    <3> QED
      BY <2>1, <3>1, <3>3, OneItemPerSlot
  <2>3. i \in new => i \in here(BlockAt(q), i % BlockSize)
    BY <1>5, <2>1
  <2>4. here(BlockAt(q), i % BlockSize) \subseteq new
    OBVIOUS
  <2> HIDE DEF here, new
  <2> QED
    BY <2>2, <2>3, <2>4
<1>13. ASSUME NEW k \in Blocks, NEW o \in Offsets, NEW j \in here(k, o)
       PROVE  here(k, o) = {j} /\ k = BlockAt(BlockNo(j)) /\ j \in Int
  <2>1. j \in new /\ j \in Int /\ BlockNo(j) \in Live /\ k = BlockAt(BlockNo(j)) /\ o = j % BlockSize
    BY <1>5
  <2>2. j \in ItemsOf(BlockNo(j))
    BY <2>1, BlockNoOf, ItemsOfNo
  <2> HIDE DEF here, new
  <2> QED
    BY <1>12, <2>1, <2>2
<1>14. \A j \in Int : Max({j}) = j
  BY DEF Max
<1> HIDE DEF here, new
<1>15. ImplicitTypes'
  <2>1. ASSUME NEW k \in Blocks, NEW o \in Offsets
        PROVE  (IF here(k, o) # {} THEN Max(here(k, o)) ELSE slots[k][o]) \in Int
    <3>1. slots[k][o] \in Int
      BY DEF ImplicitTypes
    <3>2. CASE here(k, o) # {}
      <4>1. PICK j \in here(k, o) : TRUE
        BY <3>2
      <4> QED
        BY <1>13, <1>14, <3>2, <4>1
    <3> QED
      BY <3>1, <3>2
  <2>2. slots' \in [Blocks -> [Offsets -> Int]]
    BY <1>2, <2>1
  <2> QED
    BY <1>2, <2>2 DEF ImplicitTypes, findVars
<1>16. Calling'
  BY <1>2 DEF Calling
<1>17. WholeIndex'
  BY <1>2, KeepWhole
<1>18. Placed'
  <2>1. LastBlock' \in Live' => StartBlock' = BlockAt(LastBlock)'
    <3>1. PICK t \in Int : t = Top
      BY <1>4
    <3>2. BlockAt(LastBlock)' = BlockAt(t)'
      BY <1>6, <3>1 DEF BlockAt, EntryAt
    <3>3. StartBlock' = tailBlock /\ tailBlock = (IF got = << >> THEN op.startBlock ELSE got[Len(got)])
          /\ StartBlock = op.startBlock
      BY <1>2 DEF StartBlock, Calling
    <3>4. CASE got = << >>
      BY <1>4, <1>6, <1>9, <1>11, <3>1, <3>2, <3>3, <3>4 DEF Placed
    <3>5. CASE got # << >>
      <4>1. Len(got) > 0
        BY <1>4, <3>5 DEF ImplicitTypes
      <4>2. t \in Inserted /\ t - LastBlock = Len(got)
        BY <1>4, <1>7, <3>1, <4>1
      <4> QED
        BY <1>9, <3>2, <3>3, <3>5, <4>2 DEF Placed
    <3> QED
      BY <3>4, <3>5
  <2>2. \A s \in LastBlock' + 1 .. Top' : KeyAt(s)' = s * BlockSize
    BY <1>4, <1>6, <1>7
  <2> QED
    BY <1>2, <1>7, <1>8, <1>9, <1>11, <2>1, <2>2 DEF Placed
<1>19. Counts'
  BY <1>2, <1>9, <1>10, <1>11 DEF Counts
<1>20. Remaining' = Remaining \cup new
  <2>1. PICK h \in Int, t \in Int, n \in Int : h = headIndex /\ t = tailIndex /\ n = op.count /\ h <= t /\ n > 0
    BY <1>3
  <2>2. h .. t + n - 1 = (h .. t - 1) \cup (t .. t + n - 1)
    BY <2>1
  <2>3. \A c \in Consumers : NotMoved(c)' = NotMoved(c)
    BY <1>3, WaitsFacts
  <2>4. UNION {NotMoved(c)' : c \in Consumers} = UNION {NotMoved(c) : c \in Consumers}
    BY <2>3
  <2>5. Remaining' = (h .. t + n - 1) \cup UNION {NotMoved(c) : c \in Consumers}
    BY <1>2, <2>1, <2>4 DEF Remaining
  <2>6. Remaining = (h .. t - 1) \cup UNION {NotMoved(c) : c \in Consumers} /\ new = t .. t + n - 1
    BY <2>1 DEF Remaining, new
  <2> QED
    BY <2>2, <2>5, <2>6
<1>21. Contents'
  <2>1. ASSUME NEW q \in Live, NEW i \in ItemsOf(q)
        PROVE  slots'[BlockAt(q)][i % BlockSize] = IF i \in Remaining \cup new THEN i ELSE NoItem
    <3>1. BlockAt(q) \in Blocks /\ i % BlockSize \in Offsets /\ i \in Int
      BY <1>1, LiveRange, ItemsOfNo, BlockNoOf DEF Placed
    <3>2. slots'[BlockAt(q)][i % BlockSize]
            = IF here(BlockAt(q), i % BlockSize) # {} THEN Max(here(BlockAt(q), i % BlockSize))
              ELSE slots[BlockAt(q)][i % BlockSize]
      BY <1>2, <3>1
    <3>3. slots[BlockAt(q)][i % BlockSize] = IF i \in Remaining THEN i ELSE NoItem
      BY DEF Contents
    <3> QED
      BY <1>12, <1>14, <3>1, <3>2, <3>3
  <2>2. ASSUME NEW k \in Blocks, \A e \in 1 .. Len(entries) : entries[e].value # k, NEW o \in Offsets
        PROVE  slots'[k][o] = NoItem
    <3>1. slots[k][o] = NoItem
      BY <2>2 DEF Contents
    <3>2. here(k, o) = {}
      <4>1. ASSUME NEW j \in here(k, o) PROVE FALSE
        <5>1. k = BlockAt(BlockNo(j)) /\ j \in Int
          BY <1>13
        <5>2. EntryAt(BlockNo(j)) \in 1 .. Len(entries)
          BY <1>1, <5>1, BlockNoOf, EntryPlace
        <5> QED
          BY <2>2, <5>1, <5>2 DEF BlockAt
      <4> QED
        BY <4>1
    <3> QED
      BY <1>2, <3>1, <3>2
  <2>3. ASSUME NEW q \in Live, NEW i \in ItemsOf(q)
        PROVE  slots'[BlockAt(q)'][i % BlockSize] = IF i \in Remaining' THEN i ELSE NoItem
    BY <1>9, <1>20, <2>1
  <2>4. \A k \in Blocks : (\A e \in 1 .. Len(entries') : entries'[e].value # k) =>
           \A o \in Offsets : slots'[k][o] = NoItem
    BY <1>2, <2>2
  <2> QED
    BY <1>10, <1>11, <2>3, <2>4 DEF Contents
<1>22. \A c \in Consumers : Finds(c)'
  <2>1. \A q \in Live : q <= LastBlock => EntryAt(q)' = EntryAt(q) /\ BlockAt(q)' = BlockAt(q)
    BY <1>8, <1>9
  <2>2. ASSUME NEW c \in Consumers, NEW t \in Int, pc[c] = "key", FromTail(c, t)
        PROVE  /\ EntryAt(t)' = EntryAt(t) /\ entries'[EntryAt(t)].key = t * BlockSize
               /\ \A s \in LastBlock' + 1 .. t : BlockAt(s)' # None => s \in Inserted'
    <3>1. ASSUME NEW s \in LastBlock' + 1 .. t, BlockAt(s)' # None PROVE FALSE
      <4>1. s \in LastBlock + 1 .. t /\ Top < s /\ BlockAt(s) # None
        BY <1>4, <1>6, <1>9, <3>1
      <4>2. s \in Inserted
        BY <2>2, <4>1 DEF FromTail
      <4> QED
        BY <1>4, <1>7, <4>1, <4>2
    <3> QED
      BY <1>2, <1>8, <2>2, <3>1 DEF FromTail
  <2> QED
    BY <1>1, <1>3, <1>8, <2>1, <2>2, WaitsFinds
<1>23. OneOwner'
  BY <1>2, <1>3, <1>4, <1>7, OwnersStay
<1>24. Ranges'
  <2>1. headIndex <= tailIndex'
    BY <1>3
  <2> QED
    BY <1>3, <2>1, WaitsRanges
<1> QED
  BY <1>15, <1>16, <1>17, <1>18, <1>19, <1>21, <1>22, <1>23, <1>24

-----------------------------------------------------------------------------
(* All steps together.                                                     *)

(* A new producer has an empty index and no block.                         *)
LEMMA InitPlaces == Init /\ ~isExplicit => PlacesOK
<1> SUFFICES ASSUME Init PROVE PlacesOK
  OBVIOUS
<1> DEFINE n == InitialIndexSize
           x == [i \in 0 .. n - 1 |-> i + 1]
<1>1. /\ tailIndex = 0 /\ headIndex = 0 /\ prPc = "idle" /\ op = NoCall
      /\ pc = [c \in Consumers |-> "idle"] /\ index = [c \in Consumers |-> 0]
      /\ last = [c \in Consumers |-> 0] /\ localBlockIndex = [c \in Consumers |-> 0]
      /\ indexIndex = [c \in Consumers |-> 0] /\ block = [c \in Consumers |-> None]
      /\ slots = [b \in Blocks |-> [o \in Offsets |-> NoItem]] /\ unused = Blocks /\ tailBlock = None
      /\ elementsCompletelyDequeued = [b \in Blocks |-> 0]
      /\ entries = NewEntries(n) /\ indexes = <<IndexHeader(n, n - 1, x)>> /\ got = << >>
  BY DEF Init, BaseInit, ImplicitInit
<1>2. n \in Nat \ {0}
  BY BlockSizeType
<1>3. LastBlock = -1
  <2>1. BlockSize \in Nat \ {0} /\ BlockSize - 1 \in 0 .. BlockSize - 1 /\ -1 = BlockSize * (-1) + (BlockSize - 1)
        /\ -1 \in Int
    BY BlockSizeType
  <2>2. (-1) \div BlockSize = -1
    BY <2>1, Quotient
  <2>3. tailIndex - 1 = -1
    BY <1>1
  <2> QED
    BY <2>2, <2>3 DEF LastBlock, BlockNo
<1>4. Reverted = 0 /\ Top = -1 /\ Inserted = {} /\ Live = {}
  BY <1>1, <1>3 DEF Reverted, Top, Inserted, Live
<1>5. x \in [0 .. n - 1 -> Nat] /\ \A i \in 0 .. n - 1 : x[i] = i + 1 /\ x[i] \in 1 .. n
  BY <1>2
<1>6. IndexHeader(n, n - 1, x) \in Headers
  <2>1. n - 1 \in 0 .. n - 1
    BY <1>2
  <2> HIDE DEF n, x
  <2> QED
    BY <1>2, <1>5, <2>1, HeaderMade
<1>7. Newest = IndexHeader(n, n - 1, x) /\ Len(indexes) = 1 /\ indexes[1] = IndexHeader(n, n - 1, x)
      /\ indexes \in Seq(Headers)
  BY <1>1, <1>6 DEF Newest, current
<1>8. /\ entries \in Seq(Entry) /\ Len(entries) = n /\ \A e \in 1 .. Len(entries) : entries[e].value = None
  <2>1. entries = [i \in 1 .. n |-> [key |-> 1, value |-> None]]
    BY <1>1 DEF NewEntries, InvalidBlockBase
  <2>2. [key |-> 1, value |-> None] \in Entry
    BY DEF Entry
  <2>3. entries \in [1 .. n -> Entry] /\ \A e \in 1 .. n : entries[e].value = None
    BY <2>1, <2>2
  <2>4. PICK m \in Nat : m = n
    BY <1>2
  <2> HIDE DEF n
  <2>5. entries \in [1 .. m -> Entry]
    BY <2>3, <2>4
  <2>6. entries \in Seq(Entry) /\ Len(entries) = m
    BY <2>5
  <2> QED
    BY <2>3, <2>4, <2>6
<1>9. ImplicitTypes
  <2>1. NoItem \in Int
    BY DEF NoItem
  <2> QED
    BY <1>1, <1>7, <1>8, <2>1 DEF ImplicitTypes
<1>10. Ranges
  BY <1>1 DEF Ranges, Dequeuing
<1>11. Calling
  BY <1>1 DEF Calling
<1>12. WholeIndex
  <2> HIDE DEF x, n
  <2> QED
    BY <1>2, <1>5, <1>7, <1>8 DEF WholeIndex, IndexHeader
<1>13. Placed
  <2>1. \A s \in LastBlock + 1 .. Top : FALSE
    BY <1>3, <1>4
  <2> QED
    BY <1>4, <1>8, <2>1 DEF Placed
<1>14. Counts /\ Contents
  BY <1>1, <1>4 DEF Counts, Contents
<1>15. ASSUME NEW c \in Consumers PROVE Finds(c)
  BY <1>1 DEF Finds
<1>16. OneOwner
  <2>1. \A b \in Blocks : b # None
    BY BlocksAssumption
  <2>2. \A b \in Blocks : HasBlock(b) = {} /\ FreedBy(b) = {} /\ UndoneOf(b) = {} /\ b \in unused
    BY <1>1, <1>4, <1>8, <2>1 DEF HasBlock, FreedBy, UndoneOf
  <2> QED
    BY <2>2 DEF OneOwner
<1> QED
  BY <1>9, <1>10, <1>11, <1>12, <1>13, <1>14, <1>15, <1>16 DEF PlacesOK

(* Nothing changes.                                                        *)
LEMMA PlacesStay == ASSUME TypeOK, PlacesOK, UNCHANGED vars PROVE PlacesOK'
<1> USE DEF PlacesOK
<1>1. UNCHANGED <<baseVars, implicitOnly>>
  BY DEF vars
<1>2. UNCHANGED <<claimVars, findVars, blockVars, prPc, op>> /\ UNCHANGED <<elementsCompletelyDequeued, entries, indexes, got>>
  BY <1>1 DEF baseVars, implicitOnly
<1>3. /\ Waits /\ UNCHANGED <<tailIndex, pc, index, last, localBlockIndex, indexIndex, block>>
      /\ UNCHANGED <<slots, unused, tailBlock>>
  BY <1>2 DEF claimVars, findVars, blockVars, Waits
<1>4. UNCHANGED View
  BY <1>2, <1>3 DEF View
<1>5. /\ UNCHANGED <<LastBlock, Reverted, Top, TailNo, Inserted, Newest>>
      /\ \A q : EntryAt(q)' = EntryAt(q)
  BY <1>4, SameView
<1>6. Calling'
  BY <1>3, <1>4, KeepCalling
<1>7. OneOwner'
  <2>1. \A b \in Blocks : FreedBy(b)' = FreedBy(b)
    BY <1>3, WaitsFacts
  <2> QED
    BY <1>2, <1>3, <1>4, <2>1, KeepOwner
<1>8. ImplicitTypes'
  BY <1>2, <1>3 DEF ImplicitTypes
<1>9. Widened
  BY <1>2, <1>5, IndexUnmoved
<1>10. Top \in Int /\ Top <= Top
  BY Numbers
<1>11. StartBlock' = StartBlock
  BY <1>2, <1>3 DEF StartBlock
<1> QED
  BY <1>2, <1>3, <1>5, <1>6, <1>7, <1>8, <1>9, <1>10, <1>11, NoEntryChanged

(* Each step keeps it.                                                     *)
LEMMA NextPlaces == IInv /\ IPlaces /\ [Next]_vars => IPlaces'
<1>1. ASSUME IInv, IPlaces, UNCHANGED vars PROVE IPlaces'
  <2>1. UNCHANGED isExplicit /\ UNCHANGED prPc /\ UNCHANGED pc
    BY <1>1 DEF vars, baseVars, claimVars
  <2> QED
    BY <1>1, <2>1, PlacesStay DEF IPlaces, IInv
<1>2. ASSUME isExplicit, UNCHANGED isExplicit PROVE IPlaces'
  BY <1>2 DEF IPlaces
<1>3. ASSUME IInv, IPlaces, ~isExplicit, ImplicitNext PROVE IPlaces'
  <2>1. prPc # "destroyed" /\ PlacesOK
    BY <1>3 DEF ImplicitNext, IPlaces
  <2>2. CASE Enqueue
    <3>1. PlacesOK'
      BY <1>3, <2>1, <2>2, PlacesBegin, PlacesInsertEntry, PlacesNewBlockIndex, PlacesNoIndex,
         PlacesGetBlock, PlacesNoBlock, PlacesUndoOne, PlacesFail, PlacesFill DEF Enqueue
    <3>2. PlacesOK' => prPc' # "destroyed"
      BY DEF PlacesOK, ImplicitTypes
    <3> QED
      BY <3>1, <3>2 DEF IPlaces
  <2>3. CASE Destroy
    BY <2>3 DEF Destroy, Quiescent, claimVars, IPlaces
  <2>4. ASSUME NEW c \in Consumers, Dequeue(c) PROVE IPlaces'
    <3>1. PlacesOK'
      BY <1>3, <2>1, <2>4, PlacesClaim, PlacesLocate, PlacesReadKey, PlacesMove, PlacesSetEmpty,
         PlacesUnlink, PlacesFree DEF Dequeue
    <3>2. PlacesOK' => prPc' # "destroyed"
      BY DEF PlacesOK, ImplicitTypes
    <3> QED
      BY <3>1, <3>2 DEF IPlaces
  <2> QED
    BY <1>3, <2>2, <2>3, <2>4 DEF ImplicitNext
<1> QED
  BY <1>1, <1>2, <1>3 DEF Next

(* The blocks of an implicit producer and the ways to them hold together   *)
(* at every step.                                                          *)
THEOREM PlacesInvariance == Spec => [](IInv /\ IPlaces)
<1>1. Init => IPlaces
  <2>1. Init => prPc # "destroyed"
    BY DEF Init, BaseInit
  <2> QED
    BY <2>1, InitPlaces DEF IPlaces
<1> QED
  BY <1>1, InitIInv, NextIInv, NextPlaces, PTL DEF Spec

-----------------------------------------------------------------------------
(* The block an implicit producer's consumer has located holds what the    *)
(* consumer has claimed.                                                   *)
LEMMA LocatedHolds == ASSUME IInv, PlacesOK PROVE ImplicitRightItem
<1> USE DEF PlacesOK
<1>1. TypeOK
  BY DEF IInv
<1>2. ASSUME NEW c \in Consumers, pc[c] = "move", NEW i \in Claimed(c)
      PROVE  slots[Located(c)][i % BlockSize] = i
  <2>1. /\ BlockNo(index[c]) \in Live /\ Located(c) = BlockAt(BlockNo(index[c]))
        /\ i \in ItemsOf(BlockNo(index[c]))
    BY <1>1, <1>2, FoundEntry
  <2>2. i \in NotMoved(c)
    <3>1. /\ index[c] \in Nat /\ last[c] \in Nat /\ EndIndex(c) \in Nat /\ EndIndex(c) <= last[c]
      BY <1>1, <1>2, ClaimOf DEF Dequeuing
    <3>2. i \in index[c] .. last[c] - 1
      BY <1>2, <3>1 DEF Claimed
    <3> QED
      BY <1>2, <3>2 DEF NotMoved
  <2>3. i \in Remaining
    BY <2>2 DEF Remaining
  <2> QED
    BY <2>1, <2>3 DEF Contents
<1> QED
  BY <1>2 DEF ImplicitRightItem

(* The entry a consumer has found leads to the block that holds what it    *)
(* has claimed, although entries are given to new blocks and indices are   *)
(* replaced meanwhile, and insertions undone.                              *)
THEOREM ImplicitFindsItems == Spec => [](~isExplicit => RightItem)
<1>1. IInv /\ IPlaces => (~isExplicit => RightItem)
  <2>1. ASSUME IInv, IPlaces, ~isExplicit, prPc = "destroyed" PROVE ImplicitRightItem
    BY <2>1 DEF IPlaces, ImplicitRightItem
  <2> QED
    BY <2>1, LocatedHolds DEF IPlaces, RightItem
<1> QED
  BY <1>1, PlacesInvariance, PTL

-----------------------------------------------------------------------------
(* Each item that is left is in the slot its index says, and nothing else  *)
(* is in any slot.                                                         *)
LEMMA LeftItem ==
  ASSUME TypeOK, PlacesOK, NEW i \in Remaining
  PROVE  /\ i \in Nat /\ BlockNo(i) \in Live /\ BlockAt(BlockNo(i)) \in Blocks /\ i % BlockSize \in Offsets
         /\ slots[BlockAt(BlockNo(i))][i % BlockSize] = i
<1> USE DEF PlacesOK
<1>1. headIndex \in Nat /\ tailIndex \in Nat /\ headIndex <= tailIndex
  BY DEF TypeOK, Ranges
<1>2. i \in Nat /\ BlockNo(i) \in Live
  <2>1. CASE i \in headIndex .. tailIndex - 1
    <3>1. i \in Nat /\ i < tailIndex /\ i \notin Taken(BlockNo(i))
      BY <1>1, <2>1 DEF Taken
    <3> QED
      BY <3>1, LiveIfLeft
  <2>2. CASE \E c \in Consumers : i \in NotMoved(c)
    <3>1. PICK c \in Consumers : i \in Pending(c)
      BY <2>2, PendingFacts
    <3>2. i \in Nat
      BY <3>1, PendingFacts
    <3> QED
      BY <3>1, <3>2, LiveIfPending
  <2> QED
    BY <2>1, <2>2 DEF Remaining
<1>3. i \in Int /\ i \in ItemsOf(BlockNo(i)) /\ i % BlockSize \in Offsets
  BY <1>2, BlockNoOf, ItemsOfNo
<1> QED
  BY <1>2, <1>3 DEF Placed, Contents

LEMMA FilledSlot ==
  ASSUME TypeOK, PlacesOK, NEW b \in Blocks, NEW o \in Offsets, slots[b][o] # NoItem
  PROVE  /\ slots[b][o] \in Remaining
         /\ b = BlockAt(BlockNo(slots[b][o])) /\ o = slots[b][o] % BlockSize
<1> USE DEF PlacesOK
<1>1. PICK e \in 1 .. Len(entries) : entries[e].value = b
  BY DEF Contents
<1>2. PICK q \in Live : e = EntryAt(q)
  BY <1>1, BlocksAssumption DEF Placed
<1>3. q \in Int /\ BlockAt(q) = b
  BY <1>1, <1>2, LiveRange DEF BlockAt
<1>4. PICK i \in ItemsOf(q) : i % BlockSize = o /\ BlockNo(i) = q
  BY <1>3, ItemsOfNo
<1>5. slots[b][o] = IF i \in Remaining THEN i ELSE NoItem
  BY <1>3, <1>4 DEF Contents
<1>6. slots[b][o] = i /\ i \in Remaining
  BY <1>5
<1> QED
  BY <1>3, <1>4, <1>6

LEMMA FilledIsLeft ==
  ASSUME TypeOK, PlacesOK
  PROVE  /\ Filled = {<<BlockAt(BlockNo(i)), i % BlockSize>> : i \in Remaining}
         /\ {slots[f[1]][f[2]] : f \in Filled} = Remaining
         /\ Cardinality(Filled) = Cardinality(Remaining)
<1>1. ASSUME NEW i \in Remaining
      PROVE  /\ <<BlockAt(BlockNo(i)), i % BlockSize>> \in Filled
             /\ slots[BlockAt(BlockNo(i))][i % BlockSize] = i
  <2>1. i \in Nat /\ BlockAt(BlockNo(i)) \in Blocks /\ i % BlockSize \in Offsets
        /\ slots[BlockAt(BlockNo(i))][i % BlockSize] = i
    BY LeftItem
  <2>2. i # NoItem
    BY <2>1 DEF NoItem
  <2> QED
    BY <2>1, <2>2 DEF Filled
<1>2. ASSUME NEW f \in Filled
      PROVE  /\ slots[f[1]][f[2]] \in Remaining
             /\ f = <<BlockAt(BlockNo(slots[f[1]][f[2]])), slots[f[1]][f[2]] % BlockSize>>
  <2>1. PICK b \in Blocks, o \in Offsets : f = <<b, o>> /\ slots[b][o] # NoItem
    BY DEF Filled
  <2>2. /\ slots[b][o] \in Remaining /\ b = BlockAt(BlockNo(slots[b][o])) /\ o = slots[b][o] % BlockSize
    BY <2>1, FilledSlot
  <2> QED
    BY <2>1, <2>2
<1>3. Filled = {<<BlockAt(BlockNo(i)), i % BlockSize>> : i \in Remaining}
  BY <1>1, <1>2
<1>4. {slots[f[1]][f[2]] : f \in Filled} = Remaining
  <2>1. ASSUME NEW i \in Remaining PROVE \E f \in Filled : slots[f[1]][f[2]] = i
    <3>1. PICK f : f = <<BlockAt(BlockNo(i)), i % BlockSize>>
      OBVIOUS
    <3>2. f \in Filled /\ slots[f[1]][f[2]] = i
      BY <1>1, <3>1
    <3> QED
      BY <3>2
  <2> QED
    BY <1>2, <2>1
<1>5. Cardinality(Filled) = Cardinality(Remaining)
  <2> DEFINE g == [f \in Filled |-> slots[f[1]][f[2]]]
  <2>1. IsFiniteSet(Filled)
    <3>1. IsFiniteSet(Offsets)
      BY BlockSizeType, FS_Interval DEF Offsets
    <3>2. IsFiniteSet(Blocks \X Offsets)
      BY <3>1, BlocksAssumption, FS_Product
    <3>3. Filled \in SUBSET (Blocks \X Offsets)
      BY DEF Filled
    <3> QED
      BY <3>2, <3>3, FS_Subset
  <2>2. g \in [Filled -> Remaining]
    BY <1>2
  <2>3. \A x, y \in Filled : g[x] = g[y] => x = y
    BY <1>2
  <2>4. \A i \in Remaining : \E f \in Filled : g[f] = i
    <3>1. \A i \in Remaining : \E f \in Filled : slots[f[1]][f[2]] = i
      BY <1>4
    <3> QED
      BY <3>1
  <2> HIDE DEF g
  <2> QED
    BY <2>1, <2>2, <2>3, <2>4, SameSize
<1> QED
  BY <1>3, <1>4, <1>5

(* Nothing is lost or there twice in the blocks of an implicit producer.   *)
THEOREM ImplicitKeepsItems == Spec => [](~isExplicit => ItemsIntact)
<1>1. ASSUME IInv, IPlaces, ~isExplicit PROVE ItemsIntact
  <2>1. CASE prPc = "destroyed"
    BY <2>1 DEF ItemsIntact
  <2>2. CASE prPc # "destroyed"
    <3>1. TypeOK /\ PlacesOK
      BY <1>1, <2>2 DEF IPlaces, IInv
    <3> QED
      BY <3>1, FilledIsLeft DEF ItemsIntact, Remaining
  <2> QED
    BY <2>1, <2>2
<1> QED
  BY <1>1, PlacesInvariance, PTL

-----------------------------------------------------------------------------
(* What follows: the blocks.                                               *)

(* The blocks a set of entries, consumers or numbers stands for, when no   *)
(* two of them stand for the same one.                                     *)
LEMMA OwnersCounted ==
  ASSUME NEW S, IsFiniteSet(S), NEW f \in [S -> Blocks], \A x, y \in S : f[x] = f[y] => x = y
  PROVE  IsFiniteSet({f[x] : x \in S}) /\ Cardinality({f[x] : x \in S}) = Cardinality(S)
<1>1. f \in [S -> {f[x] : x \in S}]
  OBVIOUS
<1>2. \A z \in {f[x] : x \in S} : \E x \in S : f[x] = z
  OBVIOUS
<1> HIDE <1>1
<1> QED
  BY <1>1, <1>2, SameSize

LEMMA OwnersApart == ASSUME TypeOK, PlacesOK, prPc # "destroyed" PROVE ImplicitBlockOwnedOnce
<1> USE DEF PlacesOK
<1>1. Undone = 1 .. Reverted /\ Reverted \in Nat /\ Reverted <= Len(got) /\ Len(got) \in Nat
  <2>1. BaseOf(tailIndex - 1) = LastBlock * BlockSize /\ Reverted \in Nat /\ Reverted <= Len(got) /\ Len(got) \in Nat
        /\ (prPc # "undo" => Reverted = 0)
    BY Numbers
  <2>2. prPc = "undo" => Undone = 1 .. Reverted
    BY <2>1 DEF Undone, Reverted
  <2>3. prPc # "undo" => Undone = 1 .. Reverted
    BY <2>1 DEF Undone
  <2> QED
    BY <2>1, <2>2, <2>3
<1> DEFINE f == [e \in Linked |-> entries[e].value]
           g == [c \in FreedSoon |-> block[c]]
           h == [k \in Undone |-> got[k]]
           F == {f[e] : e \in Linked}
           G == {g[c] : c \in FreedSoon}
           H == {h[k] : k \in Undone}
<1>2. /\ DOMAIN entries = 1 .. Len(entries) /\ Len(entries) \in Nat
      /\ \A e \in 1 .. Len(entries) : entries[e].value \in Blocks \cup {None}
      /\ got \in Seq(Blocks) /\ unused \subseteq Blocks
  <2>1. entries \in Seq(Entry) /\ got \in Seq(Blocks) /\ unused \subseteq Blocks
    BY DEF ImplicitTypes
  <2>2. \A x \in Entry : x.value \in Blocks \cup {None}
    BY DEF Entry
  <2>3. DOMAIN entries = 1 .. Len(entries) /\ Len(entries) \in Nat /\ \A e \in 1 .. Len(entries) : entries[e] \in Entry
    BY <2>1
  <2> QED
    BY <2>1, <2>2, <2>3
<1>3. /\ F = {entries[e].value : e \in Linked} /\ G = {block[c] : c \in FreedSoon} /\ H = {got[k] : k \in Undone}
  OBVIOUS
<1>4. /\ f \in [Linked -> Blocks] /\ g \in [FreedSoon -> Blocks] /\ h \in [Undone -> Blocks]
      /\ Linked \subseteq 1 .. Len(entries) /\ FreedSoon \subseteq Consumers
  <2>1. f \in [Linked -> Blocks] /\ Linked \subseteq 1 .. Len(entries)
    BY <1>2 DEF Linked
  <2>2. g \in [FreedSoon -> Blocks] /\ FreedSoon \subseteq Consumers
    BY DEF FreedSoon, Finds
  <2>3. h \in [Undone -> Blocks]
    <3>1. \A k \in 1 .. Reverted : k \in 1 .. Len(got)
      BY <1>1
    <3>2. \A k \in 1 .. Reverted : got[k] \in Blocks
      BY <1>2, <3>1
    <3> QED
      BY <1>1, <3>2
  <2> QED
    BY <2>1, <2>2, <2>3
<1>5. /\ IsFiniteSet(Linked) /\ IsFiniteSet(FreedSoon) /\ IsFiniteSet(Undone) /\ IsFiniteSet(unused)
  <2>1. IsFiniteSet(1 .. Len(entries)) /\ IsFiniteSet(1 .. Reverted)
    BY <1>1, <1>2, FS_Interval
  <2>2. Linked \in SUBSET (1 .. Len(entries)) /\ FreedSoon \in SUBSET Consumers /\ unused \in SUBSET Blocks
    BY <1>2, <1>4
  <2>3. IsFiniteSet(Linked) /\ IsFiniteSet(FreedSoon) /\ IsFiniteSet(unused)
    BY <2>1, <2>2, FS_Subset, ConsumersAssumption, BlocksAssumption
  <2> QED
    BY <1>1, <2>1, <2>3
<1>6. \A b \in Blocks : /\ b \in F <=> HasBlock(b) # {}
                        /\ b \in G <=> FreedBy(b) # {}
                        /\ b \in H <=> UndoneOf(b) # {}
  <2>1. ASSUME NEW b \in Blocks PROVE b \in F <=> HasBlock(b) # {}
    BY <1>2, <1>3, BlocksAssumption DEF HasBlock, Linked
  <2>2. ASSUME NEW b \in Blocks PROVE b \in G <=> FreedBy(b) # {}
    BY <1>3 DEF FreedBy, FreedSoon
  <2>3. ASSUME NEW b \in Blocks PROVE b \in H <=> UndoneOf(b) # {}
    BY <1>1, <1>3 DEF UndoneOf
  <2> QED
    BY <2>1, <2>2, <2>3
<1>7. /\ \A d, e \in Linked : f[d] = f[e] => d = e
      /\ \A c, d \in FreedSoon : g[c] = g[d] => c = d
      /\ \A k, l \in Undone : h[k] = h[l] => k = l
  <2>1. ASSUME NEW d \in Linked, NEW e \in Linked, f[d] = f[e] PROVE d = e
    <3>1. f[d] \in Blocks /\ d \in HasBlock(f[d]) /\ e \in HasBlock(f[d])
      BY <1>4, <2>1 DEF HasBlock
    <3> HIDE DEF f
    <3> QED
      BY <3>1 DEF OneOwner
  <2>2. ASSUME NEW c \in FreedSoon, NEW d \in FreedSoon, g[c] = g[d] PROVE c = d
    <3>1. g[c] \in Blocks /\ c \in FreedBy(g[c]) /\ d \in FreedBy(g[c])
      BY <1>4, <2>2 DEF FreedBy, FreedSoon
    <3> HIDE DEF g
    <3> QED
      BY <3>1 DEF OneOwner
  <2>3. ASSUME NEW k \in Undone, NEW l \in Undone, h[k] = h[l] PROVE k = l
    <3>1. h[k] \in Blocks /\ k \in UndoneOf(h[k]) /\ l \in UndoneOf(h[k])
      BY <1>1, <1>4, <2>3 DEF UndoneOf
    <3> HIDE DEF h
    <3> QED
      BY <3>1 DEF OneOwner
  <2> QED
    BY <2>1, <2>2, <2>3
<1> HIDE DEF f, g, h
<1>8. /\ IsFiniteSet(F) /\ Cardinality(F) = Cardinality(Linked)
      /\ IsFiniteSet(G) /\ Cardinality(G) = Cardinality(FreedSoon)
      /\ IsFiniteSet(H) /\ Cardinality(H) = Cardinality(Undone)
  <2>1. IsFiniteSet(F) /\ Cardinality(F) = Cardinality(Linked)
    BY <1>4, <1>5, <1>7, OwnersCounted
  <2>2. IsFiniteSet(G) /\ Cardinality(G) = Cardinality(FreedSoon)
    BY <1>4, <1>5, <1>7, OwnersCounted
  <2>3. IsFiniteSet(H) /\ Cardinality(H) = Cardinality(Undone)
    BY <1>4, <1>5, <1>7, OwnersCounted
  <2> QED
    BY <2>1, <2>2, <2>3
<1>9. F \subseteq Blocks /\ G \subseteq Blocks /\ H \subseteq Blocks
  BY <1>4
<1> HIDE DEF F, G, H
<1>10. /\ unused \cup F \cup (G \cup H) = Blocks
       /\ unused \cap F = {} /\ G \cap H = {} /\ (unused \cup F) \cap (G \cup H) = {}
  BY <1>2, <1>6, <1>9 DEF OneOwner
<1>11. /\ IsFiniteSet(unused \cup F) /\ Cardinality(unused \cup F) = Cardinality(unused) + Cardinality(F)
       /\ IsFiniteSet(G \cup H) /\ Cardinality(G \cup H) = Cardinality(G) + Cardinality(H)
  BY <1>5, <1>8, <1>10, ApartSize
<1>12. Cardinality(Blocks) = Cardinality(unused \cup F) + Cardinality(G \cup H)
  BY <1>10, <1>11, ApartSize
<1>13. PICK k \in Nat, l \in Nat, m \in Nat, n \in Nat :
         k = Cardinality(unused) /\ l = Cardinality(F) /\ m = Cardinality(G) /\ n = Cardinality(H)
  BY <1>5, <1>8, FS_CardinalityType
<1>14. Cardinality(unused) + Cardinality(Linked) + Cardinality(FreedSoon) + Cardinality(Undone) = Cardinality(Blocks)
  <2>1. (k + l) + (m + n) = k + l + m + n
    OBVIOUS
  <2> QED
    BY <1>8, <1>11, <1>12, <1>13, <2>1
<1> QED
  BY <1>3, <1>10, <1>14 DEF ImplicitBlockOwnedOnce

(* No block of an implicit producer is lost or in two places, whatever the *)
(* consumers give back while the producer takes blocks and undoes.         *)
THEOREM ImplicitOwnsBlocks == Spec => []BlockOwnedOnce
<1>1. ASSUME IInv, IPlaces PROVE BlockOwnedOnce
  <2>1. CASE prPc = "destroyed"
    BY <2>1 DEF BlockOwnedOnce, ImplicitBlockOwnedOnce
  <2>2. CASE prPc # "destroyed"
    BY <1>1, <2>2, OwnersApart DEF BlockOwnedOnce, IPlaces, IInv
  <2> QED
    BY <2>1, <2>2
<1> QED
  BY <1>1, PlacesInvariance, PTL

-----------------------------------------------------------------------------
(* What follows: the destructor.                                           *)

(* Between the calls: the entry the destructor computes for an item.       *)
LEMMA RestingEntry ==
  ASSUME TypeOK, PlacesOK, prPc = "idle", NEW i \in headIndex .. tailIndex - 1
  PROVE  EntryFor(i) = EntryAt(BlockNo(i)) /\ LastBlock \in Live
<1> USE DEF PlacesOK
<1>1. tailIndex \in Nat /\ headIndex \in Nat /\ i \in Int /\ headIndex <= tailIndex - 1 /\ tailIndex > 0
  BY DEF TypeOK
<1>2. PICK l \in Int : l = LastBlock
  BY Numbers
<1>3. Top = l /\ TailNo = l
  BY <1>2, Numbers DEF Top, TailNo, Calling
<1>4. l \in Live
  <2>1. tailIndex - 1 \in Nat /\ tailIndex - 1 < tailIndex /\ BlockNo(tailIndex - 1) = l
    BY <1>1, <1>2 DEF LastBlock
  <2>2. tailIndex - 1 \notin Taken(l)
    BY <1>1 DEF Taken
  <2> QED
    BY <2>1, <2>2, LiveIfLeft
<1>5. KeyAt(l) = l * BlockSize
  <2>1. l \in l .. Top
    BY <1>3
  <2> QED
    BY <1>4, <2>1 DEF Placed
<1>6. entries[Newest.index[Newest.tail]].key = l * BlockSize
  <2>1. EntryAt(TailNo) = Newest.index[Newest.tail]
    BY EntryOfTail
  <2> QED
    BY <1>3, <1>5, <2>1 DEF KeyAt
<1>7. PICK q \in Int : q = BlockNo(i) /\ BaseOf(i) = q * BlockSize
  BY <1>1, BlockNoOf
<1>8. (q * BlockSize - l * BlockSize) \div BlockSize = q - l
  <2>1. PICK d \in Int : d = q - l
    OBVIOUS
  <2>2. BlockSize \in Nat \ {0} /\ 0 \in 0 .. BlockSize - 1
    BY BlockSizeType
  <2>3. q * BlockSize - l * BlockSize = BlockSize * d + 0 /\ q * BlockSize - l * BlockSize \in Int
    BY <2>1, <2>2
  <2> QED
    BY <2>1, <2>2, <2>3, Quotient
<1>9. EntryFor(i) = EntryAt(q)
  BY <1>3, <1>6, <1>7, <1>8 DEF EntryFor, Place, EntryAt
<1> QED
  BY <1>2, <1>4, <1>7, <1>9

(* Between the calls a block is live if it holds an item from headIndex on. *)
LEMMA RestingBlocks ==
  ASSUME TypeOK, PlacesOK, Quiescent, NEW q \in Int
  PROVE  q \in Live <=> 0 <= q /\ q <= LastBlock /\ \E i \in ItemsOf(q) : headIndex <= i
<1> USE DEF PlacesOK
<1>1. prPc = "idle" /\ \A c \in Consumers : pc[c] = "idle"
  BY DEF Quiescent
<1>2. LastBlock \in Int /\ Inserted = {} /\ headIndex \in Nat
  <2>1. LastBlock \in Int /\ Reverted = 0 /\ Len(got) = 0
    BY <1>1, Numbers DEF Calling
  <2> QED
    BY <2>1 DEF Inserted, TypeOK
<1>3. \A c \in Consumers : Pending(c) = {} /\ ~Unlinks(c, q)
  BY <1>1 DEF Pending, Unlinks
<1>4. Taken(q) = {i \in ItemsOf(q) : i < headIndex}
  BY <1>3 DEF Taken
<1>5. Gone(q) <=> \A i \in ItemsOf(q) : i < headIndex
  BY <1>3, <1>4 DEF Gone
<1>6. \A i \in ItemsOf(q) : i \in Int
  BY ItemsOfNo
<1> QED
  BY <1>2, <1>5, <1>6 DEF Live

(* The block at the tail is live unless all its items were dequeued.       *)
LEMMA RestingTail ==
  ASSUME TypeOK, PlacesOK, Quiescent
  PROVE  LastBlock \in Live <=> 0 <= LastBlock /\ (headIndex # tailIndex \/ tailIndex % BlockSize # 0)
<1> USE DEF PlacesOK
<1>1. tailIndex \in Nat /\ headIndex \in Nat /\ headIndex <= tailIndex
  BY DEF TypeOK, Ranges
<1>2. PICK l \in Int : l = LastBlock /\ l >= -1
  BY Numbers
<1>3. BlockSize \in Nat \ {0} /\ l * BlockSize \in Int
  BY BlockSizeType
<1>4. tailIndex - 1 \in ItemsOf(l) /\ tailIndex - 1 \in Int
  BY <1>1, <1>2, ItemsOfNo DEF LastBlock
<1>5. PICK t \in Int : t = tailIndex /\ l * BlockSize <= t - 1 /\ t - 1 <= l * BlockSize + BlockSize - 1
  BY <1>1, <1>3, <1>4 DEF ItemsOf
<1>6. l \in Live <=> 0 <= l /\ \E i \in ItemsOf(l) : headIndex <= i
  BY <1>2, RestingBlocks
<1>7. ASSUME headIndex # tailIndex PROVE \E i \in ItemsOf(l) : headIndex <= i
  <2>1. headIndex <= tailIndex - 1
    BY <1>1, <1>7
  <2> QED
    BY <1>4, <2>1
<1>8. ASSUME tailIndex % BlockSize # 0 PROVE \E i \in ItemsOf(l) : headIndex <= i
  <2>1. t # (l + 1) * BlockSize
    <3>1. ASSUME t = (l + 1) * BlockSize PROVE FALSE
      <4>1. t = BlockSize * (l + 1) + 0 /\ 0 \in 0 .. BlockSize - 1 /\ l + 1 \in Int
        BY <1>3, <3>1
      <4>2. t % BlockSize = 0
        BY <1>3, <4>1, Quotient
      <4> QED
        BY <1>5, <1>8, <4>2
    <3> QED
      BY <3>1
  <2>2. (l + 1) * BlockSize = l * BlockSize + BlockSize
    BY ItemsOfNo
  <2>3. t \in ItemsOf(l)
    BY <1>3, <1>5, <2>1, <2>2 DEF ItemsOf
  <2> QED
    BY <1>1, <1>5, <2>3
<1>9. ASSUME headIndex = tailIndex, tailIndex % BlockSize = 0, NEW i \in ItemsOf(l), headIndex <= i PROVE FALSE
  <2>1. PICK k \in Int : k = BlockNo(t) /\ t = k * BlockSize
    <3>1. t = BlockNo(t) * BlockSize + (t % BlockSize) /\ BlockNo(t) \in Int
      BY <1>5, BlockNoOf
    <3>2. BlockNo(t) * BlockSize \in Int /\ t % BlockSize = 0
      BY <1>3, <1>5, <1>9, <3>1
    <3> QED
      BY <3>1, <3>2
  <2>2. i \in Int /\ t <= i /\ l * BlockSize <= i /\ i <= l * BlockSize + BlockSize - 1
    BY <1>3, <1>5, <1>9 DEF ItemsOf
  <2>3. BlockNo(i) = l /\ k = BlockNo(t) /\ k <= l
    <3>1. BlockNo(i) = l
      BY <1>9, <2>2, ItemsOfNo
    <3> QED
      BY <1>5, <2>1, <2>2, <3>1, BlockNoMonotone
  <2>4. k * BlockSize <= l * BlockSize
    <3>1. k < l => BlockSize * k + BlockSize <= BlockSize * l
      BY <1>3, Laps
    <3>2. BlockSize * k = k * BlockSize /\ BlockSize * l = l * BlockSize /\ k * BlockSize \in Int
      BY <1>3
    <3> QED
      BY <1>3, <2>3, <3>1, <3>2
  <2> QED
    BY <1>3, <1>5, <2>1, <2>4
<1> QED
  BY <1>2, <1>6, <1>7, <1>8, <1>9

LEMMA RestIsDestroyed ==
  ASSUME TypeOK, PlacesOK, Quiescent
  PROVE  Destroyed = Filled /\ Freed = Blocks \ unused
<1> USE DEF PlacesOK
<1>1. prPc = "idle" /\ (\A c \in Consumers : pc[c] = "idle") /\ tailIndex \in Nat /\ headIndex \in Nat
  BY DEF Quiescent, TypeOK
<1>2. Remaining = headIndex .. tailIndex - 1
  <2>1. \A c \in Consumers : NotMoved(c) = {}
    BY <1>1 DEF NotMoved
  <2> QED
    BY <2>1 DEF Remaining
<1>3. \A i \in headIndex .. tailIndex - 1 : EntryFor(i) = EntryAt(BlockNo(i)) /\ LastBlock \in Live
  BY <1>1, RestingEntry
<1>4. Destroyed = Filled
  <2>1. Filled = {<<BlockAt(BlockNo(i)), i % BlockSize>> : i \in headIndex .. tailIndex - 1}
    BY <1>2, FilledIsLeft
  <2>2. \A i \in headIndex .. tailIndex - 1 : entries[EntryFor(i)].value = BlockAt(BlockNo(i))
    BY <1>3 DEF BlockAt
  <2> QED
    BY <2>1, <2>2 DEF Destroyed
<1>5. PICK l \in Int : l = LastBlock /\ l >= -1 /\ BaseOf(tailIndex - 1) = l * BlockSize /\ l * BlockSize \in Int
  BY Numbers
<1>6. l * BlockSize <= tailIndex - 1
  <2>1. tailIndex - 1 \in Int /\ BlockNo(tailIndex - 1) = l
    BY <1>1, <1>5 DEF LastBlock
  <2>2. tailIndex - 1 \in ItemsOf(l)
    BY <2>1, ItemsOfNo
  <2> QED
    BY <1>5, <2>2, BlockSizeType DEF ItemsOf
<1>7. FreedFirst = {BlockAt(q) : q \in Live \ {l}}
  <2>1. ASSUME NEW i \in headIndex .. l * BlockSize - 1
        PROVE  BlockNo(i) \in Live \ {l} /\ entries[EntryFor(i)].value = BlockAt(BlockNo(i))
    <3>1. i \in headIndex .. tailIndex - 1 /\ i \in Int /\ i >= 0 /\ i < l * BlockSize /\ headIndex <= i
      BY <1>1, <1>5, <1>6
    <3>2. PICK q \in Int : q = BlockNo(i) /\ q >= 0 /\ i \in ItemsOf(q)
      BY <3>1, BlockNoOf, ItemsOfNo
    <3>3. q <= l
      <4>1. BlockNo(i) <= BlockNo(l * BlockSize)
        BY <1>5, <3>1, BlockNoMonotone
      <4> QED
        BY <3>2, <4>1, ItemsOfNo
    <3>4. q # l
      BY <1>5, <3>1, <3>2, BlockSizeType DEF ItemsOf
    <3>5. q \in Live
      BY <1>5, <3>1, <3>2, <3>3, RestingBlocks
    <3> QED
      BY <1>3, <3>1, <3>2, <3>4, <3>5 DEF BlockAt
  <2>2. ASSUME NEW q \in Live, q # l
        PROVE  \E i \in headIndex .. l * BlockSize - 1 : entries[EntryFor(i)].value = BlockAt(q)
    <3>1. q \in Int
      BY LiveRange
    <3>2. PICK i \in ItemsOf(q) : headIndex <= i
      BY <3>1, RestingBlocks
    <3>3. 0 <= q /\ q <= l
      BY <1>5, <3>1, RestingBlocks
    <3>4. i \in Int /\ BlockNo(i) = q /\ i <= q * BlockSize + BlockSize - 1
      BY <3>1, <3>2, ItemsOfNo, BlockSizeType DEF ItemsOf
    <3>5. q * BlockSize + BlockSize <= l * BlockSize
      <4>1. BlockSize * q + BlockSize <= BlockSize * l
        BY <2>2, <3>1, <3>3, BlockSizeType, Laps
      <4>2. BlockSize * q = q * BlockSize /\ BlockSize * l = l * BlockSize
        BY <3>1, BlockSizeType
      <4> QED
        BY <4>1, <4>2
    <3>6. i \in headIndex .. l * BlockSize - 1
      <4>1. PICK a \in Int, b \in Int : a = q * BlockSize /\ b = l * BlockSize
        BY <1>5, <3>1, ItemsOfNo
      <4> QED
        BY <1>1, <3>2, <3>4, <3>5, <4>1, BlockSizeType
    <3>7. i \in headIndex .. tailIndex - 1
      BY <1>1, <1>5, <1>6, <3>6
    <3>8. entries[EntryFor(i)].value = BlockAt(q)
      BY <1>3, <3>4, <3>7 DEF BlockAt
    <3> QED
      BY <3>6, <3>8
  <2>3. FreedFirst = {entries[EntryFor(i)].value : i \in headIndex .. l * BlockSize - 1}
    BY <1>5 DEF FreedFirst
  <2> QED
    BY <2>1, <2>2, <2>3
<1>8. FreedLast = {BlockAt(q) : q \in Live \cap {l}}
  <2>1. l \in Live => tailBlock = BlockAt(l) /\ BlockAt(l) \in Blocks /\ BlockAt(l) # None
    BY <1>1, <1>5, BlocksAssumption DEF Placed, StartBlock
  <2>2. l \in Live <=> 0 <= l /\ (headIndex # tailIndex \/ tailIndex % BlockSize # 0)
    BY <1>5, RestingTail
  <2>3. (headIndex # tailIndex \/ tailIndex % BlockSize # 0) => 0 <= l
    <3>1. headIndex <= tailIndex
      BY DEF Ranges
    <3>2. 0 \div BlockSize = 0 /\ 0 % BlockSize = 0
      <4>1. BlockSize \in Nat \ {0} /\ 0 \in 0 .. BlockSize - 1 /\ 0 = BlockSize * 0 + 0
        BY BlockSizeType
      <4> QED
        BY <4>1, Quotient
    <3>3. (headIndex # tailIndex \/ tailIndex % BlockSize # 0) => tailIndex > 0
      BY <1>1, <3>1, <3>2
    <3> QED
      BY <1>5, <3>3, Numbers
  <2> QED
    BY <2>1, <2>2, <2>3 DEF FreedLast
<1>9. Freed = {BlockAt(q) : q \in Live}
  BY <1>7, <1>8 DEF Freed
<1>10. ASSUME NEW b \in Blocks PROVE b \notin unused <=> b \in {BlockAt(q) : q \in Live}
  <2>1. FreedBy(b) = {} /\ UndoneOf(b) = {}
    <3>1. Reverted = 0
      BY <1>1 DEF Reverted
    <3> QED
      BY <1>1, <3>1 DEF FreedBy, UndoneOf
  <2>2. b \notin unused <=> HasBlock(b) # {}
    BY <2>1 DEF OneOwner
  <2>3. ASSUME NEW e \in HasBlock(b) PROVE b \in {BlockAt(q) : q \in Live}
    <3>1. e \in 1 .. Len(entries) /\ entries[e].value = b /\ b # None
      BY BlocksAssumption DEF HasBlock
    <3>2. PICK q \in Live : e = EntryAt(q)
      BY <3>1 DEF Placed
    <3> QED
      BY <3>1, <3>2 DEF BlockAt
  <2>4. ASSUME NEW q \in Live, b = BlockAt(q) PROVE HasBlock(b) # {}
    <3>1. q \in Int
      BY LiveRange
    <3>2. EntryAt(q) \in 1 .. Len(entries)
      BY <3>1, EntryPlace
    <3> QED
      BY <2>4, <3>2 DEF HasBlock, BlockAt
  <2> QED
    BY <2>2, <2>3, <2>4
<1>11. \A q \in Live : BlockAt(q) \in Blocks
  BY DEF Placed
<1>12. Freed = Blocks \ unused
  BY <1>9, <1>10, <1>11
<1> QED
  BY <1>4, <1>12

(* The destructor of an implicit producer destroys exactly the items that  *)
(* are left and gives back exactly the blocks the queue still has.         *)
THEOREM ImplicitDestroysAll == Spec => [](~isExplicit => DestroysRest)
<1>1. ASSUME IInv, IPlaces, ~isExplicit PROVE ImplicitDestroysRest
  <2>1. Quiescent => prPc = "idle"
    BY DEF Quiescent
  <2>2. Quiescent => TypeOK /\ PlacesOK
    BY <1>1, <2>1 DEF IInv, IPlaces
  <2> QED
    BY <2>2, RestIsDestroyed DEF ImplicitDestroysRest
<1>2. IInv /\ IPlaces => (~isExplicit => DestroysRest)
  BY <1>1 DEF DestroysRest
<1> QED
  BY <1>2, PlacesInvariance, PTL
=============================================================================
