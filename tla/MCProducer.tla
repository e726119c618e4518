----------------------------- MODULE MCProducer -----------------------------
(***************************************************************************)
(* Producer for TLC: blocks of two items, an index that begins with two    *)
(* places.                                                                 *)
(***************************************************************************)
EXTENDS Producer

Call(count, canAlloc) == [count |-> count, canAlloc |-> canAlloc]

(* Single items, and more than a block, with memory for all of it.         *)
Calls == {Call(1, TRUE), Call(1, FALSE), Call(3, TRUE)}

(* ... and a call that needs two blocks but gets at most those of the pool.*)
FailingCalls == Calls \cup {Call(4, FALSE)}

(* dequeueOptimisticCount and dequeueOvercommit matter only relative to    *)
(* each other: states that differ by a shift of both are one state.        *)
Counting == {c \in Consumers : pc[c] \in {"count", "recheck"}}
Origin   == Min({dequeueOvercommit} \cup {overcommit[c] : c \in Counting})
Shifted  == <<dequeueOptimisticCount - Origin, dequeueOvercommit - Origin,
              [c \in Counting |-> overcommit[c] - Origin],
              [c \in Counting |-> IF pc[c] = "recheck" THEN myDequeueCount[c] - Origin ELSE 0]>>

View == <<Shifted, tailIndex, headIndex, headSees, pc, spurious, desiredCount, actualCount,
          index, last, sees, findVars, blockVars, prPc, op,
          isExplicit, explicitParts, implicitOnly>>
=============================================================================
