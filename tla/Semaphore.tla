----------------------------- MODULE Semaphore -----------------------------
(***************************************************************************)
(* What a counting semaphore promises: permits are added by signal and     *)
(* taken by wait, and nobody gets one that was not there.                  *)
(***************************************************************************)
EXTENDS Integers

CONSTANTS Waiters, Initial

VARIABLES permits,   \* permits that can be taken
          taken      \* permits each waiter has been given

vars == <<permits, taken>>

Init == permits = Initial /\ taken = [w \in Waiters |-> 0]

Signal == permits' > permits /\ UNCHANGED taken

Take(w) == /\ taken'[w] > taken[w]
           /\ taken' = [taken EXCEPT ![w] = taken'[w]]
           /\ permits' = permits - (taken'[w] - taken[w])
           /\ permits' >= 0

Next == Signal \/ \E w \in Waiters : Take(w)

Spec == Init /\ [][Next]_vars
=============================================================================
