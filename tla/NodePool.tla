------------------------------ MODULE NodePool ------------------------------
(***************************************************************************)
(* What a free list promises: a node belongs to one thread or to nobody,   *)
(* a thread gives away only what it owns and gets only what nobody owns.   *)
(* Getting may find nothing at any time, so it is no step of its own.      *)
(***************************************************************************)
CONSTANTS Threads, Nodes

VARIABLE owners    \* node -> the threads that own it, at most one

Init == owners \in [Nodes -> {{}} \cup {{t} : t \in Threads}]

Add(t, n) == owners[n] = {t} /\ owners' = [owners EXCEPT ![n] = {}]
Get(t, n) == owners[n] = {}  /\ owners' = [owners EXCEPT ![n] = {t}]

Next == \E t \in Threads, n \in Nodes : Add(t, n) \/ Get(t, n)

Spec == Init /\ [][Next]_owners
=============================================================================
