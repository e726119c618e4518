--------------------------- MODULE FreeListProofs ---------------------------
(***************************************************************************)
(* Proofs about FreeList, for any finite sets of threads and nodes and any *)
(* number of calls.                                                        *)
(***************************************************************************)
EXTENDS FreeList, FiniteSetTheorems, TLAPS

(* The list alone, whichever threads call it.                              *)
Spec(Active) == FreeListInit(Active) /\ [][FreeListNext]_freeListVars

-----------------------------------------------------------------------------
(* The inductive invariant.                                                *)

Pointer == Nodes \cup {None}
Counts  == [count : Nat, should : BOOLEAN]
Adds    == {"add", "publish"}
Pushes  == {"push", "retract"}
Refers  == {"next", "pop", "got", "drop"}

TypeOK ==
  /\ freeListHead \in Pointer
  /\ freeListRefs \in [Nodes -> Counts]
  /\ freeListNext \in [Nodes -> Pointer]
  /\ held \in [Threads -> SUBSET Nodes]
  /\ pc \in [Threads -> {"off", "idle", "again", "refs", "ref"} \cup Adds \cup Pushes \cup Refers]
  /\ calls \in Nat
  /\ head \in [Threads -> Pointer] /\ node \in [Threads -> Pointer] /\ link \in [Threads -> Pointer]
  /\ saw \in [Threads -> Counts]

(* What a thread's locals mean where it is.  A next pointer that was read, *)
(* or written, is still there: its node is referred to or being pushed.    *)
Locals(t) ==
  /\ pc[t] \in Adds \cup Pushes \cup Refers => node[t] \in Nodes
  /\ pc[t] \in {"refs", "ref", "next", "pop"} => head[t] \in Nodes
  /\ pc[t] \in {"next", "pop"} => node[t] = head[t]
  /\ pc[t] = "ref"  => saw[t].count # 0
  /\ pc[t] = "pop"  => link[t] = freeListNext[head[t]]
  /\ pc[t] = "push" => link[t] = freeListNext[node[t]]

(* A node is in the hands of one thread, and there in one way; while it is *)
(* being added nobody can take a reference.                                *)
Hands(n) == Owners(n) \cup Pushing(n) \cup Adding(n)

Exact(n, L) ==
  /\ freeListRefs[n].count = Cardinality(Referring(n)) + (IF ListRefers(n, L) THEN 1 ELSE 0)
  /\ \A t, u \in Hands(n) : t = u
  /\ \A t \in Threads : n \in held[t] /\ node[t] = n => pc[t] \notin Adds \cup Pushes \cup {"got"}
  /\ n \in L => Hands(n) = {}
  /\ freeListRefs[n].should <=> n \notin L /\ Owners(n) \cup Pushing(n) = {}
  /\ freeListRefs[n].should => Adding(n) \cup Referring(n) # {}
  /\ Adding(n) # {} => freeListRefs[n].count = 0

AllExact == \E L \in SUBSET Nodes : ListOf(L) /\ \A n \in Nodes : Exact(n, L)

IInv == TypeOK /\ (\A t \in Threads : Locals(t)) /\ AllExact

-----------------------------------------------------------------------------
(* What holds in every step.                                               *)

LEMMA Finite ==
  /\ \A n : IsFiniteSet(Referring(n)) /\ Cardinality(Referring(n)) \in Nat
  /\ \A L \in SUBSET Nodes : IsFiniteSet(L) /\ Cardinality(L) \in Nat
<1>1. \A n : Referring(n) \in SUBSET Threads
  BY DEF Referring
<1> QED
  BY <1>1, FiniteAssumption, FS_Subset, FS_CardinalityType

(* A step of one thread leaves the locals of the others alone.             *)
LEMMA OthersStay ==
  ASSUME TypeOK, NEW t \in Threads, Call(t), NEW u \in Threads, u # t
  PROVE  /\ pc'[u] = pc[u] /\ node'[u] = node[u] /\ held'[u] = held[u]
         /\ head'[u] = head[u] /\ link'[u] = link[u] /\ saw'[u] = saw[u]
<1> USE DEF TypeOK, Goto, Loop, Forget
<1>1. CASE \E n \in Nodes : Mark(t, n)
  BY <1>1 DEF Mark
<1>2. CASE LoadExpected(t) \/ Publish(t) \/ Push(t) \/ Retract(t)
  BY <1>2 DEF LoadExpected, Publish, Push, Retract
<1>3. CASE LoadHead(t) \/ LoadRefs(t) \/ TakeRef(t)
  BY <1>3 DEF LoadHead, LoadRefs, TakeRef
<1>4. CASE ReadNext(t) \/ Pop(t) \/ Got(t) \/ Drop(t)
  BY <1>4 DEF ReadNext, Pop, Got, Drop
<1> QED
  BY <1>1, <1>2, <1>3, <1>4 DEF Call

(* What u does with n is the same before and after.                        *)
SameRoles(u, n) ==
  /\ n \in held'[u] <=> n \in held[u]
  /\ node'[u] = n /\ pc'[u] \in Adds   <=> node[u] = n /\ pc[u] \in Adds
  /\ node'[u] = n /\ pc'[u] \in Pushes <=> node[u] = n /\ pc[u] \in Pushes
  /\ node'[u] = n /\ pc'[u] \in Refers <=> node[u] = n /\ pc[u] \in Refers
  /\ node'[u] = n /\ pc'[u] = "got"    <=> node[u] = n /\ pc[u] = "got"

LEMMA SameNode ==
  ASSUME NEW n \in Nodes, NEW L, NEW M, Exact(n, L), n \in L <=> n \in M,
         freeListRefs'[n] = freeListRefs[n],
         \A u \in Threads : SameRoles(u, n)
  PROVE  Exact(n, M)'
<1>1. /\ Referring(n)' = Referring(n) /\ Owners(n)' = Owners(n)
      /\ Pushing(n)' = Pushing(n) /\ Adding(n)' = Adding(n) /\ Getting(n)' = Getting(n)
  BY DEF Referring, Owners, Getting, Pushing, Adding, SameRoles, Adds, Pushes, Refers
<1>2. ListRefers(n, M)' <=> ListRefers(n, L)
  BY <1>1 DEF ListRefers, SameRoles
<1>3. Hands(n)' = Hands(n)
  BY <1>1 DEF Hands
<1>4. \A t \in Threads : n \in held'[t] /\ node'[t] = n => pc'[t] \notin Adds \cup Pushes \cup {"got"}
  BY DEF Exact, SameRoles
<1> QED
  BY <1>1, <1>2, <1>3, <1>4 DEF Exact

(* A step moves the acting thread into sets or out of them.                *)
Joins(S, S2, t, yes) == (yes => S2 = S \cup {t}) /\ (~yes => S2 = S \ {t})

LEMMA SetsAfter ==
  ASSUME TypeOK, NEW t \in Threads, Call(t), NEW n
  PROVE  /\ Joins(Referring(n), Referring(n)', t, node'[t] = n /\ pc'[t] \in Refers)
         /\ Joins(Pushing(n), Pushing(n)', t, node'[t] = n /\ pc'[t] \in Pushes)
         /\ Joins(Adding(n), Adding(n)', t, node'[t] = n /\ pc'[t] \in Adds)
         /\ Joins(Getting(n), Getting(n)', t, node'[t] = n /\ pc'[t] = "got")
         /\ Joins(Owners(n), Owners(n)', t, n \in held'[t] \/ (node'[t] = n /\ pc'[t] = "got"))
<1>1. \A u \in Threads : u # t => pc'[u] = pc[u] /\ node'[u] = node[u] /\ held'[u] = held[u]
  BY OthersStay
<1>2. Joins(Referring(n), Referring(n)', t, node'[t] = n /\ pc'[t] \in Refers)
  BY <1>1 DEF Referring, Refers, Joins
<1>3. Joins(Pushing(n), Pushing(n)', t, node'[t] = n /\ pc'[t] \in Pushes)
  BY <1>1 DEF Pushing, Pushes, Joins
<1>4. Joins(Adding(n), Adding(n)', t, node'[t] = n /\ pc'[t] \in Adds)
  BY <1>1 DEF Adding, Adds, Joins
<1>5. Joins(Getting(n), Getting(n)', t, node'[t] = n /\ pc'[t] = "got")
  BY <1>1 DEF Getting, Joins
<1>6. Joins(Owners(n), Owners(n)', t, n \in held'[t] \/ (node'[t] = n /\ pc'[t] = "got"))
  BY <1>1 DEF Owners, Getting, Joins
<1> QED
  BY <1>2, <1>3, <1>4, <1>5, <1>6

(* The nodes that the acting thread does not touch.                        *)
LEMMA OtherNodes ==
  ASSUME TypeOK, NEW t \in Threads, Call(t), NEW L, NEW M, NEW n \in Nodes, Exact(n, L),
         n \in L <=> n \in M, freeListRefs'[n] = freeListRefs[n], SameRoles(t, n)
  PROVE  Exact(n, M)'
<1>1. ASSUME NEW u \in Threads PROVE SameRoles(u, n)
  <2>1. CASE u = t
    BY <2>1
  <2>2. CASE u # t
    BY <2>2, OthersStay DEF SameRoles
  <2> QED
    BY <2>1, <2>2
<1> QED
  BY <1>1, SameNode

(* The list itself changes only with the head, or the link of a node on it.*)
LEMMA SameList ==
  ASSUME NEW L, ListOf(L), freeListHead' = freeListHead,
         \A n \in L : freeListNext'[n] = freeListNext[n]
  PROVE  ListOf(L)'
<1> DEFINE k == Cardinality(L)
<1>1. PICK order \in Bijection(1 .. k, L) :
        /\ freeListHead = IF k = 0 THEN None ELSE order[k]
        /\ \A i \in 1 .. k : freeListNext[order[i]] = IF i = 1 THEN None ELSE order[i - 1]
  BY DEF ListOf
<1>2. \A i \in 1 .. k : order[i] \in L
  BY <1>1 DEF Bijection, Injection
<1> QED
  BY <1>1, <1>2 DEF ListOf

-----------------------------------------------------------------------------
LEMMA InitIInv == ASSUME NEW CONSTANT Active, FreeListInit(Active) PROVE IInv
<1> USE DEF FreeListInit
<1>1. PICK o \in [Nodes -> Threads] : held = [t \in Threads |-> {n \in Nodes : o[n] = t}]
  OBVIOUS
<1>2. TypeOK
  BY <1>1 DEF TypeOK, Pointer, Counts, Refs
<1>3. \A t \in Threads : Locals(t)
  BY DEF Locals, Adds, Pushes, Refers
<1>4. ListOf({})
  <2>1. Cardinality({}) = 0
    BY FS_EmptySet
  <2>2. [i \in {} |-> i] \in Bijection(1 .. 0, {})
    BY DEF Bijection, Injection, Surjection, IsInjective
  <2> QED
    BY <2>1, <2>2 DEF ListOf
<1>5. ASSUME NEW n \in Nodes PROVE Exact(n, {})
  <2>1. /\ Referring(n) = {} /\ Pushing(n) = {} /\ Adding(n) = {} /\ Getting(n) = {}
        /\ Owners(n) = {o[n]}
    BY <1>1 DEF Referring, Pushing, Adding, Owners, Getting
  <2>2. Cardinality({}) = 0
    BY FS_EmptySet
  <2>3. ~ListRefers(n, {})
    BY <2>1 DEF ListRefers
  <2> QED
    BY <2>1, <2>2, <2>3 DEF Exact, Hands, Refs, Adds, Pushes
<1> QED
  BY <1>2, <1>3, <1>4, <1>5 DEF IInv, AllExact

-----------------------------------------------------------------------------
(* The steps that change no count and do not touch the list.               *)

Quiet(t) == \/ LoadExpected(t) \/ LoadHead(t) \/ LoadRefs(t) \/ ReadNext(t)
            \/ Push(t) /\ freeListHead # link[t]
            \/ Pop(t) /\ freeListHead # head[t]

LEMMA QuietStep ==
  ASSUME IInv, NEW t \in Threads, Quiet(t)
  PROVE  IInv'
<1>1. TypeOK /\ Locals(t) /\ Call(t)
  BY DEF IInv, Quiet, Call
<1>2. UNCHANGED <<freeListHead, freeListRefs, freeListNext, held>>
  BY DEF Quiet, LoadExpected, LoadHead, LoadRefs, ReadNext, Push, Pop
<1> USE DEF Quiet, LoadExpected, LoadHead, LoadRefs, ReadNext, Push, Pop, Goto, Loop, Forget
<1>3. TypeOK'
  <2> DEFINE P == {"off", "idle", "again", "refs", "ref"} \cup Adds \cup Pushes \cup Refers
  <2>1. pc' \in [Threads -> P]
    BY <1>1 DEF TypeOK, Adds, Pushes, Refers
  <2>2. calls' \in Nat
    BY <1>1 DEF TypeOK
  <2>3. head' \in [Threads -> Pointer] /\ node' \in [Threads -> Pointer]
    BY <1>1 DEF TypeOK, Pointer
  <2>4. link' \in [Threads -> Pointer]
    <3>1. pc[t] = "next" => freeListNext[head[t]] \in Pointer
      BY <1>1 DEF TypeOK, Locals
    <3> QED
      BY <1>1, <3>1 DEF TypeOK, Pointer
  <2>5. saw' \in [Threads -> Counts]
    <3>1. pc[t] = "refs" => freeListRefs[head[t]] \in Counts
      BY <1>1 DEF TypeOK, Locals
    <3> QED
      BY <1>1, <3>1 DEF TypeOK
  <2> QED
    BY <1>1, <1>2, <2>1, <2>2, <2>3, <2>4, <2>5 DEF TypeOK
<1>4. Locals(t)'
  BY <1>1, <1>2, NoneAssumption DEF TypeOK, Pointer, Counts, Adds, Pushes, Refers, Locals
<1>5. ASSUME NEW n \in Nodes PROVE SameRoles(t, n)
  BY <1>1 DEF SameRoles, TypeOK, Adds, Pushes, Refers
<1> QED
  <2>1. ASSUME NEW u \in Threads PROVE Locals(u)'
    <3>1. CASE u # t
      BY <1>1, <1>2, <3>1, OthersStay DEF IInv, Locals
    <3> QED
      BY <1>4, <3>1
  <2>2. PICK L \in SUBSET Nodes : ListOf(L) /\ \A n \in Nodes : Exact(n, L)
    BY DEF IInv, AllExact
  <2>3. ListOf(L)' /\ \A n \in Nodes : Exact(n, L)'
    BY <1>1, <1>2, <1>5, <2>2, OtherNodes, SameList
  <2> QED
    BY <1>3, <2>1, <2>3 DEF IInv, AllExact

-----------------------------------------------------------------------------
(* The steps that change a count.                                          *)

LEMMA Referred ==
  ASSUME NEW n, NEW t \in Referring(n)
  PROVE  /\ Cardinality(Referring(n)) >= 1
         /\ Cardinality(Referring(n) \ {t}) = Cardinality(Referring(n)) - 1
         /\ Cardinality(Referring(n)) = 1 <=> Referring(n) \ {t} = {}
<1> DEFINE R == Referring(n)
<1>1. IsFiniteSet(R) /\ Cardinality(R) \in Nat
  BY Finite
<1>2. IsFiniteSet(R \ {t}) /\ Cardinality(R \ {t}) = Cardinality(R) - 1
  BY <1>1, FS_RemoveElement
<1>3. Cardinality(R \ {t}) \in Nat /\ (Cardinality(R \ {t}) = 0 <=> R \ {t} = {})
  BY <1>2, FS_CardinalityType, FS_EmptySet
<1> HIDE DEF R
<1>4. Cardinality(R) >= 1 /\ (Cardinality(R) = 1 <=> R \ {t} = {})
  BY <1>1, <1>2, <1>3
<1> QED
  BY <1>2, <1>4 DEF R

LEMMA NotReferred ==
  ASSUME NEW n PROVE Cardinality(Referring(n)) = 0 <=> Referring(n) = {}
BY Finite, FS_EmptySet

(* The count of the node the thread acts on is a natural number.           *)
LEMMA Counted ==
  ASSUME TypeOK, NEW n \in Nodes
  PROVE  /\ freeListRefs[n] \in Counts
         /\ freeListRefs[n].count \in Nat /\ freeListRefs[n].should \in BOOLEAN
         /\ freeListRefs[n] = Refs(freeListRefs[n].count, freeListRefs[n].should)
         /\ Cardinality(Referring(n)) \in Nat
BY Finite DEF TypeOK, Counts, Refs

(* The other nodes' counts stay, and the other threads' locals, unless a   *)
(* next pointer is written.                                                *)
LEMMA Assemble ==
  ASSUME IInv, NEW t \in Threads, Call(t), TypeOK', Locals(t)',
         NEW m \in Nodes,
         NEW L \in SUBSET Nodes, \A n \in Nodes : Exact(n, L),
         NEW M \in SUBSET Nodes, ListOf(M)', Exact(m, M)',
         UNCHANGED freeListNext \/ (Referring(m) = {} /\ Pushing(m) = {}),
         \A n \in Nodes \ {m} : /\ freeListNext'[n] = freeListNext[n]
                                /\ n \in L <=> n \in M
                                /\ freeListRefs'[n] = freeListRefs[n]
                                /\ SameRoles(t, n)
  PROVE  IInv'
<1>1. TypeOK
  BY DEF IInv
<1>2. ASSUME NEW u \in Threads PROVE Locals(u)'
  <2>1. CASE u # t
    <3>1. /\ pc'[u] = pc[u] /\ node'[u] = node[u] /\ head'[u] = head[u] /\ link'[u] = link[u]
          /\ saw'[u] = saw[u] /\ Locals(u)
      BY <1>1, <2>1, OthersStay DEF IInv
    <3>2. pc[u] = "pop" => freeListNext'[head[u]] = freeListNext[head[u]]
      <4>1. pc[u] = "pop" => head[u] \in Nodes /\ u \in Referring(head[u])
        BY <3>1 DEF Locals, Referring
      <4> QED
        BY <4>1
    <3>3. pc[u] = "push" => freeListNext'[node[u]] = freeListNext[node[u]]
      <4>1. pc[u] = "push" => node[u] \in Nodes /\ u \in Pushing(node[u])
        BY <3>1 DEF Locals, Pushing, Pushes
      <4> QED
        BY <4>1
    <3> QED
      BY <3>1, <3>2, <3>3 DEF Locals
  <2> QED
    BY <2>1
<1>3. ASSUME NEW n \in Nodes PROVE Exact(n, M)'
  <2>1. CASE n # m
    BY <1>1, <2>1, OtherNodes
  <2> QED
    BY <2>1
<1> QED
  BY <1>2, <1>3 DEF IInv, AllExact

LEMMA MarkStep ==
  ASSUME IInv, NEW t \in Threads, NEW m \in Nodes, Mark(t, m)
  PROVE  IInv'
<1>1. TypeOK /\ Locals(t) /\ Call(t)
  BY DEF IInv, Call
<1>2. PICK L \in SUBSET Nodes : ListOf(L) /\ \A n \in Nodes : Exact(n, L)
  BY DEF IInv, AllExact
<1>3. /\ UNCHANGED <<freeListHead, freeListNext, calls, head, saw, link>>
      /\ pc[t] = "idle" /\ m \in held[t]
      /\ held' = [held EXCEPT ![t] = @ \ {m}]
      /\ freeListRefs' = [freeListRefs EXCEPT ![m].should = TRUE]
  BY DEF Mark
<1>4. /\ freeListRefs[m].count = 0 => pc'[t] = "add" /\ node'[t] = m
      /\ freeListRefs[m].count # 0 => pc'[t] = "idle" /\ node'[t] = node[t]
      /\ pc' = [pc EXCEPT ![t] = pc'[t]] /\ node' = [node EXCEPT ![t] = node'[t]]
  BY <1>1, <1>3 DEF Mark, Goto, TypeOK
<1>5. freeListRefs'[m].should = TRUE /\ freeListRefs'[m].count = freeListRefs[m].count
  BY <1>1, <1>3 DEF TypeOK, Counts
<1>6. TypeOK'
  <2>1. freeListRefs' \in [Nodes -> Counts]
    BY <1>1, <1>3 DEF TypeOK, Counts
  <2>2. held' \in [Threads -> SUBSET Nodes]
    BY <1>1, <1>3 DEF TypeOK
  <2> QED
    BY <1>1, <1>3, <1>4, <2>1, <2>2 DEF TypeOK, Pointer, Adds
<1>7. Locals(t)'
  BY <1>1, <1>3, <1>4 DEF Locals, Adds, Pushes, Refers
<1>8. /\ m \notin L /\ Pushing(m) = {} /\ Adding(m) = {} /\ Owners(m) = {t} /\ Getting(m) = {}
      /\ ~ListRefers(m, L)
  <2>1. t \in Owners(m)
    BY <1>3 DEF Owners
  <2>2. Hands(m) = {t} /\ m \notin L
    BY <1>2, <2>1 DEF Exact, Hands
  <2>3. t \notin Pushing(m) /\ t \notin Adding(m) /\ t \notin Getting(m)
    BY <1>3 DEF Pushing, Adding, Getting
  <2> QED
    BY <2>1, <2>2, <2>3 DEF Hands, ListRefers, Owners
<1>9. /\ Referring(m)' = Referring(m) /\ Pushing(m)' = {} /\ Owners(m)' = {}
      /\ Adding(m)' = IF freeListRefs[m].count = 0 THEN {t} ELSE {}
      /\ ~ListRefers(m, L)'
  <2>1. /\ pc'[t] \in {"idle", "add"} /\ m \notin held'[t]
        /\ pc'[t] = "add" <=> freeListRefs[m].count = 0
        /\ pc'[t] = "add" => node'[t] = m
    BY <1>1, <1>3, <1>4 DEF TypeOK
  <2>2. t \notin Referring(m)
    BY <1>3 DEF Referring
  <2>3. Referring(m)' = Referring(m)
    <3>1. pc'[t] \notin Refers
      BY <2>1 DEF Refers
    <3>2. Referring(m)' = Referring(m) \ {t}
      BY <1>1, <3>1, SetsAfter DEF Joins
    <3> QED
      BY <2>2, <3>2
  <2>4. Pushing(m)' = {} /\ Owners(m)' = {} /\ Getting(m)' = {}
    BY <1>1, <1>8, <2>1, SetsAfter DEF Pushes, Joins
  <2>5. Adding(m)' = IF freeListRefs[m].count = 0 THEN {t} ELSE {}
    BY <1>1, <1>8, <2>1, SetsAfter DEF Adds, Joins
  <2>6. ~ListRefers(m, L)'
    BY <1>8, <2>4 DEF ListRefers
  <2> QED
    BY <2>3, <2>4, <2>5, <2>6
<1>10. Exact(m, L)'
  <2>1. freeListRefs'[m].count = Cardinality(Referring(m)')
    BY <1>1, <1>2, <1>5, <1>8, <1>9, Counted DEF Exact
  <2>2. freeListRefs[m].count # 0 => Referring(m)' # {}
    BY <1>5, <1>9, <2>1, NotReferred
  <2>3. \A u \in Threads : m \notin held'[u]
    BY <1>9 DEF Owners
  <2>4. Hands(m)' = Adding(m)'
    BY <1>9 DEF Hands
  <2>5. Adding(m)' # {} => freeListRefs'[m].count = 0
    BY <1>5, <1>9
  <2>6. Adding(m)' \cup Referring(m)' # {}
    BY <1>9, <2>2
  <2>7. \A u, v \in Adding(m)' : u = v
    BY <1>9
  <2>8. (freeListRefs[m].should <=> m \notin L /\ Owners(m) \cup Pushing(m) = {})'
    <3>1. Owners(m)' \cup Pushing(m)' = {}
      BY <1>9
    <3> QED
      BY <1>5, <1>8, <3>1
  <2>9. freeListRefs'[m].count = Cardinality(Referring(m)') + 0
    BY <1>1, <1>9, <2>1, Counted
  <2> QED
    BY <1>8, <1>9, <2>9, <2>3, <2>4, <2>5, <2>6, <2>7, <2>8 DEF Exact
<1>11. ASSUME NEW n \in Nodes \ {m}
       PROVE  freeListRefs'[n] = freeListRefs[n] /\ SameRoles(t, n)
  BY <1>1, <1>3, <1>4 DEF TypeOK, SameRoles, Adds, Pushes, Refers
<1>12. ListOf(L)'
  BY <1>2, <1>3, SameList
<1> QED
  BY <1>1, <1>2, <1>3, <1>6, <1>7, <1>10, <1>11, <1>12, Assemble

LEMMA RetractStep ==
  ASSUME IInv, NEW t \in Threads, Retract(t)
  PROVE  IInv'
<1>1. TypeOK /\ Locals(t) /\ Call(t)
  BY DEF IInv, Call
<1>2. PICK L \in SUBSET Nodes : ListOf(L) /\ \A n \in Nodes : Exact(n, L)
  BY DEF IInv, AllExact
<1>4. PICK m \in Nodes : m = node[t]
  BY <1>1 DEF Retract, Locals, Pushes
<1>3. /\ UNCHANGED <<freeListHead, freeListNext, held, calls, head, saw>>
      /\ pc[t] = "retract"
      /\ freeListRefs' = [freeListRefs EXCEPT ![m] = Refs(freeListRefs[m].count - 1, TRUE)]
      /\ freeListRefs[m] = Refs(1, FALSE) => pc'[t] = "publish" /\ node'[t] = m
      /\ freeListRefs[m] # Refs(1, FALSE) =>
           node'[t] = None /\ pc'[t] \in {"idle", "refs"} /\ (pc'[t] = "refs" => head[t] # None)
      /\ pc' = [pc EXCEPT ![t] = pc'[t]] /\ node' = [node EXCEPT ![t] = node'[t]]
      /\ link' = link \/ link' = [link EXCEPT ![t] = None]
  BY <1>1, <1>4 DEF Retract, Goto, Loop, Forget, TypeOK
<1>5. /\ m \notin L /\ Pushing(m) = {t} /\ Adding(m) = {} /\ Owners(m) = {} /\ Getting(m) = {}
      /\ ListRefers(m, L) /\ ~freeListRefs[m].should /\ t \notin Referring(m) /\ m \notin held[t]
  <2>1. t \in Pushing(m)
    BY <1>3, <1>4 DEF Pushing
  <2>2. Hands(m) = {t} /\ m \notin L /\ ~freeListRefs[m].should
    BY <1>2, <1>4, <2>1 DEF Exact, Hands
  <2>3. t \notin Adding(m) /\ t \notin Owners(m) /\ t \notin Referring(m)
    BY <1>2, <1>3, <1>4 DEF Owners, Adding, Getting, Exact, Pushes, Referring
  <2> QED
    BY <2>1, <2>2, <2>3 DEF Hands, ListRefers, Owners
<1>6. /\ freeListRefs[m].count = Cardinality(Referring(m)) + 1
      /\ Cardinality(Referring(m)) \in Nat
      /\ freeListRefs[m] = Refs(1, FALSE) <=> Cardinality(Referring(m)) = 0
      /\ freeListRefs'[m].count = Cardinality(Referring(m)) /\ freeListRefs'[m].should = TRUE
  <2>1. freeListRefs[m].count = Cardinality(Referring(m)) + 1 /\ Cardinality(Referring(m)) \in Nat
    BY <1>1, <1>2, <1>4, <1>5, Counted DEF Exact
  <2>2. freeListRefs[m].should = FALSE
    BY <1>1, <1>4, <1>5, Counted
  <2>3. freeListRefs[m] = Refs(1, FALSE) <=> Cardinality(Referring(m)) = 0
    <3>1. freeListRefs[m] = Refs(1, FALSE) => freeListRefs[m].count = 1
      BY DEF Refs
    <3>2. freeListRefs[m] = Refs(freeListRefs[m].count, FALSE)
      BY <1>1, <2>2, Counted
    <3>3. Cardinality(Referring(m)) = 0 => freeListRefs[m].count = 1
      BY <2>1
    <3>4. freeListRefs[m].count = 1 => freeListRefs[m] = Refs(1, FALSE)
      BY <3>2
    <3>5. freeListRefs[m].count = 1 => Cardinality(Referring(m)) = 0
      BY <2>1
    <3> QED
      BY <3>1, <3>3, <3>4, <3>5
  <2>4. freeListRefs'[m] = Refs(freeListRefs[m].count - 1, TRUE)
    BY <1>1, <1>3, <1>4 DEF TypeOK
  <2> QED
    BY <2>1, <2>3, <2>4 DEF Refs
<1>7. TypeOK'
  <2>1. Refs(freeListRefs[m].count - 1, TRUE) \in Counts
    BY <1>6 DEF Refs, Counts
  <2>2. freeListRefs' \in [Nodes -> Counts]
    BY <1>1, <1>3, <2>1 DEF TypeOK
  <2>3. link' \in [Threads -> Pointer]
    BY <1>1, <1>3 DEF TypeOK, Pointer
  <2>4. node'[t] \in Pointer /\ pc'[t] \in {"publish", "idle", "refs"}
    BY <1>3, <1>4 DEF Pointer
  <2>5. node' \in [Threads -> Pointer]
    BY <1>1, <1>3, <2>4 DEF TypeOK
  <2>6. pc' \in [Threads -> {"off", "idle", "again", "refs", "ref"} \cup Adds \cup Pushes \cup Refers]
    BY <1>1, <1>3, <2>4 DEF TypeOK, Adds
  <2> QED
    BY <1>1, <1>3, <2>2, <2>3, <2>5, <2>6 DEF TypeOK
<1>8. Locals(t)'
  BY <1>1, <1>3, <1>4 DEF Locals, Adds, Pushes, Refers, TypeOK, Pointer
<1>9. /\ Referring(m)' = Referring(m) /\ Pushing(m)' = {} /\ Owners(m)' = {}
      /\ Adding(m)' = IF Cardinality(Referring(m)) = 0 THEN {t} ELSE {}
      /\ ~ListRefers(m, L)' /\ \A u \in Threads : m \notin held'[u]
  <2>1. /\ pc'[t] = "publish" /\ node'[t] = m <=> Cardinality(Referring(m)) = 0
        /\ pc'[t] \in {"publish", "idle", "refs"} /\ m \notin held'[t]
        /\ node'[t] = m => pc'[t] = "publish"
    BY <1>3, <1>4, <1>5, <1>6, NoneAssumption
  <2>2. Referring(m)' = Referring(m)
    BY <1>1, <1>5, <2>1, SetsAfter DEF Refers, Joins
  <2>3. Pushing(m)' = {} /\ Owners(m)' = {} /\ Getting(m)' = {}
    BY <1>1, <1>5, <2>1, SetsAfter DEF Pushes, Joins
  <2>4. Adding(m)' = IF Cardinality(Referring(m)) = 0 THEN {t} ELSE {}
    BY <1>1, <1>5, <2>1, SetsAfter DEF Adds, Joins
  <2>5. ~ListRefers(m, L)' /\ \A u \in Threads : m \notin held'[u]
    BY <1>5, <2>3 DEF ListRefers, Owners
  <2> QED
    BY <2>2, <2>3, <2>4, <2>5
<1>10. Exact(m, L)'
  <2>1. Cardinality(Referring(m)) # 0 => Referring(m)' # {}
    BY <1>9, NotReferred
  <2>2. Hands(m)' = Adding(m)'
    BY <1>9 DEF Hands
  <2>3. (freeListRefs[m].should <=> m \notin L /\ Owners(m) \cup Pushing(m) = {})'
    BY <1>5, <1>6, <1>9
  <2>4. freeListRefs'[m].count = Cardinality(Referring(m)') + 0
    BY <1>6, <1>9
  <2>5. Adding(m)' # {} => freeListRefs'[m].count = 0
    BY <1>6, <1>9
  <2>6. Adding(m)' \cup Referring(m)' # {}
    BY <1>9, <2>1
  <2>7. \A u, v \in Adding(m)' : u = v
    BY <1>9
  <2> QED
    BY <1>5, <1>9, <2>2, <2>3, <2>4, <2>5, <2>6, <2>7 DEF Exact
<1>11. ASSUME NEW n \in Nodes \ {m}
       PROVE  freeListRefs'[n] = freeListRefs[n] /\ SameRoles(t, n)
  <2>1. freeListRefs'[n] = freeListRefs[n]
    BY <1>1, <1>3, <1>4 DEF TypeOK
  <2>2. SameRoles(t, n)
    BY <1>1, <1>3, <1>4, NoneAssumption DEF TypeOK, SameRoles, Adds, Pushes, Refers
  <2> QED
    BY <2>1, <2>2
<1>12. ListOf(L)'
  BY <1>2, <1>3, SameList
<1>13. /\ Call(t) /\ TypeOK' /\ Locals(t)' /\ ListOf(L)' /\ Exact(m, L)'
       /\ UNCHANGED freeListNext /\ \A n \in Nodes : Exact(n, L)
  BY <1>1, <1>2, <1>3, <1>7, <1>8, <1>10, <1>12
<1>14. \A n \in Nodes \ {m} : /\ freeListNext'[n] = freeListNext[n]
                              /\ n \in L <=> n \in L
                              /\ freeListRefs'[n] = freeListRefs[n]
                              /\ SameRoles(t, n)
  BY <1>11, <1>13
<1> QED
  BY <1>13, <1>14, Assemble

LEMMA TakeRefStep ==
  ASSUME IInv, NEW t \in Threads, TakeRef(t)
  PROVE  IInv'
<1>1. TypeOK /\ Locals(t) /\ Call(t)
  BY DEF IInv, Call
<1>2. PICK L \in SUBSET Nodes : ListOf(L) /\ \A n \in Nodes : Exact(n, L)
  BY DEF IInv, AllExact
<1>8. PICK m \in Nodes : m = head[t]
  BY <1>1 DEF TakeRef, Locals
<1>3. /\ UNCHANGED <<freeListHead, freeListNext, held, calls, link>>
      /\ pc[t] = "ref" /\ saw[t].count # 0
      /\ saw' = [saw EXCEPT ![t] = Refs(0, FALSE)]
      /\ pc' = [pc EXCEPT ![t] = pc'[t]]
  BY <1>1 DEF TakeRef, Goto, TypeOK, Locals
<1>4. ListOf(L)'
  BY <1>2, <1>3, SameList
<1>5. saw' \in [Threads -> Counts]
  BY <1>1, <1>3 DEF TypeOK, Counts, Refs
<1>6. CASE freeListRefs[m] = saw[t]
  <2>1. /\ freeListRefs' = [freeListRefs EXCEPT ![m].count = @ + 1]
        /\ node' = [node EXCEPT ![t] = m] /\ pc'[t] = "next" /\ UNCHANGED head
        /\ node'[t] = m
    BY <1>1, <1>6, <1>8 DEF TakeRef, Goto, TypeOK
  <2>2. /\ freeListRefs[m].count \in Nat /\ freeListRefs[m].count # 0
        /\ freeListRefs'[m].count = freeListRefs[m].count + 1
        /\ freeListRefs'[m].should = freeListRefs[m].should
    <3>1. freeListRefs[m] \in Counts /\ freeListRefs[m].count # 0
      BY <1>1, <1>3, <1>6 DEF TypeOK
    <3>2. freeListRefs'[m] = [freeListRefs[m] EXCEPT !.count = @ + 1]
      BY <1>1, <2>1 DEF TypeOK
    <3> QED
      BY <3>1, <3>2 DEF Counts
  <2>3. TypeOK'
    <3>1. freeListRefs \in [Nodes -> Counts]
      BY <1>1 DEF TypeOK
    <3>2. [freeListRefs[m] EXCEPT !.count = @ + 1] \in Counts
      BY <2>2, <3>1 DEF Counts
    <3>3. freeListRefs' = [freeListRefs EXCEPT ![m] = [freeListRefs[m] EXCEPT !.count = @ + 1]]
      BY <2>1, <3>1
    <3>4. freeListRefs' \in [Nodes -> Counts]
      BY <3>1, <3>2, <3>3
    <3> QED
      BY <1>1, <1>3, <1>5, <2>1, <3>4 DEF TypeOK, Pointer, Refers
  <2>4. Locals(t)'
    BY <1>1, <1>3, <1>8, <2>1 DEF Locals, Adds, Pushes, Refers
  <2>5. /\ Referring(m)' = Referring(m) \cup {t} /\ Pushing(m)' = Pushing(m)
        /\ Owners(m)' = Owners(m) /\ Adding(m)' = Adding(m) /\ Getting(m)' = Getting(m)
        /\ t \notin Referring(m)
    <3>1. /\ t \notin Referring(m) /\ t \notin Pushing(m) /\ t \notin Adding(m) /\ t \notin Getting(m)
          /\ t \in Owners(m) <=> m \in held'[t]
      BY <1>3 DEF Referring, Pushing, Adding, Getting, Owners
    <3>2. Referring(m)' = Referring(m) \cup {t}
      BY <1>1, <2>1, SetsAfter DEF Refers, Joins
    <3>3. pc'[t] \notin Adds /\ pc'[t] \notin Pushes /\ pc'[t] # "got"
      BY <2>1 DEF Adds, Pushes
    <3>4. Pushing(m)' = Pushing(m)
      <4>1. Pushing(m)' = Pushing(m) \ {t}
        BY <1>1, <3>3, SetsAfter DEF Joins
      <4> QED
        BY <3>1, <4>1
    <3>5. Adding(m)' = Adding(m)
      <4>1. Adding(m)' = Adding(m) \ {t}
        BY <1>1, <3>3, SetsAfter DEF Joins
      <4> QED
        BY <3>1, <4>1
    <3>6. Getting(m)' = Getting(m)
      <4>1. Getting(m)' = Getting(m) \ {t}
        BY <1>1, <3>3, SetsAfter DEF Joins
      <4> QED
        BY <3>1, <4>1
    <3>7. Owners(m)' = Owners(m)
      <4>1. m \in held'[t] \/ (node'[t] = m /\ pc'[t] = "got") <=> t \in Owners(m)
        BY <1>3, <3>1, <3>3
      <4> QED
        BY <1>1, <4>1, SetsAfter DEF Joins
    <3> QED
      BY <3>1, <3>2, <3>4, <3>5, <3>6, <3>7
  <2>6. Cardinality(Referring(m)') = Cardinality(Referring(m)) + 1 /\ Cardinality(Referring(m)) \in Nat
    BY <2>5, Finite, FS_AddElement
  <2>7. Exact(m, L)'
    <3>1. ListRefers(m, L)' <=> ListRefers(m, L)
      BY <2>5 DEF ListRefers
    <3>2. Exact(m, L)
      BY <1>2, <1>3
    <3>3. freeListRefs'[m].count = Cardinality(Referring(m)') + (IF ListRefers(m, L)' THEN 1 ELSE 0)
      BY <2>2, <2>6, <3>1, <3>2 DEF Exact
    <3>4. Hands(m)' = Hands(m)
      BY <2>5 DEF Hands
    <3>5. Adding(m)' = {}
      BY <2>2, <2>5, <3>2 DEF Exact
    <3>6. \A u \in Threads : m \in held'[u] /\ node'[u] = m => pc'[u] \notin Adds \cup Pushes \cup {"got"}
      <4>1. ASSUME NEW u \in Threads, m \in held'[u], node'[u] = m
            PROVE  pc'[u] \notin Adds \cup Pushes \cup {"got"}
        <5>1. CASE u = t
          BY <2>1, <5>1 DEF Adds, Pushes
        <5>2. CASE u # t
          BY <1>1, <3>2, <4>1, <5>2, OthersStay DEF Exact
        <5> QED
          BY <5>1, <5>2
      <4> QED
        BY <4>1
    <3>7. (freeListRefs[m].should <=> m \notin L /\ Owners(m) \cup Pushing(m) = {})'
      BY <2>2, <2>5, <3>2 DEF Exact
    <3>8. t \in Referring(m)'
      BY <2>5
    <3> QED
      BY <3>2, <3>3, <3>4, <3>5, <3>6, <3>7, <3>8 DEF Exact
  <2>8. ASSUME NEW n \in Nodes \ {m}
        PROVE  freeListRefs'[n] = freeListRefs[n] /\ SameRoles(t, n)
    BY <1>1, <1>3, <2>1 DEF TypeOK, SameRoles, Adds, Pushes, Refers
  <2> QED
    BY <1>1, <1>2, <1>3, <1>4, <2>3, <2>4, <2>7, <2>8, Assemble
<1>7. CASE freeListRefs[m] # saw[t]
  <2>1. /\ UNCHANGED <<freeListRefs, node>> /\ pc'[t] = "again"
        /\ head' = [head EXCEPT ![t] = None]
    BY <1>1, <1>7, <1>8 DEF TakeRef, Goto, Forget, TypeOK
  <2>2. TypeOK'
    BY <1>1, <1>3, <1>5, <2>1 DEF TypeOK, Pointer
  <2>3. Locals(t)'
    BY <2>1 DEF Locals, Adds, Pushes, Refers
  <2>4. ASSUME NEW n \in Nodes PROVE SameRoles(t, n)
    BY <1>3, <2>1 DEF SameRoles, Adds, Pushes, Refers
  <2>5. Exact(m, L)'
    BY <1>1, <1>2, <1>3, <2>1, <2>4, OtherNodes
  <2> QED
    BY <1>1, <1>2, <1>3, <1>4, <2>1, <2>2, <2>3, <2>4, <2>5, Assemble
<1> QED
  BY <1>6, <1>7

LEMMA DropStep ==
  ASSUME IInv, NEW t \in Threads, Drop(t)
  PROVE  IInv'
<1>1. TypeOK /\ Locals(t) /\ Call(t)
  BY DEF IInv, Call
<1>2. PICK L \in SUBSET Nodes : ListOf(L) /\ \A n \in Nodes : Exact(n, L)
  BY DEF IInv, AllExact
<1>3. PICK m \in Nodes : m = node[t]
  BY <1>1 DEF Drop, Locals, Refers
<1>4. /\ UNCHANGED <<freeListHead, freeListNext, held, calls, head, saw, link>>
      /\ pc[t] = "drop"
      /\ freeListRefs' = [freeListRefs EXCEPT ![m].count = @ - 1]
      /\ freeListRefs[m] = Refs(1, TRUE) => pc'[t] = "add" /\ node'[t] = m
      /\ freeListRefs[m] # Refs(1, TRUE) =>
           node'[t] = None /\ pc'[t] \in {"idle", "refs"} /\ (pc'[t] = "refs" => head[t] # None)
      /\ pc' = [pc EXCEPT ![t] = pc'[t]] /\ node' = [node EXCEPT ![t] = node'[t]]
  BY <1>1, <1>3 DEF Drop, Goto, Loop, Forget, TypeOK
<1>5. /\ t \in Referring(m) /\ t \notin Pushing(m) /\ t \notin Adding(m) /\ t \notin Getting(m)
      /\ t \in Owners(m) <=> m \in held[t]
  BY <1>3, <1>4 DEF Referring, Pushing, Adding, Getting, Owners
<1>6. Exact(m, L)
  BY <1>2
<1>7. /\ freeListRefs[m].count = Cardinality(Referring(m)) + (IF ListRefers(m, L) THEN 1 ELSE 0)
      /\ Cardinality(Referring(m)) >= 1 /\ Cardinality(Referring(m)) \in Nat
      /\ Cardinality(Referring(m) \ {t}) = Cardinality(Referring(m)) - 1
      /\ Cardinality(Referring(m)) = 1 <=> Referring(m) \ {t} = {}
      /\ freeListRefs[m].count \in Nat /\ freeListRefs[m].count >= 1
  <2>1. freeListRefs[m].count = Cardinality(Referring(m)) + (IF ListRefers(m, L) THEN 1 ELSE 0)
    BY <1>6 DEF Exact
  <2>2. /\ Cardinality(Referring(m)) >= 1
        /\ Cardinality(Referring(m) \ {t}) = Cardinality(Referring(m)) - 1
        /\ Cardinality(Referring(m)) = 1 <=> Referring(m) \ {t} = {}
    BY <1>5, Referred
  <2>3. freeListRefs[m].count \in Nat /\ Cardinality(Referring(m)) \in Nat
    BY <1>1, Counted
  <2>4. freeListRefs[m].count >= 1
    <3>1. CASE ListRefers(m, L)
      BY <2>1, <2>2, <2>3, <3>1
    <3>2. CASE ~ListRefers(m, L)
      BY <2>1, <2>2, <2>3, <3>2
    <3> QED
      BY <3>1, <3>2
  <2> QED
    BY <2>1, <2>2, <2>3, <2>4
<1>8. Adding(m) = {}
  BY <1>6, <1>7 DEF Exact
<1>9. /\ freeListRefs'[m].count = freeListRefs[m].count - 1
      /\ freeListRefs'[m].should = freeListRefs[m].should
      /\ freeListRefs' \in [Nodes -> Counts]
  BY <1>1, <1>4, <1>7 DEF TypeOK, Counts
<1>10. TypeOK'
  <2>1. node'[t] \in Pointer /\ pc'[t] \in {"add", "idle", "refs"}
    BY <1>4 DEF Pointer
  <2>2. node' \in [Threads -> Pointer]
    BY <1>1, <1>4, <2>1 DEF TypeOK
  <2>3. pc' \in [Threads -> {"off", "idle", "again", "refs", "ref"} \cup Adds \cup Pushes \cup Refers]
    BY <1>1, <1>4, <2>1 DEF TypeOK, Adds
  <2> QED
    BY <1>1, <1>4, <1>9, <2>2, <2>3 DEF TypeOK
<1>11. Locals(t)'
  BY <1>1, <1>4 DEF Locals, Adds, Pushes, Refers, TypeOK, Pointer
<1>12. /\ pc'[t] \notin Pushes /\ pc'[t] \notin Refers /\ pc'[t] # "got"
       /\ pc'[t] \in Adds <=> freeListRefs[m] = Refs(1, TRUE)
  BY <1>4 DEF Adds, Pushes, Refers
<1>13. /\ Referring(m)' = Referring(m) \ {t} /\ Pushing(m)' = Pushing(m)
       /\ Getting(m)' = Getting(m) /\ Owners(m)' = Owners(m)
       /\ ListRefers(m, L)' <=> ListRefers(m, L)
  <2>1. Referring(m)' = Referring(m) \ {t} /\ Pushing(m)' = Pushing(m) \ {t}
        /\ Getting(m)' = Getting(m) \ {t}
    BY <1>1, <1>12, SetsAfter DEF Joins
  <2>2. Pushing(m)' = Pushing(m) /\ Getting(m)' = Getting(m)
    BY <1>5, <2>1
  <2>3. Owners(m)' = Owners(m)
    <3>1. m \in held'[t] \/ (node'[t] = m /\ pc'[t] = "got") <=> t \in Owners(m)
      BY <1>4, <1>5, <1>12
    <3> QED
      BY <1>1, <3>1, SetsAfter DEF Joins
  <2> QED
    BY <2>1, <2>2, <2>3 DEF ListRefers
<1>14. /\ freeListRefs[m] = Refs(1, TRUE) => Adding(m)' = {t}
       /\ freeListRefs[m] # Refs(1, TRUE) => Adding(m)' = {}
  <2>1. CASE freeListRefs[m] = Refs(1, TRUE)
    <3>1. Adding(m)' = Adding(m) \cup {t}
      BY <1>1, <1>4, <1>12, <2>1, SetsAfter DEF Joins
    <3> QED
      BY <1>8, <2>1, <3>1
  <2>2. CASE freeListRefs[m] # Refs(1, TRUE)
    <3>1. Adding(m)' = Adding(m) \ {t}
      BY <1>1, <1>12, <2>2, SetsAfter DEF Joins
    <3> QED
      BY <1>8, <2>2, <3>1
  <2> QED
    BY <2>1, <2>2
<1>15. Exact(m, L)'
  <2>1. freeListRefs'[m].count = Cardinality(Referring(m)') + (IF ListRefers(m, L)' THEN 1 ELSE 0)
    BY <1>7, <1>9, <1>13
  <2>2. (freeListRefs[m].should <=> m \notin L /\ Owners(m) \cup Pushing(m) = {})'
    BY <1>6, <1>9, <1>13 DEF Exact
  <2>3. ASSUME freeListRefs[m] = Refs(1, TRUE)
        PROVE  m \notin L /\ Owners(m) = {} /\ Pushing(m) = {} /\ freeListRefs[m].count = 1
    BY <1>6, <2>3 DEF Exact, Refs
  <2>4. \A u, v \in Hands(m)' : u = v
    BY <1>6, <1>8, <1>13, <1>14, <2>3 DEF Exact, Hands
  <2>5. m \in L => Hands(m)' = {}
    BY <1>6, <1>8, <1>13, <1>14, <2>3 DEF Exact, Hands
  <2>6. Adding(m)' # {} => freeListRefs'[m].count = 0
    <3>1. CASE freeListRefs[m] = Refs(1, TRUE)
      <4>1. freeListRefs[m].count = 1
        BY <2>3, <3>1
      <4>2. freeListRefs'[m].count = 1 - 1
        BY <1>9, <4>1
      <4> QED
        BY <4>2
    <3>2. CASE freeListRefs[m] # Refs(1, TRUE)
      BY <1>14, <3>2
    <3> QED
      BY <3>1, <3>2
  <2>7. freeListRefs'[m].should => Adding(m)' \cup Referring(m)' # {}
    <3>1. SUFFICES ASSUME freeListRefs[m].should, freeListRefs[m] # Refs(1, TRUE)
                   PROVE  Referring(m)' # {}
      BY <1>9, <1>14
    <3>2. ~ListRefers(m, L)
      BY <1>6, <3>1 DEF Exact, ListRefers, Owners
    <3>3. freeListRefs[m].count # 1
      <4>1. freeListRefs[m].should = TRUE
        BY <1>1, <3>1, Counted
      <4>2. freeListRefs[m] = Refs(freeListRefs[m].count, TRUE)
        BY <1>1, <4>1, Counted
      <4> QED
        BY <3>1, <4>2
    <3> QED
      BY <1>7, <1>13, <3>2, <3>3
  <2>8. \A u \in Threads : m \in held'[u] /\ node'[u] = m => pc'[u] \notin Adds \cup Pushes \cup {"got"}
    <3>1. ASSUME NEW u \in Threads, m \in held'[u], node'[u] = m
          PROVE  pc'[u] \notin Adds \cup Pushes \cup {"got"}
      <4>1. CASE u = t
        <5>1. freeListRefs[m] # Refs(1, TRUE)
          BY <1>4, <2>3, <3>1 DEF Owners
        <5> QED
          BY <1>4, <3>1, <4>1, <5>1, NoneAssumption
      <4>2. CASE u # t
        BY <1>1, <1>6, <3>1, <4>2, OthersStay DEF Exact
      <4> QED
        BY <4>1, <4>2
    <3> QED
      BY <3>1
  <2> QED
    BY <2>1, <2>2, <2>4, <2>5, <2>6, <2>7, <2>8 DEF Exact
<1>16. ASSUME NEW n \in Nodes \ {m}
       PROVE  freeListRefs'[n] = freeListRefs[n] /\ SameRoles(t, n)
  BY <1>1, <1>3, <1>4, NoneAssumption DEF TypeOK, SameRoles, Adds, Pushes, Refers
<1>17. ListOf(L)'
  BY <1>2, <1>4, SameList
<1> QED
  BY <1>1, <1>2, <1>4, <1>10, <1>11, <1>15, <1>16, <1>17, Assemble

LEMMA GotStep ==
  ASSUME IInv, NEW t \in Threads, Got(t)
  PROVE  IInv'
<1>1. TypeOK /\ Locals(t) /\ Call(t)
  BY DEF IInv, Call
<1>2. PICK L \in SUBSET Nodes : ListOf(L) /\ \A n \in Nodes : Exact(n, L)
  BY DEF IInv, AllExact
<1>3. PICK m \in Nodes : m = node[t]
  BY <1>1 DEF Got, Locals, Refers
<1>4. /\ UNCHANGED <<freeListHead, freeListNext, calls, head, saw, link>>
      /\ pc[t] = "got" /\ pc'[t] = "idle" /\ node'[t] = None
      /\ freeListRefs' = [freeListRefs EXCEPT ![m].count = @ - 2]
      /\ held' = [held EXCEPT ![t] = @ \cup {m}]
      /\ pc' = [pc EXCEPT ![t] = "idle"] /\ node' = [node EXCEPT ![t] = None]
  BY <1>1, <1>3 DEF Got, Goto, Forget, TypeOK
<1>5. Exact(m, L)
  BY <1>2
<1>6. /\ t \in Referring(m) /\ Getting(m) = {t} /\ Owners(m) = {t}
      /\ Pushing(m) = {} /\ Adding(m) = {} /\ m \notin L
      /\ ListRefers(m, L) /\ ~freeListRefs[m].should
  <2>1. t \in Referring(m) /\ t \in Getting(m) /\ t \notin Pushing(m) /\ t \notin Adding(m)
    BY <1>3, <1>4 DEF Referring, Getting, Pushing, Adding
  <2>2. Hands(m) = {t} /\ m \notin L
    BY <1>5, <2>1 DEF Exact, Hands, Owners
  <2> QED
    BY <1>5, <2>1, <2>2 DEF Hands, Owners, ListRefers, Exact
<1>7. /\ freeListRefs[m].count = Cardinality(Referring(m)) + 1
      /\ Cardinality(Referring(m)) >= 1 /\ Cardinality(Referring(m)) \in Nat
      /\ Cardinality(Referring(m) \ {t}) = Cardinality(Referring(m)) - 1
  BY <1>1, <1>5, <1>6, Referred, Counted DEF Exact
<1>8. /\ freeListRefs'[m].count = freeListRefs[m].count - 2
      /\ freeListRefs'[m].should = freeListRefs[m].should
      /\ freeListRefs' \in [Nodes -> Counts]
  BY <1>1, <1>4, <1>7 DEF TypeOK, Counts
<1>9. TypeOK'
  <2>1. node' \in [Threads -> Pointer] /\ held' \in [Threads -> SUBSET Nodes]
    BY <1>1, <1>4 DEF TypeOK, Pointer
  <2> QED
    BY <1>1, <1>4, <1>8, <2>1 DEF TypeOK
<1>10. Locals(t)'
  BY <1>4 DEF Locals, Adds, Pushes, Refers
<1>11. /\ Referring(m)' = Referring(m) \ {t} /\ Pushing(m)' = {} /\ Adding(m)' = {}
       /\ Getting(m)' = {} /\ Owners(m)' = {t} /\ ~ListRefers(m, L)'
  <2>1. pc'[t] \notin Pushes /\ pc'[t] \notin Refers /\ pc'[t] \notin Adds /\ pc'[t] # "got"
    BY <1>4 DEF Adds, Pushes, Refers
  <2>2. /\ Referring(m)' = Referring(m) \ {t} /\ Pushing(m)' = Pushing(m) \ {t}
        /\ Getting(m)' = Getting(m) \ {t} /\ Adding(m)' = Adding(m) \ {t}
    BY <1>1, <2>1, SetsAfter DEF Joins
  <2>3. m \in held'[t]
    BY <1>1, <1>4 DEF TypeOK
  <2>4. Owners(m)' = Owners(m) \cup {t}
    BY <1>1, <2>3, SetsAfter DEF Joins
  <2> QED
    BY <1>6, <2>2, <2>4 DEF ListRefers
<1>12. Exact(m, L)'
  <2>1. freeListRefs'[m].count = Cardinality(Referring(m)') + 0
    BY <1>7, <1>8, <1>11
  <2>2. (freeListRefs[m].should <=> m \notin L /\ Owners(m) \cup Pushing(m) = {})'
    BY <1>6, <1>8, <1>11
  <2>3. Hands(m)' = {t}
    BY <1>11 DEF Hands
  <2>4. \A u \in Threads : m \in held'[u] /\ node'[u] = m => pc'[u] \notin Adds \cup Pushes \cup {"got"}
    <3>1. ASSUME NEW u \in Threads, m \in held'[u], node'[u] = m
          PROVE  pc'[u] \notin Adds \cup Pushes \cup {"got"}
      <4>1. CASE u = t
        BY <1>4, <3>1, <4>1, NoneAssumption
      <4>2. CASE u # t
        BY <1>1, <1>5, <3>1, <4>2, OthersStay DEF Exact
      <4> QED
        BY <4>1, <4>2
    <3> QED
      BY <3>1
  <2>5. ~freeListRefs'[m].should
    BY <1>6, <1>8
  <2> QED
    BY <1>6, <1>11, <2>1, <2>2, <2>3, <2>4, <2>5 DEF Exact
<1>13. ASSUME NEW n \in Nodes \ {m}
       PROVE  freeListRefs'[n] = freeListRefs[n] /\ SameRoles(t, n)
  BY <1>1, <1>3, <1>4, NoneAssumption DEF TypeOK, SameRoles, Adds, Pushes, Refers
<1>14. ListOf(L)'
  BY <1>2, <1>4, SameList
<1> QED
  BY <1>1, <1>2, <1>4, <1>9, <1>10, <1>12, <1>13, <1>14, Assemble

LEMMA PublishStep ==
  ASSUME IInv, NEW t \in Threads, Publish(t)
  PROVE  IInv'
<1>1. TypeOK /\ Locals(t) /\ Call(t)
  BY DEF IInv, Call
<1>2. PICK L \in SUBSET Nodes : ListOf(L) /\ \A n \in Nodes : Exact(n, L)
  BY DEF IInv, AllExact
<1>3. PICK m \in Nodes : m = node[t]
  BY <1>1 DEF Publish, Locals, Adds
<1>4. /\ UNCHANGED <<freeListHead, held, calls, head, node, saw, link>>
      /\ pc[t] = "publish" /\ pc'[t] = "push" /\ pc' = [pc EXCEPT ![t] = "push"]
      /\ freeListNext' = [freeListNext EXCEPT ![m] = link[t]]
      /\ freeListRefs' = [freeListRefs EXCEPT ![m] = Refs(1, FALSE)]
  BY <1>1, <1>3 DEF Publish, Goto, TypeOK
<1>5. Exact(m, L)
  BY <1>2
<1>6. /\ Adding(m) = {t} /\ Pushing(m) = {} /\ Owners(m) = {} /\ Getting(m) = {}
      /\ m \notin L /\ Referring(m) = {} /\ Cardinality(Referring(m)) = 0
  <2>1. t \in Adding(m)
    BY <1>3, <1>4 DEF Adding
  <2>2. Hands(m) = {t} /\ m \notin L /\ freeListRefs[m].count = 0
    BY <1>5, <2>1 DEF Exact, Hands
  <2>3. t \notin Pushing(m) /\ t \notin Getting(m) /\ m \notin held[t]
    BY <1>3, <1>4, <1>5 DEF Pushing, Getting, Exact, Adds
  <2>4. Adding(m) = {t} /\ Pushing(m) = {} /\ Owners(m) = {} /\ Getting(m) = {}
    BY <2>1, <2>2, <2>3 DEF Hands, Owners
  <2>5. ~ListRefers(m, L)
    BY <2>2, <2>4 DEF ListRefers
  <2>6. Cardinality(Referring(m)) = 0
    <3>1. freeListRefs[m].count = Cardinality(Referring(m)) + 0
      BY <1>5, <2>5 DEF Exact
    <3> QED
      BY <1>1, <2>2, <3>1, Counted
  <2> QED
    BY <2>2, <2>4, <2>6, NotReferred
<1>7. freeListRefs'[m] = Refs(1, FALSE) /\ freeListRefs'[m].count = 1 /\ ~freeListRefs'[m].should
  BY <1>1, <1>4 DEF TypeOK, Refs
<1>8. TypeOK'
  <2>1. Refs(1, FALSE) \in Counts
    BY DEF Refs, Counts
  <2>2. freeListRefs' \in [Nodes -> Counts] /\ freeListNext' \in [Nodes -> Pointer]
    BY <1>1, <1>4, <2>1 DEF TypeOK
  <2> QED
    BY <1>1, <1>4, <2>2 DEF TypeOK, Pushes
<1>9. Locals(t)'
  BY <1>1, <1>3, <1>4 DEF Locals, TypeOK, Adds, Pushes, Refers
<1>10. /\ Referring(m)' = {} /\ Adding(m)' = {} /\ Pushing(m)' = {t}
       /\ Owners(m)' = {} /\ Getting(m)' = {}
  <2>1. node'[t] = m /\ m \notin held'[t]
    BY <1>3, <1>4, <1>6 DEF Owners
  <2>2. pc'[t] \in Pushes /\ pc'[t] \notin Adds /\ pc'[t] \notin Refers /\ pc'[t] # "got"
    BY <1>4 DEF Pushes, Adds, Refers
  <2>3. /\ Referring(m)' = Referring(m) \ {t} /\ Adding(m)' = Adding(m) \ {t}
        /\ Pushing(m)' = Pushing(m) \cup {t}
        /\ Owners(m)' = Owners(m) \ {t} /\ Getting(m)' = Getting(m) \ {t}
    BY <1>1, <2>1, <2>2, SetsAfter DEF Joins
  <2> QED
    BY <1>6, <2>3
<1>11. Exact(m, L)'
  <2>1. ListRefers(m, L)'
    BY <1>10 DEF ListRefers
  <2>2. freeListRefs'[m].count = Cardinality(Referring(m)') + 1
    <3>1. Referring(m)' = Referring(m)
      BY <1>6, <1>10
    <3>2. Cardinality(Referring(m)') = 0
      BY <1>6, <3>1
    <3>3. Cardinality(Referring(m)') + 1 = 1
      BY <3>2
    <3> QED
      BY <1>7, <3>3
  <2>3. Hands(m)' = {t}
    BY <1>10 DEF Hands
  <2>4. \A u \in Threads : m \notin held'[u]
    BY <1>10 DEF Owners
  <2> QED
    BY <1>6, <1>7, <1>10, <2>1, <2>2, <2>3, <2>4 DEF Exact
<1>12. ASSUME NEW n \in Nodes \ {m}
       PROVE  /\ freeListRefs'[n] = freeListRefs[n] /\ freeListNext'[n] = freeListNext[n]
              /\ SameRoles(t, n)
  BY <1>1, <1>3, <1>4 DEF TypeOK, SameRoles
<1>13. ListOf(L)'
  BY <1>1, <1>2, <1>4, <1>6, SameList DEF TypeOK
<1> QED
  BY <1>1, <1>2, <1>6, <1>8, <1>9, <1>11, <1>12, <1>13, Assemble

-----------------------------------------------------------------------------
(* The steps that change the list.                                         *)

(* A node that is not on the list becomes its head.                        *)
LEMMA ListGrows ==
  ASSUME NEW L \in SUBSET Nodes, ListOf(L), NEW m \in Nodes \ L,
         freeListNext[m] = freeListHead, freeListHead' = m, UNCHANGED freeListNext
  PROVE  ListOf(L \cup {m})'
<1> DEFINE k == Cardinality(L)
<1>1. PICK order \in Bijection(1 .. k, L) :
        /\ freeListHead = IF k = 0 THEN None ELSE order[k]
        /\ \A i \in 1 .. k : freeListNext[order[i]] = IF i = 1 THEN None ELSE order[i - 1]
  BY DEF ListOf
<1>2. k \in Nat /\ Cardinality(L \cup {m}) = k + 1
  BY Finite, FS_AddElement
<1> HIDE DEF k
<1> DEFINE longer == [i \in 1 .. k + 1 |-> IF i = k + 1 THEN m ELSE order[i]]
<1>3. /\ order \in [1 .. k -> L]
      /\ \A i, j \in 1 .. k : order[i] = order[j] => i = j
      /\ \A n \in L : \E i \in 1 .. k : order[i] = n
  BY <1>1 DEF Bijection, Injection, Surjection, IsInjective
<1>4. \A i \in 1 .. k : longer[i] = order[i] /\ order[i] \in L /\ order[i] # m
  BY <1>2, <1>3
<1>5. longer[k + 1] = m /\ \A i \in 1 .. k + 1 : i = k + 1 \/ i \in 1 .. k
  BY <1>2
<1>6. longer \in Bijection(1 .. k + 1, L \cup {m})
  <2>1. longer \in [1 .. k + 1 -> L \cup {m}]
    BY <1>4, <1>5
  <2>2. \A i, j \in 1 .. k + 1 : longer[i] = longer[j] => i = j
    BY <1>3, <1>4, <1>5
  <2>3. \A n \in L \cup {m} : \E i \in 1 .. k + 1 : longer[i] = n
    <3>1. ASSUME NEW n \in L PROVE \E i \in 1 .. k + 1 : longer[i] = n
      <4>1. PICK i \in 1 .. k : order[i] = n
        BY <1>3
      <4>2. i \in 1 .. k + 1
        BY <1>2
      <4> QED
        BY <1>4, <4>1, <4>2
    <3>2. k + 1 \in 1 .. k + 1
      BY <1>2
    <3> QED
      BY <1>5, <3>1, <3>2
  <2> HIDE DEF longer
  <2> QED
    BY <2>1, <2>2, <2>3 DEF Bijection, Injection, Surjection, IsInjective
<1>7. freeListHead' = longer[k + 1] /\ k + 1 # 0
  BY <1>2, <1>5
<1>8. ASSUME NEW i \in 1 .. k + 1
      PROVE  freeListNext'[longer[i]] = IF i = 1 THEN None ELSE longer[i - 1]
  <2>1. CASE i \in 1 .. k
    <3>1. i # 1 => i - 1 \in 1 .. k
      BY <1>2
    <3> HIDE DEF longer
    <3> QED
      BY <1>1, <1>4, <2>1, <3>1 DEF k
  <2>2. CASE i = k + 1
    <3>1. freeListNext'[longer[i]] = freeListHead
      BY <1>5, <2>2
    <3>2. CASE k = 0
      BY <1>1, <2>2, <3>1, <3>2 DEF k
    <3>3. CASE k # 0
      <4>1. k \in 1 .. k /\ i # 1 /\ i - 1 = k
        BY <1>2, <2>2, <3>3
      <4>2. longer[k] = order[k]
        BY <1>4, <4>1
      <4>3. freeListHead = order[k]
        BY <1>1, <3>3 DEF k
      <4> HIDE DEF longer
      <4> QED
        BY <3>1, <4>1, <4>2, <4>3
    <3> QED
      BY <3>2, <3>3
  <2> QED
    BY <1>5, <2>1, <2>2
<1> HIDE DEF longer
<1> QED
  BY <1>2, <1>6, <1>7, <1>8 DEF ListOf

(* The head leaves the list to its successor.                              *)
LEMMA ListShrinks ==
  ASSUME NEW L \in SUBSET Nodes, ListOf(L), NEW m \in Nodes, freeListHead = m,
         freeListHead' = freeListNext[m], UNCHANGED freeListNext
  PROVE  m \in L /\ ListOf(L \ {m})'
<1> DEFINE k == Cardinality(L)
<1>1. PICK order \in Bijection(1 .. k, L) :
        /\ freeListHead = IF k = 0 THEN None ELSE order[k]
        /\ \A i \in 1 .. k : freeListNext[order[i]] = IF i = 1 THEN None ELSE order[i - 1]
  BY DEF ListOf
<1>2. k \in Nat
  BY Finite
<1>3. k # 0 /\ m = order[k]
  BY <1>1, NoneAssumption
<1> HIDE DEF k
<1>4. /\ order \in [1 .. k -> L]
      /\ \A i, j \in 1 .. k : order[i] = order[j] => i = j
      /\ \A n \in L : \E i \in 1 .. k : order[i] = n
  BY <1>1 DEF Bijection, Injection, Surjection, IsInjective
<1>5. k \in 1 .. k /\ k - 1 \in Nat
  BY <1>2, <1>3
<1>6. m \in L
  BY <1>3, <1>4, <1>5
<1>7. Cardinality(L \ {m}) = k - 1
  BY <1>6, Finite, FS_RemoveElement DEF k
<1> DEFINE shorter == [i \in 1 .. k - 1 |-> order[i]]
<1>8. \A i \in 1 .. k - 1 : i \in 1 .. k /\ i # k /\ shorter[i] = order[i]
  BY <1>2
<1>9. shorter \in Bijection(1 .. k - 1, L \ {m})
  <2>1. shorter \in [1 .. k - 1 -> L \ {m}]
    BY <1>3, <1>4, <1>5, <1>8
  <2>2. \A i, j \in 1 .. k - 1 : shorter[i] = shorter[j] => i = j
    BY <1>4, <1>8
  <2>3. ASSUME NEW n \in L \ {m} PROVE \E i \in 1 .. k - 1 : shorter[i] = n
    <3>1. PICK i \in 1 .. k : order[i] = n
      BY <1>4
    <3>2. i \in 1 .. k - 1
      BY <1>2, <1>3, <3>1
    <3> QED
      BY <1>8, <3>1, <3>2
  <2> HIDE DEF shorter
  <2> QED
    BY <2>1, <2>2, <2>3 DEF Bijection, Injection, Surjection, IsInjective
<1>10. freeListHead' = IF k - 1 = 0 THEN None ELSE shorter[k - 1]
  <2>1. freeListNext[m] = IF k = 1 THEN None ELSE order[k - 1]
    BY <1>1, <1>3, <1>5 DEF k
  <2>2. k # 1 => k - 1 \in 1 .. k - 1
    BY <1>2, <1>3
  <2>3. k = 1 <=> k - 1 = 0
    BY <1>2
  <2> QED
    BY <1>8, <2>1, <2>2, <2>3
<1>11. ASSUME NEW i \in 1 .. k - 1
       PROVE  freeListNext'[shorter[i]] = IF i = 1 THEN None ELSE shorter[i - 1]
  <2>1. freeListNext[order[i]] = IF i = 1 THEN None ELSE order[i - 1]
    BY <1>1, <1>8 DEF k
  <2>2. i # 1 => i - 1 \in 1 .. k - 1
    BY <1>2
  <2> QED
    BY <1>8, <2>1, <2>2
<1> HIDE DEF shorter
<1>12. ASSUME NEW j, j = Cardinality(L \ {m}) PROVE ListOf(L \ {m})'
  <2>1. j = k - 1
    BY <1>7, <1>12
  <2>2. shorter \in Bijection(1 .. j, L \ {m}) /\ freeListHead' = IF j = 0 THEN None ELSE shorter[j]
    BY <1>9, <1>10, <2>1
  <2>3. \A i \in 1 .. j : freeListNext'[shorter[i]] = IF i = 1 THEN None ELSE shorter[i - 1]
    BY <1>11, <2>1
  <2> QED
    BY <1>12, <2>2, <2>3 DEF ListOf
<1> QED
  BY <1>6, <1>12

LEMMA PushStep ==
  ASSUME IInv, NEW t \in Threads, Push(t), freeListHead = link[t]
  PROVE  IInv'
<1>1. TypeOK /\ Locals(t) /\ Call(t)
  BY DEF IInv, Call
<1>2. PICK L \in SUBSET Nodes : ListOf(L) /\ \A n \in Nodes : Exact(n, L)
  BY DEF IInv, AllExact
<1>3. PICK m \in Nodes : m = node[t]
  BY <1>1 DEF Push, Locals, Pushes
<1>4. /\ UNCHANGED <<freeListRefs, freeListNext, held, calls, head, saw>>
      /\ pc[t] = "push" /\ freeListHead' = m
      /\ link' = [link EXCEPT ![t] = None]
      /\ pc'[t] \in {"idle", "refs"} /\ (pc'[t] = "refs" => head[t] # None) /\ node'[t] = None
      /\ pc' = [pc EXCEPT ![t] = pc'[t]] /\ node' = [node EXCEPT ![t] = None]
  BY <1>1, <1>3 DEF Push, Goto, Loop, Forget, TypeOK
<1> DEFINE M == L \cup {m}
<1>5. Exact(m, L)
  BY <1>2
<1>6. /\ Pushing(m) = {t} /\ Adding(m) = {} /\ Owners(m) = {} /\ Getting(m) = {}
      /\ m \notin L /\ t \notin Referring(m) /\ ListRefers(m, L) /\ ~freeListRefs[m].should
  <2>1. t \in Pushing(m)
    BY <1>3, <1>4 DEF Pushing
  <2>2. Hands(m) = {t} /\ m \notin L /\ ~freeListRefs[m].should
    BY <1>5, <2>1 DEF Exact, Hands
  <2>3. t \notin Adding(m) /\ t \notin Getting(m) /\ m \notin held[t] /\ t \notin Referring(m)
    BY <1>3, <1>4, <1>5 DEF Adding, Getting, Exact, Pushes, Referring
  <2> QED
    BY <2>1, <2>2, <2>3 DEF Hands, Owners, ListRefers
<1>7. ListOf(M)'
  <2>1. freeListNext[m] = freeListHead
    BY <1>1, <1>3, <1>4 DEF Locals
  <2> QED
    BY <1>2, <1>4, <1>6, <2>1, ListGrows
<1>8. TypeOK'
  <2>1. freeListHead' \in Pointer /\ link' \in [Threads -> Pointer] /\ node' \in [Threads -> Pointer]
    BY <1>1, <1>4 DEF TypeOK, Pointer
  <2>2. pc' \in [Threads -> {"off", "idle", "again", "refs", "ref"} \cup Adds \cup Pushes \cup Refers]
    BY <1>1, <1>4 DEF TypeOK
  <2> QED
    BY <1>1, <1>4, <2>1, <2>2 DEF TypeOK
<1>9. Locals(t)'
  BY <1>1, <1>4 DEF Locals, TypeOK, Pointer, Adds, Pushes, Refers
<1>10. /\ Referring(m)' = Referring(m) /\ Adding(m)' = {} /\ Pushing(m)' = {}
       /\ Owners(m)' = {} /\ Getting(m)' = {}
  <2>1. m \notin held'[t]
    BY <1>4, <1>6 DEF Owners
  <2>2. pc'[t] \notin Pushes /\ pc'[t] \notin Adds /\ pc'[t] \notin Refers /\ pc'[t] # "got"
    BY <1>4 DEF Pushes, Adds, Refers
  <2>3. /\ Referring(m)' = Referring(m) \ {t} /\ Adding(m)' = Adding(m) \ {t}
        /\ Pushing(m)' = Pushing(m) \ {t}
        /\ Owners(m)' = Owners(m) \ {t} /\ Getting(m)' = Getting(m) \ {t}
    BY <1>1, <2>1, <2>2, SetsAfter DEF Joins
  <2> QED
    BY <1>6, <2>3
<1>11. Exact(m, M)'
  <2>1. ListRefers(m, M)'
    BY DEF ListRefers
  <2>2. freeListRefs'[m].count = Cardinality(Referring(m)') + 1
    <3>1. freeListRefs[m].count = Cardinality(Referring(m)) + 1
      BY <1>5, <1>6 DEF Exact
    <3> QED
      BY <1>4, <1>10, <3>1
  <2>3. Hands(m)' = {}
    BY <1>10 DEF Hands
  <2>4. \A u \in Threads : m \notin held'[u]
    BY <1>10 DEF Owners
  <2>5. m \in M /\ ~freeListRefs'[m].should
    BY <1>4, <1>6
  <2> QED
    BY <1>10, <2>1, <2>2, <2>3, <2>4, <2>5 DEF Exact
<1>12. ASSUME NEW n \in Nodes \ {m}
       PROVE  /\ freeListRefs'[n] = freeListRefs[n] /\ freeListNext'[n] = freeListNext[n]
              /\ n \in L <=> n \in M
              /\ SameRoles(t, n)
  BY <1>1, <1>3, <1>4, NoneAssumption DEF TypeOK, SameRoles, Adds, Pushes, Refers
<1>13. M \in SUBSET Nodes
  OBVIOUS
<1> HIDE DEF M
<1> QED
  BY <1>1, <1>2, <1>4, <1>7, <1>8, <1>9, <1>11, <1>12, <1>13, Assemble

LEMMA PopStep ==
  ASSUME IInv, NEW t \in Threads, Pop(t), freeListHead = head[t]
  PROVE  IInv'
<1>1. TypeOK /\ Locals(t) /\ Call(t)
  BY DEF IInv, Call
<1>2. PICK L \in SUBSET Nodes : ListOf(L) /\ \A n \in Nodes : Exact(n, L)
  BY DEF IInv, AllExact
<1>3. PICK m \in Nodes : m = node[t]
  BY <1>1 DEF Pop, Locals, Refers
<1>4. /\ UNCHANGED <<freeListRefs, freeListNext, held, calls, node, saw>>
      /\ pc[t] = "pop" /\ freeListHead = m /\ freeListHead' = freeListNext[m]
      /\ link' = [link EXCEPT ![t] = None] /\ head' = [head EXCEPT ![t] = None]
      /\ pc'[t] = "got" /\ node'[t] = m /\ pc' = [pc EXCEPT ![t] = "got"]
  BY <1>1, <1>3 DEF Pop, Goto, Forget, TypeOK, Locals
<1> DEFINE M == L \ {m}
<1>5. Exact(m, L)
  BY <1>2
<1>6. m \in L /\ ListOf(M)'
  BY <1>2, <1>4, ListShrinks
<1>7. /\ Pushing(m) = {} /\ Adding(m) = {} /\ Owners(m) = {} /\ Getting(m) = {}
      /\ t \in Referring(m) /\ ListRefers(m, L) /\ ~freeListRefs[m].should
  <2>1. t \in Referring(m)
    BY <1>3, <1>4 DEF Referring
  <2>2. Hands(m) = {}
    BY <1>5, <1>6 DEF Exact
  <2> QED
    BY <1>5, <1>6, <2>1, <2>2 DEF Exact, Hands, Owners, ListRefers
<1>8. TypeOK'
  <2>1. freeListHead' \in Pointer /\ link' \in [Threads -> Pointer] /\ head' \in [Threads -> Pointer]
    BY <1>1, <1>4 DEF TypeOK, Pointer
  <2> QED
    BY <1>1, <1>4, <2>1 DEF TypeOK, Refers
<1>9. Locals(t)'
  BY <1>1, <1>3, <1>4 DEF Locals, Adds, Pushes, Refers
<1>10. /\ Referring(m)' = Referring(m) /\ Adding(m)' = {} /\ Pushing(m)' = {}
       /\ Owners(m)' = {t} /\ Getting(m)' = {t}
  <2>1. pc'[t] \notin Pushes /\ pc'[t] \notin Adds /\ pc'[t] \in Refers
    BY <1>4 DEF Pushes, Adds, Refers
  <2>2. /\ Referring(m)' = Referring(m) \cup {t} /\ Adding(m)' = Adding(m) \ {t}
        /\ Pushing(m)' = Pushing(m) \ {t}
        /\ Owners(m)' = Owners(m) \cup {t} /\ Getting(m)' = Getting(m) \cup {t}
    BY <1>1, <1>4, <2>1, SetsAfter DEF Joins
  <2> QED
    BY <1>7, <2>2
<1>11. Exact(m, M)'
  <2>1. ListRefers(m, M)'
    BY <1>10 DEF ListRefers
  <2>2. freeListRefs'[m].count = Cardinality(Referring(m)') + 1
    <3>1. freeListRefs[m].count = Cardinality(Referring(m)) + 1
      BY <1>5, <1>7 DEF Exact
    <3> QED
      BY <1>4, <1>10, <3>1
  <2>3. Hands(m)' = {t}
    BY <1>10 DEF Hands
  <2>4. \A u \in Threads : m \notin held'[u]
    BY <1>4, <1>7 DEF Owners
  <2>5. m \notin M /\ ~freeListRefs'[m].should
    BY <1>4, <1>7
  <2> QED
    BY <1>10, <2>1, <2>2, <2>3, <2>4, <2>5 DEF Exact
<1>12. ASSUME NEW n \in Nodes \ {m}
       PROVE  /\ freeListRefs'[n] = freeListRefs[n] /\ freeListNext'[n] = freeListNext[n]
              /\ n \in L <=> n \in M
              /\ SameRoles(t, n)
  BY <1>1, <1>3, <1>4 DEF TypeOK, SameRoles
<1>13. M \in SUBSET Nodes
  OBVIOUS
<1> HIDE DEF M
<1> QED
  BY <1>1, <1>2, <1>4, <1>6, <1>8, <1>9, <1>11, <1>12, <1>13, Assemble

-----------------------------------------------------------------------------
LEMMA NextIInv == IInv /\ [FreeListNext]_freeListVars => IInv'
<1>1. ASSUME IInv, UNCHANGED freeListVars PROVE IInv'
  <2> USE DEF freeListVars
  <2>1. TypeOK' /\ \A t \in Threads : Locals(t)'
    BY <1>1 DEF IInv, TypeOK, Locals
  <2>2. PICK L \in SUBSET Nodes : ListOf(L) /\ \A n \in Nodes : Exact(n, L)
    BY <1>1 DEF IInv, AllExact
  <2>3. ListOf(L)'
    BY <1>1, <2>2 DEF ListOf
  <2>4. \A n \in Nodes : Exact(n, L)'
    BY <1>1, <2>2, SameNode DEF SameRoles
  <2> QED
    BY <2>1, <2>3, <2>4 DEF IInv, AllExact
<1>2. ASSUME IInv, NEW t \in Threads, Call(t) PROVE IInv'
  <2>1. CASE \E n \in Nodes : Mark(t, n)
    BY <1>2, <2>1, MarkStep
  <2>2. CASE Quiet(t)
    BY <1>2, <2>2, QuietStep
  <2>3. CASE Push(t) /\ freeListHead = link[t]
    BY <1>2, <2>3, PushStep
  <2>4. CASE Pop(t) /\ freeListHead = head[t]
    BY <1>2, <2>4, PopStep
  <2>5. CASE Publish(t) \/ Retract(t) \/ TakeRef(t) \/ Got(t) \/ Drop(t)
    BY <1>2, <2>5, PublishStep, RetractStep, TakeRefStep, GotStep, DropStep
  <2> QED
    BY <1>2, <2>1, <2>2, <2>3, <2>4, <2>5 DEF Call, Quiet
<1> QED
  BY <1>1, <1>2 DEF FreeListNext

(* Whichever threads call the list, and whatever the order of their steps: *)
(* types, the meaning of the locals, and the exact counts.                 *)
THEOREM Invariance == ASSUME NEW CONSTANT Active PROVE Spec(Active) => []IInv
<1>1. FreeListInit(Active) => IInv
  BY InitIInv
<1> QED
  BY <1>1, NextIInv, PTL DEF Spec

(* The list has every node that was put back and not taken once, in some   *)
(* order that is followed from freeListHead; the counts are those of the   *)
(* list and of the threads that hold a reference; a marked node always has *)
(* a thread that will put it back; no node is in two threads' hands.       *)
THEOREM ReferenceCounts == ASSUME NEW CONSTANT Active PROVE Spec(Active) => []ReferencesExact
<1>1. ASSUME IInv PROVE ReferencesExact
  <2>1. PICK L \in SUBSET Nodes : ListOf(L) /\ \A n \in Nodes : Exact(n, L)
    BY <1>1 DEF IInv, AllExact
  <2> QED
    BY <2>1 DEF ReferencesExact, Exact, Hands
<1> QED
  BY <1>1, Invariance, PTL

(* In spite of nodes that come back to the head while a thread is about to *)
(* swap in the successor it read (ABA), the list hands out a node only     *)
(* when nobody owns it: to set the mark is to give a node away, to swap    *)
(* the head for its successor is to get one, and no other step changes who *)
(* owns what.                                                              *)
THEOREM PoolOfNodes == ASSUME NEW CONSTANT Active PROVE Spec(Active) => ImplementsNodePool
<1> DEFINE owned == [n \in Nodes |-> Owners(n)]
<1>1. FreeListInit(Active) => Pool!Init
  <2> SUFFICES ASSUME FreeListInit(Active) PROVE Pool!Init
    OBVIOUS
  <2>1. PICK o \in [Nodes -> Threads] : held = [t \in Threads |-> {n \in Nodes : o[n] = t}]
    BY DEF FreeListInit
  <2>2. ASSUME NEW n \in Nodes PROVE Owners(n) = {o[n]}
    BY <2>1 DEF Owners, Getting, FreeListInit
  <2> QED
    BY <2>1, <2>2 DEF Pool!Init
<1>2. ASSUME IInv, [FreeListNext]_freeListVars PROVE [Pool!Next]_owned
  <2>1. TypeOK /\ (\A t \in Threads : Locals(t))
    BY <1>2 DEF IInv
  <2>2. PICK L \in SUBSET Nodes : ListOf(L) /\ \A n \in Nodes : Exact(n, L)
    BY <1>2 DEF IInv, AllExact
  <2>3. CASE UNCHANGED freeListVars
    BY <2>3 DEF freeListVars, Owners, Getting
  <2>4. ASSUME NEW t \in Threads, NEW m \in Nodes, Mark(t, m) PROVE Pool!Add(t, m)
    <3>1. Call(t) /\ t \in Owners(m) /\ pc[t] = "idle"
      BY <2>4 DEF Mark, Call, Owners
    <3>2. Owners(m) = {t}
      BY <2>2, <3>1 DEF Exact, Hands
    <3>3. pc'[t] # "got"
      BY <2>1, <2>4, <3>1 DEF Mark, Goto, TypeOK
    <3>4. m \notin held'[t] /\ \A n \in Nodes \ {m} : n \in held'[t] <=> n \in held[t]
      BY <2>1, <2>4 DEF Mark, TypeOK
    <3>5. Owners(m)' = {}
      <4>1. Owners(m)' = Owners(m) \ {t}
        BY <2>1, <3>1, <3>3, <3>4, SetsAfter DEF Joins
      <4> QED
        BY <3>2, <4>1
    <3>6. ASSUME NEW n \in Nodes \ {m} PROVE Owners(n)' = Owners(n)
      <4>1. \A u \in Threads \ {t} : pc'[u] = pc[u] /\ node'[u] = node[u] /\ held'[u] = held[u]
        BY <2>1, <3>1, OthersStay
      <4> QED
        BY <3>1, <3>3, <3>4, <4>1 DEF Owners, Getting
    <3> QED
      BY <3>2, <3>5, <3>6 DEF Pool!Add
  <2>5. ASSUME NEW t \in Threads, Pop(t), freeListHead = head[t] PROVE Pool!Get(t, node[t]) /\ node[t] \in Nodes
    <3>1. Call(t)
      BY <2>5 DEF Call
    <3>2. PICK m \in Nodes : m = node[t]
      BY <2>1, <2>5 DEF Pop, Locals, Refers
    <3>3. /\ UNCHANGED <<held, node, freeListNext>> /\ freeListHead = m /\ freeListHead' = freeListNext[m]
          /\ pc[t] = "pop" /\ pc'[t] = "got"
      BY <2>1, <2>5, <3>2 DEF Pop, Goto, TypeOK, Locals
    <3>4. Owners(m) = {}
      <4>1. m \in L
        BY <2>2, <3>3, ListShrinks
      <4> QED
        BY <2>2, <4>1 DEF Exact, Hands
    <3>5. Owners(m)' = {t}
      <4>1. Owners(m)' = Owners(m) \cup {t}
        BY <2>1, <3>1, <3>2, <3>3, SetsAfter DEF Joins
      <4> QED
        BY <3>4, <4>1
    <3>6. ASSUME NEW n \in Nodes \ {m} PROVE Owners(n)' = Owners(n)
      <4>1. \A u \in Threads \ {t} : pc'[u] = pc[u] /\ node'[u] = node[u] /\ held'[u] = held[u]
        BY <2>1, <3>1, OthersStay
      <4> QED
        BY <3>2, <3>3, <4>1 DEF Owners, Getting
    <3> QED
      BY <3>2, <3>4, <3>5, <3>6 DEF Pool!Get
  <2>6. ASSUME NEW t \in Threads, Got(t) PROVE UNCHANGED owned
    <3>1. Call(t) /\ pc[t] = "got" /\ pc'[t] = "idle" /\ node[t] \in Nodes
          /\ held'[t] = held[t] \cup {node[t]}
      BY <2>1, <2>6 DEF Got, Goto, Call, TypeOK, Locals, Refers
    <3>2. \A u \in Threads \ {t} : pc'[u] = pc[u] /\ node'[u] = node[u] /\ held'[u] = held[u]
      BY <2>1, <3>1, OthersStay
    <3>3. ASSUME NEW n \in Nodes PROVE Owners(n)' = Owners(n)
      BY <3>1, <3>2 DEF Owners, Getting
    <3> QED
      BY <3>3
  <2>7. ASSUME NEW t \in Threads, Call(t), UNCHANGED held, pc[t] # "got", pc'[t] # "got"
        PROVE  UNCHANGED owned
    <3>1. \A u \in Threads \ {t} : pc'[u] = pc[u] /\ node'[u] = node[u]
      BY <2>1, <2>7, OthersStay
    <3>2. ASSUME NEW n \in Nodes PROVE Owners(n)' = Owners(n)
      BY <2>7, <3>1 DEF Owners, Getting
    <3> QED
      BY <3>2
  <2>8. ASSUME NEW t \in Threads,
               Quiet(t) \/ Push(t) \/ Publish(t) \/ Retract(t) \/ TakeRef(t) \/ Drop(t)
        PROVE  Call(t) /\ UNCHANGED held /\ pc[t] # "got" /\ pc'[t] # "got"
    BY <2>1, <2>8 DEF Quiet, LoadExpected, LoadHead, LoadRefs, ReadNext, Push, Pop, Publish,
                      Retract, TakeRef, Drop, Goto, Loop, Call, TypeOK
  <2> QED
    <3>1. ASSUME NEW t \in Threads, Call(t) PROVE Pool!Next \/ UNCHANGED owned
      <4>1. CASE \E n \in Nodes : Mark(t, n)
        BY <2>4, <4>1 DEF Pool!Next
      <4>2. CASE Pop(t) /\ freeListHead = head[t]
        BY <2>5, <4>2 DEF Pool!Next
      <4>3. CASE Got(t)
        BY <2>6, <4>3
      <4>4. CASE Quiet(t) \/ Push(t) \/ Publish(t) \/ Retract(t) \/ TakeRef(t) \/ Drop(t)
        BY <2>7, <2>8, <4>4
      <4> QED
        BY <3>1, <4>1, <4>2, <4>3, <4>4 DEF Call, Quiet
    <3> QED
      BY <1>2, <2>3, <3>1 DEF FreeListNext
<1> QED
  BY <1>1, <1>2, Invariance, PTL DEF Spec, ImplementsNodePool, Pool!Spec
=============================================================================
