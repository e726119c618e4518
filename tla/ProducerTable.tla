--------------------------- MODULE ProducerTable ---------------------------
(***************************************************************************)
(* How a thread comes by its producer in moodycamel::ConcurrentQueue.      *)
(* All producers are in one list; one that is not used any more is marked  *)
(* inactive and can be caught by another owner.  A ProducerToken owns an   *)
(* explicit producer.  A thread without a token owns an implicit one and   *)
(* finds it, by its thread id, in a chain of hash tables: the newest one,  *)
(* twice as large or more, is the main one, and an entry moves to it when  *)
(* its thread next looks it up.  When a thread exits, its entries become   *)
(* invalid_thread_id2 (here Gone), which another thread can reuse.         *)
(*                                                                         *)
(* A thread looks one table up in one step: its own id is written and      *)
(* removed by itself only, and a key never becomes invalid_thread_id       *)
(* (here Empty) again, so what others do meanwhile does not change the     *)
(* answer.  A thread id may be given to a new thread after its exit.       *)
(***************************************************************************)
EXTENDS Naturals, Sequences, FiniteSets, FiniteSetsExt

CONSTANTS
  Threads, TokenHolders,  \* users of implicit and of explicit producers
  HashedId,               \* hash_thread_id
  InitialCapacities,      \* values of INITIAL_IMPLICIT_PRODUCER_HASH_SIZE
  Empty, Gone,            \* invalid_thread_id and invalid_thread_id2
  Lookups                 \* bound: calls, all users together

Users == Threads \cup TokenHolders

(* What is assumed of the constants.                                       *)
ConstantsOK ==
  /\ Threads \cap TokenHolders = {} /\ {Empty, Gone} \cap Users = {}
  /\ HashedId \in [Threads -> Nat]
  /\ InitialCapacities \subseteq {2 ^ k : k \in 0 .. 8}
  /\ Lookups \in Nat

VARIABLES
  hashes,                          \* the chain, oldest first: [keys, values]
  implicitProducerHashCount,
  implicitProducerHashResizeInProgress,
  producers,                       \* the list, oldest first: [isExplicit, inactive]
  pc, lookups, canFail,
  mainHash, hash, index, newCount, \* locals of get_or_add_implicit_producer
  ptr,                             \* local of recycle_or_create_producer
  producer,                        \* the producer a user was given; 0: none
  mine                             \* ... and the one its first call gave it

tableVars == <<hashes, implicitProducerHashCount, implicitProducerHashResizeInProgress,
               producers, pc, lookups, canFail, mainHash, hash, index, newCount, ptr, producer, mine>>

NewHash(n) == [keys |-> [i \in 0 .. n - 1 |-> Empty], values |-> [i \in 0 .. n - 1 |-> 0]]
Capacity(h) == Cardinality(DOMAIN hashes[h].keys)

(* Users outside Active never call, used calls of the bound are spent, and *)
(* allocations may or may not fail.                                        *)
TableInit(Active, used, fail) ==
  /\ \E n \in InitialCapacities : hashes = <<NewHash(n)>>
  /\ implicitProducerHashCount = 0
  /\ implicitProducerHashResizeInProgress = FALSE
  /\ producers = <<>>
  /\ pc = [u \in Users |-> IF u \in Active THEN "away" ELSE "off"]
  /\ lookups = used
  /\ canFail = fail
  /\ mainHash = [t \in Threads |-> 0]
  /\ hash = [t \in Threads |-> 0]
  /\ index = [t \in Threads |-> 0]
  /\ newCount = [t \in Threads |-> 0]
  /\ ptr = [u \in Users |-> 0]
  /\ producer = [u \in Users |-> 0]
  /\ mine = [u \in Users |-> 0]

Goto(u, where) == pc' = [pc EXCEPT ![u] = where]
Set(f, u, x) == [f EXCEPT ![u] = x]

listVars   == <<producers, ptr>>
bounds     == <<lookups, canFail>>
sharedHash == <<hashes, implicitProducerHashCount, implicitProducerHashResizeInProgress>>
localHash  == <<mainHash, hash, index, newCount>>

(* The call returns producer p; without one (allocation failed) the user   *)
(* is where it was before.                                                 *)
Return(u, p) ==
  /\ producer' = Set(producer, u, p)
  /\ mine' = IF mine[u] = 0 THEN Set(mine, u, p) ELSE mine
  /\ Goto(u, IF p = 0 THEN "away" ELSE "owner")

-----------------------------------------------------------------------------
(* get_or_add_implicit_producer: look for the id in the chain              *)

Begin(t) ==
  /\ pc[t] \in {"away", "owner"} /\ lookups < Lookups
  /\ lookups' = lookups + 1 /\ UNCHANGED canFail
  /\ mainHash' = Set(mainHash, t, Len(hashes))
  /\ hash' = Set(hash, t, Len(hashes))
  /\ producer' = Set(producer, t, 0)
  /\ Goto(t, "lookup")
  /\ UNCHANGED <<sharedHash, listVars, index, newCount, mine>>

(* The slots at which a search for t stops in table h, by distance.        *)
Slot(h, t, k) == (HashedId[t] + k) % Capacity(h)
Stops(h, t) == {k \in 0 .. Capacity(h) - 1 : hashes[h].keys[Slot(h, t, k)] \in {t, Empty}}

(* Mutant: only the main table is searched.                                *)
LookupMainOnly(t) ==
  /\ pc[t] = "lookup" /\ Stops(hash[t], t) # {}
  /\ LET s == Slot(hash[t], t, Min(Stops(hash[t], t)))
     IN IF hashes[hash[t]].keys[s] = t
        THEN Return(t, hashes[hash[t]].values[s])
        ELSE Goto(t, "count") /\ UNCHANGED <<producer, mine>>
  /\ hash' = Set(hash, t, 0)
  /\ UNCHANGED <<sharedHash, listVars, bounds, mainHash, index, newCount>>

Lookup(t) ==
  /\ pc[t] = "lookup"
  /\ Stops(hash[t], t) # {}       \* otherwise the search never ends
  /\ LET s == Slot(hash[t], t, Min(Stops(hash[t], t)))
         value == hashes[hash[t]].values[s]
     IN \/ /\ hashes[hash[t]].keys[s] = t /\ hash[t] = mainHash[t]
           /\ Return(t, value)
           /\ hash' = Set(hash, t, 0) /\ mainHash' = Set(mainHash, t, 0)
           /\ UNCHANGED index
        \/ /\ hashes[hash[t]].keys[s] = t /\ hash[t] # mainHash[t]
           /\ producer' = Set(producer, t, value)
           /\ index' = Set(index, t, HashedId[t])
           /\ hash' = Set(hash, t, 0)
           /\ Goto(t, "again") /\ UNCHANGED <<mainHash, mine>>
        \/ /\ hashes[hash[t]].keys[s] = Empty
           /\ hash' = Set(hash, t, hash[t] - 1)
           /\ Goto(t, IF hash[t] = 1 THEN "count" ELSE "lookup")
           /\ UNCHANGED <<mainHash, index, producer, mine>>
  /\ UNCHANGED <<sharedHash, listVars, bounds, newCount>>

Here(t) == index[t] % Capacity(mainHash[t])
KeyHere(t) == hashes[mainHash[t]].keys[Here(t)]
TakeSlot(t) == [hashes EXCEPT ![mainHash[t]].keys[Here(t)] = t,
                              ![mainHash[t]].values[Here(t)] = producer[t]]

(* Found in an older table: add it to the main one.                        *)
AddAgain(t) ==
  /\ pc[t] = "again"
  /\ IF KeyHere(t) \in {Empty, Gone}
     THEN /\ hashes' = TakeSlot(t)
          /\ Return(t, producer[t])
          /\ index' = Set(index, t, 0) /\ mainHash' = Set(mainHash, t, 0)
     ELSE /\ index' = Set(index, t, index[t] + 1)
          /\ UNCHANGED <<hashes, mainHash, pc, producer, mine>>
  /\ UNCHANGED <<implicitProducerHashCount, implicitProducerHashResizeInProgress,
                 listVars, bounds, hash, newCount>>

-----------------------------------------------------------------------------
(* ... not found: insert                                                   *)

CountIn(t) ==
  /\ pc[t] = "count"
  /\ implicitProducerHashCount' = implicitProducerHashCount + 1
  /\ newCount' = Set(newCount, t, implicitProducerHashCount + 1)
  /\ Goto(t, "grow")
  /\ UNCHANGED <<hashes, implicitProducerHashResizeInProgress, listVars, bounds,
                 mainHash, hash, index, producer, mine>>

HalfFull(t, h) == newCount[t] >= Capacity(h) \div 2

(* The lock is taken and implicitProducerHash loaded again: it changes     *)
(* under this lock only.                                                   *)
Lock(t) ==
  /\ pc[t] = "grow"
  /\ HalfFull(t, mainHash[t]) /\ ~implicitProducerHashResizeInProgress
  /\ implicitProducerHashResizeInProgress' = TRUE
  /\ mainHash' = Set(mainHash, t, Len(hashes))
  /\ Goto(t, "resize")
  /\ UNCHANGED <<hashes, implicitProducerHashCount, listVars, bounds,
                 hash, index, newCount, producer, mine>>

PassBy(t) ==
  /\ pc[t] = "grow"
  /\ HalfFull(t, mainHash[t]) => implicitProducerHashResizeInProgress
  /\ Goto(t, "room")
  /\ UNCHANGED <<sharedHash, listVars, bounds, localHash, producer, mine>>

(* The smallest of the capacities 2 * capacity, 4 * capacity, ... of which *)
(* newCount does not fill one half.                                        *)
NewCapacity(t) ==
  Min({c \in {Capacity(mainHash[t]) * 2 ^ k : k \in 1 .. newCount[t] + 1} : newCount[t] < c \div 2})

Resize(t) ==
  /\ pc[t] = "resize" /\ HalfFull(t, mainHash[t])
  /\ hashes' = Append(hashes, NewHash(NewCapacity(t)))
  /\ mainHash' = Set(mainHash, t, Len(hashes) + 1)
  /\ Goto(t, "unlock")
  /\ UNCHANGED <<implicitProducerHashCount, implicitProducerHashResizeInProgress,
                 listVars, bounds, hash, index, newCount, producer, mine>>

NoResize(t) ==
  /\ pc[t] = "resize" /\ ~HalfFull(t, mainHash[t])
  /\ Goto(t, "unlock")
  /\ UNCHANGED <<sharedHash, listVars, bounds, localHash, producer, mine>>

(* Mutant: a failed allocation leaves the lock taken.                      *)
ResizeFailsLocked(t) ==
  /\ canFail
  /\ pc[t] = "resize" /\ HalfFull(t, mainHash[t])
  /\ implicitProducerHashCount' = implicitProducerHashCount - 1
  /\ newCount' = Set(newCount, t, 0)
  /\ Return(t, 0)
  /\ UNCHANGED <<hashes, implicitProducerHashResizeInProgress, listVars, bounds,
                 mainHash, hash, index>>

(* The allocation failed: the insertion is not counted.                    *)
ResizeFails(t) ==
  /\ canFail
  /\ pc[t] = "resize" /\ HalfFull(t, mainHash[t])
  /\ implicitProducerHashCount' = implicitProducerHashCount - 1
  /\ newCount' = Set(newCount, t, 0)
  /\ Goto(t, "unlock")
  /\ UNCHANGED <<hashes, implicitProducerHashResizeInProgress, listVars, bounds,
                 mainHash, hash, index, producer, mine>>

Unlock(t) ==
  /\ pc[t] = "unlock"
  /\ implicitProducerHashResizeInProgress' = FALSE
  /\ IF newCount[t] = 0 THEN Return(t, 0) ELSE Goto(t, "room") /\ UNCHANGED <<producer, mine>>
  /\ UNCHANGED <<hashes, implicitProducerHashCount, listVars, bounds, localHash>>

(* Mutant: the old table is used as long as another one is on its way.     *)
AnyFill(h) == 2 * Capacity(h)

ThreeQuarters(h) == Capacity(h) \div 2 + Capacity(h) \div 4

(* Less than three quarters full: get a producer to insert.  Otherwise try *)
(* again with the table that somebody else is installing.                  *)
Room(t) ==
  /\ pc[t] = "room"
  /\ IF newCount[t] < ThreeQuarters(mainHash[t])
     THEN Goto(t, "scan") /\ ptr' = Set(ptr, t, Len(producers)) /\ UNCHANGED mainHash
     ELSE Goto(t, "grow") /\ mainHash' = Set(mainHash, t, Len(hashes)) /\ UNCHANGED ptr
  /\ UNCHANGED <<sharedHash, producers, bounds, hash, index, newCount, producer, mine>>

(* A slot that was used before was counted before.                         *)
Insert(t) ==
  /\ pc[t] = "insert"
  /\ IF KeyHere(t) \in {Empty, Gone}
     THEN /\ hashes' = TakeSlot(t)
          /\ index' = Set(index, t, 0) /\ newCount' = Set(newCount, t, 0)
          /\ mainHash' = Set(mainHash, t, 0)
          /\ IF KeyHere(t) = Gone THEN Goto(t, "uncount") /\ UNCHANGED <<producer, mine>>
                                  ELSE Return(t, producer[t])
     ELSE /\ index' = Set(index, t, index[t] + 1)
          /\ UNCHANGED <<hashes, newCount, mainHash, pc, producer, mine>>
  /\ UNCHANGED <<implicitProducerHashCount, implicitProducerHashResizeInProgress,
                 listVars, bounds, hash>>

Uncount(t) ==
  /\ pc[t] = "uncount"
  /\ implicitProducerHashCount' = implicitProducerHashCount - 1
  /\ Return(t, producer[t])
  /\ UNCHANGED <<hashes, implicitProducerHashResizeInProgress, listVars, bounds, localHash>>

-----------------------------------------------------------------------------
(* recycle_or_create_producer, for both kinds of users                     *)

IsExplicit(u) == u \in TokenHolders

(* Constructor of ProducerToken                                            *)
NewToken(u) ==
  /\ pc[u] = "away" /\ lookups < Lookups
  /\ lookups' = lookups + 1 /\ UNCHANGED canFail
  /\ ptr' = Set(ptr, u, Len(producers))
  /\ Goto(u, "scan")
  /\ UNCHANGED <<sharedHash, producers, localHash, producer, mine>>

(* The user has its producer: a token is ready, a thread inserts it.       *)
Caught(u, p) ==
  IF IsExplicit(u) THEN Return(u, p) /\ UNCHANGED index
  ELSE /\ producer' = Set(producer, u, p)
       /\ index' = Set(index, u, HashedId[u])
       /\ Goto(u, "insert")
       /\ UNCHANGED mine

Reusable(u, p) == producers[p].inactive /\ producers[p].isExplicit = IsExplicit(u)

Catch(u) ==
  /\ pc[u] = "scan" /\ ptr[u] > 0 /\ Reusable(u, ptr[u])
  /\ producers' = [producers EXCEPT ![ptr[u]].inactive = FALSE]
  /\ ptr' = Set(ptr, u, 0)
  /\ Caught(u, ptr[u])
  /\ UNCHANGED <<sharedHash, bounds, mainHash, hash, newCount>>

NextProd(u) ==
  /\ pc[u] = "scan" /\ ptr[u] > 0 /\ ~Reusable(u, ptr[u])
  /\ ptr' = Set(ptr, u, ptr[u] - 1)
  /\ UNCHANGED <<sharedHash, producers, pc, bounds, localHash, producer, mine>>

(* create and add_producer                                                 *)
AddProducer(u) ==
  /\ pc[u] = "scan" /\ ptr[u] = 0
  /\ producers' = Append(producers, [isExplicit |-> IsExplicit(u), inactive |-> FALSE])
  /\ Caught(u, Len(producers) + 1)
  /\ UNCHANGED <<sharedHash, ptr, bounds, mainHash, hash, newCount>>

AddFails(u) ==
  /\ canFail
  /\ pc[u] = "scan" /\ ptr[u] = 0
  /\ IF IsExplicit(u) THEN UNCHANGED <<implicitProducerHashCount, newCount, mainHash>>
     ELSE /\ implicitProducerHashCount' = implicitProducerHashCount - 1
          /\ newCount' = Set(newCount, u, 0) /\ mainHash' = Set(mainHash, u, 0)
  /\ Return(u, 0)
  /\ UNCHANGED <<hashes, implicitProducerHashResizeInProgress, listVars, bounds, hash, index>>

-----------------------------------------------------------------------------
(* implicit_producer_thread_exited: out of every table, newest first; then *)
(* the producer is free.  ~ProducerToken does the second only.             *)

(* Mutant: the producer is free before the entries are gone.               *)
ExitFrees(t) ==
  /\ pc[t] = "owner"
  /\ hash' = Set(hash, t, Len(hashes))
  /\ producers' = [producers EXCEPT ![mine[t]].inactive = TRUE]
  /\ Goto(t, "exit")
  /\ UNCHANGED <<sharedHash, ptr, bounds, mainHash, index, newCount, producer, mine>>

Exit(t) ==
  /\ pc[t] = "owner"
  /\ hash' = Set(hash, t, Len(hashes))
  /\ Goto(t, "exit")
  /\ UNCHANGED <<sharedHash, listVars, bounds, mainHash, index, newCount, producer, mine>>

Remove(t) ==
  /\ pc[t] = "exit"
  /\ Stops(hash[t], t) # {}
  /\ LET s == Slot(hash[t], t, Min(Stops(hash[t], t)))
     IN  hashes' = IF hashes[hash[t]].keys[s] = t
                   THEN [hashes EXCEPT ![hash[t]].keys[s] = Gone] ELSE hashes
  /\ hash' = Set(hash, t, hash[t] - 1)
  /\ Goto(t, IF hash[t] = 1 THEN "free" ELSE "exit")
  /\ UNCHANGED <<implicitProducerHashCount, implicitProducerHashResizeInProgress, listVars,
                 bounds, mainHash, index, newCount, producer, mine>>

Free(u) ==
  /\ pc[u] = IF IsExplicit(u) THEN "owner" ELSE "free"
  /\ producers' = [producers EXCEPT ![mine[u]].inactive = TRUE]
  /\ producer' = Set(producer, u, 0) /\ mine' = Set(mine, u, 0)
  /\ Goto(u, "away")
  /\ UNCHANGED <<sharedHash, ptr, bounds, localHash>>

-----------------------------------------------------------------------------
Recycle(u) == Catch(u) \/ NextProd(u) \/ AddProducer(u) \/ AddFails(u) \/ Free(u)

Implicit(t) ==
  \/ Begin(t) \/ Lookup(t) \/ AddAgain(t) \/ CountIn(t) \/ Lock(t) \/ PassBy(t)
  \/ Resize(t) \/ NoResize(t) \/ ResizeFails(t) \/ Unlock(t) \/ Room(t)
  \/ Insert(t) \/ Uncount(t) \/ Exit(t) \/ Remove(t) \/ Recycle(t)

Token(u) == NewToken(u) \/ Recycle(u)

TableNext == (\E t \in Threads : Implicit(t)) \/ (\E u \in TokenHolders : Token(u))

(* Threads run; whether they call again or exit is theirs.                 *)
Running(u) == pc[u] \notin {"away", "owner", "off"}
TableFairness == /\ \A t \in Threads : WF_tableVars(Running(t) /\ Implicit(t))
                 /\ \A u \in TokenHolders : WF_tableVars(Running(u) /\ Token(u))
-----------------------------------------------------------------------------
(* A search ends at a free slot: no table is ever filled up, not even with *)
(* the slots of exited threads, although entries move to the main table    *)
(* without being counted and reused slots are counted once for the whole   *)
(* chain.                                                                  *)
RoomInEveryTable ==
  \A h \in 1 .. Len(hashes) : \E i \in DOMAIN hashes[h].keys : hashes[h].keys[i] = Empty

(* Between two exits a thread is always given the same producer, in        *)
(* whichever table its entry is found: its items stay in order.            *)
SameProducer ==
  \A u \in Users : pc[u] = "owner"
                   => producer[u] = mine[u]
                      /\ producers[mine[u]] = [isExplicit |-> IsExplicit(u), inactive |-> FALSE]

(* A producer has one owner at a time: nobody gets one that another thread *)
(* or token still uses, and the kinds do not mix.                          *)
Owners(p) == {u \in Users : mine[u] = p \/ (pc[u] \in {"insert", "uncount"} /\ producer[u] = p)}

Pool == INSTANCE NodePool
  WITH Threads <- Users, Nodes <- 1 .. Lookups, owners <- [p \in 1 .. Lookups |-> Owners(p)]

ProducersArePool == Pool!Spec

(* Every call returns, with whomever it shares the table.                  *)
LookupsReturn == \A u \in Users : []<>~Running(u)
=============================================================================
