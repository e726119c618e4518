--------------------------- MODULE MCPoolAndTable ---------------------------
(***************************************************************************)
(* Two parts of moodycamel::ConcurrentQueue that the producers are built   *)
(* on, each run by itself: a behaviour begins with callers of the free     *)
(* list or with users of the producer table, and the other part is idle.   *)
(***************************************************************************)
EXTENDS FreeList

CONSTANTS u1, u2, u3, TokenHolders, InitialCapacities, Empty, Gone, Lookups

VARIABLES
  hashes, implicitProducerHashCount, implicitProducerHashResizeInProgress, producers,
  tablePc, lookups, canFail, mainHash, hash, index, newCount, ptr, producer, mine

Users == {u1, u2, u3}

(* All thread ids collide.                                                 *)
T == INSTANCE ProducerTable
  WITH Threads <- Users, HashedId <- [t \in Users |-> 3], pc <- tablePc

ASSUME TableAssumption == T!ConstantsOK

tableState ==
  <<hashes, implicitProducerHashCount, implicitProducerHashResizeInProgress, producers,
    tablePc, lookups, canFail, mainHash, hash, index, newCount, ptr, producer, mine>>
allVars == <<freeListVars, tableState>>

(* Three threads make three calls and begin with four slots; or two and a  *)
(* token make four and begin with one slot, and allocations may fail.      *)
MCInit ==
  \/ FreeListInit(Threads) /\ T!TableInit({}, 0, FALSE) /\ T!Capacity(1) = 4
  \/ /\ FreeListInit({}) /\ held[CHOOSE t \in Threads : TRUE] = Nodes
     /\ \/ T!TableInit(Users, 1, FALSE) /\ T!Capacity(1) = 4
        \/ T!TableInit({u1, u2} \cup TokenHolders, 0, TRUE) /\ T!Capacity(1) = 1

MCNext == \/ FreeListNext /\ UNCHANGED tableState
          \/ T!TableNext  /\ UNCHANGED freeListVars

(* WF of one part alone: its steps leave the other part unchanged.         *)
MCFairness == FreeListFairness /\ T!TableFairness

MCSpec == MCInit /\ [][MCNext]_allVars /\ MCFairness

RoomInEveryTable == T!RoomInEveryTable
SameProducer     == T!SameProducer
ProducersArePool == T!ProducersArePool

(* Every call on the list and on the table returns.                        *)
EveryCallReturns == CallsReturn /\ T!LookupsReturn
=============================================================================
