------------------------------ MODULE Producer ------------------------------
(***************************************************************************)
(* A producer of moodycamel::ConcurrentQueue, explicit or implicit: the    *)
(* calls of ProducerBase dispatch on isExplicit.  This module extends the  *)
(* implicit one; E, over the same counters and blocks, is the explicit one.*)
(***************************************************************************)
EXTENDS ImplicitProducer

CONSTANTS
  Kinds,              \* subset of BOOLEAN: the values of isExplicit
  ExplicitEnqueues    \* Enqueues of an explicit producer

ASSUME KindsAssumption == Kinds \subseteq BOOLEAN
ASSUME ExplicitAssumption == ExplicitEnqueues \subseteq Enqueues

VARIABLES
  isExplicit,
  emptyFlags, next, headers, pr_blockIndexFront, pr_blockIndexSlotsUsed

explicitParts == <<emptyFlags, next, headers, pr_blockIndexFront, pr_blockIndexSlotsUsed>>
vars == <<isExplicit, baseVars, explicitParts, implicitOnly>>

E == INSTANCE ExplicitProducer WITH Enqueues <- ExplicitEnqueues

Init == isExplicit \in Kinds /\ BaseInit /\ E!ExplicitInit /\ ImplicitInit

Next == \/ isExplicit  /\ E!ExplicitNext /\ UNCHANGED <<isExplicit, implicitOnly>>
        \/ ~isExplicit /\ ImplicitNext /\ UNCHANGED <<isExplicit, explicitParts>>

Spec == Init /\ [][Next]_vars

-----------------------------------------------------------------------------
(* The block index of either kind leads a consumer to the item it has      *)
(* claimed: see ExplicitRightItem and ImplicitRightItem.                   *)
RightItem == IF isExplicit THEN E!ExplicitRightItem ELSE ImplicitRightItem

(* The destructor of either kind destroys exactly the items that are left  *)
(* and gives back exactly the blocks the queue still has.                  *)
DestroysRest == IF isExplicit THEN E!ExplicitDestroysRest ELSE ImplicitDestroysRest

(* No block of an implicit producer is lost or in two places.              *)
BlockOwnedOnce == ~isExplicit => ImplicitBlockOwnedOnce
=============================================================================
