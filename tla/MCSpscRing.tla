----------------------------- MODULE MCSpscRing -----------------------------
(* SpscRing for TLC, with every implementation of SpscVariants.            *)
EXTENDS SpscRing, SpscVariants
=============================================================================
