----------------------------- MODULE MCMutexQueue -----------------------------
(* MutexQueue for TLC.                                                     *)
EXTENDS MutexQueue
=============================================================================
