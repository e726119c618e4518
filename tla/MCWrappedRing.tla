---------------------------- MODULE MCWrappedRing ----------------------------
(* WrappedRing for TLC: the queues of a run.                               *)
EXTENDS WrappedRing

OnlyRigtorp == {rigtorp}
OnlyFifo4b  == {Fifo4b}
=============================================================================
