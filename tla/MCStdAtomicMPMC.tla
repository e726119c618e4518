--------------------------- MODULE MCStdAtomicMPMC ---------------------------
(* StdAtomicMPMC for TLC.                                                  *)
EXTENDS StdAtomicMPMC
=============================================================================
