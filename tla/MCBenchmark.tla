----------------------------- MODULE MCBenchmark -----------------------------
(* Benchmark for TLC: all three kinds of iteration.                        *)
EXTENDS Benchmark

AllKinds == {"balanced", "single_producer", "single_consumer"}
=============================================================================
