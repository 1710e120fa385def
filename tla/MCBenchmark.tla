---------------------------- MODULE MCBenchmark ----------------------------
(* Model checking of Benchmark: the daemon and one or two consoles, a clock *)
(* long enough for a snapshot to become stale twice.                        *)
EXTENDS Benchmark

CONSTANTS c1, c2

MCConsoles == {c1, c2}
=============================================================================
