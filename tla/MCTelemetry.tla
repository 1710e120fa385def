---------------------------- MODULE MCTelemetry ----------------------------
(* Model checking of Telemetry: two consoles, which may work against each   *)
(* other, and a clock that lets a benchmark become due a second time.       *)
EXTENDS Telemetry

CONSTANTS c1, c2

MCConsoles == {c1, c2}
============================================================================
