---------------------------- MODULE MCSysMetrics ----------------------------
(* Model checking of SysMetrics: two disks, one of which may come and go    *)
(* while the other is read, days of two ticks and a history of two days.    *)
EXTENDS SysMetrics, TLC

CONSTANTS sda, sdb

MCDisks == {sda, sdb}
DiskSymmetry == Permutations(MCDisks)
=============================================================================
