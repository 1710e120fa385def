----------------------------- MODULE Measurement -----------------------------
(* What the benchmark promises: one measurement at a time, by anyone, whose  *)
(* result, if it gets that far, replaces the last one and bears a time at    *)
(* which that measurement was running.                                       *)
EXTENDS Naturals

CONSTANTS
  Runners,
  NoRunner,
  MaxTime   \* bound: the clock stops here

VARIABLES
  now,
  runner,  \* who is measuring
  began,   \* when the last measurement began
  result   \* time of the last result, 0 when there is none

vars == <<now, runner, began, result>>

Init ==
  /\ now \in 0 .. MaxTime
  /\ runner = NoRunner
  /\ began = 0
  /\ result \in 0 .. now

Tick ==
  /\ now < MaxTime
  /\ now' = now + 1
  /\ UNCHANGED <<runner, began, result>>

Begin(r) ==
  /\ runner = NoRunner
  /\ runner' = r
  /\ began' = now
  /\ UNCHANGED <<now, result>>

Publish(r) ==
  /\ runner = r
  /\ result' \in began .. now
  /\ runner' = NoRunner
  /\ UNCHANGED <<now, began>>

Abandon(r) ==
  /\ runner = r
  /\ runner' = NoRunner
  /\ UNCHANGED <<now, began, result>>

Next == Tick \/ \E r \in Runners : Begin(r) \/ Publish(r) \/ Abandon(r)

Spec == Init /\ [][Next]_vars

=============================================================================
