-------------------------- MODULE Telemetry_proofs --------------------------
(* Proofs about Telemetry for any consoles, any interval and any bounds.     *)
EXTENDS Telemetry, TLAPS

LEMMA InitTypeOK == Init => TypeOK
<1> SUFFICES ASSUME Init PROVE TypeOK
  OBVIOUS
<1>1. BenchmarkInterval \in Times /\ 0 \in Times
  BY TimeAssumption DEF Times
<1>2. 0 \in 0 .. MaxCommands /\ 0 \in 0 .. MaxRestarts
  BY BoundAssumption
<1>3. registered \in BOOLEAN /\ (cycle # "idle" => registered)
  BY DEF Init
<1> QED
  BY <1>1, <1>2, <1>3 DEF Init, TypeOK

LEMMA StepTypeOK == TypeOK /\ [Next]_vars => TypeOK'
<1> SUFFICES ASSUME TypeOK, [Next]_vars PROVE TypeOK'
  OBVIOUS
<1> USE TimeAssumption, BoundAssumption DEF TypeOK
<1>1. CASE Tick
  BY <1>1 DEF Tick, Times
<1>2. CASE SnapshotChanges
  BY <1>2 DEF SnapshotChanges
<1>3. CASE Cycle
  <2>1. CASE CycleBegin
    BY <2>1 DEF CycleBegin
  <2>2. CASE TelemetrySent \/ TelemetryFails
    BY <2>2 DEF TelemetrySent, TelemetryFails, Moves
  <2>3. CASE BenchmarkWanted \/ BenchmarkSkipped
    BY <2>3 DEF BenchmarkWanted, BenchmarkSkipped, Moves
  <2>4. CASE BuildBenchmark
    BY <2>4 DEF BuildBenchmark, Moves
  <2>5. CASE ServerReceives
    BY <2>5 DEF ServerReceives, Moves
  <2>6. CASE BenchmarkSent
    BY <2>6 DEF BenchmarkSent, Moves, RecordSent
  <2>7. CASE BenchmarkFails
    BY <2>7 DEF BenchmarkFails, Moves
  <2> QED
    BY <1>3, <2>1, <2>2, <2>3, <2>4, <2>5, <2>6, <2>7 DEF Cycle
<1>4. CASE RestartDaemon
  <2>1. registered' = enabled /\ misled' = FALSE /\ interrupted' = FALSE
    BY <1>4 DEF RestartDaemon, Restarted
  <2>2. cycle' = "idle" /\ restarts' \in 0 .. MaxRestarts
    BY <1>4 DEF RestartDaemon, Restarted
  <2>3. UNCHANGED <<now, enabled, last_cycle_at, last_benchmark_sent_at, snapshot, stamp,
                    cmd, commands, received, unrecorded>>
    BY <1>4 DEF RestartDaemon, Restarted
  <2> QED
    BY <2>1, <2>2, <2>3
<1>5. CASE \E c \in Consoles : CmdEnable(c) \/ CmdDisable(c)
  <2> PICK c \in Consoles : CmdEnable(c) \/ CmdDisable(c)
    BY <1>5
  <2>1. enabled' \in BOOLEAN
    BY DEF CmdEnable, CmdDisable, Switch
  <2>2. commands' \in 0 .. MaxCommands
    BY DEF CmdEnable, CmdDisable, Switch
  <2>3. cmd' \in [Consoles -> {"idle", "check", "restart"}]
    BY DEF CmdEnable, CmdDisable, Switch
  <2>4. UNCHANGED <<now, registered, last_cycle_at, last_benchmark_sent_at, snapshot,
                    cycle, stamp, restarts, received, unrecorded, misled, interrupted>>
    BY DEF CmdEnable, CmdDisable, Switch
  <2> QED
    BY <2>1, <2>2, <2>3, <2>4
<1>6. CASE \E c \in Consoles : Enable(c)
  <2> PICK c \in Consoles : Enable(c)
    BY <1>6
  <2>1. CASE EnableChecks(c)
    BY <2>1 DEF EnableChecks
  <2>2. CASE EnableRestarts(c)
    BY <2>2 DEF EnableRestarts, Restarted
  <2>3. CASE RestartRaises(c)
    BY <2>3 DEF RestartRaises
  <2> QED
    BY <2>1, <2>2, <2>3 DEF Enable
<1>7. CASE \E c \in Consoles : EnableDies(c)
  BY <1>7 DEF EnableDies
<1>8. CASE UNCHANGED vars
  BY <1>8 DEF vars
<1> QED
  BY <1>1, <1>2, <1>3, <1>4, <1>5, <1>6, <1>7, <1>8 DEF Next

\* Every reachable state of the telemetry is of its type.
THEOREM TypeCorrect == Spec => []TypeOK
BY InitTypeOK, StepTypeOK, PTL DEF Spec

-----------------------------------------------------------------------------
(* One benchmark per interval: RecordIsServers is inductive with the types. *)

LEMMA StepRecordIsServers ==
  TypeOK /\ RecordIsServers /\ [Next]_vars => RecordIsServers'
<1> SUFFICES ASSUME TypeOK, RecordIsServers, [Next]_vars PROVE RecordIsServers'
  OBVIOUS
<1> USE DEF RecordIsServers, TypeOK, Times
<1>1. CASE Tick \/ SnapshotChanges
  BY <1>1 DEF Tick, SnapshotChanges
<1>2. CASE Cycle
  <2>1. CASE CycleBegin
    BY <2>1 DEF CycleBegin
  <2>2. CASE TelemetrySent \/ TelemetryFails
    BY <2>2 DEF TelemetrySent, TelemetryFails, Moves
  <2>3. CASE BenchmarkWanted
    BY <2>3 DEF BenchmarkWanted, BenchmarkDue, Moves
  <2>4. CASE BenchmarkSkipped \/ BuildBenchmark \/ BenchmarkFails
    BY <2>4 DEF BenchmarkSkipped, BuildBenchmark, BenchmarkFails, Moves
  <2>5. CASE ServerReceives
    BY <2>5 DEF ServerReceives, Moves
  <2>6. CASE BenchmarkSent
    BY <2>6 DEF BenchmarkSent, RecordSent, Moves
  <2> QED
    BY <1>2, <2>1, <2>2, <2>3, <2>4, <2>5, <2>6 DEF Cycle
<1>3. CASE RestartDaemon
  BY <1>3 DEF RestartDaemon, Restarted
<1>4. CASE \E c \in Consoles : CmdEnable(c) \/ CmdDisable(c)
  BY <1>4 DEF CmdEnable, CmdDisable, Switch
<1>5. CASE \E c \in Consoles : Enable(c)
  BY <1>5 DEF Enable, EnableChecks, EnableRestarts, RestartRaises, Restarted
<1>6. CASE \E c \in Consoles : EnableDies(c)
  BY <1>6 DEF EnableDies
<1>7. CASE UNCHANGED vars
  BY <1>7 DEF vars
<1> QED
  BY <1>1, <1>2, <1>3, <1>4, <1>5, <1>6, <1>7 DEF Next

\* The recorded time is that of the server's last benchmark, except between its
\* receipt and a record that a lost reply or a restart may prevent.
THEOREM RecordAgrees == Spec => []RecordIsServers
<1>1. Init => RecordIsServers
  BY DEF Init, RecordIsServers
<1> QED
  BY <1>1, StepRecordIsServers, TypeCorrect, PTL DEF Spec

\* The server gets no two benchmarks within an interval, whatever consoles do and
\* however often the daemon restarts, unless the first one's time was not recorded.
THEOREM OneBenchmarkPerInterval == Spec => BenchmarkSentOnce
<1> DEFINE Once == cycle = "post" /\ cycle' = "reply" /\ ~ unrecorded =>
                     stamp - received >= BenchmarkInterval
<1>1. RecordIsServers /\ [Next]_vars => [Once]_vars
  BY DEF RecordIsServers
<1> QED
  BY <1>1, RecordAgrees, PTL DEF Spec, BenchmarkSentOnce

-----------------------------------------------------------------------------
(* Enabled telemetry has a cycle *)

LEMMA StepRegistered ==
  TypeOK /\ EnabledIsRegistered /\ [Next]_vars => EnabledIsRegistered'
<1> SUFFICES ASSUME TypeOK, EnabledIsRegistered, [Next]_vars
             PROVE  EnabledIsRegistered'
  OBVIOUS
<1> USE DEF EnabledIsRegistered
<1>1. CASE Tick \/ SnapshotChanges
  BY <1>1 DEF Tick, SnapshotChanges
<1>2. CASE Cycle
  BY <1>2 DEF Cycle, CycleBegin, TelemetrySent, TelemetryFails, BenchmarkWanted,
    BenchmarkSkipped, BuildBenchmark, ServerReceives, BenchmarkSent, BenchmarkFails,
    Moves
<1>3. CASE RestartDaemon
  BY <1>3 DEF RestartDaemon, Restarted
<1>4. CASE \E c \in Consoles : CmdEnable(c) \/ CmdDisable(c)
  BY <1>4 DEF CmdEnable, CmdDisable, Switch, TypeOK
<1>5. CASE \E c \in Consoles : Enable(c)
  <2> PICK c \in Consoles : Enable(c)
    BY <1>5
  <2>1. CASE EnableChecks(c)
    <3>1. CASE CycleAlive
      <4>1. registered \/ misled'
        BY <2>1, <3>1 DEF EnableChecks, CycleAlive
      <4> QED
        BY <2>1, <4>1 DEF EnableChecks
    <3>2. CASE ~ CycleAlive
      BY <2>1, <3>2 DEF EnableChecks, TypeOK
    <3> QED
      BY <3>1, <3>2
  <2>2. CASE EnableRestarts(c)
    BY <2>2 DEF EnableRestarts, Restarted
  <2>3. CASE RestartRaises(c)
    BY <2>3 DEF RestartRaises
  <2> QED
    BY <2>1, <2>2, <2>3 DEF Enable
<1>6. CASE \E c \in Consoles : EnableDies(c)
  <2> PICK c \in Consoles : EnableDies(c)
    BY <1>6
  <2>1. registered \/ interrupted'
    BY DEF EnableDies
  <2>2. UNCHANGED <<enabled, registered>>
    BY DEF EnableDies
  <2> QED
    BY <2>1, <2>2
<1>7. CASE UNCHANGED vars
  BY <1>7 DEF vars
<1> QED
  BY <1>1, <1>2, <1>3, <1>4, <1>5, <1>6, <1>7 DEF Next

\* Telemetry that is enabled has its cycle in the running daemon or is about to get
\* it, however consoles interfere, are killed or fail to restart it, unless a recent
\* cycle misled an enable, or one ended without the restart that the daemon, having
\* no cycle, needed.
THEOREM Registered == Spec => []EnabledIsRegistered
<1>1. Init => EnabledIsRegistered
  BY DEF Init, EnabledIsRegistered
<1> QED
  BY <1>1, StepRegistered, TypeCorrect, PTL DEF Spec
=============================================================================
