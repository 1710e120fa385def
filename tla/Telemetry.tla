------------------------------ MODULE Telemetry ------------------------------
(***************************************************************************)
(* Telemetry: mytonproviderd sends the provider's state every minute and,  *)
(* in the same cycle, its benchmark once a day; the console switches the   *)
(* sending on and off. The switch and the times of the last cycle and of   *)
(* the last benchmark sent are fields of the shared database, read and     *)
(* written one by one.                                                     *)
(*                                                                         *)
(* External: the daemon registers the cycle when it starts, if telemetry   *)
(* is enabled then. Time is counted in intervals of the cycle.             *)
(***************************************************************************)
EXTENDS Naturals

CONSTANTS
  Consoles,           \* console processes
  BenchmarkInterval,  \* time between two benchmarks sent
  MaxTime,            \* bound: the clock stops here
  MaxCommands,        \* bound: "telemetry enable" and "disable"
  MaxRestarts         \* bound: restarts of mytonproviderd by others

ASSUME TimeAssumption ==
  /\ BenchmarkInterval \in Nat \ {0}
  /\ MaxTime \in Nat /\ MaxTime >= BenchmarkInterval
ASSUME BoundAssumption == MaxCommands \in Nat /\ MaxRestarts \in Nat

VARIABLES
  now,
  enabled,              \* the switch
  registered,           \* the running daemon has the cycle
  last_cycle_at,
  last_benchmark_sent_at,
  snapshot,             \* there is a current benchmark snapshot
  cycle,                \* the daemon's cycle: where it is
  stamp,                \* its clock reading, to be recorded with the benchmark
  cmd,                  \* of each console: where it is
  commands, restarts,
  received,             \* history: stamp of the last benchmark the server has
  unrecorded,           \* history: its time was never recorded
  misled,               \* history: an enable took a dead cycle for alive
  interrupted           \* history: an enable ended without the restart it owed

vars == <<now, enabled, registered, last_cycle_at, last_benchmark_sent_at, snapshot,
          cycle, stamp, cmd, commands, restarts, received, unrecorded, misled,
          interrupted>>

Times == 0 .. MaxTime

TypeOK ==
  /\ now \in Times
  /\ enabled \in BOOLEAN /\ registered \in BOOLEAN /\ snapshot \in BOOLEAN
  /\ last_cycle_at \in Times /\ last_benchmark_sent_at \in Times
  /\ cycle \in {"idle", "send", "due", "build", "post", "reply"}
  /\ cycle # "idle" => registered
  /\ stamp \in Times
  /\ cmd \in [Consoles -> {"idle", "check", "restart"}]
  /\ commands \in 0 .. MaxCommands /\ restarts \in 0 .. MaxRestarts
  /\ received \in Times
  /\ unrecorded \in BOOLEAN /\ misled \in BOOLEAN /\ interrupted \in BOOLEAN

\* The first start of the daemon, with telemetry chosen at installation or not.
Init ==
  /\ now = BenchmarkInterval
  /\ enabled \in BOOLEAN
  /\ registered = enabled
  /\ last_cycle_at = 0 /\ last_benchmark_sent_at = 0
  /\ snapshot \in BOOLEAN
  /\ cycle = "idle"
  /\ stamp = 0
  /\ cmd = [c \in Consoles |-> "idle"]
  /\ commands = 0 /\ restarts = 0
  /\ received = 0
  /\ unrecorded = FALSE /\ misled = FALSE /\ interrupted = FALSE

-----------------------------------------------------------------------------
(* Environment: the clock, and the benchmark's snapshot, which is renewed and *)
(* expires.                                                                   *)

Tick ==
  /\ now < MaxTime
  /\ now' = now + 1
  /\ UNCHANGED <<enabled, registered, last_cycle_at, last_benchmark_sent_at, snapshot,
                 cycle, stamp, cmd, commands, restarts, received, unrecorded,
                 misled, interrupted>>

SnapshotChanges ==
  /\ snapshot' = ~ snapshot
  /\ UNCHANGED <<now, enabled, registered, last_cycle_at, last_benchmark_sent_at, cycle,
                 stamp, cmd, commands, restarts, received, unrecorded,
                 misled, interrupted>>

-----------------------------------------------------------------------------
(* The cycle *)

Moves(from, to) ==
  /\ cycle = from
  /\ cycle' = to
  /\ UNCHANGED <<now, enabled, registered, last_cycle_at, snapshot, cmd, commands,
                 restarts, misled, interrupted>>

\* The time of the cycle is taken whether telemetry is enabled or not.
CycleBegin ==
  /\ registered
  /\ cycle = "idle"
  /\ last_cycle_at' = now
  /\ cycle' = IF enabled THEN "send" ELSE "idle"
  /\ UNCHANGED <<now, enabled, registered, last_benchmark_sent_at, snapshot, stamp, cmd,
                 commands, restarts, received, unrecorded,
                 misled, interrupted>>

TelemetrySent ==
  /\ Moves("send", "due")
  /\ UNCHANGED <<last_benchmark_sent_at, stamp, received, unrecorded>>

\* Without telemetry there is no benchmark either.
TelemetryFails ==
  /\ Moves("send", "idle")
  /\ UNCHANGED <<last_benchmark_sent_at, stamp, received, unrecorded>>

BenchmarkDue == now - last_benchmark_sent_at >= BenchmarkInterval

BenchmarkWanted ==
  /\ BenchmarkDue /\ snapshot
  /\ Moves("due", "build")
  /\ stamp' = now
  /\ UNCHANGED <<last_benchmark_sent_at, received, unrecorded>>

BenchmarkSkipped ==
  /\ ~ (BenchmarkDue /\ snapshot)
  /\ Moves("due", "idle")
  /\ UNCHANGED <<last_benchmark_sent_at, stamp, received, unrecorded>>

\* The snapshot is read a second time. If it has expired since it was looked for,
\* the cycle raises.
BuildBenchmark ==
  /\ Moves("build", IF snapshot THEN "post" ELSE "idle")
  /\ UNCHANGED <<last_benchmark_sent_at, stamp, received, unrecorded>>

ServerReceives ==
  /\ Moves("post", "reply")
  /\ received' = stamp
  /\ unrecorded' = TRUE
  /\ UNCHANGED <<last_benchmark_sent_at, stamp>>

\* Mutant: the time of the benchmark is not recorded.
RecordNothing == UNCHANGED last_benchmark_sent_at

\* Mutant: the time is recorded in milliseconds.
RecordMillis == last_benchmark_sent_at' = 1000 * stamp

RecordSent == last_benchmark_sent_at' = stamp

BenchmarkSent ==
  /\ Moves("reply", "idle")
  /\ RecordSent
  /\ unrecorded' = FALSE
  /\ UNCHANGED <<stamp, received>>

\* The request never arrives, or its reply is lost or late.
BenchmarkFails ==
  /\ Moves("post", "idle") \/ Moves("reply", "idle")
  /\ UNCHANGED <<last_benchmark_sent_at, stamp, received, unrecorded>>

-----------------------------------------------------------------------------
(* The daemon starts again: its cycle is cut off, and registered anew only if *)
(* telemetry is enabled.                                                      *)

Restarted ==
  /\ registered' = enabled
  /\ cycle' = "idle"
  /\ misled' = FALSE /\ interrupted' = FALSE
  /\ UNCHANGED <<now, enabled, last_cycle_at, last_benchmark_sent_at, snapshot, stamp,
                 commands, received, unrecorded>>

\* An update, a crash, another command.
RestartDaemon ==
  /\ restarts < MaxRestarts
  /\ restarts' = restarts + 1
  /\ Restarted
  /\ UNCHANGED cmd

-----------------------------------------------------------------------------
(* The console *)

Switch(c, value, pc) ==
  /\ cmd[c] = "idle"
  /\ commands < MaxCommands
  /\ commands' = commands + 1
  /\ enabled' = value
  /\ cmd' = [cmd EXCEPT ![c] = pc]
  /\ UNCHANGED <<now, registered, last_cycle_at, last_benchmark_sent_at, snapshot, cycle,
                 stamp, restarts, received, unrecorded,
                 misled, interrupted>>

CmdEnable(c) == Switch(c, TRUE, "check")

CmdDisable(c) == Switch(c, FALSE, "idle")

\* Mutant: any cycle ever seen counts as alive.
EverAlive == last_cycle_at > 0

\* Less than two intervals since the last cycle began.
CycleAlive == now - last_cycle_at < 2

EnableChecks(c) ==
  /\ cmd[c] = "check"
  /\ cmd' = [cmd EXCEPT ![c] = IF CycleAlive THEN "idle" ELSE "restart"]
  /\ misled' = (misled \/ (now - last_cycle_at < 2 /\ ~ registered))
  /\ UNCHANGED <<now, enabled, registered, last_cycle_at, last_benchmark_sent_at,
                 snapshot, cycle, stamp, commands, restarts, received, unrecorded,
                 interrupted>>

EnableRestarts(c) ==
  /\ cmd[c] = "restart"
  /\ cmd' = [cmd EXCEPT ![c] = "idle"]
  /\ Restarted
  /\ UNCHANGED restarts

\* The restart raises. The daemon runs on as it was, or is down until something
\* else starts it.
RestartRaises(c) ==
  /\ cmd[c] = "restart"
  /\ cmd' = [cmd EXCEPT ![c] = "idle"]
  /\ \/ UNCHANGED <<registered, cycle>>
     \/ registered' = FALSE /\ cycle' = "idle"
  /\ interrupted' = (interrupted \/ ~ registered')
  /\ UNCHANGED <<now, enabled, last_cycle_at, last_benchmark_sent_at, snapshot, stamp,
                 commands, restarts, received, unrecorded, misled>>

\* The console is killed after the switch: the time of the last cycle is not looked
\* at, or the daemon not restarted.
EnableDies(c) ==
  /\ cmd[c] # "idle"
  /\ cmd' = [cmd EXCEPT ![c] = "idle"]
  /\ interrupted' = (interrupted \/ ~ registered)
  /\ UNCHANGED <<now, enabled, registered, last_cycle_at, last_benchmark_sent_at,
                 snapshot, cycle, stamp, commands, restarts, received, unrecorded, misled>>

-----------------------------------------------------------------------------
Cycle ==
  \/ CycleBegin
  \/ TelemetrySent \/ TelemetryFails
  \/ BenchmarkWanted \/ BenchmarkSkipped \/ BuildBenchmark
  \/ ServerReceives \/ BenchmarkSent \/ BenchmarkFails

Enable(c) == EnableChecks(c) \/ EnableRestarts(c) \/ RestartRaises(c)

Next ==
  \/ Tick
  \/ SnapshotChanges
  \/ Cycle
  \/ RestartDaemon
  \/ \E c \in Consoles : CmdEnable(c) \/ CmdDisable(c)
  \/ \E c \in Consoles : Enable(c)
  \/ \E c \in Consoles : EnableDies(c)

\* The cycle's thread keeps running and its requests end; a command that began
\* goes on, though its restart may raise.
Fairness ==
  /\ WF_vars(Cycle)
  /\ \A c \in Consoles : WF_vars(Enable(c))

Spec == Init /\ [][Next]_vars /\ Fairness

-----------------------------------------------------------------------------
(* Properties *)

\* The server gets a second benchmark within the interval only if the first one's
\* time was never recorded: its reply was lost, or the daemon restarted before it.
BenchmarkSentOnce ==
  [][cycle = "post" /\ cycle' = "reply" /\ ~ unrecorded =>
       stamp - received >= BenchmarkInterval]_vars

\* What that rests on: unless a time is unrecorded, the record is the server's, and
\* the benchmark in hand is due by it.
RecordIsServers ==
  /\ ~ unrecorded => last_benchmark_sent_at = received
  /\ cycle \in {"build", "post"} => stamp - last_benchmark_sent_at >= BenchmarkInterval
  /\ cycle = "reply" => stamp = received

\* Telemetry that is enabled has a cycle in the daemon, or an enable under way that
\* will see to it, unless an enable took the time of a cycle that is gone for the
\* sign of one that runs, or one was cut off or failed before the restart it owed.
\* A restart of the daemon makes up for both.
EnabledIsRegistered ==
  enabled =>
    \/ registered
    \/ misled \/ interrupted
    \/ \E c \in Consoles : cmd[c] # "idle"

\* So telemetry that stays enabled, and whose enables came to their end, is sent
\* again and again.
EnabledSends ==
  <>[](enabled /\ ~ misled /\ ~ interrupted) => []<>(cycle = "send")

=============================================================================
