------------------------------ MODULE Benchmark ------------------------------
(***************************************************************************)
(* The benchmark: mytonproviderd renews a snapshot older than a week, the  *)
(* console runs one on demand, and a file lock keeps them apart. A run     *)
(* measures the network, then the disk with a test file on the storage,    *)
(* and saves the snapshot with the time at which it was complete.          *)
(*                                                                         *)
(* The lock is flock's: the kernel drops it with the process that held it. *)
(***************************************************************************)
EXTENDS Naturals

CONSTANTS
  Daemon,       \* mytonproviderd
  Consoles,     \* console processes
  Nobody,       \* the lock is free
  Ttl,          \* age up to which a snapshot is current
  MaxTime,      \* bound: the clock stops here
  MaxRuns,      \* bound: "benchmark run" commands
  MaxRestarts   \* bound: restarts of mytonproviderd

Procs == Consoles \cup {Daemon}

ASSUME ProcAssumption == Daemon \notin Consoles /\ Nobody \notin Procs
ASSUME TimeAssumption == Ttl \in Nat /\ MaxTime \in Nat /\ MaxTime > Ttl
ASSUME BoundAssumption == MaxRuns \in Nat /\ MaxRestarts \in Nat

VARIABLES
  now,
  snapshot,  \* its timestamp, 0 when there is none
  lock,      \* holder of .benchmark.lock
  pc,        \* where each process is in its run
  stamp,     \* timestamp of the result each process is about to save
  testFile,  \* test.img lies on the storage
  runs, restarts,
  began,     \* history: when the last run began
  killed     \* history: a run was killed after test.img was last removed

vars == <<now, snapshot, lock, pc, stamp, testFile, runs, restarts, began, killed>>

Running == {"network", "disk", "save"}

TypeOK ==
  /\ now \in 0 .. MaxTime
  /\ snapshot \in 0 .. MaxTime
  /\ lock \in Procs \cup {Nobody}
  /\ pc \in [Procs -> {"idle", "stale"} \cup Running]
  /\ stamp \in [Procs -> 0 .. MaxTime]
  /\ testFile \in BOOLEAN
  /\ runs \in 0 .. MaxRuns
  /\ restarts \in 0 .. MaxRestarts
  /\ began \in 0 .. MaxTime
  /\ killed \in BOOLEAN

\* The daemon has just started, which removed the test file of an earlier run.
Init ==
  /\ now = Ttl + 1
  /\ snapshot \in 0 .. Ttl + 1
  /\ lock = Nobody
  /\ pc = [p \in Procs |-> "idle"]
  /\ stamp = [p \in Procs |-> 0]
  /\ testFile = FALSE
  /\ runs = 0 /\ restarts = 0
  /\ began = 0
  /\ killed = FALSE

Tick ==
  /\ now < MaxTime
  /\ now' = now + 1
  /\ UNCHANGED <<snapshot, lock, pc, stamp, testFile, runs, restarts, began, killed>>

\* A missing snapshot is stale.
Stale == now - snapshot > Ttl

-----------------------------------------------------------------------------
(* The lock *)

\* Mutant: the lock is not asked for.
AlwaysFree == TRUE

Free == lock = Nobody

\* Mutant: a run that fails keeps the lock.
KeepLock(p) == UNCHANGED lock

\* The end of the with block, by whatever way it is left.
Unlock(p) == lock' = IF lock = p THEN Nobody ELSE lock

Locked(p) ==
  /\ Free
  /\ lock' = p
  /\ pc' = [pc EXCEPT ![p] = "network"]
  /\ began' = now
  /\ UNCHANGED <<now, snapshot, stamp, testFile, restarts, killed>>

-----------------------------------------------------------------------------
(* A run *)

\* Mutant: the timestamp is in milliseconds.
StampMillis == 1000 * now

\* Mutant: the snapshot is stamped with the time it expires.
StampExpiry == now + Ttl

Stamp == now

\* Mutant: no finally clause removes the test file.
LeaveFile == UNCHANGED <<testFile, killed>>

RemoveFile == testFile' = FALSE /\ killed' = FALSE

\* The network is measured (or its retries are), the disk's turn begins.
NetworkDone(p) ==
  /\ pc[p] = "network"
  /\ pc' = [pc EXCEPT ![p] = "disk"]
  /\ testFile' = FALSE /\ killed' = FALSE
  /\ UNCHANGED <<now, snapshot, lock, stamp, runs, restarts, began>>

\* fio lays the test file out.
FioWrites(p) ==
  /\ pc[p] = "disk"
  /\ testFile' = TRUE
  /\ UNCHANGED <<now, snapshot, lock, pc, stamp, runs, restarts, began, killed>>

DiskDone(p) ==
  /\ pc[p] = "disk"
  /\ RemoveFile
  /\ pc' = [pc EXCEPT ![p] = "save"]
  /\ stamp' = [stamp EXCEPT ![p] = Stamp]
  /\ UNCHANGED <<now, snapshot, lock, runs, restarts, began>>

\* Every way to measure the network failed, or fio did.
RunFails(p) ==
  /\ \/ pc[p] = "network" /\ UNCHANGED <<testFile, killed>>
     \/ pc[p] = "disk" /\ RemoveFile
  /\ pc' = [pc EXCEPT ![p] = "idle"]
  /\ Unlock(p)
  /\ UNCHANGED <<now, snapshot, stamp, runs, restarts, began>>

Save(p) ==
  /\ pc[p] = "save"
  /\ snapshot' = stamp[p]
  /\ pc' = [pc EXCEPT ![p] = "idle"]
  /\ Unlock(p)
  /\ UNCHANGED <<now, stamp, testFile, runs, restarts, began, killed>>

-----------------------------------------------------------------------------
(* mytonproviderd *)

\* The hourly cycle finds no current snapshot.
CycleFindsStale ==
  /\ pc[Daemon] = "idle"
  /\ Stale
  /\ pc' = [pc EXCEPT ![Daemon] = "stale"]
  /\ UNCHANGED <<now, snapshot, lock, stamp, testFile, runs, restarts, began, killed>>

\* It returns at once when there is one.
CycleFindsCurrent ==
  /\ pc[Daemon] = "idle"
  /\ ~ Stale
  /\ UNCHANGED vars

CycleLocks ==
  /\ pc[Daemon] = "stale"
  /\ Locked(Daemon)
  /\ UNCHANGED runs

\* Someone else runs a benchmark: wait for the next cycle.
CycleGivesUp ==
  /\ pc[Daemon] = "stale"
  /\ ~ Free
  /\ pc' = [pc EXCEPT ![Daemon] = "idle"]
  /\ UNCHANGED <<now, snapshot, lock, stamp, testFile, runs, restarts, began, killed>>

\* The daemon dies with its fio and its lock, and removes the test file when it
\* starts again, whoever is running a benchmark.
RestartDaemon ==
  /\ restarts < MaxRestarts
  /\ restarts' = restarts + 1
  /\ pc' = [pc EXCEPT ![Daemon] = "idle"]
  /\ Unlock(Daemon)
  /\ RemoveFile
  /\ UNCHANGED <<now, snapshot, stamp, runs, began>>

-----------------------------------------------------------------------------
(* The console. A command that does not get the lock changes nothing. *)

CmdRun(c) ==
  /\ pc[c] = "idle"
  /\ runs < MaxRuns
  /\ runs' = runs + 1
  /\ Locked(c)

\* The terminal is closed: no finally clause runs, the lock goes.
KillConsole(c) ==
  /\ pc[c] \in Running
  /\ pc' = [pc EXCEPT ![c] = "idle"]
  /\ Unlock(c)
  /\ killed' = (killed \/ pc[c] = "disk")
  /\ UNCHANGED <<now, snapshot, stamp, testFile, runs, restarts, began>>

-----------------------------------------------------------------------------
Progress(p) == NetworkDone(p) \/ FioWrites(p) \/ DiskDone(p) \/ RunFails(p) \/ Save(p)

Cycle == CycleFindsStale \/ CycleFindsCurrent \/ CycleLocks \/ CycleGivesUp

Next ==
  \/ Tick
  \/ \E p \in Procs : Progress(p)
  \/ Cycle
  \/ RestartDaemon
  \/ \E c \in Consoles : CmdRun(c)
  \/ \E c \in Consoles : KillConsole(c)

\* Every step of a run ends, each has a timeout; and a step tried again and again
\* succeeds some time.
Fairness ==
  /\ WF_vars(Cycle)
  /\ \A p \in Procs :
       /\ WF_vars(Save(p)) /\ WF_vars(RunFails(p))
       /\ SF_vars(NetworkDone(p)) /\ SF_vars(DiskDone(p))

Spec == Init /\ [][Next]_vars /\ Fairness

-----------------------------------------------------------------------------
(* Properties *)

\* A run is under way in the process that holds the lock and in no other, at every
\* step, failures and kills included: there is one benchmark at a time, and a free
\* lock whenever there is none.
RunnerHoldsLock == \A p \in Procs : pc[p] \in Running <=> lock = p

\* The test file lies on the storage only while a run is in its disk phase, or
\* after one was killed there.
LeftoverOnlyAfterKill ==
  testFile => killed \/ \E p \in Procs : pc[p] = "disk"

\* A result about to be saved is newer than the snapshot it replaces, since the
\* runs do not overlap.
StampsInOrder ==
  /\ snapshot <= now /\ began <= now
  /\ lock # Nobody => snapshot <= began
  /\ \A p \in Procs : pc[p] = "save" => began <= stamp[p] /\ stamp[p] <= now

\* The snapshot of a late run never replaces a newer one.
SnapshotNeverGoesBack == [][snapshot' >= snapshot]_vars

\* A stale snapshot is renewed, though runs fail, the daemon restarts and the
\* console takes the lock.
StaleRenewed == Stale ~> ~ Stale

\* The benchmark implements Measurement: the holder of the lock is the runner.
M == INSTANCE Measurement
       WITH Runners <- Procs, NoRunner <- Nobody, runner <- lock, result <- snapshot

ImplementsMeasurement == M!Spec
=============================================================================
