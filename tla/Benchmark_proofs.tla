-------------------------- MODULE Benchmark_proofs --------------------------
(* Proofs about Benchmark for every set of consoles, every lifetime of a    *)
(* snapshot and every bound: the lock, the test file, the order of the      *)
(* results, and that the benchmark implements Measurement.                  *)
EXTENDS Benchmark, TLAPS

USE DEF Procs

LEMMA InitType == Init => TypeOK
<1> SUFFICES ASSUME Init PROVE TypeOK
  OBVIOUS
<1>1. 0 \in 0 .. MaxTime /\ now \in 0 .. MaxTime /\ snapshot \in 0 .. MaxTime
  BY TimeAssumption DEF Init
<1>2. 0 \in 0 .. MaxRuns /\ 0 \in 0 .. MaxRestarts
  BY BoundAssumption
<1>3. pc \in [Procs -> {"idle", "stale"} \cup Running]
  BY DEF Init
<1>4. stamp \in [Procs -> 0 .. MaxTime]
  BY <1>1 DEF Init
<1> QED
  BY <1>1, <1>2, <1>3, <1>4 DEF Init, TypeOK

\* The steps of the specification keep every variable in its type.
LEMMA TypeInvariant == TypeOK /\ [Next]_vars => TypeOK'
<1> SUFFICES ASSUME TypeOK, [Next]_vars PROVE TypeOK'
  OBVIOUS
<1> USE DEF TypeOK, Running
<1>1. CASE Tick
  BY <1>1, TimeAssumption DEF Tick
<1>2. ASSUME NEW p \in Procs, Progress(p) PROVE TypeOK'
  <2>1. CASE NetworkDone(p)
    BY <2>1 DEF NetworkDone
  <2>2. CASE FioWrites(p)
    BY <2>2 DEF FioWrites
  <2>3. CASE DiskDone(p)
    BY <2>3 DEF DiskDone, RemoveFile, Stamp
  <2>4. CASE RunFails(p)
    BY <2>4 DEF RunFails, RemoveFile, Unlock
  <2>5. CASE Save(p)
    BY <2>5 DEF Save, Unlock
  <2> QED
    BY <1>2, <2>1, <2>2, <2>3, <2>4, <2>5 DEF Progress
<1>3. CASE Cycle
  BY <1>3 DEF Cycle, CycleFindsStale, CycleFindsCurrent, CycleLocks, CycleGivesUp,
              Locked, vars
<1>4. CASE RestartDaemon
  <2>1. restarts' \in 0 .. MaxRestarts
    BY <1>4, BoundAssumption DEF RestartDaemon
  <2>2. lock' \in Procs \cup {Nobody}
    BY <1>4 DEF RestartDaemon, Unlock
  <2>3. pc' \in [Procs -> {"idle", "stale"} \cup Running]
    BY <1>4 DEF RestartDaemon
  <2> QED
    BY <1>4, <2>1, <2>2, <2>3 DEF RestartDaemon, RemoveFile
<1>5. ASSUME NEW c \in Consoles, CmdRun(c) PROVE TypeOK'
  <2>1. runs' \in 0 .. MaxRuns
    BY <1>5, BoundAssumption DEF CmdRun
  <2> QED
    BY <1>5, <2>1 DEF CmdRun, Locked
<1>6. ASSUME NEW c \in Consoles, KillConsole(c) PROVE TypeOK'
  BY <1>6 DEF KillConsole, Unlock
<1>7. CASE UNCHANGED vars
  BY <1>7 DEF vars
<1> QED
  BY <1>1, <1>2, <1>3, <1>4, <1>5, <1>6, <1>7 DEF Next

\* Every reachable state is well typed.
THEOREM TypeCorrect == Spec => []TypeOK
BY InitType, TypeInvariant, PTL DEF Spec

-----------------------------------------------------------------------------
(* The lock *)

LEMMA LockStep == TypeOK /\ RunnerHoldsLock /\ [Next]_vars => RunnerHoldsLock'
<1> SUFFICES ASSUME TypeOK, RunnerHoldsLock, [Next]_vars PROVE RunnerHoldsLock'
  OBVIOUS
<1> USE DEF RunnerHoldsLock, Running
<1>0. DOMAIN pc = Procs
  BY DEF TypeOK
<1>1. CASE Tick
  BY <1>1 DEF Tick
<1>2. ASSUME NEW p \in Procs, Progress(p) PROVE RunnerHoldsLock'
  <2>1. CASE NetworkDone(p) \/ DiskDone(p)
    BY <1>0, <2>1 DEF NetworkDone, DiskDone
  <2>2. CASE FioWrites(p)
    BY <2>2 DEF FioWrites
  <2>3. CASE RunFails(p) \/ Save(p)
    <3>1. lock = p /\ lock' = Nobody /\ pc' = [pc EXCEPT ![p] = "idle"]
      BY <2>3 DEF RunFails, Save, Unlock
    <3> QED
      BY <1>0, <3>1, ProcAssumption
  <2> QED
    BY <1>2, <2>1, <2>2, <2>3 DEF Progress
<1>3. CASE Cycle
  BY <1>0, <1>3, ProcAssumption
  DEF Cycle, CycleFindsStale, CycleFindsCurrent, CycleLocks, CycleGivesUp, Locked,
      Free, vars
<1>4. CASE RestartDaemon
  BY <1>0, <1>4, ProcAssumption DEF RestartDaemon, Unlock
<1>5. ASSUME NEW c \in Consoles, CmdRun(c) PROVE RunnerHoldsLock'
  BY <1>0, <1>5, ProcAssumption DEF CmdRun, Locked, Free
<1>6. ASSUME NEW c \in Consoles, KillConsole(c) PROVE RunnerHoldsLock'
  BY <1>0, <1>6, ProcAssumption DEF KillConsole, Unlock
<1>7. CASE UNCHANGED vars
  BY <1>7 DEF vars
<1> QED
  BY <1>1, <1>2, <1>3, <1>4, <1>5, <1>6, <1>7 DEF Next

\* A benchmark runs in the process that holds the lock and in no other.
THEOREM OneBenchmark == Spec => []RunnerHoldsLock
<1>1. Init => RunnerHoldsLock
  BY ProcAssumption DEF Init, RunnerHoldsLock, Running
<1> QED
  BY <1>1, LockStep, TypeCorrect, PTL DEF Spec

\* A run removes the test file however it ends, unless its console is killed.
LEMMA LeftoverStep == TypeOK /\ LeftoverOnlyAfterKill /\ [Next]_vars => LeftoverOnlyAfterKill'
<1> SUFFICES ASSUME TypeOK, LeftoverOnlyAfterKill, [Next]_vars, testFile'
             PROVE  killed' \/ \E p \in Procs : pc'[p] = "disk"
  BY DEF LeftoverOnlyAfterKill
<1>0. DOMAIN pc = Procs
  BY DEF TypeOK
<1>1. ASSUME NEW p \in Procs, NEW step, pc' = [pc EXCEPT ![p] = step], pc[p] # "disk",
             testFile' = testFile, killed' = killed
      PROVE  killed' \/ \E q \in Procs : pc'[q] = "disk"
  BY <1>0, <1>1 DEF LeftoverOnlyAfterKill
<1>2. CASE Tick \/ UNCHANGED vars
  BY <1>2 DEF Tick, vars, LeftoverOnlyAfterKill
<1>3. ASSUME NEW p \in Procs, Progress(p) PROVE killed' \/ \E q \in Procs : pc'[q] = "disk"
  <2>1. CASE NetworkDone(p) \/ DiskDone(p)
    BY <2>1 DEF NetworkDone, DiskDone, RemoveFile
  <2>2. CASE FioWrites(p)
    BY <2>2 DEF FioWrites
  <2>3. CASE RunFails(p)
    BY <1>1, <2>3 DEF RunFails, RemoveFile
  <2>4. CASE Save(p)
    BY <1>1, <2>4 DEF Save
  <2> QED
    BY <1>3, <2>1, <2>2, <2>3, <2>4 DEF Progress
<1>4. CASE Cycle
  <2>1. CASE CycleFindsStale
    BY <1>1, <2>1 DEF CycleFindsStale
  <2>2. CASE CycleFindsCurrent
    BY <1>2, <2>2 DEF CycleFindsCurrent
  <2>3. CASE CycleLocks
    BY <1>1, <2>3 DEF CycleLocks, Locked
  <2>4. CASE CycleGivesUp
    BY <1>1, <2>4 DEF CycleGivesUp
  <2> QED
    BY <1>4, <2>1, <2>2, <2>3, <2>4 DEF Cycle
<1>5. CASE RestartDaemon
  BY <1>5 DEF RestartDaemon, RemoveFile
<1>6. ASSUME NEW c \in Consoles, CmdRun(c) PROVE killed' \/ \E q \in Procs : pc'[q] = "disk"
  BY <1>1, <1>6 DEF CmdRun, Locked
<1>7. ASSUME NEW c \in Consoles, KillConsole(c)
      PROVE  killed' \/ \E q \in Procs : pc'[q] = "disk"
  <2>1. CASE pc[c] = "disk"
    BY <1>7, <2>1 DEF KillConsole
  <2>2. CASE pc[c] # "disk" /\ killed
    BY <1>7, <2>2 DEF KillConsole
  <2>3. CASE pc[c] # "disk" /\ ~ killed
    BY <1>0, <1>7, <2>3 DEF KillConsole, LeftoverOnlyAfterKill
  <2> QED
    BY <2>1, <2>2, <2>3
<1> QED
  BY <1>2, <1>3, <1>4, <1>5, <1>6, <1>7 DEF Next

\* Only a console killed in its disk phase leaves the test file behind.
THEOREM FileOnlyAfterKill == Spec => []LeftoverOnlyAfterKill
<1>1. Init => LeftoverOnlyAfterKill
  BY DEF Init, LeftoverOnlyAfterKill
<1> QED
  BY <1>1, LeftoverStep, TypeCorrect, PTL DEF Spec

-----------------------------------------------------------------------------
(* The order of the results *)

LEMMA OrderStep ==
  TypeOK /\ RunnerHoldsLock /\ StampsInOrder /\ [Next]_vars => StampsInOrder'
<1> SUFFICES ASSUME TypeOK, RunnerHoldsLock, StampsInOrder, [Next]_vars
             PROVE StampsInOrder'
  OBVIOUS
<1> USE DEF StampsInOrder
<1>0. /\ now \in Nat /\ snapshot \in Nat /\ began \in Nat
      /\ DOMAIN pc = Procs /\ DOMAIN stamp = Procs
      /\ \A p \in Procs : stamp[p] \in Nat
      /\ \A p \in Procs : pc[p] = "save" => lock = p
  BY DEF TypeOK, RunnerHoldsLock, Running
<1>1. CASE Tick
  BY <1>0, <1>1 DEF Tick
<1>2. ASSUME NEW p \in Procs, Progress(p) PROVE StampsInOrder'
  <2>1. CASE NetworkDone(p)
    BY <1>0, <2>1 DEF NetworkDone
  <2>2. CASE FioWrites(p)
    BY <2>2 DEF FioWrites
  <2>3. CASE DiskDone(p)
    BY <1>0, <2>3 DEF DiskDone, Stamp
  <2>4. CASE RunFails(p)
    BY <1>0, <2>4 DEF RunFails, Unlock
  <2>5. CASE Save(p)
    <3>1. /\ lock = p /\ lock' = Nobody /\ snapshot' = stamp[p]
          /\ pc' = [pc EXCEPT ![p] = "idle"] /\ UNCHANGED <<now, stamp, began>>
      BY <1>0, <2>5 DEF Save, Unlock
    <3>2. snapshot' <= now
      BY <1>0, <2>5, <3>1 DEF Save
    <3> QED
      BY <1>0, <3>1, <3>2
  <2> QED
    BY <1>2, <2>1, <2>2, <2>3, <2>4, <2>5 DEF Progress
<1>3. CASE CycleLocks
  BY <1>0, <1>3, ProcAssumption DEF CycleLocks, Locked, Free
<1>4. CASE CycleFindsStale \/ CycleFindsCurrent \/ CycleGivesUp
  BY <1>0, <1>4 DEF CycleFindsStale, CycleFindsCurrent, CycleGivesUp, vars
<1>5. CASE RestartDaemon
  BY <1>0, <1>5 DEF RestartDaemon, Unlock
<1>6. ASSUME NEW c \in Consoles, CmdRun(c) PROVE StampsInOrder'
  BY <1>0, <1>6, ProcAssumption DEF CmdRun, Locked, Free
<1>7. ASSUME NEW c \in Consoles, KillConsole(c) PROVE StampsInOrder'
  BY <1>0, <1>7 DEF KillConsole, Unlock
<1>8. CASE UNCHANGED vars
  BY <1>8 DEF vars
<1> QED
  BY <1>1, <1>2, <1>3, <1>4, <1>5, <1>6, <1>7, <1>8 DEF Next, Cycle

\* A result about to be saved is newer than the snapshot it replaces.
THEOREM ResultsInOrder == Spec => []StampsInOrder
<1>1. Init => StampsInOrder
  BY TimeAssumption DEF Init, StampsInOrder
<1> QED
  BY <1>1, OrderStep, TypeCorrect, OneBenchmark, PTL DEF Spec

\* The steps that touch the snapshot.
LEMMA SnapshotSteps ==
  Next => snapshot' = snapshot \/ \E p \in Procs : Save(p)
BY DEF Next, Tick, Progress, NetworkDone, FioWrites, DiskDone, RunFails, Cycle,
       CycleFindsStale, CycleFindsCurrent, CycleLocks, CycleGivesUp, Locked,
       RestartDaemon, CmdRun, KillConsole, vars

\* The snapshot of a late run never replaces a newer one.
THEOREM SnapshotMonotone == Spec => SnapshotNeverGoesBack
<1>1. TypeOK /\ RunnerHoldsLock /\ StampsInOrder /\ [Next]_vars
        => [snapshot' >= snapshot]_vars
  <2> SUFFICES ASSUME TypeOK, RunnerHoldsLock, StampsInOrder, Next
               PROVE snapshot' >= snapshot
    OBVIOUS
  <2>0. /\ snapshot \in Nat /\ began \in Nat
        /\ \A p \in Procs : stamp[p] \in Nat
    BY DEF TypeOK
  <2>1. ASSUME NEW p \in Procs, Save(p) PROVE snapshot' >= snapshot
    <3>1. lock = p /\ snapshot <= began /\ began <= stamp[p] /\ snapshot' = stamp[p]
      BY <2>1, ProcAssumption DEF Save, RunnerHoldsLock, Running, StampsInOrder
    <3> QED
      BY <2>0, <3>1
  <2> QED
    BY <2>0, <2>1, SnapshotSteps
<1> QED
  BY <1>1, TypeCorrect, OneBenchmark, ResultsInOrder, PTL
  DEF Spec, SnapshotNeverGoesBack

-----------------------------------------------------------------------------
(* The benchmark implements Measurement *)

LEMMA RefineInit == Init => M!Init
BY TimeAssumption DEF Init, M!Init

\* Every step is a step of Measurement or leaves its variables alone: taking the
\* lock begins a measurement, saving publishes it, and whatever else frees the lock
\* abandons it.
LEMMA RefineStep ==
  TypeOK /\ RunnerHoldsLock /\ StampsInOrder /\ [Next]_vars => [M!Next]_(M!vars)
<1> SUFFICES ASSUME TypeOK, RunnerHoldsLock, StampsInOrder, [Next]_vars
             PROVE [M!Next]_(M!vars)
  OBVIOUS
<1> USE DEF M!vars
<1>1. CASE Tick
  BY <1>1 DEF Tick, M!Next, M!Tick
<1>2. ASSUME NEW p \in Procs, Progress(p) PROVE [M!Next]_(M!vars)
  <2>1. CASE NetworkDone(p) \/ FioWrites(p) \/ DiskDone(p)
    BY <2>1 DEF NetworkDone, FioWrites, DiskDone
  <2>2. CASE RunFails(p)
    <3>1. lock = p
      BY <2>2 DEF RunFails, RunnerHoldsLock, Running
    <3>2. M!Abandon(p)
      BY <2>2, <3>1 DEF RunFails, Unlock, M!Abandon
    <3> QED
      BY <3>2 DEF M!Next
  <2>3. CASE Save(p)
    <3>1. lock = p
      BY <2>3 DEF Save, RunnerHoldsLock, Running
    <3>2. stamp[p] \in began .. now
      BY <2>3 DEF Save, StampsInOrder, TypeOK
    <3>3. M!Publish(p)
      BY <2>3, <3>1, <3>2 DEF Save, Unlock, M!Publish
    <3> QED
      BY <3>3 DEF M!Next
  <2> QED
    BY <1>2, <2>1, <2>2, <2>3 DEF Progress
<1>3. CASE CycleLocks
  <2>1. M!Begin(Daemon)
    BY <1>3 DEF CycleLocks, Locked, Free, M!Begin
  <2> QED
    BY <2>1 DEF M!Next
<1>4. CASE CycleFindsStale \/ CycleFindsCurrent \/ CycleGivesUp
  BY <1>4 DEF CycleFindsStale, CycleFindsCurrent, CycleGivesUp, vars
<1>5. CASE RestartDaemon
  <2>1. lock = Daemon => M!Abandon(Daemon)
    BY <1>5 DEF RestartDaemon, Unlock, M!Abandon
  <2>2. lock # Daemon => UNCHANGED M!vars
    BY <1>5 DEF RestartDaemon, Unlock
  <2> QED
    BY <2>1, <2>2 DEF M!Next
<1>6. ASSUME NEW c \in Consoles, CmdRun(c) PROVE [M!Next]_(M!vars)
  <2>1. M!Begin(c)
    BY <1>6 DEF CmdRun, Locked, Free, M!Begin
  <2> QED
    BY <2>1 DEF M!Next
<1>7. ASSUME NEW c \in Consoles, KillConsole(c) PROVE [M!Next]_(M!vars)
  <2>1. lock = c
    BY <1>7 DEF KillConsole, RunnerHoldsLock
  <2>2. M!Abandon(c)
    BY <1>7, <2>1 DEF KillConsole, Unlock, M!Abandon
  <2> QED
    BY <2>2 DEF M!Next
<1>8. CASE UNCHANGED vars
  BY <1>8 DEF vars
<1> QED
  BY <1>1, <1>2, <1>3, <1>4, <1>5, <1>6, <1>7, <1>8 DEF Next, Cycle

\* Whatever the daemon and the consoles do, what can be seen of them is one
\* measurement at a time with a result from within it.
THEOREM Refinement == Spec => ImplementsMeasurement
BY RefineInit, RefineStep, TypeCorrect, OneBenchmark, ResultsInOrder, PTL
DEF Spec, ImplementsMeasurement, M!Spec
=============================================================================
