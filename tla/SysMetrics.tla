------------------------------ MODULE SysMetrics ------------------------------
(***************************************************************************)
(* System metrics: every ten seconds mytonproviderd reads the counters of  *)
(* the network interface and of the disks, takes rates between two         *)
(* readings, and saves a snapshot and the day's traffic.                   *)
(*                                                                         *)
(* A reading stands for the counters it holds: by the time at which it was *)
(* taken and, for a disk, by the life of the device, whose counters begin  *)
(* anew when it is plugged in. A rate divides the difference of two        *)
(* readings by the time between two cycles.                                *)
(***************************************************************************)
EXTENDS Naturals, FiniteSets

CONSTANTS
  Disks,        \* names of block devices
  NoReading,
  DayLength,    \* seconds of a day
  Keep,         \* TRAFFIC_HISTORY_DAYS
  MaxTime,      \* bound: the clock stops here
  MaxPlugs,     \* bound: disks plugged in
  MaxRestarts,  \* bound: restarts of mytonproviderd
  MaxBacks,     \* bound: times the clock is set back
  MaxRaises     \* bound: cycles that raise

ASSUME DayAssumption == DayLength \in Nat \ {0} /\ Keep \in Nat \ {0}
ASSUME BoundAssumption ==
  /\ MaxTime \in Nat \ {0} /\ MaxPlugs \in Nat /\ MaxRestarts \in Nat /\ MaxBacks \in Nat
  /\ MaxRaises \in Nat

Times == 0 .. MaxTime
Lives == 0 .. MaxPlugs
Readings == [at : Times, life : Lives]

ASSUME ReadingAssumption == NoReading \notin Readings \cup Times

VARIABLES
  now,
  online,     \* there is a network interface
  present,    \* disks the system lists
  life,       \* how often each disk was plugged in
  prevAt,     \* _prev_at
  prevNet,    \* _prev_net: when it was read
  prevDisk,   \* _prev_disk
  rated,      \* disks with rates, the keys of _disk_load
  daily,      \* daily_traffic: of each day its last snapshot's time
  plugs, restarts, backs, raises,
  mute,       \* history: disks listed in the last cycle and not read
  lone,       \* history: disks gone after a single reading, and not read since
  pulled,     \* history: disks unplugged since the last cycle
  cut,        \* history: a cycle raised since the last one that took its time
  torn,       \* history: disks such cycles read
  recorded    \* history: days that cycles recorded

vars == <<now, online, present, life, prevAt, prevNet, prevDisk, rated, daily, plugs,
          restarts, backs, raises, mute, lone, pulled, cut, torn, recorded>>

\* Mutant: the day of a time in milliseconds.
DayOfMillis(t) == (1000 * t) \div DayLength

Day(t) == t \div DayLength

TypeOK ==
  /\ now \in Times
  /\ online \in BOOLEAN
  /\ present \subseteq Disks
  /\ life \in [Disks -> Lives] /\ \A d \in Disks : life[d] <= plugs
  /\ prevAt \in Times
  /\ prevNet \in Times \cup {NoReading}
  /\ prevDisk \in [Disks -> Readings \cup {NoReading}]
  /\ rated \subseteq Disks
  /\ DOMAIN daily \subseteq Times /\ \A d \in DOMAIN daily : daily[d] \in Times
  /\ plugs \in 0 .. MaxPlugs /\ restarts \in 0 .. MaxRestarts /\ backs \in 0 .. MaxBacks
  /\ raises \in 0 .. MaxRaises
  /\ mute \subseteq Disks /\ lone \subseteq Disks /\ pulled \subseteq Disks
  /\ cut \in BOOLEAN /\ torn \subseteq Disks
  /\ recorded \subseteq Times

NothingRead == [d \in Disks |-> NoReading]

\* The daemon has started on an empty database.
Init ==
  /\ now = 1
  /\ online \in BOOLEAN
  /\ present \in SUBSET Disks
  /\ life = [d \in Disks |-> 0]
  /\ prevAt = 0
  /\ prevNet = NoReading
  /\ prevDisk = NothingRead
  /\ rated = {}
  /\ daily = [d \in {} |-> 0]
  /\ plugs = 0 /\ restarts = 0 /\ backs = 0 /\ raises = 0
  /\ mute = {} /\ lone = {} /\ pulled = {}
  /\ cut = FALSE /\ torn = {}
  /\ recorded = {}

-----------------------------------------------------------------------------
(* Environment: the clock, which may be set back, the interface, the disks *)

metrics == <<prevAt, prevNet, prevDisk, rated, daily, restarts, raises, mute, lone, cut,
             torn, recorded>>

Tick ==
  /\ now < MaxTime
  /\ now' = now + 1
  /\ UNCHANGED <<online, present, life, plugs, backs, pulled, metrics>>

SetBack == \E t \in Times \ {0} :
  /\ backs < MaxBacks
  /\ t < now
  /\ now' = t
  /\ backs' = backs + 1
  /\ UNCHANGED <<online, present, life, plugs, pulled, metrics>>

LinkChanges ==
  /\ online' = ~ online
  /\ UNCHANGED <<now, present, life, plugs, backs, pulled, metrics>>

Unplug(d) ==
  /\ d \in present
  /\ present' = present \ {d}
  /\ pulled' = pulled \cup {d}
  /\ UNCHANGED <<now, online, life, plugs, backs, metrics>>

Plug(d) ==
  /\ d \notin present
  /\ plugs < MaxPlugs
  /\ plugs' = plugs + 1
  /\ present' = present \cup {d}
  /\ life' = [life EXCEPT ![d] = @ + 1]
  /\ UNCHANGED <<now, online, backs, pulled, metrics>>

-----------------------------------------------------------------------------
(* The cycle *)

Rated(d) == prevDisk[d] # NoReading /\ now > prevAt

\* Disks that had rates and are gone are forgotten, with their last reading.
Gone == rated \ present

StillRated == rated \ Gone

\* Mutant: the reading of a disk that is gone is kept.
AllReadings(d) == prevDisk[d]

KeptReading(d) == IF d \in Gone THEN NoReading ELSE prevDisk[d]

\* Mutant: the oldest days are kept.
Oldest(days) == {d \in days : Cardinality({e \in days : e < d}) < Keep}

Newest(days) == {d \in days : Cardinality({e \in days : e > d}) < Keep}

RecordDaily ==
  LET days == Newest(DOMAIN daily \cup {Day(now)})
  IN  daily' = [d \in days |-> IF d = Day(now) THEN now ELSE daily[d]]

\* The disks that are gone lose their reading, those read get a new one.
ReadDisks(read) ==
  /\ rated' = StillRated \cup {d \in read : Rated(d)}
  /\ prevDisk' = [d \in Disks |->
       IF d \in read THEN [at |-> now, life |-> life[d]] ELSE KeptReading(d)]
  /\ lone' = (lone \ read)
               \cup {d \in Disks \ (present \cup rated) : prevDisk[d] # NoReading}

\* A disk that is listed may have no figures when they are asked for.
TakeReadings ==
  /\ online
  /\ \E silent \in SUBSET present : ReadDisks(present \ silent) /\ mute' = silent
  /\ prevNet' = now
  /\ prevAt' = now
  /\ pulled' = {} /\ cut' = FALSE /\ torn' = {}
  /\ UNCHANGED <<now, online, present, life, plugs, restarts, backs>>

Refresh ==
  /\ TakeReadings
  /\ RecordDaily
  /\ recorded' = recorded \cup {Day(now)}
  /\ UNCHANGED raises

Raises ==
  /\ raises < MaxRaises
  /\ raises' = raises + 1

\* The snapshot cannot be built, or its day not be written.
SnapshotFails ==
  /\ Raises
  /\ TakeReadings
  /\ UNCHANGED <<daily, recorded>>

\* The cycle raises while it lists the disks, or with some of them read: what was read
\* is kept, the time of the cycle is not.
RefreshRaises ==
  /\ Raises
  /\ online
  /\ prevNet' = now
  /\ cut' = TRUE
  /\ \/ UNCHANGED <<rated, prevDisk, mute, lone, torn>>
     \/ \E read \in SUBSET present :
          ReadDisks(read) /\ mute' = mute \ read /\ torn' = torn \cup read
  /\ UNCHANGED <<now, online, present, life, prevAt, daily, plugs, restarts, backs, pulled,
                 recorded>>

\* Mutant: the time of a cycle that reads nothing counts all the same.
SkipCounts ==
  /\ ~ online
  /\ prevAt' = now
  /\ UNCHANGED <<now, online, present, life, prevNet, prevDisk, rated, daily, plugs,
                 restarts, backs, raises, mute, lone, pulled, cut, torn, recorded>>

\* Without a network interface the cycle returns.
RefreshSkips ==
  /\ ~ online
  /\ UNCHANGED vars

-----------------------------------------------------------------------------
RestartDaemon ==
  /\ restarts < MaxRestarts
  /\ restarts' = restarts + 1
  /\ prevAt' = 0 /\ prevNet' = NoReading /\ prevDisk' = NothingRead /\ rated' = {}
  /\ mute' = {} /\ lone' = {} /\ cut' = FALSE /\ torn' = {}
  /\ UNCHANGED <<now, online, present, life, daily, plugs, backs, raises, pulled, recorded>>

Next ==
  \/ Tick \/ SetBack \/ LinkChanges
  \/ \E d \in Disks : Unplug(d) \/ Plug(d)
  \/ Refresh \/ SnapshotFails \/ RefreshRaises \/ RefreshSkips
  \/ RestartDaemon

Spec == Init /\ [][Next]_vars

-----------------------------------------------------------------------------
(* Properties *)

HasReading(d) == prevDisk[d] # NoReading

\* The time a rate is divided by is the time between the readings it is taken from,
\* though cycles are skipped, disks come and go and the clock is set back. The
\* exceptions are disks that were listed and not read in the last cycle, disks that
\* went before they had a rate, whose only reading is kept, and, until a cycle takes
\* its time again, what a cycle that raised has read.
SpansAgree ==
  /\ prevNet # NoReading => prevNet = prevAt \/ cut
  /\ \A d \in Disks :
       HasReading(d) => prevDisk[d].at = prevAt \/ d \in mute \cup lone \cup torn

\* A disk's next rate is a difference of the counters of one device, not of a removed
\* one and the one that took its name: once a cycle has seen the disk gone, its reading
\* is forgotten. Disks not read or gone before they had a rate are excepted here too, and
\* a device replaced between two cycles; a cycle that raises is not.
OneDevice ==
  \A d \in present :
    HasReading(d) => prevDisk[d].life = life[d] \/ d \in mute \cup lone \cup pulled

\* Whatever disk the snapshot shows rates of has a reading.
RatedAreRead == \A d \in rated : HasReading(d)

\* The history of daily traffic has at most Keep days, and no day a cycle
\* recorded is missing from it but those older than all Keep days it has. What it has
\* of a day is of that day. (A snapshot may be kept without its day, by a daemon killed
\* between the two.)
HistoryIsNewest ==
  /\ Cardinality(DOMAIN daily) <= Keep
  /\ \A d \in recorded \ DOMAIN daily :
       Cardinality(DOMAIN daily) = Keep /\ \A e \in DOMAIN daily : d < e
  /\ \A d \in DOMAIN daily : Day(daily[d]) = d
=============================================================================
