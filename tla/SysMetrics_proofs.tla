-------------------------- MODULE SysMetrics_proofs --------------------------
(* Proofs about SysMetrics: types, that a rate is taken from readings of one *)
(* device over the time between them, but for the exceptions SpansAgree and  *)
(* OneDevice name, and that the history keeps the newest days.               *)
EXTENDS SysMetrics, FiniteSetTheorems, TLAPS

\* A day's number is no greater than any time of it.
LEMMA DayOfTime ==
  ASSUME NEW t \in Times
  PROVE  Day(t) \in Times
  BY DayAssumption, BoundAssumption DEF Day, Times

\* The history that is written has days of which there was a snapshot, and the time
\* of a snapshot for each.
LEMMA DailyTyped ==
  ASSUME TypeOK, RecordDaily
  PROVE  DOMAIN daily' \subseteq Times /\ \A d \in DOMAIN daily' : daily'[d] \in Times
<1> DEFINE days == Newest(DOMAIN daily \cup {Day(now)})
<1>1. now \in Times /\ Day(now) \in Times
  BY DayOfTime DEF TypeOK
<1>2. days \subseteq DOMAIN daily \cup {Day(now)}
  BY DEF Newest
<1>3. daily' = [d \in days |-> IF d = Day(now) THEN now ELSE daily[d]]
  BY DEF RecordDaily
<1>4. DOMAIN daily' = days
  BY <1>3
<1>5. ASSUME NEW d \in days
      PROVE  daily'[d] \in Times
  BY <1>1, <1>2, <1>3 DEF TypeOK
<1> QED
  BY <1>1, <1>2, <1>4, <1>5 DEF TypeOK

LEMMA InitTyped == Init => TypeOK
<1> SUFFICES ASSUME Init PROVE TypeOK
  OBVIOUS
<1>1. 0 \in Times /\ 1 \in Times /\ 0 \in Lives
  BY BoundAssumption DEF Times, Lives
<1>2. NothingRead \in [Disks -> Readings \cup {NoReading}]
  BY DEF NothingRead
<1>3. 0 \in 0 .. MaxPlugs /\ 0 \in 0 .. MaxRestarts /\ 0 \in 0 .. MaxBacks /\ 0 \in 0 .. MaxRaises
  BY BoundAssumption
<1>4. DOMAIN daily = {}
  BY DEF Init
<1>5. /\ prevAt \in Times /\ prevNet \in Times \cup {NoReading}
      /\ life \in [Disks -> Lives] /\ \A d \in Disks : life[d] <= plugs
  BY <1>1 DEF Init
<1> QED
  BY <1>1, <1>2, <1>3, <1>4, <1>5 DEF Init, TypeOK

\* What a cycle leaves of the readings.
LEMMA ReadingsTyped ==
  ASSUME TypeOK, NEW read \in SUBSET present, ReadDisks(read)
  PROVE  /\ prevDisk' \in [Disks -> Readings \cup {NoReading}]
         /\ rated' \subseteq Disks /\ lone' \subseteq Disks
<1>1. ASSUME NEW d \in Disks
      PROVE  [at |-> now, life |-> life[d]] \in Readings
  BY DEF TypeOK, Readings
<1>2. ASSUME NEW d \in Disks
      PROVE  KeptReading(d) \in Readings \cup {NoReading}
  BY DEF TypeOK, KeptReading
<1>3. prevDisk' = [d \in Disks |->
        IF d \in read THEN [at |-> now, life |-> life[d]] ELSE KeptReading(d)]
  BY DEF ReadDisks
<1>4. rated' \subseteq Disks /\ lone' \subseteq Disks
  BY DEF ReadDisks, StillRated, TypeOK
<1> QED
  BY <1>1, <1>2, <1>3, <1>4

LEMMA NextTyped == TypeOK /\ [Next]_vars => TypeOK'
<1> SUFFICES ASSUME TypeOK, [Next]_vars PROVE TypeOK'
  OBVIOUS
<1>1. CASE Tick
  <2>1. now' \in Times
    BY <1>1, BoundAssumption DEF Tick, TypeOK, Times
  <2> QED
    BY <1>1, <2>1 DEF Tick, TypeOK, metrics
<1>2. CASE SetBack
  <2>1. now' \in Times /\ backs' \in 0 .. MaxBacks
    BY <1>2, BoundAssumption DEF SetBack, TypeOK
  <2> QED
    BY <1>2, <2>1 DEF SetBack, TypeOK, metrics
<1>3. CASE LinkChanges
  BY <1>3 DEF LinkChanges, TypeOK, metrics
<1>4. ASSUME NEW d \in Disks, Unplug(d) PROVE TypeOK'
  BY <1>4 DEF Unplug, TypeOK, metrics
<1>5. ASSUME NEW d \in Disks, Plug(d) PROVE TypeOK'
  <2>1. plugs' \in 0 .. MaxPlugs
    BY <1>5, BoundAssumption DEF Plug, TypeOK
  <2>2. ASSUME NEW e \in Disks
        PROVE  life[e] \in Nat /\ life[e] <= plugs /\ plugs < MaxPlugs
    BY <1>5 DEF Plug, TypeOK, Lives
  <2>3. ASSUME NEW e \in Disks
        PROVE  life[e] + 1 \in Lives /\ life[e] <= plugs' /\ life[e] + 1 <= plugs'
    BY <1>5, <2>1, <2>2, BoundAssumption DEF Plug, TypeOK, Lives
  <2>4. life' \in [Disks -> Lives] /\ \A e \in Disks : life'[e] <= plugs'
    BY <1>5, <2>3 DEF Plug, TypeOK
  <2> QED
    BY <1>5, <2>1, <2>4 DEF Plug, TypeOK, metrics
<1>6. CASE Refresh \/ SnapshotFails
  <2>1. PICK silent \in SUBSET present : ReadDisks(present \ silent) /\ mute' = silent
    BY <1>6 DEF Refresh, SnapshotFails, TakeReadings
  <2>2. /\ prevDisk' \in [Disks -> Readings \cup {NoReading}]
        /\ rated' \subseteq Disks /\ mute' \subseteq Disks /\ lone' \subseteq Disks
    <3>1. present \ silent \in SUBSET present
      OBVIOUS
    <3> QED
      BY <2>1, <3>1, ReadingsTyped DEF TypeOK
  <2>3. DOMAIN daily' \subseteq Times /\ \A d \in DOMAIN daily' : daily'[d] \in Times
    BY <1>6, DailyTyped DEF Refresh, SnapshotFails, TypeOK
  <2>4. recorded' \subseteq Times
    BY <1>6, DayOfTime DEF Refresh, SnapshotFails, TypeOK
  <2>5. /\ prevNet' = now /\ prevAt' = now /\ pulled' = {} /\ cut' = FALSE /\ torn' = {}
        /\ UNCHANGED <<now, online, present, life, plugs, restarts, backs>>
    BY <1>6 DEF Refresh, SnapshotFails, TakeReadings
  <2>6. raises' \in 0 .. MaxRaises
    BY <1>6, BoundAssumption DEF Refresh, SnapshotFails, Raises, TypeOK
  <2> QED
    BY <2>2, <2>3, <2>4, <2>5, <2>6 DEF TypeOK
<1>9. CASE RefreshRaises
  <2>1. /\ prevNet' = now /\ cut' = TRUE
        /\ UNCHANGED <<now, online, present, life, prevAt, daily, plugs, restarts, backs,
                       pulled, recorded>>
        /\ raises' \in 0 .. MaxRaises
    BY <1>9, BoundAssumption DEF RefreshRaises, Raises, TypeOK
  <2>2. /\ prevDisk' \in [Disks -> Readings \cup {NoReading}]
        /\ rated' \subseteq Disks /\ mute' \subseteq Disks /\ lone' \subseteq Disks
        /\ torn' \subseteq Disks
    <3>1. CASE UNCHANGED <<rated, prevDisk, mute, lone, torn>>
      BY <3>1 DEF TypeOK
    <3>2. ASSUME NEW read \in SUBSET present, ReadDisks(read), mute' = mute \ read,
                 torn' = torn \cup read
          PROVE  /\ prevDisk' \in [Disks -> Readings \cup {NoReading}]
                 /\ rated' \subseteq Disks /\ mute' \subseteq Disks /\ lone' \subseteq Disks
                 /\ torn' \subseteq Disks
      BY <3>2, ReadingsTyped DEF TypeOK
    <3> QED
      BY <1>9, <3>1, <3>2 DEF RefreshRaises
  <2> QED
    BY <2>1, <2>2 DEF TypeOK
<1>7. CASE RefreshSkips \/ UNCHANGED vars
  BY <1>7 DEF RefreshSkips, vars, TypeOK
<1>8. CASE RestartDaemon
  <2>1. restarts' \in 0 .. MaxRestarts /\ 0 \in Times
    BY <1>8, BoundAssumption DEF RestartDaemon, TypeOK, Times
  <2>2. prevDisk' \in [Disks -> Readings \cup {NoReading}]
    BY <1>8 DEF RestartDaemon, NothingRead
  <2> QED
    BY <1>8, <2>1, <2>2 DEF RestartDaemon, TypeOK
<1> QED
  BY <1>1, <1>2, <1>3, <1>4, <1>5, <1>6, <1>7, <1>8, <1>9 DEF Next

\* Every variable keeps its type, for any disks, days and bounds.
THEOREM TypeCorrect == Spec => []TypeOK
  BY InitTyped, NextTyped, PTL DEF Spec

-----------------------------------------------------------------------------
\* Disks that show rates have a reading.

\* What a cycle makes of the reading of each disk.
LEMMA ReadingAfterCycle ==
  ASSUME TypeOK, NEW read \in SUBSET present, ReadDisks(read)
  PROVE  /\ rated' = StillRated \cup {d \in read : Rated(d)}
         /\ \A d \in read :
              /\ prevDisk'[d] # NoReading
              /\ prevDisk'[d].at = now /\ prevDisk'[d].life = life[d]
         /\ \A d \in Disks \ present :
              /\ d \in rated => prevDisk'[d] = NoReading
              /\ d \notin rated => prevDisk'[d] = prevDisk[d]
              /\ prevDisk'[d] # NoReading => d \in lone'
         /\ \A d \in present \ read :
              prevDisk'[d] = prevDisk[d] /\ (d \in lone => d \in lone')
<1>1. /\ rated' = StillRated \cup {d \in read : Rated(d)}
      /\ prevDisk' = [d \in Disks |->
           IF d \in read THEN [at |-> now, life |-> life[d]] ELSE KeptReading(d)]
      /\ lone' = (lone \ read)
                   \cup {d \in Disks \ (present \cup rated) : prevDisk[d] # NoReading}
  BY DEF ReadDisks
<1>2. ASSUME NEW d \in read
      PROVE  /\ prevDisk'[d] # NoReading
             /\ prevDisk'[d].at = now /\ prevDisk'[d].life = life[d]
  <2>1. d \in Disks /\ [at |-> now, life |-> life[d]] \in Readings
    BY DEF TypeOK, Readings
  <2>2. prevDisk'[d] = [at |-> now, life |-> life[d]]
    BY <1>1, <2>1
  <2> QED
    BY <2>1, <2>2, ReadingAssumption
<1>3. ASSUME NEW d \in Disks \ present
      PROVE  /\ d \in rated => prevDisk'[d] = NoReading
             /\ d \notin rated => prevDisk'[d] = prevDisk[d]
             /\ prevDisk'[d] # NoReading => d \in lone'
  <2>1. prevDisk'[d] = KeptReading(d)
    BY <1>1
  <2> QED
    BY <1>1, <2>1 DEF KeptReading, Gone
<1>4. ASSUME NEW d \in present \ read
      PROVE  prevDisk'[d] = prevDisk[d] /\ (d \in lone => d \in lone')
  BY <1>1 DEF KeptReading, Gone, TypeOK
<1> QED
  BY <1>1, <1>2, <1>3, <1>4

LEMMA RatedStayRead == TypeOK /\ RatedAreRead /\ [Next]_vars => RatedAreRead'
<1> SUFFICES ASSUME TypeOK, RatedAreRead, [Next]_vars PROVE RatedAreRead'
  OBVIOUS
<1>1. ASSUME NEW read \in SUBSET present, ReadDisks(read) PROVE RatedAreRead'
  <2>1. /\ rated' = StillRated \cup {d \in read : Rated(d)}
        /\ \A d \in read : prevDisk'[d] # NoReading
        /\ \A d \in present \ read : prevDisk'[d] = prevDisk[d]
    BY <1>1, ReadingAfterCycle
  <2> QED
    BY <2>1 DEF RatedAreRead, HasReading, StillRated, Gone
<1>2. CASE RestartDaemon
  BY <1>2 DEF RestartDaemon, RatedAreRead
<1>3. CASE UNCHANGED <<rated, prevDisk>>
  BY <1>3 DEF RatedAreRead, HasReading
<1>4. ASSUME NEW silent \in SUBSET present, ReadDisks(present \ silent)
      PROVE  RatedAreRead'
  <2>1. present \ silent \in SUBSET present
    OBVIOUS
  <2> QED
    BY <1>1, <1>4, <2>1
<1> QED
  BY <1>1, <1>2, <1>3, <1>4 DEF Next, Tick, SetBack, LinkChanges, Unplug, Plug,
     RefreshSkips, Refresh, SnapshotFails, RefreshRaises, TakeReadings, vars, metrics

\* The snapshot shows rates only of disks whose reading is kept.
THEOREM RatesAreOfReadings == Spec => []RatedAreRead
<1>1. Init => RatedAreRead
  BY DEF Init, RatedAreRead
<1> QED
  BY <1>1, TypeCorrect, RatedStayRead, PTL DEF Spec

-----------------------------------------------------------------------------
\* Rates are divided by the time between their readings.

LEMMA SpansStay == TypeOK /\ SpansAgree /\ [Next]_vars => SpansAgree'
<1> SUFFICES ASSUME TypeOK, SpansAgree, [Next]_vars PROVE SpansAgree'
  OBVIOUS
<1>1. CASE TakeReadings
  <2>1. PICK silent \in SUBSET present : ReadDisks(present \ silent) /\ mute' = silent
    BY <1>1 DEF TakeReadings
  <2>2. present \ silent \in SUBSET present
    OBVIOUS
  <2>3. /\ \A d \in present \ silent : prevDisk'[d].at = now
        /\ \A d \in Disks \ present : prevDisk'[d] # NoReading => d \in lone'
    BY <2>1, <2>2, ReadingAfterCycle
  <2>4. prevNet' = now /\ prevAt' = now
    BY <1>1 DEF TakeReadings
  <2>5. ASSUME NEW d \in Disks, HasReading(d)'
        PROVE  prevDisk'[d].at = prevAt' \/ d \in mute' \cup lone'
    <3>1. CASE d \in present \ silent
      BY <2>3, <2>4, <3>1
    <3>2. CASE d \notin present \/ d \in silent
      BY <2>1, <2>3, <2>5, <3>2 DEF HasReading
    <3> QED
      BY <3>1, <3>2
  <2> QED
    BY <2>4, <2>5 DEF SpansAgree
<1>4. CASE RefreshRaises
  <2>1. cut' = TRUE /\ UNCHANGED prevAt
    BY <1>4 DEF RefreshRaises
  <2>2. CASE UNCHANGED <<rated, prevDisk, mute, lone, torn>>
    BY <2>1, <2>2 DEF SpansAgree, HasReading
  <2>3. ASSUME NEW read \in SUBSET present, ReadDisks(read), mute' = mute \ read,
               torn' = torn \cup read
        PROVE  SpansAgree'
    <3>1. ASSUME NEW d \in Disks, HasReading(d)'
          PROVE  prevDisk'[d].at = prevAt' \/ d \in mute' \cup lone' \cup torn'
      <4>1. CASE d \in read
        BY <2>3, <4>1
      <4>2. CASE d \in present \ read
        <5>1. prevDisk'[d] = prevDisk[d] /\ (d \in lone => d \in lone')
          BY <2>3, <4>2, ReadingAfterCycle
        <5> QED
          BY <2>1, <2>3, <3>1, <4>2, <5>1 DEF SpansAgree, HasReading
      <4>3. CASE d \in Disks \ present
        BY <2>3, <3>1, <4>3, ReadingAfterCycle DEF HasReading
      <4> QED
        BY <3>1, <4>1, <4>2, <4>3
    <3> QED
      BY <2>1, <3>1 DEF SpansAgree
  <2> QED
    BY <1>4, <2>2, <2>3 DEF RefreshRaises
<1>2. CASE RestartDaemon
  BY <1>2 DEF RestartDaemon, NothingRead, SpansAgree, HasReading
<1>3. CASE UNCHANGED <<prevAt, prevNet, prevDisk, mute, lone, cut, torn>>
  BY <1>3 DEF SpansAgree, HasReading
<1> QED
  BY <1>1, <1>2, <1>3, <1>4 DEF Next, Tick, SetBack, LinkChanges, Unplug, Plug,
     RefreshSkips, Refresh, SnapshotFails, vars, metrics

\* Whatever the clock, the link and the disks do, a rate is divided by the time
\* between its readings, but for disks not read or gone after a single reading and for
\* what a cycle that raised has read.
THEOREM RatesOverTheirSpan == Spec => []SpansAgree
<1>1. Init => SpansAgree
  BY DEF Init, SpansAgree, HasReading, NothingRead
<1> QED
  BY <1>1, TypeCorrect, SpansStay, PTL DEF Spec

-----------------------------------------------------------------------------
\* Rates are of one device.

\* What OneDevice rests on: a disk that is not there has a reading only if no cycle
\* has seen it missing, or it went after a single reading.
MissingIsForgotten ==
  \A d \in Disks \ present : HasReading(d) => d \in lone \cup pulled

DeviceInv == OneDevice /\ MissingIsForgotten

LEMMA DeviceStays == TypeOK /\ DeviceInv /\ [Next]_vars => DeviceInv'
<1> SUFFICES ASSUME TypeOK, DeviceInv, [Next]_vars PROVE DeviceInv'
  OBVIOUS
<1>1. CASE TakeReadings
  <2>1. PICK silent \in SUBSET present : ReadDisks(present \ silent) /\ mute' = silent
    BY <1>1 DEF TakeReadings
  <2>2. present \ silent \in SUBSET present
    OBVIOUS
  <2>3. /\ \A d \in present \ silent : prevDisk'[d].life = life[d]
        /\ \A d \in Disks \ present : prevDisk'[d] # NoReading => d \in lone'
    BY <2>1, <2>2, ReadingAfterCycle
  <2>4. present' = present /\ life' = life
    BY <1>1 DEF TakeReadings
  <2>5. ASSUME NEW d \in present
        PROVE  prevDisk'[d].life = life'[d] \/ d \in mute'
    BY <2>1, <2>3, <2>4
  <2> QED
    BY <2>3, <2>4, <2>5 DEF DeviceInv, OneDevice, MissingIsForgotten, HasReading
<1>6. CASE RefreshRaises
  <2>1. UNCHANGED <<present, life, pulled>>
    BY <1>6 DEF RefreshRaises
  <2>2. CASE UNCHANGED <<rated, prevDisk, mute, lone, torn>>
    BY <2>1, <2>2 DEF DeviceInv, OneDevice, MissingIsForgotten, HasReading
  <2>3. ASSUME NEW read \in SUBSET present, ReadDisks(read), mute' = mute \ read
        PROVE  DeviceInv'
    <3>1. /\ \A d \in read : prevDisk'[d].life = life[d]
          /\ \A d \in Disks \ present : prevDisk'[d] # NoReading => d \in lone'
          /\ \A d \in present \ read :
               prevDisk'[d] = prevDisk[d] /\ (d \in lone => d \in lone')
      BY <2>3, ReadingAfterCycle
    <3>2. OneDevice'
      BY <2>1, <2>3, <3>1 DEF DeviceInv, OneDevice, HasReading
    <3>3. MissingIsForgotten'
      BY <2>1, <3>1 DEF MissingIsForgotten, HasReading
    <3> QED
      BY <3>2, <3>3 DEF DeviceInv
  <2> QED
    BY <1>6, <2>2, <2>3 DEF RefreshRaises
<1>2. CASE RestartDaemon
  BY <1>2 DEF RestartDaemon, NothingRead, DeviceInv, OneDevice, MissingIsForgotten,
     HasReading, TypeOK
<1>3. ASSUME NEW d \in Disks, Unplug(d) PROVE DeviceInv'
  BY <1>3 DEF Unplug, DeviceInv, OneDevice, MissingIsForgotten, HasReading, metrics
<1>4. ASSUME NEW d \in Disks, Plug(d) PROVE DeviceInv'
  <2>1. ASSUME NEW e \in Disks, e # d
        PROVE  life'[e] = life[e] /\ (e \in present' <=> e \in present)
    BY <1>4, <2>1 DEF Plug, TypeOK
  <2>2. UNCHANGED <<prevDisk, mute, lone, pulled>> /\ d \in present' /\ d \notin present
    BY <1>4 DEF Plug, metrics
  <2>3. present' \subseteq Disks
    BY <1>4 DEF Plug, TypeOK
  <2> QED
    BY <2>1, <2>2, <2>3 DEF DeviceInv, OneDevice, MissingIsForgotten, HasReading
<1>5. CASE UNCHANGED <<present, life, prevDisk, mute, lone, pulled>>
  BY <1>5 DEF DeviceInv, OneDevice, MissingIsForgotten, HasReading
<1> QED
  BY <1>1, <1>2, <1>3, <1>4, <1>5, <1>6 DEF Next, Tick, SetBack, LinkChanges,
     RefreshSkips, Refresh, SnapshotFails, vars, metrics

\* A rate is of the counters of one device, but for disks not read, gone after a
\* single reading, or replaced between two cycles.
THEOREM RatesOfOneDevice == Spec => []OneDevice
<1>1. Init => DeviceInv
  BY DEF Init, DeviceInv, OneDevice, MissingIsForgotten, HasReading, NothingRead
<1>2. Spec => []DeviceInv
  BY <1>1, TypeCorrect, DeviceStays, PTL DEF Spec
<1>3. DeviceInv => OneDevice
  BY DEF DeviceInv
<1> QED
  BY <1>2, <1>3, PTL

-----------------------------------------------------------------------------
(* The history *)

LEMMA Earliest ==
  ASSUME NEW X \in SUBSET Nat, X # {} PROVE \E m \in X : \A e \in X : m <= e
<1>1. PICK m \in X : \A e \in X : <<e, m>> \notin OpToRel(<, Nat)
  BY NatLessThanWellFounded, WFMin
<1>2. \A e \in X : <<e, m>> \in Nat \X Nat
  OBVIOUS
<1>3. \A e \in X : ~ (e < m)
  BY <1>1, <1>2 DEF OpToRel
<1> QED
  BY <1>3

\* Of at most Keep days all are kept. Of one day more the earliest goes, and no other.
LEMMA NewestKeeps ==
  ASSUME NEW X \in SUBSET Times, IsFiniteSet(X), Cardinality(X) <= Keep + 1
  PROVE  \/ Newest(X) = X /\ Cardinality(X) <= Keep
         \/ \E m \in X : /\ Newest(X) = X \ {m} /\ Cardinality(X \ {m}) = Keep
                         /\ \A e \in X \ {m} : m < e
<1> DEFINE Later(d) == {e \in X : e > d}
<1>0. Keep \in Nat \ {0} /\ X \subseteq Nat /\ Cardinality(X) \in Nat
  BY DayAssumption, BoundAssumption, FS_CardinalityType DEF Times
<1>1. ASSUME NEW d \in X
      PROVE  /\ Later(d) \subseteq X \ {d} /\ IsFiniteSet(X \ {d})
             /\ Cardinality(X \ {d}) = Cardinality(X) - 1
  <2>1. Later(d) \subseteq X \ {d}
    BY <1>0
  <2> QED
    BY <2>1, FS_RemoveElement
<1>2. \A d \in X : Later(d) = {e \in X : e > d}
  OBVIOUS
<1> HIDE DEF Later
<1>3. Newest(X) = {d \in X : Cardinality(Later(d)) < Keep}
  BY <1>2 DEF Newest
<1>4. ASSUME NEW d \in X
      PROVE  /\ Cardinality(Later(d)) \in Nat /\ Cardinality(Later(d)) <= Cardinality(X) - 1
             /\ Cardinality(Later(d)) = Cardinality(X) - 1 => Later(d) = X \ {d}
  <2>1. /\ IsFiniteSet(Later(d)) /\ Cardinality(Later(d)) <= Cardinality(X \ {d})
        /\ Cardinality(X \ {d}) = Cardinality(Later(d)) => X \ {d} = Later(d)
    BY <1>1, FS_Subset
  <2>2. Cardinality(Later(d)) \in Nat
    BY <2>1, FS_CardinalityType
  <2> QED
    BY <1>1, <2>1, <2>2
<1>5. CASE Cardinality(X) <= Keep
  <2>1. \A d \in X : Cardinality(Later(d)) < Keep
    BY <1>0, <1>4, <1>5
  <2> QED
    BY <1>3, <1>5, <2>1
<1>6. CASE Cardinality(X) = Keep + 1
  <2>1. X # {}
    BY <1>0, <1>6, FS_EmptySet
  <2>2. PICK m \in X : \A e \in X : m <= e
    BY <1>0, <2>1, Earliest
  <2>3. \A e \in X \ {m} : m < e
    BY <1>0, <2>2
  <2>4. Later(m) = X \ {m}
    <3>1. Later(m) \subseteq X \ {m}
      BY <1>1
    <3>2. ASSUME NEW e \in X \ {m} PROVE e > m
      BY <1>0, <2>3
    <3>3. X \ {m} \subseteq Later(m)
      BY <1>2, <3>2
    <3> QED
      BY <3>1, <3>3
  <2>5. Cardinality(X \ {m}) = Keep
    BY <1>0, <1>1, <1>6
  <2>6. ASSUME NEW d \in X \ {m} PROVE Cardinality(Later(d)) < Keep
    <3>1. m \in X \ {d} /\ m \notin Later(d)
      BY <1>0, <1>2, <2>3
    <3> QED
      BY <1>0, <1>4, <1>6, <3>1
  <2>7. ~ (Cardinality(Later(m)) < Keep)
    BY <1>0, <2>4, <2>5
  <2>8. Newest(X) = X \ {m}
    BY <1>3, <2>6, <2>7
  <2> QED
    BY <2>3, <2>5, <2>8
<1> QED
  BY <1>0, <1>5, <1>6

\* A cycle drops a day only for a full history of later ones, its own day included.
LEMMA HistoryStep == TypeOK /\ HistoryIsNewest /\ [Next]_vars => HistoryIsNewest'
<1> SUFFICES ASSUME TypeOK, HistoryIsNewest, [Next]_vars PROVE HistoryIsNewest'
  OBVIOUS
<1>1. CASE UNCHANGED <<daily, recorded>>
  BY <1>1 DEF HistoryIsNewest
<1>2. CASE Refresh
  <2> DEFINE D == DOMAIN daily
             t == Day(now)
             X == D \cup {t}
             N == Newest(X)
  <2>1. /\ Keep \in Nat \ {0} /\ D \in SUBSET Times /\ t \in Times /\ Times \subseteq Nat
        /\ recorded \subseteq Times
    BY DayAssumption, BoundAssumption, DayOfTime DEF TypeOK, Times
  <2>2. /\ daily' = [d \in N |-> IF d = t THEN now ELSE daily[d]]
        /\ recorded' = recorded \cup {t}
    BY <1>2 DEF Refresh, RecordDaily
  <2>3. /\ Cardinality(D) <= Keep
        /\ \A d \in recorded \ D : Cardinality(D) = Keep /\ \A e \in D : d < e
        /\ \A d \in D : Day(daily[d]) = d
    BY DEF HistoryIsNewest
  <2>4. IsFiniteSet(D) /\ Cardinality(D) \in Nat
    <3>1. IsFiniteSet(Times)
      BY BoundAssumption, FS_Interval DEF Times
    <3> QED
      BY <2>1, <3>1, FS_Subset, FS_CardinalityType
  <2>5. /\ IsFiniteSet(X)
        /\ Cardinality(X) = IF t \in D THEN Cardinality(D) ELSE Cardinality(D) + 1
    BY <2>4, FS_AddElement
  <2>6. Cardinality(X) <= Keep + 1 /\ X \in SUBSET Times
    BY <2>1, <2>3, <2>4, <2>5
  <2>7. \/ N = X /\ Cardinality(X) <= Keep
        \/ \E m \in X : /\ N = X \ {m} /\ Cardinality(X \ {m}) = Keep
                        /\ \A e \in X \ {m} : m < e
    BY <2>5, <2>6, NewestKeeps
  <2>8. N \subseteq X /\ DOMAIN daily' = N
    BY <2>2, <2>7
  <2>9. \A d \in N : Day(daily'[d]) = d
    BY <2>2, <2>3, <2>8
  <2> HIDE DEF D, t, N
  <2>10. CASE N = X /\ Cardinality(X) <= Keep
    <3>1. ASSUME NEW d \in recorded' \ N
          PROVE  Cardinality(N) = Keep /\ \A e \in N : d < e
      <4>1. d \in recorded \ D
        BY <2>2, <2>10, <3>1
      <4>2. Cardinality(D) = Keep /\ \A e \in D : d < e
        BY <2>3, <4>1
      <4>3. t \in D
        BY <2>1, <2>5, <2>10, <4>2
      <4>4. N = D
        BY <2>10, <4>3
      <4> QED
        BY <4>2, <4>4
    <3>2. Cardinality(N) <= Keep
      BY <2>10
    <3> QED
      BY <2>8, <2>9, <3>1, <3>2 DEF HistoryIsNewest
  <2>11. ASSUME NEW m \in X, N = X \ {m}, Cardinality(X \ {m}) = Keep,
                \A e \in X \ {m} : m < e
         PROVE  HistoryIsNewest'
    <3>1. ASSUME NEW d \in recorded' \ N, NEW e \in N PROVE d < e
      <4>1. CASE d = m
        BY <2>11, <4>1
      <4>2. CASE d # m
        <5>1. d \in recorded \ D
          BY <2>2, <2>11, <3>1, <4>2
        <5>2. \A f \in D : d < f
          BY <2>3, <5>1
        <5>3. CASE e \in D
          BY <5>2, <5>3
        <5>4. CASE e = t /\ t \notin D
          <6>1. m \in D /\ m < e
            BY <2>11, <5>4
          <6> QED
            BY <2>1, <5>1, <5>2, <5>4, <6>1
        <5> QED
          BY <2>8, <5>3, <5>4
      <4> QED
        BY <4>1, <4>2
    <3>2. Cardinality(N) = Keep
      BY <2>11
    <3>3. Keep <= Keep
      BY <2>1
    <3> QED
      BY <2>8, <2>9, <3>1, <3>2, <3>3 DEF HistoryIsNewest
  <2> QED
    BY <2>7, <2>10, <2>11
<1> QED
  BY <1>1, <1>2 DEF Next, Tick, SetBack, LinkChanges, Unplug, Plug, RefreshSkips,
                    SnapshotFails, RefreshRaises, RestartDaemon, metrics, vars

\* The history keeps the newest days, however the clock is set.
THEOREM NewestDaysKept == Spec => []HistoryIsNewest
<1>1. Init => HistoryIsNewest
  <2> SUFFICES ASSUME Init PROVE HistoryIsNewest
    OBVIOUS
  <2>1. DOMAIN daily = {} /\ recorded = {}
    BY DEF Init
  <2>2. Cardinality(DOMAIN daily) = 0
    BY <2>1, FS_EmptySet
  <2> QED
    BY <2>1, <2>2, DayAssumption DEF HistoryIsNewest
<1> QED
  BY <1>1, HistoryStep, TypeCorrect, PTL DEF Spec
=============================================================================
