------------------------- MODULE TonStorage_proofs -------------------------
(* Proofs about the two parts of ton_storage.py that share their files with *)
(* others: BagVerify, for every set of bags, every threshold and every bound *)
(* on the clock, the commands and the restarts; and Installer, which the     *)
(* install of the provider's daemon belongs to as well, for any paths,       *)
(* ports and consoles. The two have no state in common.                      *)
EXTENDS BagVerify, Installer, TLAPS

(* Verification of bags *)

LEMMA InitType == Init => TypeOK
<1> SUFFICES ASSUME Init PROVE TypeOK
  OBVIOUS
<1>1. 0 .. Threshold \subseteq Times /\ 0 \in Times /\ Threshold \in Times
  BY TimeAssumption DEF Times
<1>2. NoRecord \in Records /\ lastVerified \in Records
  BY <1>1 DEF Init, NoRecord, Records
<1> QED
  BY <1>1, <1>2, BoundAssumption DEF Init, TypeOK, IdleCycle, IdleCmd

\* The steps of the specification keep every variable in its type.
LEMMA TypeInvariant == TypeOK /\ [Next]_vars => TypeOK'
<1> SUFFICES ASSUME TypeOK, [Next]_vars PROVE TypeOK'
  OBVIOUS
<1> USE DEF TypeOK
<1>0. /\ NoRecord \in Records /\ 0 \in Times
      /\ \A f \in Records, b \in Bags, t \in Times : Recorded(f, b, t) \in Records
      /\ \A f \in Records, b \in Bags, t \in Times : [f EXCEPT ![b] = t] \in Records
  BY TimeAssumption DEF NoRecord, Records, Times, Recorded
<1>1. CASE Tick
  BY <1>1, TimeAssumption DEF Tick, Times
<1>2. ASSUME NEW b \in Bags, Environment(b) PROVE TypeOK'
  BY <1>2 DEF Environment, AddBag, DropBag
<1>3. ASSUME NEW b \in Bags, CycleBegin(b) PROVE TypeOK'
  BY <1>3 DEF CycleBegin
<1>4. ASSUME NEW b \in Bags, CycleFinish(b) PROVE TypeOK'
  BY <1>0, <1>4 DEF CycleFinish, IdleCycle
<1>5. CASE CycleFail
  BY <1>0, <1>5 DEF CycleFail, IdleCycle
<1>6. CASE RestartDaemon
  BY <1>0, <1>6, BoundAssumption DEF RestartDaemon, IdleCycle
<1>7. ASSUME NEW b \in Bags, CmdVerify(b) PROVE TypeOK'
  BY <1>0, <1>7, BoundAssumption DEF CmdVerify, IdleCmd
<1>8. CASE CmdVerified
  BY <1>0, <1>8 DEF CmdVerified
<1>9. CASE CmdWrite
  BY <1>0, <1>9 DEF CmdWrite, IdleCmd
<1>10. CASE CmdFail
  BY <1>0, <1>10 DEF CmdFail, IdleCmd
<1>11. CASE UNCHANGED vars
  BY <1>11 DEF vars
<1> QED
  BY <1>1, <1>2, <1>3, <1>4, <1>5, <1>6, <1>7, <1>8, <1>9, <1>10, <1>11 DEF Next

\* Every reachable state is well typed.
THEOREM TypeCorrect == Spec => []TypeOK
BY InitType, TypeInvariant, PTL DEF Spec

-----------------------------------------------------------------------------
(* No record without a verification *)

Backed == RecordBacked /\ CopiesBacked

LEMMA InitBacked == Init => Backed
<1> SUFFICES ASSUME Init PROVE Backed
  OBVIOUS
<1>1. \A b \in Bags : lastVerified[b] \in 0 .. Threshold
  BY DEF Init
<1> QED
  BY <1>1, TimeAssumption
  DEF Init, Backed, RecordBacked, CopiesBacked, IdleCycle, IdleCmd, NoRecord

LEMMA BackedStep == TypeOK /\ TypeOK' /\ Backed /\ [Next]_vars => Backed'
<1> SUFFICES ASSUME TypeOK, TypeOK', Backed, [Next]_vars PROVE Backed'
  OBVIOUS
<1> USE DEF Backed, RecordBacked, CopiesBacked
<1>0. /\ now \in Nat /\ now' \in Nat
      /\ \A b \in Bags : /\ lastVerified[b] \in Nat /\ checked[b] \in Nat
                         /\ NoRecord[b] = 0
      /\ \A b \in Bags : cycle.copy[b] \in Nat /\ cmd.copy[b] \in Nat
      /\ cycle.stamp \in Nat /\ cmd.stamp \in Nat
      /\ DOMAIN checked = Bags
      /\ DOMAIN cycle.copy = Bags /\ DOMAIN cmd.copy = Bags
  BY DEF TypeOK, Records, Times, NoRecord
<1>1. CASE Tick
  BY <1>0, <1>1 DEF Tick
<1>2. ASSUME NEW b \in Bags, Environment(b) PROVE Backed'
  BY <1>2 DEF Environment, AddBag, DropBag
<1>3. ASSUME NEW b \in Bags, CycleBegin(b) PROVE Backed'
  BY <1>0, <1>3 DEF CycleBegin
<1>4. ASSUME NEW b \in Bags, CycleFinish(b) PROVE Backed'
  <2>1. \A c \in Bags : checked'[c] = IF c = b THEN now ELSE checked[c]
    BY <1>0, <1>4 DEF CycleFinish
  <2>2. \A c \in Bags : lastVerified'[c] = IF c = b THEN cycle.stamp ELSE cycle.copy[c]
    BY <1>0, <1>4 DEF CycleFinish, Recorded
  <2>3. now' = now /\ cmd' = cmd /\ cycle' = IdleCycle
    BY <1>4 DEF CycleFinish
  <2> QED
    BY <1>0, <2>1, <2>2, <2>3 DEF IdleCycle, TypeOK
<1>5. CASE CycleFail \/ RestartDaemon
  BY <1>0, <1>5 DEF CycleFail, RestartDaemon, IdleCycle
<1>6. ASSUME NEW b \in Bags, CmdVerify(b) PROVE Backed'
  BY <1>0, <1>6 DEF CmdVerify, IdleCmd
<1>7. CASE CmdVerified
  <2>1. cmd.bag \in Bags
    BY <1>7 DEF CmdVerified, TypeOK
  <2>2. \A c \in Bags : checked'[c] = IF c = cmd.bag THEN now ELSE checked[c]
    BY <1>0, <1>7 DEF CmdVerified
  <2>3. /\ cmd'.stamp = now /\ cmd'.copy = lastVerified /\ cmd'.bag = cmd.bag
        /\ UNCHANGED <<now, lastVerified, cycle>>
    BY <1>7 DEF CmdVerified, TypeOK
  <2> QED
    BY <1>0, <2>1, <2>2, <2>3
<1>8. CASE CmdWrite
  <2>1. cmd.bag \in Bags
    BY <1>8 DEF CmdWrite, TypeOK
  <2>2. \A c \in Bags : lastVerified'[c] = IF c = cmd.bag THEN cmd.stamp ELSE cmd.copy[c]
    BY <1>0, <1>8 DEF CmdWrite, Recorded
  <2> QED
    BY <1>0, <1>8, <2>1, <2>2 DEF CmdWrite, IdleCmd
<1>9. CASE CmdFail
  BY <1>0, <1>9 DEF CmdFail, IdleCmd
<1>10. CASE UNCHANGED vars
  BY <1>10 DEF vars
<1> QED
  BY <1>1, <1>2, <1>3, <1>4, <1>5, <1>6, <1>7, <1>8, <1>9, <1>10 DEF Next

THEOREM BackedAlways == Spec => []Backed
BY InitBacked, BackedStep, TypeCorrect, PTL DEF Spec

\* No bag's record is later than its last completed verification, whatever the
\* cycle and the console lose of each other's writes.
THEOREM RecordsAreBacked == Spec => []RecordBacked
BY BackedAlways, PTL DEF Backed

-----------------------------------------------------------------------------
(* A record is lost in a race only *)

LEMMA InitCurrent == Init => CopiesCurrent
BY DEF Init, CopiesCurrent, IdleCmd

LEMMA CurrentStep ==
  TypeOK /\ TypeOK' /\ Backed /\ CopiesCurrent /\ [Next]_vars => CopiesCurrent'
<1> SUFFICES ASSUME TypeOK, TypeOK', Backed, CopiesCurrent, [Next]_vars
             PROVE CopiesCurrent'
  OBVIOUS
<1> USE DEF CopiesCurrent
<1>0. \A b \in Bags : lastVerified[b] \in Nat /\ checked[b] \in Nat /\ now \in Nat
  BY DEF TypeOK, Records, Times
<1>1. \A b \in Bags : lastVerified[b] <= now
  BY <1>0 DEF Backed, RecordBacked, CopiesBacked
<1>2. CASE Tick
  BY <1>2 DEF Tick
<1>3. ASSUME NEW b \in Bags, Environment(b) PROVE CopiesCurrent'
  BY <1>3 DEF Environment, AddBag, DropBag
<1>4. ASSUME NEW b \in Bags, CycleBegin(b) PROVE CopiesCurrent'
  BY <1>1, <1>4 DEF CycleBegin
<1>5. ASSUME NEW b \in Bags, CycleFinish(b) PROVE CopiesCurrent'
  BY <1>5 DEF CycleFinish
<1>6. CASE CycleFail \/ RestartDaemon
  BY <1>6 DEF CycleFail, RestartDaemon
<1>7. ASSUME NEW b \in Bags, CmdVerify(b) PROVE CopiesCurrent'
  BY <1>7 DEF CmdVerify, IdleCmd
<1>8. CASE CmdVerified
  <2>1. /\ cmd'.copy = lastVerified /\ cmd'.stamp = now
        /\ UNCHANGED <<lastVerified, cycle>> /\ raced' = raced \ {"cmd"}
    BY <1>8 DEF CmdVerified, TypeOK
  <2> QED
    BY <1>1, <2>1
<1>9. CASE CmdWrite
  BY <1>9 DEF CmdWrite, IdleCmd
<1>10. CASE CmdFail
  BY <1>10 DEF CmdFail, IdleCmd
<1>11. CASE UNCHANGED vars
  BY <1>11 DEF vars
<1> QED
  BY <1>2, <1>3, <1>4, <1>5, <1>6, <1>7, <1>8, <1>9, <1>10, <1>11 DEF Next

THEOREM CurrentAlways == Spec => []CopiesCurrent
BY InitCurrent, CurrentStep, TypeCorrect, BackedAlways, PTL DEF Spec

\* A record goes back in time only when the writer was overtaken by the other
\* process between its read and its write.
THEOREM RecordsLostInRaceOnly == Spec => RecordsGoBackOnlyInRace
<1> DEFINE Race ==
      \A b \in Bags :
        lastVerified'[b] < lastVerified[b] =>
          \/ cycle # IdleCycle /\ "cycle" \in raced
          \/ cmd.pc = "write" /\ "cmd" \in raced
<1>1. TypeOK /\ CopiesCurrent /\ [Next]_vars => [Race]_vars
  <2> SUFFICES ASSUME TypeOK, CopiesCurrent, Next,
                      NEW b \in Bags, lastVerified'[b] < lastVerified[b]
               PROVE \/ cycle # IdleCycle /\ "cycle" \in raced
                     \/ cmd.pc = "write" /\ "cmd" \in raced
    OBVIOUS
  <2>0. /\ lastVerified[b] \in Nat /\ cycle.stamp \in Nat /\ cmd.stamp \in Nat
        /\ DOMAIN cycle.copy = Bags /\ DOMAIN cmd.copy = Bags
    BY DEF TypeOK, Records, Times
  <2>1. lastVerified' # lastVerified
    BY <2>0
  <2>2. ASSUME NEW c \in Bags, CycleFinish(c)
        PROVE cycle # IdleCycle /\ "cycle" \in raced
    <3>1. cycle # IdleCycle
      BY <2>2, BagAssumption DEF CycleFinish, IdleCycle
    <3>2. lastVerified'[b] = IF b = c THEN cycle.stamp ELSE cycle.copy[b]
      BY <2>0, <2>2 DEF CycleFinish, Recorded
    <3>3. ASSUME "cycle" \notin raced PROVE FALSE
      BY <2>0, <3>1, <3>2, <3>3 DEF CopiesCurrent
    <3> QED
      BY <3>1, <3>3
  <2>3. CASE CmdWrite
    <3>1. cmd.pc = "write"
      BY <2>3 DEF CmdWrite
    <3>2. lastVerified'[b] = IF b = cmd.bag THEN cmd.stamp ELSE cmd.copy[b]
      BY <2>0, <2>3 DEF CmdWrite, Recorded
    <3>3. ASSUME "cmd" \notin raced PROVE FALSE
      BY <2>0, <3>1, <3>2, <3>3 DEF CopiesCurrent
    <3> QED
      BY <3>1, <3>3
  <2>4. Next => \/ \E c \in Bags : CycleFinish(c)
                \/ CmdWrite
                \/ lastVerified' = lastVerified
    BY DEF Next, Tick, Environment, AddBag, DropBag, CycleBegin, CycleFail,
           RestartDaemon, CmdVerify, CmdVerified, CmdFail
  <2> QED
    BY <2>1, <2>2, <2>3, <2>4
<1> QED
  BY <1>1, TypeCorrect, CurrentAlways, PTL DEF Spec, RecordsGoBackOnlyInRace

-----------------------------------------------------------------------------
(* The file of verification times is a SharedFile *)

LEMMA HeldInit == Init => Shared!Init
<1> SUFFICES ASSUME Init PROVE Shared!Init
  OBVIOUS
<1>1. lastVerified \in Records
  BY InitType DEF TypeOK
<1>2. Held("cycle") = {} /\ Held("cmd") = {}
  BY DEF Init, Held, IdleCmd
<1> QED
  BY <1>1, <1>2 DEF Init, Shared!Init

\* Every step is one of a writer of the SharedFile, or leaves it as it is.
LEMMA HeldStep ==
  TypeOK /\ TypeOK' /\ Backed /\ CopiesCurrent /\ [Next]_vars
    => [Shared!Next]_(Shared!vars)
<1> SUFFICES ASSUME TypeOK, TypeOK', Backed, CopiesCurrent, [Next]_vars
             PROVE  [Shared!Next]_(Shared!vars)
  OBVIOUS
<1> DEFINE W == {"cycle", "cmd"}
           Hand == [w \in W |-> Held(w)]
           Late == {w \in raced : Held(w) # {}}
<1>0. /\ \A b \in Bags : lastVerified[b] \in Nat /\ lastVerified[b] <= now
      /\ now \in Times /\ raced \subseteq W /\ raced' \subseteq W
  BY DEF TypeOK, Records, Times, Backed, RecordBacked, CopiesBacked
<1>a. ASSUME lastVerified' = lastVerified, Hand' = Hand, Late' = Late
      PROVE  [Shared!Next]_(Shared!vars)
  BY <1>a DEF Shared!vars
\* One writer takes, puts or drops what it has in hand, and the other keeps its own.
<1>b. ASSUME NEW w \in W, NEW v \in W, v # w, Held(v)' = Held(v),
             NEW c, Held(w) = {}, Held(w)' = {c}, Advances(lastVerified, c),
             lastVerified' = lastVerified, raced' = raced \ {w}
      PROVE  Shared!Take(w)
  <2>1. Hand' = [Hand EXCEPT ![w] = {c}]
    BY <1>b
  <2>2. \A u \in W : u = w \/ u = v
    BY <1>b
  <2>3. \A u : u \in Late' <=> u \in Late
    BY <1>0, <1>b, <2>2
  <2>4. Late' = Late
    BY <2>3
  <2> QED
    BY <1>b, <2>1, <2>4 DEF Shared!Take
<1>c. ASSUME NEW w \in W, NEW v \in W, v # w, Held(v)' = Held(v),
             Held(w) = {lastVerified'}, Held(w)' = {},
             w \notin raced => Advances(lastVerified, lastVerified'),
             v \in raced' <=> v \in raced \/ Held(v) # {}
      PROVE  Shared!EditInPlace(w) \/ Shared!BringBack(w)
  <2>1. Hand' = [Hand EXCEPT ![w] = {}] /\ Hand[w] = {lastVerified'}
    BY <1>c
  <2>2. Late' = {u \in W : Hand'[u] # {}}
    BY <1>0, <1>c
  <2>3. w \in Late <=> w \in raced
    BY <1>c
  <2> QED
    BY <1>c, <2>1, <2>2, <2>3 DEF Shared!EditInPlace, Shared!BringBack, Shared!Puts
<1>d. ASSUME NEW w \in W, NEW v \in W, v # w, Held(v)' = Held(v),
             Held(w) # {}, Held(w)' = {},
             lastVerified' = lastVerified, raced' = raced
      PROVE  Shared!Drop(w)
  <2>1. Hand' = [Hand EXCEPT ![w] = {}]
    BY <1>d
  <2>2. \A u \in W : u = w \/ u = v
    BY <1>d
  <2>3. \A u : u \in Late' <=> u \in Late \ {w}
    BY <1>0, <1>d, <2>2
  <2>4. Late' = Late \ {w}
    BY <2>3
  <2> QED
    BY <1>d, <2>1, <2>4 DEF Shared!Drop
<1> HIDE DEF Hand, Late
<1>1. CASE Tick \/ (\E b \in Bags : Environment(b)) \/ UNCHANGED vars
  <2>1. UNCHANGED <<lastVerified, cycle, cmd, raced>>
    BY <1>1 DEF Tick, Environment, AddBag, DropBag, vars
  <2>2. \A w \in W : Held(w)' = Held(w)
    BY <2>1 DEF Held
  <2>3. Hand' = Hand /\ Late' = Late
    BY <1>0, <2>1, <2>2 DEF Hand, Late
  <2> QED
    BY <1>a, <2>1, <2>3
<1>2. ASSUME NEW b \in Bags, CycleBegin(b) PROVE Shared!Take("cycle")
  <2>1. Advances(lastVerified, Recorded(lastVerified, b, now))
    BY <1>0 DEF Advances, Recorded
  <2>2. Held("cycle") = {} /\ Held("cycle")' = {Recorded(lastVerified, b, now)}
    BY <1>2, BagAssumption DEF CycleBegin, Held, IdleCycle
  <2>3. Held("cmd")' = Held("cmd")
    BY <1>2 DEF CycleBegin, Held
  <2> QED
    BY <1>2, <1>b, <2>1, <2>2, <2>3 DEF CycleBegin
<1>3. ASSUME NEW b \in Bags, CycleFinish(b)
      PROVE  Shared!EditInPlace("cycle") \/ Shared!BringBack("cycle")
  <2>1. cycle # IdleCycle
    BY <1>3, BagAssumption DEF CycleFinish, IdleCycle
  <2>2. Held("cycle") = {lastVerified'} /\ Held("cycle")' = {}
    BY <1>3, <2>1 DEF CycleFinish, Held
  <2>3. Held("cmd")' = Held("cmd") /\ (Held("cmd") # {} <=> cmd.pc = "write")
    BY <1>3 DEF CycleFinish, Held
  <2>4. ASSUME "cycle" \notin raced PROVE Advances(lastVerified, lastVerified')
    <3>1. cycle.copy = lastVerified /\ lastVerified[b] <= cycle.stamp
      BY <2>1, <2>4 DEF CopiesCurrent
    <3>2. cycle.stamp \in Times
      BY DEF TypeOK
    <3> QED
      BY <1>3, <3>1, <3>2 DEF CycleFinish, Recorded, Advances
  <2>5. "cmd" \in raced' <=> "cmd" \in raced \/ Held("cmd") # {}
    BY <1>3, <2>3 DEF CycleFinish
  <2> QED
    BY <1>c, <2>2, <2>3, <2>4, <2>5
<1>4. CASE CycleFail \/ RestartDaemon
  <2>1. UNCHANGED <<lastVerified, cmd, raced>> /\ cycle' = IdleCycle
    BY <1>4 DEF CycleFail, RestartDaemon
  <2>2. Held("cmd")' = Held("cmd") /\ Held("cycle")' = {}
    BY <2>1 DEF Held
  <2>3. CASE Held("cycle") = {}
    <3>1. Hand' = Hand /\ Late' = Late
      BY <1>0, <2>1, <2>2, <2>3 DEF Hand, Late
    <3> QED
      BY <1>a, <2>1, <3>1
  <2>4. CASE Held("cycle") # {}
    BY <1>d, <2>1, <2>2, <2>4 DEF Shared!Next
  <2> QED
    BY <2>3, <2>4
<1>5. ASSUME NEW b \in Bags, CmdVerify(b) PROVE [Shared!Next]_(Shared!vars)
  <2>1. UNCHANGED <<lastVerified, cycle, raced>>
    BY <1>5 DEF CmdVerify
  <2>2. \A w \in W : Held(w)' = Held(w)
    BY <1>5, <2>1 DEF CmdVerify, IdleCmd, Held
  <2>3. Hand' = Hand /\ Late' = Late
    BY <1>0, <2>1, <2>2 DEF Hand, Late
  <2> QED
    BY <1>a, <2>1, <2>3
<1>6. CASE CmdVerified
  <2>1. cmd.bag \in Bags
    BY <1>6 DEF CmdVerified, TypeOK
  <2>2. Advances(lastVerified, Recorded(lastVerified, cmd.bag, now))
    BY <1>0, <2>1 DEF Advances, Recorded
  <2>3. /\ cmd'.pc = "write" /\ cmd'.bag = cmd.bag
        /\ cmd'.stamp = now /\ cmd'.copy = lastVerified
    BY <1>6 DEF CmdVerified, TypeOK
  <2>4. Held("cmd") = {} /\ Held("cmd")' = {Recorded(lastVerified, cmd.bag, now)}
    BY <1>6, <2>3 DEF CmdVerified, Held, Recorded
  <2>5. Held("cycle")' = Held("cycle")
    BY <1>6 DEF CmdVerified, Held
  <2> QED
    BY <1>6, <1>b, <2>2, <2>4, <2>5 DEF CmdVerified, Shared!Next
<1>7. CASE CmdWrite
  <2>1. cmd.pc = "write" /\ cmd.bag \in Bags /\ cmd.stamp \in Times
    BY <1>7 DEF CmdWrite, TypeOK
  <2>2. Held("cmd") = {lastVerified'} /\ Held("cmd")' = {}
    BY <1>7, <2>1 DEF CmdWrite, Held, IdleCmd
  <2>3. Held("cycle")' = Held("cycle") /\ (Held("cycle") # {} <=> cycle # IdleCycle)
    BY <1>7 DEF CmdWrite, Held
  <2>4. ASSUME "cmd" \notin raced PROVE Advances(lastVerified, lastVerified')
    <3>1. cmd.copy = lastVerified /\ lastVerified[cmd.bag] <= cmd.stamp
      BY <2>1, <2>4 DEF CopiesCurrent
    <3> QED
      BY <1>7, <2>1, <3>1 DEF CmdWrite, Recorded, Advances
  <2>5. "cycle" \in raced' <=> "cycle" \in raced \/ Held("cycle") # {}
    BY <1>7, <2>3 DEF CmdWrite
  <2> QED
    BY <1>c, <2>2, <2>3, <2>4, <2>5 DEF Shared!Next
<1>8. CASE CmdFail
  <2>1. UNCHANGED <<lastVerified, cycle, raced>> /\ cmd' = IdleCmd
    BY <1>8 DEF CmdFail
  <2>2. Held("cycle")' = Held("cycle") /\ Held("cmd")' = {}
    BY <2>1 DEF Held, IdleCmd
  <2>3. CASE Held("cmd") = {}
    <3>1. Hand' = Hand /\ Late' = Late
      BY <1>0, <2>1, <2>2, <2>3 DEF Hand, Late
    <3> QED
      BY <1>a, <2>1, <3>1
  <2>4. CASE Held("cmd") # {}
    BY <1>d, <2>1, <2>2, <2>4 DEF Shared!Next
  <2> QED
    BY <2>3, <2>4
<1>9. (\E b \in Bags : CycleBegin(b) \/ CycleFinish(b)) => Shared!Next
  BY <1>2, <1>3 DEF Shared!Next
<1> QED
  BY <1>1, <1>4, <1>5, <1>6, <1>7, <1>8, <1>9 DEF Next

\* The cycle and the console share the file of verification times like two writers
\* of a SharedFile: a step of either takes, writes back or drops, and one that was
\* not overtaken changes the file in place.
THEOREM VerifyImplementsSharedFile == Spec => ImplementsSharedFile
BY HeldInit, HeldStep, TypeCorrect, BackedAlways, CurrentAlways, PTL
DEF Spec, ImplementsSharedFile, Shared!Spec

-----------------------------------------------------------------------------
(* Installation: the types *)

\* What a daemon is called with and has read is of its type, and so is what a start or
\* a restart makes of all of them.
LEMMA CalledType ==
  ASSUME NEW u \in Calls, NEW f \in [Paths -> Ports \cup {None, Own}]
  PROVE  /\ Called(u, f) \in
              [path : Paths, port : Ports \cup {None}, conf : Ports \cup {Own}]
         /\ Called(u, f) # Down
BY ValueAssumption DEF Called, Calls, Down

LEMMA RestartedType ==
  ASSUME InstallTypeOK, NEW svc \in Services,
         NEW f \in [Paths -> Ports \cup {None, Own}]
  PROVE  Restarted(svc, f) \in
           [Services -> {Down}
             \cup [path : Paths, port : Ports \cup {None}, conf : Ports \cup {Own}]]
<1>1. CASE unit[svc] = Nowhere
  BY <1>1 DEF Restarted, InstallTypeOK
<1>2. CASE unit[svc] # Nowhere
  <2>1. unit[svc] \in Calls
    BY <1>2 DEF InstallTypeOK
  <2> QED
    BY <1>2, <2>1, CalledType DEF Restarted, InstallTypeOK
<1> QED
  BY <1>1, <1>2

LEMMA StartedType ==
  ASSUME InstallTypeOK, NEW svc \in Services, NEW u \in Calls
  PROVE  Started(svc, u) \in
           [Services -> {Down}
             \cup [path : Paths, port : Ports \cup {None}, conf : Ports \cup {Own}]]
<1>1. file[svc] \in [Paths -> Ports \cup {None, Own}]
  BY DEF InstallTypeOK
<1> QED
  BY <1>1, CalledType DEF Started, InstallTypeOK

-----------------------------------------------------------------------------
(* What an install has put down when it is at a stage, and leaves there *)

\* The path and the ports are in the database.
Asked ==
  \/ stage.svc = Provider
  \/ stage.at \in {"unit", "stop", "write", "start"}
  \/ settled # {}

DatabaseSet == Asked => db # Nowhere

\* Nothing is settled between the questions of an install and the end of its service.
SettledBetween ==
  /\ Provider \in settled =>
       \/ stage = Idle
       \/ stage.svc = Storage /\ stage.at \in {"build", "ask"}
  /\ Storage \in settled =>
       \/ stage = Idle
       \/ stage.svc = Provider
       \/ stage.at \in {"build", "ask"}

\* The unit of the service is that of the last install.
HasUnit(svc) ==
  \/ stage.svc = svc /\ stage.at \in {"stop", "write", "start"}
  \/ svc \in settled
  \/ svc = Storage /\ (stage.svc = Provider \/ Provider \in settled)

UnitsCurrent == \A svc \in Services : HasUnit(svc) => unit[svc] = CalledWith(svc)

\* Together these keep the types: what is written to a unit or a config is in the
\* database by then.
Placed == InstallTypeOK /\ DatabaseSet /\ SettledBetween /\ UnitsCurrent

LEMMA InitPlaced == InstallInit => Placed
<1> SUFFICES ASSUME InstallInit PROVE Placed
  OBVIOUS
<1>1. Idle.svc \notin Services /\ Idle.at = "idle"
  BY ServiceAssumption DEF Idle
<1>2. InstallTypeOK
  BY DEF InstallInit, InstallTypeOK
<1>3. ~ Asked
  BY <1>1 DEF InstallInit, Asked, Services
<1>4. \A svc \in Services : ~ HasUnit(svc)
  BY <1>1 DEF InstallInit, HasUnit, Services
<1> QED
  BY <1>2, <1>3, <1>4 DEF Placed, DatabaseSet, SettledBetween, UnitsCurrent, InstallInit

\* Once the questions are answered the units can be written.
LEMMA CalledWithType ==
  ASSUME InstallTypeOK, db # Nowhere, NEW svc \in Services
  PROVE  /\ db.path \in Paths /\ db.port \in Ports
         /\ CalledWith(svc) \in Calls /\ CalledWith(svc) # Nowhere
         /\ CalledWith(svc).path = db.path /\ db.port # None
BY ValueAssumption DEF InstallTypeOK, CalledWith, Calls, Nowhere

LEMMA PlacedTypes == Placed /\ [InstallNext]_installVars => InstallTypeOK'
<1> SUFFICES ASSUME Placed, [InstallNext]_installVars PROVE InstallTypeOK'
  OBVIOUS
<1> USE DEF Placed
<1>1. CASE Begin
  BY <1>1 DEF Begin, InstallTypeOK, Services
<1>2. ASSUME NEW svc \in Services, Build(svc) PROVE InstallTypeOK'
  <2>1. file[svc] \in [Paths -> Ports \cup {None, Own}]
    BY DEF InstallTypeOK
  <2>2. running' \in [Services -> {Down}
             \cup [path : Paths, port : Ports \cup {None}, conf : Ports \cup {Own}]]
    BY <1>2, <2>1, RestartedType DEF Build
  <2>3. stage' \in [svc : Services, at : {"build", "ask", "unit", "stop", "write", "start"}]
    BY <1>2 DEF Build, Turns
  <2> QED
    BY <1>2, <2>2, <2>3 DEF Build, InstallTypeOK
<1>3. CASE AskStorage
  BY <1>3 DEF AskStorage, Turns, InstallTypeOK, Services
<1>4. CASE AskProvider
  BY <1>4 DEF AskProvider, Turns, InstallTypeOK, Services
<1>5. ASSUME NEW svc \in Services, CreateUnit(svc) PROVE InstallTypeOK'
  <2>1. db # Nowhere
    BY <1>5 DEF CreateUnit, Turns, DatabaseSet, Asked
  <2>2. CalledWith(svc) \in Calls
    BY <2>1, CalledWithType
  <2>3. running' \in [Services -> {Down}
             \cup [path : Paths, port : Ports \cup {None}, conf : Ports \cup {Own}]]
    BY <1>5, <2>2, StartedType DEF CreateUnit
  <2> QED
    BY <1>5, <2>2, <2>3 DEF CreateUnit, Turns, InstallTypeOK
<1>6. ASSUME NEW svc \in Services, Stop(svc) PROVE InstallTypeOK'
  BY <1>6 DEF Stop, Stopped, Turns, InstallTypeOK
<1>7. ASSUME NEW svc \in Services, Write(svc) PROVE InstallTypeOK'
  <2>1. db # Nowhere
    BY <1>7 DEF Write, Turns, DatabaseSet, Asked
  <2>2. db.path \in Paths /\ db.port \in Ports
    BY <2>1, CalledWithType
  <2>3. file' \in [Services -> [Paths -> Ports \cup {None, Own}]]
    BY <1>7, <2>2 DEF Write, InstallTypeOK
  <2> QED
    BY <1>7, <2>3 DEF Write, Turns, InstallTypeOK
<1>8. ASSUME NEW svc \in Services, Start(svc) PROVE InstallTypeOK'
  <2>1. db # Nowhere /\ unit[svc] = CalledWith(svc)
    BY <1>8 DEF Start, DatabaseSet, Asked, UnitsCurrent, HasUnit
  <2>2. running' \in [Services -> {Down}
             \cup [path : Paths, port : Ports \cup {None}, conf : Ports \cup {Own}]]
    BY <1>8, <2>1, CalledWithType, StartedType DEF Start
  <2>3. stage' \in {Idle}
         \cup [svc : Services, at : {"build", "ask", "unit", "stop", "write", "start"}]
    BY <1>8 DEF Start, Following, Services
  <2>4. settled' \subseteq Services
    BY <1>8 DEF Start, InstallTypeOK
  <2>5. status' \in {"none", "wanted", "installed"}
    BY <1>8 DEF Start, InstallTypeOK
  <2> QED
    BY <1>8, <2>2, <2>3, <2>4, <2>5 DEF Start, InstallTypeOK
<1>9. CASE Fails
  BY <1>9 DEF Fails, InstallTypeOK
<1>10. CASE Uninstall
  BY <1>10 DEF Uninstall, InstallTypeOK
<1>11. ASSUME NEW svc \in Services, DaemonWrites(svc) PROVE InstallTypeOK'
  <2>1. running[svc].path \in Paths
    BY <1>11 DEF DaemonWrites, InstallTypeOK
  <2> QED
    BY <1>11, <2>1 DEF DaemonWrites, InstallTypeOK
<1>12. ASSUME NEW svc \in Services, ServiceRestarts(svc) PROVE InstallTypeOK'
  <2>1. file[svc] \in [Paths -> Ports \cup {None, Own}]
    BY DEF InstallTypeOK
  <2>2. disturbed' \in BOOLEAN
    BY <1>12 DEF ServiceRestarts
  <2> QED
    BY <1>12, <2>1, <2>2, RestartedType DEF ServiceRestarts, InstallTypeOK
<1>13. ASSUME NEW c \in Consoles, NEW svc \in Services, ConsoleReads(c, svc)
       PROVE  InstallTypeOK'
  <2>1. db.path \in Paths
    BY <1>13, CalledWithType DEF ConsoleReads
  <2>2. file[svc][db.path] \in Ports \cup {Own}
    BY <1>13, <2>1 DEF ConsoleReads, InstallTypeOK
  <2> QED
    BY <1>13, <2>2 DEF ConsoleReads, InstallTypeOK
<1>14. ASSUME NEW c \in Consoles, ConsoleWrites(c) PROVE InstallTypeOK'
  <2>1. copy[c].svc \in Services /\ copy[c].conf \in Ports \cup {Own}
    BY <1>14 DEF ConsoleWrites, InstallTypeOK
  <2>2. db.path \in Paths
    BY <1>14, <2>1, CalledWithType DEF ConsoleWrites
  <2>3. file' \in [Services -> [Paths -> Ports \cup {None, Own}]]
    BY <1>14, <2>1, <2>2 DEF ConsoleWrites, InstallTypeOK
  <2>4. file'[copy[c].svc] \in [Paths -> Ports \cup {None, Own}]
    BY <2>1, <2>3
  <2>5. running' = Restarted(copy[c].svc, file'[copy[c].svc])
    BY <1>14 DEF ConsoleWrites
  <2>6. running' \in [Services -> {Down}
             \cup [path : Paths, port : Ports \cup {None}, conf : Ports \cup {Own}]]
    BY <2>1, <2>4, <2>5, RestartedType
  <2>7. disturbed' \in BOOLEAN
    BY <1>14 DEF ConsoleWrites
  <2>8. copy' \in [Consoles -> [svc : Services, conf : Ports \cup {Own}] \cup {NoCopy}]
    BY <1>14 DEF ConsoleWrites, InstallTypeOK
  <2>9. settled' \subseteq Services /\ stale' \subseteq Consoles
    BY <1>14 DEF ConsoleWrites, InstallTypeOK
  <2> QED
    BY <1>14, <2>3, <2>6, <2>7, <2>8, <2>9 DEF ConsoleWrites, InstallTypeOK
<1>15. ASSUME NEW c \in Consoles, ConsoleDies(c) PROVE InstallTypeOK'
  BY <1>15 DEF ConsoleDies, InstallTypeOK
<1>16. CASE UNCHANGED installVars
  BY <1>16 DEF installVars, InstallTypeOK
<1> QED
  BY <1>1, <1>2, <1>3, <1>4, <1>5, <1>6, <1>7, <1>8, <1>9, <1>10, <1>11, <1>12, <1>13,
     <1>14, <1>15, <1>16
     DEF InstallNext, Command, Installs, Raises, FailsByChance, DaemonsWrite

\* Stages of different services are different, and none of them is Idle.
LEMMA StagesApart ==
  ASSUME InstallTypeOK
  PROVE  /\ Storage # Provider /\ Idle.svc = None /\ Idle.at = "idle"
         /\ None # Storage /\ None # Provider
         /\ stage # Idle => stage.svc \in Services /\ stage.at # "idle"
BY ServiceAssumption DEF InstallTypeOK, Idle, Services

LEMMA StageIs ==
  ASSUME InstallTypeOK, NEW svc \in Services, NEW at
  PROVE  stage.svc = svc /\ stage.at = at => stage = [svc |-> svc, at |-> at]
BY ServiceAssumption DEF InstallTypeOK, Idle, Services

LEMMA PlacedStep == Placed /\ [InstallNext]_installVars => Placed'
<1> SUFFICES ASSUME Placed, [InstallNext]_installVars,
                    InstallTypeOK'
             PROVE  DatabaseSet' /\ SettledBetween' /\ UnitsCurrent'
  BY PlacedTypes DEF Placed
<1> USE StagesApart DEF Placed, DatabaseSet, SettledBetween, UnitsCurrent, Asked, HasUnit,
        CalledWith
<1>1. CASE Begin
  BY <1>1 DEF Begin
<1>2. ASSUME NEW svc \in Services, Build(svc)
      PROVE  DatabaseSet' /\ SettledBetween' /\ UnitsCurrent'
  BY <1>2 DEF Build, Turns, Services
<1>3. CASE AskStorage
  <2>1. db'.path \in Paths
    BY <1>3 DEF AskStorage
  <2>2. db' # Nowhere
    BY <2>1, ValueAssumption DEF Nowhere
  <2>3. stage'.svc = Storage /\ stage'.at = "unit" /\ settled' = {}
    BY <1>3 DEF AskStorage, Turns
  <2> QED
    BY <2>2, <2>3
<1>4. CASE AskProvider
  BY <1>4 DEF AskProvider, Turns, Services
<1>5. ASSUME NEW svc \in Services, CreateUnit(svc)
      PROVE  DatabaseSet' /\ SettledBetween' /\ UnitsCurrent'
  BY <1>5 DEF CreateUnit, Turns, Services, InstallTypeOK
<1>6. ASSUME NEW svc \in Services, Stop(svc) \/ Write(svc)
      PROVE  DatabaseSet' /\ SettledBetween' /\ UnitsCurrent'
  BY <1>6 DEF Stop, Write, Turns, Services
<1>7. ASSUME NEW svc \in Services, Start(svc)
      PROVE  DatabaseSet' /\ SettledBetween' /\ UnitsCurrent'
  BY <1>7 DEF Start, Following, Services
<1>8. CASE Fails
  BY <1>8 DEF Fails
<1>9. CASE Uninstall
  BY <1>9 DEF Uninstall
<1>10. ASSUME NEW svc \in Services, DaemonWrites(svc) \/ ServiceRestarts(svc)
       PROVE  DatabaseSet' /\ SettledBetween' /\ UnitsCurrent'
  BY <1>10 DEF DaemonWrites, ServiceRestarts
<1>11. ASSUME NEW c \in Consoles,
              ConsoleWrites(c) \/ ConsoleDies(c) \/ \E svc \in Services : ConsoleReads(c, svc)
       PROVE  DatabaseSet' /\ SettledBetween' /\ UnitsCurrent'
  BY <1>11 DEF ConsoleWrites, ConsoleDies, ConsoleReads
<1>12. CASE UNCHANGED installVars
  BY <1>12 DEF installVars
<1> QED
  BY <1>1, <1>2, <1>3, <1>4, <1>5, <1>6, <1>7, <1>8, <1>9, <1>10, <1>11, <1>12
     DEF InstallNext, Command, Installs, Raises, FailsByChance, DaemonsWrite

\* Every reachable state of the installer is of its type.
THEOREM InstallTypeCorrect == InstallSpec => []InstallTypeOK
<1>1. Placed => InstallTypeOK
  BY DEF Placed
<1> QED
  BY <1>1, InitPlaced, PlacedStep, PTL DEF InstallSpec

-----------------------------------------------------------------------------
(* The daemons run with what was recorded *)

\* The daemon was called with what the unit says, if not with its config.
AsCalled(svc) ==
  /\ running[svc].path = db.path
  /\ running[svc].port = CalledWith(svc).port

\* The provider's daemon is installed beside a storage daemon of the same install.
StorageServes ==
  /\ stage.svc = Provider \/ Provider \in settled => AsCalled(Storage)
  /\ stage.svc = Storage /\ stage.at \in {"write", "start"} =>
       running[Storage] = Down \/ AsCalled(Storage)

\* Nothing is in the way of the service since its config was written.
Clean(svc) ==
  \/ svc \in settled
  \/ stage.svc = svc /\ stage.at = "start" /\ ~ disturbed

\* Then its config is the recorded one, and no console brings another but those known
\* to be stale.
ConfigKept ==
  \A svc \in Services : Clean(svc) =>
    /\ file[svc][db.path] = db.port
    /\ \A c \in Consoles \ stale : copy[c].svc = svc => copy[c].conf = db.port

\* What the daemon is to run with.
AsRecorded(svc) == [path |-> db.path, port |-> CalledWith(svc).port, conf |-> db.port]

\* A daemon that has been stopped stays so until it can read its config.
RunsRecorded ==
  \A svc \in Services :
    /\ svc \in settled => running[svc] = AsRecorded(svc)
    /\ stage.svc = svc /\ stage.at = "write" /\ ~ disturbed => running[svc] = Down
    /\ stage.svc = svc /\ stage.at = "start" /\ ~ disturbed =>
         running[svc] \in {Down, AsRecorded(svc)}

Works == Placed /\ StorageServes /\ ConfigKept /\ RunsRecorded

LEMMA InitWorks == InstallInit => Works
<1> SUFFICES ASSUME InstallInit PROVE Works
  OBVIOUS
<1>1. Placed
  BY InitPlaced
<1>2. stage.svc = None /\ stage.at = "idle" /\ settled = {}
  BY DEF InstallInit, Idle
<1> QED
  BY <1>1, <1>2, ServiceAssumption
     DEF Works, StorageServes, ConfigKept, RunsRecorded, Clean, Services

\* A restart or a start by the unit of the last install, and what it leaves alone.
LEMMA RestartedAs ==
  ASSUME InstallTypeOK, NEW svc \in Services, NEW f
  PROVE  /\ \A s \in Services \ {svc} : Restarted(svc, f)[s] = running[s]
         /\ unit[svc] = Nowhere => Restarted(svc, f) = running
         /\ unit[svc] # Nowhere => Restarted(svc, f)[svc] = Called(unit[svc], f)
BY DEF Restarted, InstallTypeOK

LEMMA StartedAs ==
  ASSUME InstallTypeOK, NEW svc \in Services, NEW u
  PROVE  /\ \A s \in Services \ {svc} : Started(svc, u)[s] = running[s]
         /\ running[svc] # Down => Started(svc, u) = running
         /\ running[svc] = Down => Started(svc, u)[svc] = Called(u, file[svc])
BY DEF Started, InstallTypeOK

\* A daemon called as recorded answers there, and has the config recorded if that is
\* what it finds.
LEMMA CalledAsRecorded ==
  ASSUME InstallTypeOK, db # Nowhere, NEW svc \in Services, NEW f
  PROVE  /\ Called(CalledWith(svc), f).path = db.path
         /\ Called(CalledWith(svc), f).port = CalledWith(svc).port
         /\ f[db.path] = db.port => Called(CalledWith(svc), f) = AsRecorded(svc)
BY CalledWithType DEF Called, AsRecorded

LEMMA StorageServesStep ==
  Works /\ [InstallNext]_installVars => StorageServes'
<1> SUFFICES ASSUME Works, [InstallNext]_installVars PROVE StorageServes'
  OBVIOUS
<1> DEFINE Serves == stage.svc = Provider \/ Provider \in settled
           Between == stage.svc = Storage /\ stage.at \in {"write", "start"}
<1>0. /\ InstallTypeOK /\ Storage \in Services /\ Provider \in Services
      /\ Serves \/ Between => unit[Storage] = CalledWith(Storage) /\ db # Nowhere
      /\ Serves => AsCalled(Storage)
      /\ Between => running[Storage] = Down \/ AsCalled(Storage)
  BY DEF Works, Placed, Services, UnitsCurrent, HasUnit, DatabaseSet, Asked, StorageServes
<1>a. ASSUME db' = db PROVE CalledWith(Storage)' = CalledWith(Storage)
  BY <1>a DEF CalledWith
\* A step that promises nothing anew and leaves the database alone restarts the storage
\* daemon by its unit at most.
<1>b. ASSUME db' = db, Serves' => Serves, Between' => Between,
             \/ running'[Storage] = running[Storage]
             \/ \E svc \in Services : \E f : running' = Restarted(svc, f)
      PROVE  StorageServes'
  <2>1. CASE running'[Storage] = running[Storage]
    BY <1>0, <1>a, <1>b, <2>1 DEF StorageServes, AsCalled
  <2>2. ASSUME NEW svc \in Services, NEW f, running' = Restarted(svc, f),
               Serves \/ Between
        PROVE  running'[Storage] = running[Storage] \/ AsCalled(Storage)'
    <3>1. unit[Storage] # Nowhere
      BY <1>0, <2>2, CalledWithType
    <3>2. svc = Storage \/ running'[Storage] = running[Storage]
      BY <1>0, <2>2, RestartedAs
    <3>3. svc = Storage => running'[Storage] = Called(CalledWith(Storage), f)
      BY <1>0, <2>2, <3>1, RestartedAs
    <3> QED
      BY <1>0, <1>a, <1>b, <2>2, <3>2, <3>3, CalledAsRecorded DEF AsCalled
  <2> QED
    BY <1>0, <1>a, <1>b, <2>1, <2>2 DEF StorageServes, AsCalled
<1>c. ASSUME ~ Serves', ~ Between' PROVE StorageServes'
  BY <1>c DEF StorageServes
<1> HIDE DEF Serves, Between
<1>1. CASE Begin \/ Fails
  <2>1. stage'.svc # Provider /\ (stage'.at \notin {"write", "start"})
    BY <1>0, <1>1, StagesApart DEF Begin, Fails
  <2> QED
    BY <1>1, <1>b, <2>1 DEF Begin, Fails, Serves, Between
<1>2. ASSUME NEW svc \in Services, Build(svc) PROVE StorageServes'
  BY <1>2, <1>b DEF Build, Turns, Serves, Between
<1>3. CASE AskStorage
  BY <1>0, <1>3, <1>c, StagesApart DEF AskStorage, Turns, Serves, Between
<1>4. CASE AskProvider
  BY <1>0, <1>4, <1>b, StagesApart DEF AskProvider, Turns, Serves, Between
<1>5. ASSUME NEW svc \in Services, CreateUnit(svc) PROVE StorageServes'
  <2>1. CASE svc = Storage
    <3>1. Provider \notin settled
      BY <1>0, <1>5, <2>1, StagesApart DEF CreateUnit, Turns, Works, Placed, SettledBetween
    <3> QED
      BY <1>0, <1>5, <1>c, <2>1, <3>1, StagesApart DEF CreateUnit, Turns, Serves, Between
  <2>2. CASE svc = Provider
    BY <1>0, <1>5, <1>b, <2>2, StagesApart, StartedAs
       DEF CreateUnit, Turns, Serves, Between
  <2> QED
    BY <2>1, <2>2 DEF Services
<1>6. ASSUME NEW svc \in Services, Stop(svc) PROVE StorageServes'
  <2>1. CASE svc = Storage
    <3>1. Provider \notin settled
      BY <1>0, <1>6, <2>1, StagesApart DEF Stop, Turns, Works, Placed, SettledBetween
    <3>2. running'[Storage] = Down
      BY <1>0, <1>6, <2>1 DEF Stop, Stopped, InstallTypeOK
    <3> QED
      BY <1>0, <1>6, <2>1, <3>1, <3>2, StagesApart DEF Stop, Turns, StorageServes
  <2>2. CASE svc = Provider
    BY <1>0, <1>6, <1>b, <2>2, StagesApart
       DEF Stop, Turns, Serves, Between, InstallTypeOK
  <2> QED
    BY <2>1, <2>2 DEF Services
<1>7. ASSUME NEW svc \in Services, Write(svc) PROVE StorageServes'
  BY <1>7, <1>b DEF Write, Turns, Serves, Between
<1>8. ASSUME NEW svc \in Services, Start(svc) PROVE StorageServes'
  <2>1. CASE svc = Storage
    <3>1. Between /\ db' = db /\ running' = Started(Storage, unit[Storage])
      BY <1>8, <2>1 DEF Start, Between
    <3>2. running'[Storage] = running[Storage] \/
          running'[Storage] = Called(CalledWith(Storage), file[Storage])
      BY <1>0, <3>1, StartedAs
    <3>3. running[Storage] = Down =>
            running'[Storage] = Called(CalledWith(Storage), file[Storage])
      BY <1>0, <3>1, StartedAs
    <3>4. AsCalled(Storage)'
      BY <1>0, <1>a, <3>1, <3>2, <3>3, CalledAsRecorded DEF AsCalled
    <3> QED
      BY <3>4 DEF StorageServes
  <2>2. CASE svc = Provider
    <3>1. Serves /\ ~ Between'
      BY <1>0, <1>8, <2>2, StagesApart DEF Start, Following, Serves, Between
    <3>2. running'[Storage] = running[Storage] /\ db' = db
      BY <1>0, <1>8, <2>2, StagesApart, StartedAs DEF Start
    <3> QED
      BY <1>b, <3>1, <3>2
  <2> QED
    BY <2>1, <2>2 DEF Services
<1>9. CASE Uninstall
  BY <1>0, <1>9, <1>c, StagesApart DEF Uninstall, Serves, Between
<1>10. ASSUME NEW svc \in Services, DaemonWrites(svc) \/ ServiceRestarts(svc)
       PROVE  StorageServes'
  BY <1>10, <1>b DEF DaemonWrites, ServiceRestarts, Serves, Between
<1>11. ASSUME NEW c \in Consoles, ConsoleWrites(c) PROVE StorageServes'
  <2>1. copy[c].svc \in Services
    BY <1>0, <1>11 DEF ConsoleWrites, InstallTypeOK
  <2>2. /\ UNCHANGED <<db, stage>> /\ settled' \subseteq settled
        /\ \E f : running' = Restarted(copy[c].svc, f)
    BY <1>11 DEF ConsoleWrites
  <2> QED
    BY <1>b, <2>1, <2>2 DEF Serves, Between
<1>12. ASSUME NEW c \in Consoles,
              ConsoleDies(c) \/ \E svc \in Services : ConsoleReads(c, svc)
       PROVE  StorageServes'
  BY <1>12, <1>b DEF ConsoleDies, ConsoleReads, Serves, Between
<1>13. CASE UNCHANGED installVars
  BY <1>13, <1>b DEF installVars, Serves, Between
<1> QED
  BY <1>1, <1>2, <1>3, <1>4, <1>5, <1>6, <1>7, <1>8, <1>9, <1>10, <1>11, <1>12, <1>13
     DEF InstallNext, Command, Installs, Raises, FailsByChance, DaemonsWrite

\* A service with nothing in the way has its unit and its record.
LEMMA CleanHasUnit ==
  ASSUME Placed, NEW svc \in Services, Clean(svc)
  PROVE  unit[svc] = CalledWith(svc) /\ db # Nowhere
BY DEF Placed, Clean, UnitsCurrent, HasUnit, DatabaseSet, Asked

LEMMA ConfigKeptStep == Works /\ [InstallNext]_installVars => ConfigKept'
<1> SUFFICES ASSUME Works, [InstallNext]_installVars PROVE ConfigKept'
  OBVIOUS
<1>0. /\ InstallTypeOK /\ Placed /\ ConfigKept
      /\ \A svc \in Services : Clean(svc) => db.path \in Paths /\ db.port # None
  BY CleanHasUnit, CalledWithType DEF Works, Placed
\* A step keeps the configs of the services that stay clean, and makes no service
\* clean, and no copy of one current.
<1>a. ASSUME UNCHANGED <<db, file, copy>>, stale \subseteq stale',
             \A svc \in Services : Clean(svc)' => Clean(svc)
      PROVE  ConfigKept'
  BY <1>0, <1>a DEF ConfigKept
<1>b. ASSUME \A svc \in Services : ~ Clean(svc)' PROVE ConfigKept'
  BY <1>b DEF ConfigKept
<1>1. CASE Begin \/ Fails
  BY <1>0, <1>1, <1>a, StagesApart DEF Begin, Fails, Clean
<1>2. ASSUME NEW svc \in Services, Build(svc) \/ CreateUnit(svc) \/ Stop(svc)
      PROVE  ConfigKept'
  BY <1>2, <1>a DEF Build, CreateUnit, Stop, Turns, Clean
<1>3. CASE AskStorage
  BY <1>3, <1>b DEF AskStorage, Turns, Clean
<1>4. CASE AskProvider
  BY <1>4, <1>a DEF AskProvider, Turns, Clean
<1>5. ASSUME NEW svc \in Services, Write(svc) PROVE ConfigKept'
  <2>1. db # Nowhere
    BY <1>0, <1>5 DEF Write, Turns, Placed, DatabaseSet, Asked
  <2>2. file'[svc][db.path] = db.port /\ \A s \in Services \ {svc} : file'[s] = file[s]
    BY <1>0, <1>5, <2>1, CalledWithType DEF Write, InstallTypeOK
  <2>3. \A c \in Consoles \ stale' :
          copy'[c] = copy[c] /\ c \notin stale /\ copy[c].svc # svc
    BY <1>5 DEF Write
  <2>4. \A s \in Services \ {svc} : Clean(s)' => Clean(s)
    BY <1>5 DEF Write, Turns, Clean
  <2>5. db' = db
    BY <1>5 DEF Write
  <2> QED
    BY <1>0, <2>2, <2>3, <2>4, <2>5 DEF ConfigKept
<1>6. ASSUME NEW svc \in Services, Start(svc) PROVE ConfigKept'
  <2>1. \A s \in Services : Clean(s)' => Clean(s)
    BY <1>6, StagesApart DEF Start, Following, Clean, Idle
  <2> QED
    BY <1>6, <1>a, <2>1 DEF Start
<1>7. CASE Uninstall
  BY <1>0, <1>7, <1>b, StagesApart DEF Uninstall, Clean
<1>8. ASSUME NEW svc \in Services, DaemonWrites(svc) PROVE ConfigKept'
  <2>1. \A s \in Services : Clean(s)' => Clean(s)
    BY <1>8 DEF DaemonWrites, Clean
  <2>2. \A s \in Services : Clean(s) => file'[s][db.path] = file[s][db.path]
    BY <1>0, <1>8 DEF DaemonWrites, ConfigKept, InstallTypeOK
  <2> QED
    BY <1>0, <1>8, <2>1, <2>2 DEF DaemonWrites, ConfigKept
<1>9. ASSUME NEW svc \in Services, ServiceRestarts(svc) PROVE ConfigKept'
  BY <1>9, <1>a DEF ServiceRestarts, Clean
<1>10. ASSUME NEW c \in Consoles, NEW svc \in Services, ConsoleReads(c, svc)
       PROVE  ConfigKept'
  <2>1. \A s \in Services : Clean(s)' => Clean(s)
    BY <1>10 DEF ConsoleReads, Clean
  <2>2. copy'[c] = [svc |-> svc, conf |-> file[svc][db.path]]
        /\ \A d \in Consoles \ {c} : copy'[d] = copy[d]
    BY <1>0, <1>10 DEF ConsoleReads, InstallTypeOK
  <2> QED
    BY <1>0, <1>10, <2>1, <2>2 DEF ConsoleReads, ConfigKept
<1>11. ASSUME NEW c \in Consoles, ConsoleWrites(c) \/ ConsoleDies(c)
       PROVE  ConfigKept'
  <2>1. copy'[c] = NoCopy /\ \A d \in Consoles \ {c} : copy'[d] = copy[d]
    BY <1>0, <1>11 DEF ConsoleWrites, ConsoleDies, InstallTypeOK
  <2>2. \A d \in Consoles \ stale' : d = c \/ d \notin stale
    BY <1>11 DEF ConsoleWrites, ConsoleDies
  <2>3. NoCopy.svc \notin Services
    BY ServiceAssumption DEF NoCopy
  <2>4. \A s \in Services : Clean(s)' =>
          Clean(s) /\ (ConsoleWrites(c) /\ copy[c].svc = s => c \notin stale)
    <3>1. ASSUME NEW s \in Services, stage.svc = s, stage.at = "start"
          PROVE  stage = [svc |-> s, at |-> "start"]
      BY <1>0, <3>1, StageIs
    <3> QED
      BY <1>11, <3>1 DEF ConsoleWrites, ConsoleDies, Clean
  <2>5. \A s \in Services : Clean(s)' => file'[s][db.path] = db.port
    <3>1. CASE ConsoleDies(c)
      BY <1>0, <2>4, <3>1 DEF ConsoleDies, ConfigKept
    <3>2. CASE ConsoleWrites(c)
      <4>1. copy[c].svc \in Services
        BY <1>0, <3>2 DEF ConsoleWrites, InstallTypeOK
      <4>2. file' = [file EXCEPT ![copy[c].svc][db.path] = copy[c].conf]
        BY <3>2 DEF ConsoleWrites
      <4> QED
        BY <1>0, <2>4, <3>2, <4>1, <4>2 DEF ConfigKept, InstallTypeOK
    <3> QED
      BY <1>11, <3>1, <3>2
  <2>6. db' = db
    BY <1>11 DEF ConsoleWrites, ConsoleDies
  <2> QED
    BY <1>0, <2>1, <2>2, <2>3, <2>4, <2>5, <2>6 DEF ConfigKept
<1>12. CASE UNCHANGED installVars
  BY <1>12, <1>a DEF installVars, Clean
<1> QED
  BY <1>1, <1>2, <1>3, <1>4, <1>5, <1>6, <1>7, <1>8, <1>9, <1>10, <1>11, <1>12
     DEF InstallNext, Command, Installs, Raises, FailsByChance, DaemonsWrite

LEMMA RunsRecordedStep == Works /\ [InstallNext]_installVars => RunsRecorded'
<1> SUFFICES ASSUME Works, [InstallNext]_installVars PROVE RunsRecorded'
  OBVIOUS
<1>0. InstallTypeOK /\ Placed /\ ConfigKept /\ RunsRecorded
  BY DEF Works, Placed
<1>a. db' = db => \A svc \in Services : AsRecorded(svc)' = AsRecorded(svc)
  BY DEF AsRecorded, CalledWith
\* A restart with the config recorded makes a clean service run as recorded.
<1>b. ASSUME NEW svc \in Services, Clean(svc), NEW f, f[db.path] = db.port
      PROVE  Restarted(svc, f)[svc] = AsRecorded(svc)
  BY <1>0, <1>b, CleanHasUnit, RestartedAs, CalledAsRecorded, CalledWithType
\* A step that leaves the daemon of a service alone and promises nothing anew.
<1> DEFINE Right(svc) ==
      /\ svc \in settled => running[svc] = AsRecorded(svc)
      /\ stage.svc = svc /\ stage.at = "write" /\ ~ disturbed => running[svc] = Down
      /\ stage.svc = svc /\ stage.at = "start" /\ ~ disturbed =>
           running[svc] \in {Down, AsRecorded(svc)}
<1>c. ASSUME NEW s \in Services, db' = db, running'[s] = running[s],
             s \in settled' => s \in settled,
             disturbed' = disturbed \/ stage'.svc # s,
             stage' = stage \/ stage'.svc # s \/ stage'.at \notin {"write", "start"}
      PROVE  Right(s)'
  BY <1>0, <1>a, <1>c DEF RunsRecorded
<1> SUFFICES ASSUME NEW s \in Services PROVE Right(s)'
  BY DEF RunsRecorded
<1> HIDE DEF Right
<1>1. CASE Begin \/ Fails
  BY <1>0, <1>1, <1>c, StagesApart DEF Begin, Fails, Services
<1>2. ASSUME NEW svc \in Services, Build(svc) PROVE Right(s)'
  <2>1. CASE s = svc /\ s \in settled
    <3>1. running'[s] = AsRecorded(s)
      BY <1>0, <1>2, <1>b, <2>1 DEF Build, Clean, ConfigKept
    <3> QED
      BY <1>2, <1>a, <2>1, <3>1 DEF Build, Turns, Right
  <2>2. CASE s = svc /\ s \notin settled
    BY <1>2, <2>2 DEF Build, Turns, Right
  <2>3. CASE s # svc
    BY <1>0, <1>2, <1>c, <2>3, RestartedAs DEF Build, Turns
  <2> QED
    BY <2>1, <2>2, <2>3
<1>3. CASE AskStorage
  BY <1>3 DEF AskStorage, Turns, Right
<1>4. CASE AskProvider
  BY <1>4, <1>c DEF AskProvider, Turns
<1>5. ASSUME NEW svc \in Services, CreateUnit(svc) \/ Stop(svc) PROVE Right(s)'
  <2>1. svc \notin settled
    BY <1>0, <1>5, StagesApart
       DEF CreateUnit, Stop, Turns, Placed, SettledBetween, Services
  <2>2. CASE s = svc
    <3>1. Stop(svc) => running'[s] = Down
      BY <1>0, <2>2 DEF Stop, Stopped, InstallTypeOK
    <3> QED
      BY <1>5, <2>1, <2>2, <3>1 DEF CreateUnit, Stop, Turns, Right
  <2>3. CASE s # svc
    <3>1. running'[s] = running[s]
      BY <1>0, <1>5, <2>3, StartedAs DEF CreateUnit, Stop, InstallTypeOK
    <3> QED
      BY <1>5, <1>c, <2>3, <3>1 DEF CreateUnit, Stop, Turns
  <2> QED
    BY <2>2, <2>3
<1>6. ASSUME NEW svc \in Services, Write(svc) PROVE Right(s)'
  <2>1. CASE s = svc
    <3>1. s \notin settled
      BY <1>0, <1>6, <2>1, StagesApart
         DEF Write, Turns, Placed, SettledBetween, Services
    <3>2. ~ disturbed => running[s] = Down
      BY <1>0, <1>6, <2>1 DEF Write, Turns, RunsRecorded
    <3> QED
      BY <1>6, <2>1, <3>1, <3>2 DEF Write, Turns, Right
  <2>2. CASE s # svc
    BY <1>6, <1>c, <2>2 DEF Write, Turns
  <2> QED
    BY <2>1, <2>2
<1>7. ASSUME NEW svc \in Services, Start(svc) PROVE Right(s)'
  <2>1. CASE s = svc /\ ~ disturbed
    <3>1. Clean(s) /\ running[s] \in {Down, AsRecorded(s)}
      BY <1>0, <1>7, <2>1 DEF Start, Clean, RunsRecorded
    <3>2. unit[s] = CalledWith(s) /\ db # Nowhere /\ file[s][db.path] = db.port
      BY <1>0, <3>1, CleanHasUnit DEF ConfigKept
    <3>3. Called(unit[s], file[s]) = AsRecorded(s)
      BY <1>0, <3>2, CalledAsRecorded
    <3>4. running'[s] = AsRecorded(s)
      BY <1>0, <1>7, <2>1, <3>1, <3>3, StartedAs DEF Start
    <3> QED
      BY <1>0, <1>7, <1>a, <2>1, <3>4, StagesApart DEF Start, Following, Right, Services
  <2>2. CASE s = svc /\ disturbed
    <3>1. s \notin settled
      BY <1>0, <1>7, <2>2, StagesApart DEF Start, Placed, SettledBetween, Services
    <3> QED
      BY <1>0, <1>7, <2>2, <3>1, StagesApart DEF Start, Following, Right, Services
  <2>3. CASE s # svc
    <3>1. running'[s] = running[s]
      BY <1>0, <1>7, <2>3, StartedAs DEF Start
    <3>2. stage'.at \notin {"write", "start"}
      BY <1>0, <1>7, StagesApart DEF Start, Following
    <3>3. s \in settled' => running'[s] = AsRecorded(s)'
      BY <1>0, <1>7, <1>a, <2>3, <3>1 DEF Start, RunsRecorded
    <3> QED
      BY <3>2, <3>3 DEF Right
  <2> QED
    BY <2>1, <2>2, <2>3
<1>8. CASE Uninstall
  BY <1>0, <1>8, StagesApart DEF Uninstall, Right, Services
<1>9. ASSUME NEW svc \in Services, DaemonWrites(svc) PROVE Right(s)'
  BY <1>9, <1>c DEF DaemonWrites
\* A restart of a service, with the config recorded if it is clean.
<1>d. ASSUME NEW svc \in Services, NEW f, running' = Restarted(svc, f),
             UNCHANGED <<db, stage>>, settled' \subseteq settled,
             disturbed \/ RestartDisturbs(svc) => disturbed',
             Clean(svc)' => Clean(svc) /\ f[db.path] = db.port
      PROVE  Right(s)'
  <2>1. CASE s = svc
    <3>1. Clean(s)' => running'[s] = AsRecorded(s)'
      BY <1>a, <1>b, <1>d, <2>1
    <3>2. stage.svc = s /\ stage.at = "write" => disturbed'
      BY <1>0, <1>d, <2>1, StageIs DEF RestartDisturbs
    <3> QED
      BY <1>d, <3>1, <3>2 DEF Right, Clean
  <2>2. CASE s # svc
    <3>1. running'[s] = running[s]
      BY <1>0, <1>d, <2>2, RestartedAs
    <3> QED
      BY <1>0, <1>a, <1>d, <2>2, <3>1 DEF Right, RunsRecorded
  <2> QED
    BY <2>1, <2>2
<1>10. ASSUME NEW svc \in Services, ServiceRestarts(svc) PROVE Right(s)'
  <2>1. Clean(svc)' => Clean(svc) /\ file[svc][db.path] = db.port
    BY <1>0, <1>10 DEF ServiceRestarts, Clean, ConfigKept
  <2> QED
    BY <1>10, <1>d, <2>1 DEF ServiceRestarts
<1>11. ASSUME NEW c \in Consoles, ConsoleWrites(c) PROVE Right(s)'
  <2>1. copy[c].svc \in Services /\ db.path \in Paths
    BY <1>0, <1>11, CalledWithType DEF ConsoleWrites, InstallTypeOK
  <2> PICK svc \in Services : svc = copy[c].svc
    BY <2>1
  <2> DEFINE written == [file EXCEPT ![svc][db.path] = copy[c].conf][svc]
  <2>2. written[db.path] = copy[c].conf
    BY <1>0, <2>1 DEF InstallTypeOK
  <2>3. Clean(svc)' => Clean(svc) /\ c \notin stale
    BY <1>0, <1>11, StageIs DEF ConsoleWrites, Clean
  <2>4. Clean(svc)' => Clean(svc) /\ written[db.path] = db.port
    BY <1>0, <2>2, <2>3 DEF ConfigKept
  <2>5. /\ running' = Restarted(svc, written)
        /\ UNCHANGED <<db, stage>> /\ settled' \subseteq settled
        /\ disturbed \/ RestartDisturbs(svc) => disturbed'
    BY <1>11 DEF ConsoleWrites
  <2> HIDE DEF written
  <2> QED
    BY <1>d, <2>4, <2>5
<1>12. ASSUME NEW c \in Consoles,
              ConsoleDies(c) \/ \E svc \in Services : ConsoleReads(c, svc)
       PROVE  Right(s)'
  BY <1>12, <1>c DEF ConsoleDies, ConsoleReads
<1>13. CASE UNCHANGED installVars
  BY <1>13, <1>c DEF installVars
<1> QED
  BY <1>1, <1>2, <1>3, <1>4, <1>5, <1>6, <1>7, <1>8, <1>9, <1>10, <1>11, <1>12, <1>13
     DEF InstallNext, Command, Installs, Raises, FailsByChance, DaemonsWrite

LEMMA WorksStep == Works /\ [InstallNext]_installVars => Works'
BY PlacedStep, StorageServesStep, ConfigKeptStep, RunsRecordedStep DEF Works

\* All of it is an invariant, whoever interferes and however often.
THEOREM InstallWorks == InstallSpec => []Works
BY InitWorks, WorksStep, PTL DEF InstallSpec

\* The daemons run with the path and the ports recorded, and the provider's asks the
\* storage daemon where it answers, unless one was restarted at the wrong moment or an
\* older config was put back, after any number of installs and of failed ones.
THEOREM InstalledAlways == InstallSpec => []InstalledWorks
<1>1. Works => InstalledWorks
  <2> SUFFICES ASSUME Works PROVE InstalledWorks
    OBVIOUS
  <2>1. \A svc \in Services : svc \in settled => running[svc] = AsRecorded(svc)
    BY DEF Works, RunsRecorded
  <2>2. Provider \in settled => running[Storage].port = CalledWith(Storage).port
    BY DEF Works, StorageServes, AsCalled
  <2> QED
    BY <2>1, <2>2, ServiceAssumption DEF InstalledWorks, AsRecorded, CalledWith, Services
<1> QED
  BY <1>1, InstallWorks, PTL
=============================================================================
