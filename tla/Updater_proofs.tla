--------------------------- MODULE Updater_proofs ---------------------------
(* Proofs about Updater for any modules, consoles and bounds.                *)
EXTENDS Updater, TLAPS

Works == [pc : {"idle", "pass", "check", "update", "build", "building"},
          mod : Modules \cup {NoModule}, src : Commits]

LEMMA InitTypeOK == Init => TypeOK
<1> SUFFICES ASSUME Init PROVE TypeOK
  OBVIOUS
<1>1. Threshold \in Days /\ 0 \in Days /\ 0 \in Commits /\ 0 \in 0 .. MaxCommands
  BY TimeAssumption, BoundAssumption DEF Days, Commits
<1>2. /\ remote \in [Modules -> Commits]
      /\ date \in [Modules -> [Commits -> Days]]
  BY <1>1 DEF Init
<1> QED
  BY <1>1, <1>2 DEF Init, TypeOK, Idle

\* What a worker goes to is of its type.
LEMMA GoesTyped ==
  ASSUME TypeOK, NEW w \in Workers, NEW m \in Modules \cup {NoModule}, NEW c \in Commits,
         NEW pc \in {"idle", "pass", "check", "update", "build", "building"},
         pc \in {"check", "update", "build", "building"} => m \in Modules,
         Goes(w, pc, m, c)
  PROVE  /\ work' \in [Workers -> Works]
         /\ \A v \in Workers :
              work'[v].pc \in {"check", "update", "build", "building"} => work'[v].mod \in Modules
<1> DEFINE r == [pc |-> pc, mod |-> m, src |-> c]
<1>1. r \in Works /\ work \in [Workers -> Works]
  BY DEF Works, TypeOK
<1>2. work' = [work EXCEPT ![w] = r]
  BY DEF Goes
<1>3. \A v \in Workers : work'[v] = IF v = w THEN r ELSE work[v]
  BY <1>1, <1>2
<1>4. r.pc = pc /\ r.mod = m
  OBVIOUS
<1> HIDE DEF r
<1>5. work' \in [Workers -> Works]
  BY <1>1, <1>2
<1>6. ASSUME NEW v \in Workers, work'[v].pc \in {"check", "update", "build", "building"}
      PROVE  work'[v].mod \in Modules
  <2>1. CASE v = w
    BY <1>3, <1>4, <1>6, <2>1
  <2>2. CASE v # w
    BY <1>3, <1>6, <2>2 DEF TypeOK
  <2> QED
    BY <2>1, <2>2
<1> QED
  BY <1>5, <1>6

LEMMA StepTypeOK == TypeOK /\ [Next]_vars => TypeOK'
<1> SUFFICES ASSUME TypeOK, [Next]_vars PROVE TypeOK'
  OBVIOUS
<1>0. 0 \in Commits /\ Updater \in Workers /\ Consoles \subseteq Workers
  BY BoundAssumption DEF Commits, Workers
<1> DEFINE WorkOK == /\ work' \in [Workers -> Works]
                     /\ \A v \in Workers : work'[v].pc \in {"check", "update", "build", "building"}
                          => work'[v].mod \in Modules
<1>a. ASSUME NEW w \in Workers, Rest(w) PROVE WorkOK
  BY <1>0, <1>a, GoesTyped DEF Rest
<1>b. \A w \in Workers : work[w].src \in Commits /\ work[w].mod \in Modules \cup {NoModule}
  BY DEF TypeOK
<1>c. ASSUME NEW w \in Workers, LeavesUnbuilt(w) PROVE unbuilt' \subseteq Modules
  BY <1>c DEF TypeOK, LeavesUnbuilt
<1>1. CASE Tick
  BY <1>1, TimeAssumption DEF Tick, TypeOK, Days
<1>2. ASSUME NEW m \in Modules, Push(m) PROVE TypeOK'
  <2> PICK d \in Days : /\ remote[m] < MaxCommits
                        /\ remote' = [remote EXCEPT ![m] = @ + 1]
                        /\ date' = [date EXCEPT ![m][remote[m] + 1] = d]
                        /\ pushed' = pushed \cup {m}
                        /\ UNCHANGED <<today, head, built, enabled, work, todo, commands,
                                       unbuilt>>
    BY <1>2 DEF Push
  <2>1. remote[m] + 1 \in Commits
    BY BoundAssumption DEF TypeOK, Commits
  <2>2. remote' \in [Modules -> Commits]
    BY <2>1 DEF TypeOK
  <2>3. [date[m] EXCEPT ![remote[m] + 1] = d] \in [Commits -> Days]
    BY DEF TypeOK
  <2>4. date' \in [Modules -> [Commits -> Days]]
    BY <2>3 DEF TypeOK
  <2> QED
    BY <2>2, <2>4 DEF TypeOK
<1>3. CASE Pass
  <2>1. CASE PassBegin
    <3>1. WorkOK
      BY <1>0, <2>1, GoesTyped DEF PassBegin
    <3> QED
      BY <2>1, <3>1 DEF PassBegin, TypeOK, Works
  <2>2. CASE PassEnd
    <3>1. work' = [work EXCEPT ![Updater] = Idle] /\ Goes(Updater, "idle", NoModule, 0)
      BY <2>2 DEF PassEnd, Goes, Idle
    <3>2. WorkOK
      BY <1>0, <3>1, GoesTyped
    <3> QED
      BY <2>2, <3>2 DEF PassEnd, TypeOK, Works
  <2>3. ASSUME NEW m \in Modules, PassTakes(m) PROVE TypeOK'
    <3>1. WorkOK
      BY <1>0, <2>3, GoesTyped DEF PassTakes
    <3> QED
      BY <2>3, <3>1 DEF PassTakes, TurnOf, TypeOK, Works
  <2>4. ASSUME NEW m \in Modules, PassSkips(m) \/ PassFetchFails(m) PROVE TypeOK'
    BY <2>4 DEF PassSkips, PassFetchFails, TurnOf, TypeOK
  <2>5. ASSUME NEW m \in Modules, PassFindsNew(m) \/ PassUpToDate(m) PROVE TypeOK'
    <3>1. WorkOK
      BY <1>0, <1>a, <2>5, GoesTyped DEF PassFindsNew, PassUpToDate
    <3> QED
      BY <2>5, <3>1 DEF PassFindsNew, PassUpToDate, InCheck, TypeOK, Works
  <2> QED
    BY <1>3, <2>1, <2>2, <2>3, <2>4, <2>5 DEF Pass
<1>4. ASSUME NEW w \in Workers, NEW m \in Modules, NEW c \in Commits, CheckOut(w, m, c)
      PROVE  TypeOK'
  <2>1. WorkOK
    BY <1>0, <1>4, GoesTyped DEF CheckOut
  <2> QED
    BY <1>4, <2>1 DEF CheckOut, TypeOK, Works
<1>5. ASSUME NEW m \in Modules, PassChecksOut(m) PROVE TypeOK'
  BY <1>0, <1>4, <1>5 DEF PassChecksOut, TypeOK
<1>6. ASSUME NEW w \in Workers, Builds(w) PROVE TypeOK'
  <2> PICK m \in Modules : BuildBegin(w, m) \/ BuildEnd(w, m)
    BY <1>6 DEF Builds
  <2>1. CASE BuildBegin(w, m)
    <3>1. WorkOK
      BY <2>1, GoesTyped DEF BuildBegin, TypeOK
    <3> QED
      BY <2>1, <3>1 DEF BuildBegin, TypeOK, Works
  <2>2. CASE BuildEnd(w, m)
    <3>1. WorkOK
      BY <1>a, <2>2 DEF BuildEnd
    <3>2. built' \in [Modules -> Commits] /\ unbuilt' \subseteq Modules
      BY <1>b, <2>2 DEF BuildEnd, Binary, TypeOK
    <3> QED
      BY <2>2, <3>1, <3>2 DEF BuildEnd, TypeOK, Works
  <2> QED
    BY <2>1, <2>2
<1>7. ASSUME NEW w \in Workers, WorkFails(w) PROVE TypeOK'
  <2>1. WorkOK /\ unbuilt' \subseteq Modules
    BY <1>a, <1>c, <1>7 DEF WorkFails
  <2> QED
    BY <1>7, <2>1 DEF WorkFails, TypeOK, Works
<1>8. ASSUME NEW value \in BOOLEAN, CmdSwitch(value) PROVE TypeOK'
  <2>1. work' = [work EXCEPT ![Updater] = Idle] /\ Goes(Updater, "idle", NoModule, 0)
    BY <1>8 DEF CmdSwitch, Goes, Idle
  <2>2. WorkOK
    BY <1>0, <2>1, GoesTyped
  <2>3. unbuilt' \subseteq Modules /\ commands' \in 0 .. MaxCommands
    BY <1>0, <1>c, <1>8, BoundAssumption DEF CmdSwitch, TypeOK
  <2> QED
    BY <1>8, <2>2, <2>3 DEF CmdSwitch, TypeOK, Works
<1>9. ASSUME NEW c \in Consoles, NEW m \in Modules, CmdUpdate(c, m) PROVE TypeOK'
  <2>1. WorkOK
    BY <1>0, <1>9, GoesTyped DEF CmdUpdate
  <2>2. commands' \in 0 .. MaxCommands
    BY <1>9, BoundAssumption DEF CmdUpdate, TypeOK
  <2> QED
    BY <1>9, <2>1, <2>2 DEF CmdUpdate, TypeOK, Works
<1>10. ASSUME NEW c \in Consoles, NEW m \in Modules, CmdChecksOut(c, m) PROVE TypeOK'
  <2> PICK ref \in 0 .. remote[m] : CheckOut(c, m, ref)
    BY <1>10 DEF CmdChecksOut
  <2>1. ref \in Commits
    BY BoundAssumption DEF TypeOK, Commits
  <2> QED
    BY <1>0, <1>4, <2>1
<1>11. CASE UNCHANGED vars
  BY <1>11 DEF vars, TypeOK
<1> QED
  BY <1>1, <1>2, <1>3, <1>5, <1>6, <1>7, <1>8, <1>9, <1>10, <1>11
  DEF Next, CmdSetsOrigin

\* Every reachable state of the updates is of its type.
THEOREM TypeCorrect == Spec => []TypeOK
BY InitTypeOK, StepTypeOK, PTL DEF Spec

-----------------------------------------------------------------------------
(* The binary and the source *)

InFlight(m) == \E w \in Workers : work[w].mod = m /\ work[w].pc \in {"build", "building"}

Accounted(m) == built[m] = head[m] \/ InFlight(m) \/ m \in unbuilt

LEMMA BinaryIsSourceAccounted == BinaryIsSource <=> \A m \in Modules : Accounted(m)
BY DEF BinaryIsSource, Accounted, InFlight

\* A worker that was not building, and turns to something else, takes no module's
\* build away.
LEMMA StaysInFlight ==
  ASSUME TypeOK, NEW w \in Workers, NEW r, work' = [work EXCEPT ![w] = r],
         NEW m \in Modules, InFlight(m),
         work[w].mod # m \/ work[w].pc \notin {"build", "building"}
  PROVE  InFlight(m)'
<1> PICK v \in Workers : work[v].mod = m /\ work[v].pc \in {"build", "building"}
  BY DEF InFlight
<1>1. v # w
  OBVIOUS
<1>2. work'[v] = work[v]
  BY <1>1 DEF TypeOK
<1> QED
  BY <1>2 DEF InFlight

\* A worker that begins to build, or goes on, is in flight.
LEMMA GoesInFlight ==
  ASSUME TypeOK, NEW w \in Workers, NEW m \in Modules, NEW c,
         NEW pc \in {"build", "building"}, Goes(w, pc, m, c)
  PROVE  InFlight(m)'
<1> DEFINE r == [pc |-> pc, mod |-> m, src |-> c]
<1>1. work'[w] = r
  BY DEF Goes, TypeOK
<1> QED
  BY <1>1 DEF InFlight

LEMMA StepAccounted ==
  ASSUME TypeOK, BinaryIsSource, [Next]_vars, NEW m \in Modules PROVE Accounted(m)'
<1>0. Accounted(m) /\ Updater \in Workers /\ Consoles \subseteq Workers
  BY BinaryIsSourceAccounted DEF Workers
<1>1. CASE Tick \/ (\E n \in Modules : Push(n)) \/ UNCHANGED vars
  BY <1>0, <1>1 DEF Tick, Push, vars, Accounted, InFlight
<1>2. CASE Pass
  <2>1. CASE PassBegin
    <3>1. work[Updater].pc \notin {"build", "building"}
      BY <2>1 DEF PassBegin, Idle
    <3>2. InFlight(m) => InFlight(m)'
      BY <1>0, <2>1, <3>1, StaysInFlight DEF PassBegin, Goes
    <3> QED
      BY <1>0, <2>1, <3>2 DEF PassBegin, Accounted
  <2>2. CASE PassEnd
    <3>1. InFlight(m) => InFlight(m)'
      BY <1>0, <2>2, StaysInFlight DEF PassEnd
    <3> QED
      BY <1>0, <2>2, <3>1 DEF PassEnd, Accounted
  <2>3. ASSUME NEW n \in Modules, PassTakes(n) PROVE Accounted(m)'
    <3>1. InFlight(m) => InFlight(m)'
      BY <1>0, <2>3, StaysInFlight DEF PassTakes, TurnOf, Goes
    <3> QED
      BY <1>0, <2>3, <3>1 DEF PassTakes, TurnOf, Accounted
  <2>4. ASSUME NEW n \in Modules, PassSkips(n) \/ PassFetchFails(n) PROVE Accounted(m)'
    BY <1>0, <2>4 DEF PassSkips, PassFetchFails, TurnOf, Accounted, InFlight
  <2>5. ASSUME NEW n \in Modules, PassFindsNew(n) \/ PassUpToDate(n) PROVE Accounted(m)'
    <3>1. InFlight(m) => InFlight(m)'
      BY <1>0, <2>5, StaysInFlight DEF PassFindsNew, PassUpToDate, InCheck, Rest, Goes
    <3> QED
      BY <1>0, <2>5, <3>1 DEF PassFindsNew, PassUpToDate, InCheck, Accounted
  <2> QED
    BY <1>2, <2>1, <2>2, <2>3, <2>4, <2>5 DEF Pass
<1>3. ASSUME NEW w \in Workers, NEW n \in Modules, NEW c, CheckOut(w, n, c)
      PROVE  Accounted(m)'
  <2>1. CASE n = m
    BY <1>3, <2>1, GoesInFlight DEF CheckOut, Accounted
  <2>2. CASE n # m
    <3>1. head'[m] = head[m]
      BY <1>3, <2>2 DEF CheckOut, TypeOK
    <3>2. InFlight(m) => InFlight(m)'
      BY <1>3, StaysInFlight DEF CheckOut, Goes
    <3> QED
      BY <1>0, <1>3, <3>1, <3>2 DEF CheckOut, Accounted
  <2> QED
    BY <2>1, <2>2
<1>4. ASSUME NEW w \in Workers, NEW n \in Modules, BuildBegin(w, n) PROVE Accounted(m)'
  <2>1. CASE n = m
    BY <1>4, <2>1, GoesInFlight DEF BuildBegin, Accounted
  <2>2. CASE n # m
    <3>1. InFlight(m) => InFlight(m)'
      BY <1>4, <2>2, StaysInFlight DEF BuildBegin, Goes
    <3> QED
      BY <1>0, <1>4, <3>1 DEF BuildBegin, Accounted
  <2> QED
    BY <2>1, <2>2
<1>5. ASSUME NEW w \in Workers, NEW n \in Modules, BuildEnd(w, n) PROVE Accounted(m)'
  <2>1. CASE n = m
    <3>1. built'[m] = work[w].src /\ head' = head
      BY <1>5, <2>1 DEF BuildEnd, Binary, TypeOK
    <3>2. CASE work[w].src = head[m]
      BY <3>1, <3>2 DEF Accounted
    <3>3. CASE work[w].src # head[m]
      BY <1>5, <2>1, <3>3 DEF BuildEnd, Accounted
    <3> QED
      BY <3>2, <3>3
  <2>2. CASE n # m
    <3>1. built'[m] = built[m] /\ head' = head /\ (m \in unbuilt => m \in unbuilt')
      BY <1>5, <2>2 DEF BuildEnd, TypeOK
    <3>2. InFlight(m) => InFlight(m)'
      BY <1>5, <2>2, StaysInFlight DEF BuildEnd, Rest, Goes
    <3> QED
      BY <1>0, <3>1, <3>2 DEF Accounted
  <2> QED
    BY <2>1, <2>2
<1>6. ASSUME NEW w \in Workers, NEW r, work' = [work EXCEPT ![w] = r], LeavesUnbuilt(w),
             UNCHANGED <<built, head>>
      PROVE  Accounted(m)'
  <2>1. CASE work[w].mod = m /\ work[w].pc \in {"build", "building"}
    BY <1>6, <2>1 DEF LeavesUnbuilt, Accounted
  <2>2. CASE work[w].mod # m \/ work[w].pc \notin {"build", "building"}
    <3>1. InFlight(m) => InFlight(m)'
      BY <1>6, <2>2, StaysInFlight
    <3> QED
      BY <1>0, <1>6, <3>1 DEF LeavesUnbuilt, Accounted
  <2> QED
    BY <2>1, <2>2
<1>7. ASSUME NEW w \in Workers, WorkFails(w) PROVE Accounted(m)'
  BY <1>6, <1>7 DEF WorkFails, Rest, Goes
<1>8. ASSUME NEW value \in BOOLEAN, CmdSwitch(value) PROVE Accounted(m)'
  BY <1>0, <1>6, <1>8 DEF CmdSwitch
<1>9. ASSUME NEW c \in Consoles, NEW n \in Modules, CmdUpdate(c, n) PROVE Accounted(m)'
  <2>1. work[c].pc \notin {"build", "building"} /\ c \in Workers
    BY <1>0, <1>9 DEF CmdUpdate, Idle
  <2>2. InFlight(m) => InFlight(m)'
    BY <1>9, <2>1, StaysInFlight DEF CmdUpdate, Goes
  <2> QED
    BY <1>0, <1>9, <2>2 DEF CmdUpdate, Accounted
<1> QED
  BY <1>0, <1>1, <1>2, <1>3, <1>4, <1>5, <1>7, <1>8, <1>9
  DEF Next, PassChecksOut, CmdSetsOrigin, CmdChecksOut, Builds

\* However the service and the consoles interleave, a binary differs from the source
\* checked out only while it is being built, or after a build that failed, was cut
\* off or was overtaken.
THEOREM BinaryFollowsSource == Spec => []BinaryIsSource
<1>1. Init => BinaryIsSource
  <2>1. Init => built = head
    BY DEF Init
  <2> QED
    BY <2>1 DEF BinaryIsSource
<1>2. TypeOK /\ BinaryIsSource /\ [Next]_vars => BinaryIsSource'
  <2> SUFFICES ASSUME TypeOK, BinaryIsSource, [Next]_vars, NEW m \in Modules
               PROVE  Accounted(m)'
    BY DEF BinaryIsSource, Accounted, InFlight
  <2> QED
    BY StepAccounted
<1> QED
  BY <1>1, <1>2, TypeCorrect, PTL DEF Spec

-----------------------------------------------------------------------------
(* The age of what the service checks out *)

\* Nothing but PassTakes gives the service a module, and PassFindsNew keeps it.
LEMMA StepInHandIsOld ==
  ASSUME TypeOK, InHandIsOld, [Next]_vars PROVE InHandIsOld'
<1> DEFINE Keeps == UNCHANGED <<today, remote, date>>
           NotInHand == work'[Updater].pc \notin {"check", "update"}
<1>0. /\ Updater \in Workers /\ \A c \in Consoles : c \in Workers /\ c # Updater
      /\ DOMAIN work = Workers
  BY WorkerAssumption DEF Workers, TypeOK
<1>1. CASE Tick
  <2>1. \A m \in Modules : date[m][remote[m]] \in Nat
    BY DEF TypeOK, Days
  <2>2. today \in Nat /\ Threshold \in Nat /\ today' = today + 1
    BY <1>1, TimeAssumption DEF Tick, TypeOK, Days
  <2>3. UNCHANGED <<remote, date, work, pushed>>
    BY <1>1 DEF Tick
  <2> QED
    BY <2>1, <2>2, <2>3 DEF InHandIsOld
<1>2. ASSUME NEW n \in Modules, Push(n) PROVE InHandIsOld'
  <2> PICK d \in Days : /\ d <= today
                        /\ remote' = [remote EXCEPT ![n] = @ + 1]
                        /\ date' = [date EXCEPT ![n][remote[n] + 1] = d]
                        /\ pushed' = pushed \cup {n}
                        /\ remote[n] < MaxCommits
    BY <1>2 DEF Push
  <2>1. remote[n] + 1 \in Commits
    BY BoundAssumption DEF TypeOK, Commits
  <2>2. date'[n][remote'[n]] = d
    <3>1. date'[n] = [date[n] EXCEPT ![remote[n] + 1] = d]
      BY DEF TypeOK
    <3>2. remote'[n] = remote[n] + 1
      BY DEF TypeOK
    <3> QED
      BY <2>1, <3>1, <3>2 DEF TypeOK
  <2>3. \A m \in Modules : m # n => date'[m][remote'[m]] = date[m][remote[m]]
    BY DEF TypeOK
  <2>4. today' = today /\ work' = work
    BY <1>2 DEF Push
  <2> QED
    BY <2>2, <2>3, <2>4 DEF InHandIsOld
<1>3. ASSUME Keeps, NotInHand PROVE InHandIsOld'
  BY <1>3 DEF InHandIsOld
<1>4. ASSUME Keeps, work'[Updater] = work[Updater], pushed' = pushed PROVE InHandIsOld'
  BY <1>4 DEF InHandIsOld
<1>5. CASE Pass
  <2>1. CASE PassBegin \/ PassEnd
    BY <1>0, <1>3, <2>1 DEF PassBegin, PassEnd, Goes, Idle
  <2>2. ASSUME NEW n \in Modules, PassTakes(n) PROVE InHandIsOld'
    <3>1. work'[Updater].mod = n
      BY <1>0, <2>2 DEF PassTakes, Goes
    <3>2. OldEnough(n) /\ Keeps
      BY <2>2 DEF PassTakes, TurnOf
    <3> QED
      BY <3>1, <3>2 DEF InHandIsOld, OldEnough
  <2>3. ASSUME NEW n \in Modules, PassSkips(n) \/ PassFetchFails(n) PROVE InHandIsOld'
    BY <1>4, <2>3 DEF PassSkips, PassFetchFails, TurnOf
  <2>4. ASSUME NEW n \in Modules, PassFindsNew(n) PROVE InHandIsOld'
    <3>1. work[Updater].pc = "check" /\ work[Updater].mod = n /\ work'[Updater].mod = n
      BY <1>0, <2>4 DEF PassFindsNew, InCheck, Goes
    <3>2. Keeps /\ pushed' = pushed
      BY <2>4 DEF PassFindsNew, InCheck
    <3> QED
      BY <3>1, <3>2 DEF InHandIsOld
  <2>5. ASSUME NEW n \in Modules, PassUpToDate(n) PROVE InHandIsOld'
    BY <1>0, <1>3, <2>5 DEF PassUpToDate, InCheck, Rest, Goes
  <2> QED
    BY <1>5, <2>1, <2>2, <2>3, <2>4, <2>5 DEF Pass
<1>6. ASSUME NEW w \in Workers, NEW r, work' = [work EXCEPT ![w] = r],
             w = Updater => r.pc \notin {"check", "update"}, Keeps, pushed' = pushed
      PROVE  InHandIsOld'
  BY <1>0, <1>3, <1>4, <1>6
<1>7. ASSUME NEW w \in Workers, NEW m \in Modules, NEW c, CheckOut(w, m, c)
      PROVE  InHandIsOld'
  BY <1>6, <1>7 DEF CheckOut, Goes
<1>8. ASSUME NEW w \in Workers, Builds(w) PROVE InHandIsOld'
  BY <1>6, <1>8 DEF Builds, BuildBegin, BuildEnd, Rest, Goes
<1>9. ASSUME NEW w \in Workers, WorkFails(w) PROVE InHandIsOld'
  BY <1>6, <1>9 DEF WorkFails, Rest, Goes
<1>10. ASSUME NEW value \in BOOLEAN, CmdSwitch(value) PROVE InHandIsOld'
  BY <1>0, <1>3, <1>10 DEF CmdSwitch, Idle
<1>11. ASSUME NEW c \in Consoles, NEW m \in Modules, CmdUpdate(c, m) PROVE InHandIsOld'
  BY <1>0, <1>6, <1>11 DEF CmdUpdate, Goes
<1>12. CASE UNCHANGED vars
  BY <1>4, <1>12 DEF vars
<1> QED
  BY <1>0, <1>1, <1>2, <1>5, <1>7, <1>8, <1>9, <1>10, <1>11, <1>12
  DEF Next, PassChecksOut, CmdSetsOrigin, CmdChecksOut

\* A module in the service's hand is old enough unless its upstream moved.
THEOREM InHandOld == Spec => []InHandIsOld
<1>1. Init => InHandIsOld
  BY TimeAssumption, BoundAssumption DEF Init, InHandIsOld, Idle, Commits
<1> QED
  BY <1>1, StepInHandIsOld, TypeCorrect, PTL DEF Spec

\* So the service checks a recent commit out only if it was pushed after the check
\* of the age.
THEOREM RecentOnlyIfPushed == Spec => RecentOnlyIfPushedSince
<1> DEFINE P == \A m \in Modules :
                  work[Updater].pc = "update" /\ work'[Updater].pc = "build"
                    /\ work[Updater].mod = m /\ m \notin pushed
                  => today - date[m][head'[m]] >= Threshold
<1>1. TypeOK /\ InHandIsOld /\ [Next]_vars => [P]_vars
  <2> SUFFICES ASSUME TypeOK, InHandIsOld, Next, NEW m \in Modules,
                      work[Updater].pc = "update", work'[Updater].pc = "build",
                      work[Updater].mod = m, m \notin pushed
               PROVE  today - date[m][head'[m]] >= Threshold
    OBVIOUS
  <2>0. /\ Updater \in Workers /\ \A c \in Consoles : c \in Workers /\ c # Updater
        /\ DOMAIN work = Workers
    BY WorkerAssumption DEF Workers, TypeOK
  <2>1. ASSUME NEW w \in Workers, NEW r, work' = [work EXCEPT ![w] = r],
               w = Updater => r.pc # "build"
        PROVE  FALSE
    BY <2>0, <2>1
  <2>2. work' # work
    OBVIOUS
  <2>3. ~ Tick /\ ~ \E n \in Modules : Push(n)
    BY <2>2 DEF Tick, Push
  <2>4. ~ Pass
    <3>1. ~ PassBegin /\ ~ PassEnd
      BY DEF PassBegin, PassEnd, Idle
    <3>2. \A n \in Modules : ~ PassTakes(n) /\ ~ PassSkips(n) /\ ~ PassFetchFails(n)
      BY DEF PassTakes, PassSkips, PassFetchFails, TurnOf
    <3>3. \A n \in Modules : ~ PassFindsNew(n) /\ ~ PassUpToDate(n)
      BY DEF PassFindsNew, PassUpToDate, InCheck
    <3> QED
      BY <3>1, <3>2, <3>3 DEF Pass
  <2>5. \A w \in Workers : ~ WorkFails(w)
    BY <2>1 DEF WorkFails, Rest, Goes
  <2>6. \A w \in Workers : ~ Builds(w)
    BY <2>1 DEF Builds, BuildBegin, BuildEnd, Rest, Goes
  <2>7. \A value \in BOOLEAN : ~ CmdSwitch(value)
    BY <2>0, <2>1 DEF CmdSwitch, Idle
  <2>8. \A c \in Consoles, n \in Modules : ~ CmdUpdate(c, n) /\ ~ CmdChecksOut(c, n)
    BY <2>0, <2>1 DEF CmdUpdate, CmdChecksOut, CheckOut, Goes
  <2>9. PICK n \in Modules : PassChecksOut(n)
    BY <2>3, <2>4, <2>5, <2>6, <2>7, <2>8 DEF Next, CmdSetsOrigin
  <2>10. n = m /\ head'[m] = remote[m]
    BY <2>9 DEF PassChecksOut, CheckOut, TypeOK
  <2> QED
    BY <2>10 DEF InHandIsOld
<1> QED
  BY <1>1, TypeCorrect, InHandOld, PTL DEF Spec, RecentOnlyIfPushedSince
=============================================================================
