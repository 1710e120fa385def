------------------------------- MODULE Updater -------------------------------
(***************************************************************************)
(* Updates: the updater service goes once a day through the modules that   *)
(* have a repository (the manager, the storage daemon, the provider        *)
(* daemon), and updates and builds those whose upstream commit is a week   *)
(* old; "updater update" does it for one module at once.                   *)
(*                                                                         *)
(* External: git and the builds. Fetching and updating take the upstream   *)
(* commit of that moment; a build takes the source as it is when it begins *)
(* and replaces the binary when it ends. A commit is a number, its date a  *)
(* day.                                                                    *)
(***************************************************************************)
EXTENDS Naturals

CONSTANTS
  Modules,      \* modules that can be updated
  Faulty,       \* modules whose repository never answers
  Updater,      \* the updater service
  Consoles,     \* console processes
  NoModule,     \* no module in hand
  Threshold,    \* REMOTE_AGE_THRESHOLD_DAYS
  MaxTime,      \* bound: the calendar stops here
  MaxCommits,   \* bound: upstream commits of a module
  MaxCommands   \* bound: "updater update", "enable" and "disable"

Workers == Consoles \cup {Updater}

ASSUME ModuleAssumption == Faulty \subseteq Modules /\ NoModule \notin Modules
ASSUME WorkerAssumption == Updater \notin Consoles
ASSUME TimeAssumption ==
  /\ Threshold \in Nat
  /\ MaxTime \in Nat /\ MaxTime >= Threshold
ASSUME BoundAssumption == MaxCommits \in Nat /\ MaxCommands \in Nat

VARIABLES
  today,
  remote,    \* the commit upstream of each module
  date,      \* the date of every commit of each module
  head,      \* the commit checked out
  built,     \* the commit the binary was built from
  enabled,   \* the updater service is installed and runs
  work,      \* of each worker: where it is, with which module and source
  todo,      \* modules the pass has still to look at
  commands,
  pushed,    \* history: modules with a new commit since the pass looked at theirs
  unbuilt    \* history: modules whose last build failed, was cut off, or was of a
             \* source replaced before it ended

vars == <<today, remote, date, head, built, enabled, work, todo, commands, pushed, unbuilt>>

Commits == 0 .. MaxCommits
Days == 0 .. MaxTime

Idle == [pc |-> "idle", mod |-> NoModule, src |-> 0]

TypeOK ==
  /\ today \in Days
  /\ remote \in [Modules -> Commits]
  /\ date \in [Modules -> [Commits -> Days]]
  /\ head \in [Modules -> Commits] /\ built \in [Modules -> Commits]
  /\ enabled \in BOOLEAN
  /\ work \in [Workers -> [pc : {"idle", "pass", "check", "update", "build", "building"},
                           mod : Modules \cup {NoModule}, src : Commits]]
  /\ \A w \in Workers :
       work[w].pc \in {"check", "update", "build", "building"} => work[w].mod \in Modules
  /\ todo \subseteq Modules
  /\ commands \in 0 .. MaxCommands
  /\ pushed \subseteq Modules /\ unbuilt \subseteq Modules

\* Every module was built from the upstream commit when it was installed.
Init ==
  /\ today = Threshold
  /\ remote = [m \in Modules |-> 0]
  /\ date = [m \in Modules |-> [c \in Commits |-> 0]]
  /\ head = remote /\ built = remote
  /\ enabled \in BOOLEAN
  /\ work = [w \in Workers |-> Idle]
  /\ todo = {}
  /\ commands = 0
  /\ pushed = {} /\ unbuilt = {}

-----------------------------------------------------------------------------
(* Environment: days pass, and upstream commits appear, dated when they were *)
(* made, which may be earlier. What is pushed to a repository that never     *)
(* answers is not seen.                                                      *)

Tick ==
  /\ today < MaxTime
  /\ today' = today + 1
  /\ UNCHANGED <<remote, date, head, built, enabled, work, todo, commands, pushed, unbuilt>>

Push(m) == \E d \in Days :
  /\ m \notin Faulty
  /\ remote[m] < MaxCommits
  /\ d <= today
  /\ remote' = [remote EXCEPT ![m] = @ + 1]
  /\ date' = [date EXCEPT ![m][remote[m] + 1] = d]
  /\ pushed' = pushed \cup {m}
  /\ UNCHANGED <<today, head, built, enabled, work, todo, commands, unbuilt>>

-----------------------------------------------------------------------------
(* Updating and building *)

Goes(w, pc, m, c) == work' = [work EXCEPT ![w] = [pc |-> pc, mod |-> m, src |-> c]]

\* Mutant: a worker is left in the middle of the module it has done with.
RestBusy(w) == Goes(w, "update", NoModule, 0)

\* What a worker turns to when it has done with its module, however it ended.
Rest(w) == Goes(w, IF w = Updater THEN "pass" ELSE "idle", NoModule, 0)

\* A repository that never answers lets nothing be checked out.
CheckOut(w, m, c) ==
  /\ work[w].pc = "update" /\ work[w].mod = m
  /\ m \notin Faulty
  /\ head' = [head EXCEPT ![m] = c]
  /\ Goes(w, "build", m, 0)
  /\ UNCHANGED <<today, remote, date, built, enabled, todo, commands, pushed, unbuilt>>

BuildBegin(w, m) ==
  /\ work[w].pc = "build" /\ work[w].mod = m
  /\ Goes(w, "building", m, head[m])
  /\ UNCHANGED <<today, remote, date, head, built, enabled, todo, commands, pushed, unbuilt>>

\* Mutant: a build leaves the old binary in place.
BinaryKept(w, m) == built[m]

Binary(w, m) == work[w].src

BuildEnd(w, m) ==
  /\ work[w].pc = "building" /\ work[w].mod = m
  /\ built' = [built EXCEPT ![m] = Binary(w, m)]
  /\ unbuilt' = IF work[w].src = head[m] THEN unbuilt \ {m} ELSE unbuilt \cup {m}
  /\ Rest(w)
  /\ UNCHANGED <<today, remote, date, head, enabled, todo, commands, pushed>>

LeavesUnbuilt(w) ==
  unbuilt' = IF work[w].pc \in {"build", "building"} THEN unbuilt \cup {work[w].mod}
             ELSE unbuilt

\* git or the build raises. The pass goes on to the next module; a command ends,
\* as it does when the console is closed.
WorkFails(w) ==
  /\ work[w].mod # NoModule
  /\ LeavesUnbuilt(w)
  /\ Rest(w)
  /\ UNCHANGED <<today, remote, date, head, built, enabled, todo, commands, pushed>>

-----------------------------------------------------------------------------
(* The updater service *)

PassBegin ==
  /\ enabled
  /\ work[Updater] = Idle
  /\ todo' = Modules
  /\ Goes(Updater, "pass", NoModule, 0)
  /\ UNCHANGED <<today, remote, date, head, built, enabled, commands, pushed, unbuilt>>

\* Mutant: every commit is old enough.
AnyAge(m) == TRUE

\* Mutant: the comparison of the ages is the wrong way round.
TooOld(m) == today - date[m][remote[m]] < Threshold

OldEnough(m) == today - date[m][remote[m]] >= Threshold

TurnOf(m) ==
  /\ work[Updater].pc = "pass"
  /\ m \in todo
  /\ todo' = todo \ {m}
  /\ UNCHANGED <<today, remote, date, head, built, enabled, commands, unbuilt>>

\* The repository is fetched and the commit is old enough, be it the one checked out.
PassTakes(m) ==
  /\ TurnOf(m)
  /\ m \notin Faulty
  /\ OldEnough(m)
  /\ Goes(Updater, "check", m, 0)
  /\ pushed' = pushed \ {m}

\* Too recent, or not to be fetched.
PassSkips(m) ==
  /\ TurnOf(m)
  /\ m \in Faulty \/ ~ OldEnough(m)
  /\ UNCHANGED <<work, pushed>>

\* The fetch raises, this once.
PassFetchFails(m) ==
  /\ TurnOf(m)
  /\ UNCHANGED <<work, pushed>>

InCheck(m) ==
  /\ work[Updater].pc = "check" /\ work[Updater].mod = m
  /\ UNCHANGED <<today, remote, date, head, built, enabled, todo, commands, pushed, unbuilt>>

\* on_update fetches again, and takes what is new by now, whatever its age.
PassFindsNew(m) ==
  /\ InCheck(m)
  /\ head[m] # remote[m]
  /\ Goes(Updater, "update", m, 0)

PassUpToDate(m) ==
  /\ InCheck(m)
  /\ head[m] = remote[m]
  /\ Rest(Updater)

\* The update fetches once more before it checks out.
PassChecksOut(m) == CheckOut(Updater, m, remote[m])

PassEnd ==
  /\ work[Updater].pc = "pass"
  /\ todo = {}
  /\ work' = [work EXCEPT ![Updater] = Idle]
  /\ UNCHANGED <<today, remote, date, head, built, enabled, todo, commands, pushed, unbuilt>>

-----------------------------------------------------------------------------
(* The console *)

\* updater enable restarts the service, updater disable removes it: either way a
\* pass under way is cut off.
CmdSwitch(value) ==
  /\ commands < MaxCommands
  /\ commands' = commands + 1
  /\ enabled' = value
  /\ LeavesUnbuilt(Updater)
  /\ work' = [work EXCEPT ![Updater] = Idle]
  /\ todo' = {}
  /\ UNCHANGED <<today, remote, date, head, built, pushed>>

CmdUpdate(c, m) ==
  /\ work[c] = Idle
  /\ commands < MaxCommands
  /\ commands' = commands + 1
  /\ Goes(c, "update", m, 0)
  /\ UNCHANGED <<today, remote, date, head, built, enabled, todo, pushed, unbuilt>>

\* An author or a repository is given: from here on upstream is that of another
\* repository, for the service as well, whose commit may be of any day. To the model
\* it is the next commit.
CmdSetsOrigin(c, m) ==
  /\ work[c].pc = "update" /\ work[c].mod = m
  /\ Push(m)

\* The upstream commit, or the one asked for. The build follows though it may be
\* the commit checked out already.
CmdChecksOut(c, m) == \E ref \in 0 .. remote[m] : CheckOut(c, m, ref)

-----------------------------------------------------------------------------
Pass ==
  \/ PassBegin \/ PassEnd
  \/ \E m \in Modules : PassTakes(m) \/ PassSkips(m) \/ PassFetchFails(m)
  \/ \E m \in Modules : PassFindsNew(m) \/ PassUpToDate(m)

Builds(w) == \E m \in Modules : BuildBegin(w, m) \/ BuildEnd(w, m)

Next ==
  \/ Tick
  \/ \E m \in Modules : Push(m)
  \/ Pass
  \/ \E m \in Modules : PassChecksOut(m)
  \/ \E w \in Workers : Builds(w) \/ WorkFails(w)
  \/ \E value \in BOOLEAN : CmdSwitch(value)
  \/ \E c \in Consoles, m \in Modules :
       CmdUpdate(c, m) \/ CmdSetsOrigin(c, m) \/ CmdChecksOut(c, m)

\* The service keeps running and what it starts ends, by a timeout if need be; what
\* it tries again and again for a module that answers succeeds some time.
Fairness ==
  /\ WF_vars(Pass)
  /\ WF_vars(WorkFails(Updater))
  /\ \A m \in Modules \ Faulty :
       SF_vars(PassTakes(m)) /\ SF_vars(PassFindsNew(m)) /\ SF_vars(PassChecksOut(m))

Spec == Init /\ [][Next]_vars /\ Fairness

\* So do builds, even: more than the code promises, and still not enough for
\* OldIsBuilt.
BuildsSucceed ==
  \A m \in Modules \ Faulty :
    SF_vars(BuildBegin(Updater, m)) /\ SF_vars(BuildEnd(Updater, m))

BuildingSpec == Spec /\ BuildsSucceed

-----------------------------------------------------------------------------
(* Properties *)

\* A module's binary is built from the commit checked out, or somebody is about to
\* build it, or a build of it failed, was cut off or was overtaken: no interleaving
\* of the service and the consoles leaves an old binary in any other way.
BinaryIsSource ==
  \A m \in Modules :
    \/ built[m] = head[m]
    \/ \E w \in Workers : work[w].mod = m /\ work[w].pc \in {"build", "building"}
    \/ m \in unbuilt

\* The service checks out a commit that is not old enough only if it was pushed
\* after the age of the one before was checked.
RecentOnlyIfPushedSince ==
  [][\A m \in Modules :
       work[Updater].pc = "update" /\ work'[Updater].pc = "build"
         /\ work[Updater].mod = m /\ m \notin pushed
       => today - date[m][head'[m]] >= Threshold]_vars

\* What that rests on: a module in hand whose upstream did not move is old enough.
InHandIsOld ==
  /\ \A m \in Modules : date[m][remote[m]] <= today
  /\ \A m \in Modules :
       work[Updater].pc \in {"check", "update"} /\ work[Updater].mod = m /\ m \notin pushed
         => today - date[m][remote[m]] >= Threshold

Old(m) == enabled /\ today - date[m][remote[m]] >= Threshold

\* An upstream commit that is old enough is checked out, whatever other modules'
\* repositories and builds do, unless the service is disabled or a newer commit
\* takes its place.
OldIsCheckedOut ==
  \A m \in Modules \ Faulty : Old(m) ~> (head[m] = remote[m] \/ ~ Old(m))

\* What the README promises ("Daily auto-update of the manager and tonutils
\* binaries"): it is built, too. Not so: after a failed build the source is up to
\* date, so that no later pass builds it.
OldIsBuilt ==
  \A m \in Modules \ Faulty : Old(m) ~> (built[m] = remote[m] \/ ~ Old(m))
=============================================================================
