------------------------------ MODULE Installer ------------------------------
(***************************************************************************)
(* "mytonprovider install": on_install of the two modules that have a      *)
(* daemon, the storage daemon first. Each builds its daemon, asks, creates *)
(* a systemd unit, starts the daemon so that it makes its config, stops it,*)
(* changes the config and starts it again. The ports of the storage daemon *)
(* are drawn anew every time; the provider's config has the address of the *)
(* storage daemon. An install may be repeated over a running provider, at  *)
(* another path, and consoles and the updater restart the daemons and      *)
(* change their configs meanwhile.                                         *)
(*                                                                         *)
(* External: the daemons, which read their config when they start and make *)
(* one where there is none; systemd, for which starting a service that     *)
(* runs is nothing; and mypycli: an exception ends the command. The API    *)
(* port and the UDP port of the storage daemon are one number here, and a  *)
(* config is that number alone.                                            *)
(***************************************************************************)

CONSTANTS
  Storage, Provider,   \* the two services
  Paths,               \* storage paths the operator may choose
  Ports,               \* ports that may be drawn
  Consoles,            \* consoles that change configs
  None,
  Own                  \* the port in a config a daemon has made, drawn or not

Services == {Storage, Provider}

ASSUME ServiceAssumption == Storage # Provider /\ None \notin Services
ASSUME ValueAssumption == None \notin Paths \cup Ports /\ Own # None

VARIABLES
  db,         \* path and port of the storage daemon in the manager's database
  unit,       \* the unit file of each service: what the daemon is called with
  file,       \* the config file of each service at each path
  running,    \* of each service: what its daemon was called with, and has read
  stage,      \* of the install command: the service in hand, and where it is
  status,     \* whether an install is wanted, or has ended well
  copy,       \* the config a console has read and not written yet
  settled,    \* history: services installed with nothing in the way
  disturbed,  \* history: the service in hand was restarted, or put back, meanwhile
  stale       \* history: consoles whose copy an install has overtaken

installVars == <<db, unit, file, running, stage, status, copy, settled, disturbed, stale>>

Nowhere == [path |-> None, port |-> None]
Down == [path |-> None, port |-> None, conf |-> None]
Idle == [svc |-> None, at |-> "idle"]
NoCopy == [svc |-> None, conf |-> None]

Calls == [path : Paths, port : Ports \cup {None}]

InstallTypeOK ==
  /\ db \in [path : Paths, port : Ports] \cup {Nowhere}
  /\ unit \in [Services -> Calls \cup {Nowhere}]
  /\ file \in [Services -> [Paths -> Ports \cup {None, Own}]]
  /\ running \in [Services -> {Down}
       \cup [path : Paths, port : Ports \cup {None}, conf : Ports \cup {Own}]]
  /\ stage \in {Idle}
       \cup [svc : Services, at : {"build", "ask", "unit", "stop", "write", "start"}]
  /\ status \in {"none", "wanted", "installed"}
  /\ copy \in [Consoles -> [svc : Services, conf : Ports \cup {Own}] \cup {NoCopy}]
  /\ settled \subseteq Services /\ disturbed \in BOOLEAN /\ stale \subseteq Consoles

InstallInit ==
  /\ db = Nowhere
  /\ unit = [svc \in Services |-> Nowhere]
  /\ file = [svc \in Services |-> [p \in Paths |-> None]]
  /\ running = [svc \in Services |-> Down]
  /\ stage = Idle
  /\ status = "none"
  /\ copy = [c \in Consoles |-> NoCopy]
  /\ settled = {} /\ disturbed = FALSE /\ stale = {}

-----------------------------------------------------------------------------
(* systemd and the daemons *)

\* A daemon called by u that finds the configs f. Without one it makes its own.
Called(u, f) ==
  [path |-> u.path, port |-> u.port, conf |-> IF f[u.path] = None THEN Own ELSE f[u.path]]

Restarted(svc, f) ==
  IF unit[svc] = Nowhere THEN running ELSE [running EXCEPT ![svc] = Called(unit[svc], f)]

Started(svc, u) ==
  IF running[svc] # Down THEN running ELSE [running EXCEPT ![svc] = Called(u, file[svc])]

DaemonWrites(svc) ==
  /\ running[svc] # Down
  /\ file[svc][running[svc].path] = None
  /\ file' = [file EXCEPT ![svc][running[svc].path] = Own]
  /\ UNCHANGED <<db, unit, running, stage, status, copy, settled, disturbed, stale>>

-----------------------------------------------------------------------------
(* install *)

Turns(svc, at, next) ==
  /\ stage = [svc |-> svc, at |-> at]
  /\ stage' = [svc |-> svc, at |-> next]

\* In a container until it has ended well once, on a host at any time.
Begin ==
  /\ stage = Idle
  /\ stage' = [svc |-> Storage, at |-> "build"]
  /\ status' = "wanted"
  /\ UNCHANGED <<db, unit, file, running, copy, settled, disturbed, stale>>

\* clone_repo and build, which restarts the daemon of an earlier install.
Build(svc) ==
  /\ Turns(svc, "build", "ask")
  /\ running' = Restarted(svc, file[svc])
  /\ UNCHANGED <<db, unit, file, status, copy, settled, disturbed, stale>>

\* The path is asked for and the ports are drawn, and go into the database at once.
AskStorage ==
  /\ Turns(Storage, "ask", "unit")
  /\ \E p \in Paths, n \in Ports : db' = [path |-> p, port |-> n]
  /\ settled' = {}
  /\ UNCHANGED <<unit, file, running, status, copy, disturbed, stale>>

\* Mutant: the provider looks for a service of its own.
NeedsItself == unit[Provider] # Nowhere

NeedsStorage == unit[Storage] # Nowhere

AskProvider ==
  /\ Turns(Provider, "ask", "unit")
  /\ NeedsStorage
  /\ settled' = settled \ {Provider}
  /\ UNCHANGED <<db, unit, file, running, status, copy, disturbed, stale>>

\* What the unit calls the daemon with: the provider's has no port.
CalledWith(svc) == [path |-> db.path, port |-> IF svc = Storage THEN db.port ELSE None]

\* The unit is created and the daemon started, which is nothing if it runs already, as
\* it was called before.
CreateUnit(svc) ==
  /\ Turns(svc, "unit", "stop")
  /\ unit' = [unit EXCEPT ![svc] = CalledWith(svc)]
  /\ running' = Started(svc, CalledWith(svc))
  /\ UNCHANGED <<db, file, status, copy, settled, disturbed, stale>>

\* Mutant: the daemon is not stopped.
LeftRunning(svc) == running[svc]

Stopped(svc) == Down

\* The ten seconds are over, whether the daemon has made its config or not.
Stop(svc) ==
  /\ Turns(svc, "stop", "write")
  /\ running' = [running EXCEPT ![svc] = Stopped(svc)]
  /\ UNCHANGED <<db, unit, file, status, copy, settled, disturbed, stale>>

\* listen_addr of the one, base_url of the other.
Write(svc) ==
  /\ Turns(svc, "write", "start")
  /\ file[svc][db.path] # None
  /\ file' = [file EXCEPT ![svc][db.path] = db.port]
  /\ stale' = stale \cup {c \in Consoles : copy[c].svc = svc}
  /\ UNCHANGED <<db, unit, running, status, copy, settled, disturbed>>

\* Mutant: there is a daemon to install after the last.
OneMore(svc) == [svc |-> IF svc = Storage THEN Provider ELSE None, at |-> "build"]

Following(svc) == IF svc = Storage THEN [svc |-> Provider, at |-> "build"] ELSE Idle

Start(svc) ==
  /\ stage = [svc |-> svc, at |-> "start"]
  /\ stage' = Following(svc)
  /\ running' = Started(svc, unit[svc])
  /\ status' = IF svc = Provider THEN "installed" ELSE status
  /\ settled' = IF disturbed THEN settled ELSE settled \cup {svc}
  /\ disturbed' = FALSE
  /\ UNCHANGED <<db, unit, file, copy, stale>>

Fails ==
  /\ stage # Idle
  /\ stage' = Idle
  /\ disturbed' = FALSE
  /\ UNCHANGED <<db, unit, file, running, status, copy, settled, stale>>

\* What is needed is not there: the config, or the storage service.
Lacking ==
  \/ \E svc \in Services : stage = [svc |-> svc, at |-> "write"] /\ file[svc][db.path] = None
  \/ stage = [svc |-> Provider, at |-> "ask"] /\ ~ NeedsStorage

Raises == Lacking /\ Fails

\* Anything else may raise: git, a build, an answer that is none, systemctl.
FailsByChance == ~ Lacking /\ Fails

\* The units and the database go, the storage path stays.
Uninstall ==
  /\ stage = Idle
  /\ db' = Nowhere
  /\ unit' = [svc \in Services |-> Nowhere]
  /\ running' = [svc \in Services |-> Down]
  /\ status' = "none"
  /\ settled' = {}
  /\ UNCHANGED <<file, stage, copy, disturbed, stale>>

-----------------------------------------------------------------------------
(* Meanwhile *)

\* Between the stop and the write a restart makes the daemon read the old config, and
\* the start that follows is nothing.
RestartDisturbs(svc) == stage = [svc |-> svc, at |-> "write"]

\* The updater's build, or an operator.
ServiceRestarts(svc) ==
  /\ unit[svc] # Nowhere
  /\ running' = Restarted(svc, file[svc])
  /\ disturbed' = (disturbed \/ RestartDisturbs(svc))
  /\ UNCHANGED <<db, unit, file, stage, status, copy, settled, stale>>

\* set-external-ip of either daemon, set-cost, set-space and import: the config is
\* read whole, and written whole to where it is by then.
ConsoleReads(c, svc) ==
  /\ copy[c] = NoCopy
  /\ db # Nowhere /\ file[svc][db.path] # None
  /\ copy' = [copy EXCEPT ![c] = [svc |-> svc, conf |-> file[svc][db.path]]]
  /\ UNCHANGED <<db, unit, file, running, stage, status, settled, disturbed, stale>>

ConsoleWrites(c) ==
  LET svc == copy[c].svc
      written == [file EXCEPT ![svc][db.path] = copy[c].conf]
  IN
  /\ copy[c] # NoCopy /\ db # Nowhere
  /\ file' = written
  /\ running' = Restarted(svc, written[svc])
  /\ copy' = [copy EXCEPT ![c] = NoCopy]
  /\ stale' = stale \ {c}
  /\ settled' = IF c \in stale THEN settled \ {svc} ELSE settled
  /\ disturbed' = \/ disturbed \/ RestartDisturbs(svc)
                  \/ c \in stale /\ stage = [svc |-> svc, at |-> "start"]
  /\ UNCHANGED <<db, unit, stage, status>>

ConsoleDies(c) ==
  /\ copy[c] # NoCopy
  /\ copy' = [copy EXCEPT ![c] = NoCopy]
  /\ stale' = stale \ {c}
  /\ UNCHANGED <<db, unit, file, running, stage, status, settled, disturbed>>

-----------------------------------------------------------------------------
Installs(svc) == Build(svc) \/ CreateUnit(svc) \/ Stop(svc) \/ Write(svc) \/ Start(svc)

Command == AskStorage \/ AskProvider \/ Raises \/ \E svc \in Services : Installs(svc)

DaemonsWrite == \E svc \in Services : DaemonWrites(svc)

InstallNext ==
  \/ Begin \/ Command \/ FailsByChance \/ Uninstall
  \/ DaemonsWrite
  \/ \E svc \in Services : ServiceRestarts(svc)
  \/ \E c \in Consoles :
       \/ \E svc \in Services : ConsoleReads(c, svc)
       \/ ConsoleWrites(c) \/ ConsoleDies(c)

\* The container, or the operator, tries again, a command goes on, a daemon makes its
\* config within the ten seconds in one attempt of many, and some time nothing fails
\* any more but for what is lacking.
InstallFairness ==
  /\ WF_installVars(status = "wanted" /\ Begin)
  /\ WF_installVars(Command)
  /\ SF_installVars(DaemonsWrite)
  /\ <>[][~ FailsByChance]_installVars

InstallSpec == InstallInit /\ [][InstallNext]_installVars /\ InstallFairness

-----------------------------------------------------------------------------
(* Properties *)

\* After an install, repeated at whatever path and after whatever failures, the daemons
\* run with what was recorded: the storage daemon at the path and the ports in the
\* database, the provider's with the address under which the storage daemon answers,
\* unless one was restarted between its stop and the writing of its config, or a
\* console put an older config back. It lasts until the next install has asked its
\* questions, through any builds that fail.
InstalledWorks ==
  /\ Storage \in settled =>
       running[Storage] = [path |-> db.path, port |-> db.port, conf |-> db.port]
  /\ Provider \in settled =>
       /\ running[Provider] = [path |-> db.path, port |-> None, conf |-> db.port]
       /\ running[Storage].port = running[Provider].conf

\* An install that is tried again until it ends well does so, whatever was left by the
\* attempts before: daemons that run by older units, at other paths, or a path that
\* has no config yet.
InstallCompletes == status = "wanted" ~> status # "wanted"
=============================================================================
