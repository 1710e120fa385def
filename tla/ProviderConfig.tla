--------------------------- MODULE ProviderConfig ---------------------------
(***************************************************************************)
(* The provider daemon's config file, which consoles change by reading it, *)
(* altering a field, writing it back whole and restarting the service,     *)
(* without a lock: the price, the space, the external address and, with    *)
(* "wallet import", the key. With the key goes the flag that says whether  *)
(* the provider is registered, which "register" sets once the chain has    *)
(* the registration message.                                               *)
(*                                                                         *)
(* The provider daemon reads the file when it starts. It, the chain and    *)
(* the disk are external.                                                  *)
(***************************************************************************)
EXTENDS Pricing

CONSTANTS
  Sessions,      \* console processes
  Costs, Spaces, Ips, Keys,   \* what may be set
  NoChange,      \* a session without a command
  NoKey,
  DiskTotal,     \* size of the storage disk, in GB
  MaxCommands,   \* bound: commands of all sessions
  MaxFailures    \* bound: restarts refused, sessions killed

ASSUME ValueAssumption ==
  /\ Costs \subseteq {u \in Nat : AcceptedCost(u)}
  /\ Spaces \subseteq Nat \ {0}
  /\ DiskTotal \in Nat
ASSUME BoundAssumption == MaxCommands \in Nat /\ MaxFailures \in Nat

VARIABLES
  file,        \* the config file
  running,     \* the config the service last started with
  session,     \* of each console: where it is, its change, the copy in hand
  used,        \* GB taken on the disk
  registered,  \* the flag in the manager's database
  mempool,     \* keys whose registration was sent and may yet land
  landed,      \* keys whose message the wallet accepted
  onChain,     \* keys whose registration was paid, and so reached its destination
  commands, failures,
  unapplied,   \* history: a session died between its write and its restart
  raced,       \* history: sessions whose copy of the file is out of date
  misflagged,  \* history: the flag was set for, or left from, another key or one unpaid
  overcounted  \* history: set-space counted dedicated space that was not in use

vars == <<file, running, session, used, registered, mempool, landed, onChain, commands,
          failures, unapplied, raced, misflagged, overcounted>>

Configs == [rate : Nat, maxSpan : Nat, space : Spaces, ip : Ips, key : Keys]

Changes ==
       [field : {"cost"}, val : Costs]
  \cup [field : {"space"}, val : Spaces]
  \cup [field : {"ip"}, val : Ips]
  \cup [field : {"key"}, val : Keys]

ASSUME NoneAssumption == NoChange \notin Changes /\ NoKey \notin Keys

\* What the installer writes for its answers.
Installed(u, g, i, k) ==
  [rate |-> Rate(u), maxSpan |-> MaxSpan(u), space |-> g, ip |-> i, key |-> k]

Idle(c) == [pc |-> "idle", change |-> NoChange, copy |-> c, body |-> NoKey]

TypeOK ==
  /\ file \in Configs
  /\ running \in Configs
  /\ session \in
       [Sessions ->
          [pc : {"idle", "read", "write", "restart", "mark", "body", "wait"},
           change : Changes \cup {NoChange}, copy : Configs, body : Keys \cup {NoKey}]]
  /\ \A s \in Sessions :
       session[s].pc \in {"read", "write", "restart", "mark"} => session[s].change # NoChange
  /\ used \in 0 .. DiskTotal
  /\ registered \in BOOLEAN
  /\ mempool \subseteq Keys /\ landed \subseteq Keys /\ onChain \subseteq Keys
  /\ commands \in 0 .. MaxCommands /\ failures \in 0 .. MaxFailures
  /\ unapplied \in BOOLEAN
  /\ raced \subseteq Sessions
  /\ misflagged \in BOOLEAN /\ overcounted \in BOOLEAN

FreeSpace == DiskTotal - used

\* The installer has written the config, with a space that fits the free disk.
Init ==
  /\ \E u \in Costs, g \in Spaces, i \in Ips, k \in Keys :
       file = Installed(u, g, i, k)
  /\ used = 0
  /\ file.space <= FreeSpace
  /\ running = file
  /\ session = [s \in Sessions |-> Idle(file)]
  /\ registered = FALSE
  /\ mempool = {} /\ landed = {} /\ onChain = {}
  /\ commands = 0 /\ failures = 0
  /\ unapplied = FALSE
  /\ raced = {}
  /\ misflagged = FALSE /\ overcounted = FALSE

-----------------------------------------------------------------------------
(* Commands *)

Begins(s, pc, change) ==
  /\ session[s].pc = "idle"
  /\ commands < MaxCommands
  /\ commands' = commands + 1
  /\ session' = [session EXCEPT ![s].pc = pc, ![s].change = change]
  /\ UNCHANGED <<file, running, used, registered, mempool, landed, onChain, failures,
                 unapplied, raced, misflagged>>

CmdSetCost(s, u) ==
  /\ AcceptedCost(u)
  /\ Begins(s, "read", [field |-> "cost", val |-> u])
  /\ UNCHANGED overcounted

\* Mutant: any space is accepted.
ValidSpaceAny(g) == 1 <= g

\* Free space, and what the provider has allocated already.
ValidSpace(g) == 1 <= g /\ g <= FreeSpace + file.space

CmdSetSpace(s, g) ==
  /\ ValidSpace(g)
  /\ Begins(s, "read", [field |-> "space", val |-> g])
  /\ overcounted' = (overcounted \/ used < file.space)

CmdSetExternalIp(s, i) ==
  /\ Begins(s, "read", [field |-> "ip", val |-> i])
  /\ UNCHANGED overcounted

CmdImport(s, k) ==
  /\ Begins(s, "read", [field |-> "key", val |-> k])
  /\ UNCHANGED overcounted

\* register answers at once when the flag is set; --force goes on. The wallet is
\* fetched, and its balance will do: see Wallet.
CmdRegister(s) == \E force \in BOOLEAN :
  /\ force \/ ~ registered
  /\ Begins(s, "body", NoChange)
  /\ UNCHANGED overcounted

-----------------------------------------------------------------------------
(* apply_config *)

\* Mutant: a change of the cost leaves the longest span as it is.
WithRateOnly(config, u) == [config EXCEPT !.rate = Rate(u)]

WithCost(config, u) == [config EXCEPT !.rate = Rate(u), !.maxSpan = MaxSpan(u)]

\* Mutant: the megabytes of the file are taken for gigabytes.
WithMegabytes(config, g) == [config EXCEPT !.space = 1024 * g]

WithSpace(config, g) == [config EXCEPT !.space = g]

Mutated(config, change) ==
  CASE change.field = "cost"  -> WithCost(config, change.val)
    [] change.field = "space" -> WithSpace(config, change.val)
    [] change.field = "ip"    -> [config EXCEPT !.ip = change.val]
    [] change.field = "key"   -> [config EXCEPT !.key = change.val]

Goes(s, pc) == session' = [session EXCEPT ![s].pc = pc]

Ends(s) == session' = [session EXCEPT ![s] = Idle(file)]

\* Mutant: the config is read once and kept by the console.
CachedConfig(s) == session[s].copy

ConfigRead(s) == file

ReadConfig(s) ==
  /\ session[s].pc = "read"
  /\ session' = [session EXCEPT ![s].pc = "write",
                                ![s].copy = Mutated(ConfigRead(s), session[s].change)]
  /\ raced' = raced \ {s}
  /\ UNCHANGED <<file, running, used, registered, mempool, landed, onChain, commands,
                 failures, unapplied, misflagged, overcounted>>

IsImport(s) == session[s].change.field = "key"

\* A command overtaken by an import takes the old key back, and leaves the flag.
WriteConfig(s) ==
  /\ session[s].pc = "write"
  /\ file' = session[s].copy
  /\ Goes(s, "restart")
  /\ raced' = Sessions
  /\ misflagged' = (misflagged \/ (~ IsImport(s) /\ session[s].copy.key # file.key))
  /\ UNCHANGED <<running, used, registered, mempool, landed, onChain, commands, failures,
                 unapplied, overcounted>>

\* Mutant: the service is told of the copy in hand, not of the file.
LoadedCopy(s) == session[s].copy

\* The service reads the file as it is when it starts.
Loaded(s) == file

\* A wallet import goes on to clear the flag; the other commands are done.
Restart(s) ==
  /\ session[s].pc = "restart"
  /\ running' = Loaded(s)
  /\ unapplied' = FALSE
  /\ IF IsImport(s) THEN Goes(s, "mark") ELSE Ends(s)
  /\ UNCHANGED <<file, used, registered, mempool, landed, onChain, commands, failures,
                 raced, misflagged, overcounted>>

\* Mutant: an import leaves the flag as it is.
KeepFlag == registered

ClearedFlag == FALSE

MarkUnregistered(s) ==
  /\ session[s].pc = "mark"
  /\ registered' = ClearedFlag
  /\ misflagged' = FALSE
  /\ Ends(s)
  /\ UNCHANGED <<file, running, used, mempool, landed, onChain, commands, failures,
                 unapplied, raced, overcounted>>

-----------------------------------------------------------------------------
(* register *)

\* The key to register is read, then the wallet to send from is built of the key
\* read again: the message names the first.
ReadBody(s) ==
  /\ session[s].pc = "body"
  /\ session' = [session EXCEPT ![s].pc = "wait", ![s].body = file.key]
  /\ mempool' = mempool \cup {file.key}
  /\ UNCHANGED <<file, running, used, registered, landed, onChain, commands, failures,
                 unapplied, raced, misflagged, overcounted>>

\* The transaction is found: the key's message was accepted, which its payment is not
\* looked for in. The key in the config may be another by now.
Confirmed(s) ==
  /\ session[s].pc = "wait"
  /\ session[s].body \in landed
  /\ registered' = TRUE
  /\ misflagged' = (session[s].body # file.key \/ session[s].body \notin onChain)
  /\ Ends(s)
  /\ UNCHANGED <<file, running, used, mempool, landed, onChain, commands, failures,
                 unapplied, raced, overcounted>>

\* Fifteen seconds are over. The message may still land.
RegisterTimesOut(s) ==
  /\ session[s].pc = "wait"
  /\ Ends(s)
  /\ UNCHANGED <<file, running, used, registered, mempool, landed, onChain, commands,
                 failures, unapplied, raced, misflagged, overcounted>>

-----------------------------------------------------------------------------
(* Failures and the environment *)

\* An import that has written the key and has still to clear the flag.
Importing(s) == session[s].pc \in {"restart", "mark"} /\ IsImport(s)

\* The service does not restart, which raises, or the console is killed: what the
\* command had still to do is not done.
SessionDies(s) ==
  /\ session[s].pc # "idle"
  /\ failures < MaxFailures
  /\ failures' = failures + 1
  /\ Ends(s)
  /\ unapplied' = (unapplied \/ session[s].pc = "restart")
  /\ misflagged' = (misflagged \/ Importing(s))
  /\ UNCHANGED <<file, running, used, registered, mempool, landed, onChain, commands, raced,
                 overcounted>>

\* The service is restarted by an update, by systemd or with the host.
ServiceRestarts ==
  /\ running' = file
  /\ unapplied' = FALSE
  /\ UNCHANGED <<file, session, used, registered, mempool, landed, onChain, commands,
                 failures, raced, misflagged, overcounted>>

\* The wallet accepts the message, and can pay for it or not: see Wallet.
Land(k) ==
  /\ k \in mempool
  /\ mempool' = mempool \ {k}
  /\ landed' = landed \cup {k}
  /\ onChain' \in {onChain, onChain \cup {k}}
  /\ UNCHANGED <<file, running, session, used, registered, commands, failures,
                 unapplied, raced, misflagged, overcounted>>

\* Bags are stored, up to the space in force, or dropped.
DiskUse ==
  /\ used' \in {0, running.space}
  /\ used' <= DiskTotal
  /\ UNCHANGED <<file, running, session, registered, mempool, landed, onChain, commands,
                 failures, unapplied, raced, misflagged, overcounted>>

-----------------------------------------------------------------------------
Command(s) ==
  \/ \E u \in Costs : CmdSetCost(s, u)
  \/ \E g \in Spaces : CmdSetSpace(s, g)
  \/ \E i \in Ips : CmdSetExternalIp(s, i)
  \/ \E k \in Keys : CmdImport(s, k)
  \/ CmdRegister(s)

Apply(s) == ReadConfig(s) \/ WriteConfig(s) \/ Restart(s) \/ MarkUnregistered(s)

Register(s) == ReadBody(s) \/ Confirmed(s) \/ RegisterTimesOut(s)

Next ==
  \/ \E s \in Sessions : Command(s)
  \/ \E s \in Sessions : Apply(s)
  \/ \E s \in Sessions : Register(s)
  \/ \E s \in Sessions : SessionDies(s)
  \/ ServiceRestarts
  \/ \E k \in Keys : Land(k)
  \/ DiskUse

Spec == Init /\ [][Next]_vars

-----------------------------------------------------------------------------
(* Properties *)

\* Whatever consoles do to each other's writes, the rate and the longest span of a
\* config, in the file, in the service and in every copy, are those of one cost.
Priced(config) ==
  \E u \in Costs : config.rate = Rate(u) /\ config.maxSpan = MaxSpan(u)

PricesTogether ==
  /\ Priced(file) /\ Priced(running)
  /\ \A s \in Sessions : Priced(session[s].copy)

\* The service runs another config than the file's only while a command is about to
\* restart it, or after one died there.
FileIsApplied ==
  running # file => unapplied \/ \E s \in Sessions : session[s].pc = "restart"

\* A copy about to be written is the file with the command's own change, unless the
\* file was written since it was read.
CopiesAreCurrent ==
  \A s \in Sessions :
    session[s].pc = "write" /\ s \notin raced =>
      session[s].copy = Mutated(file, session[s].change)

\* A command undoes another command's change only if it was overtaken by it: a
\* write that was not leaves every field but its own as it was.
UndoesOnlyInRace ==
  [][\A s \in Sessions :
       session[s].pc = "write" /\ session'[s].pc = "restart" /\ s \notin raced =>
         /\ session[s].change.field # "cost" =>
              file'.rate = file.rate /\ file'.maxSpan = file.maxSpan
         /\ session[s].change.field # "space" => file'.space = file.space
         /\ session[s].change.field # "ip" => file'.ip = file.ip
         /\ session[s].change.field # "key" => file'.key = file.key]_vars

\* The consoles and the file are a SharedFile, where a change is that of one command:
\* the config changes in no other way, and in place unless another console wrote
\* meanwhile.
Changed(c, d) == \E change \in Changes : d = Mutated(c, change)

Held(s) == IF session[s].pc = "write" THEN {session[s].copy} ELSE {}

Shared == INSTANCE SharedFile
       WITH Writers <- Sessions, Contents <- Configs, Edits <- Changed,
            content <- file, hand <- [s \in Sessions |-> Held(s)],
            overtaken <- {s \in raced : Held(s) # {}}

ImplementsSharedFile == Shared!Spec

\* The flag tells the truth ("Provider already registered"): the key in the config
\* is on the chain, or the import that brought it is about to clear the flag, unless
\* an import died in between, a command overtaken by one took the old key back, or a
\* registration was confirmed after one or without having been paid. Nothing else sets
\* the flag for a wrong key.
FlagIsTrue ==
  registered /\ ~ misflagged => file.key \in onChain \/ \E s \in Sessions : Importing(s)

\* What an operator is paid for: of the rate in the file or in force the status shows
\* the cost that was set, to the hundredth if it was set to the hundredth, and it is
\* the cost the span beside it was made for.
ShownAsSet ==
  \A config \in {file, running} : \E u \in Costs :
    config.maxSpan = MaxSpan(u) /\ ShowsCost(config.rate, u)

\* By the rate and the longest span in the file or in force, the smallest bag pays for
\* its proof, and no sooner than it must.
ProofsPaid ==
  \A config \in {file, running} : PaysForProof(config.rate, config.maxSpan)

\* The space dedicated to providing fits the disk ("must fit free disk"), unless
\* set-space has counted as free what was dedicated and not in use: which it does
\* again at each repetition.
SpaceWithinDisk ==
  file.space > DiskTotal \/ running.space > DiskTotal => overcounted
=============================================================================
