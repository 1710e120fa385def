------------------------------ MODULE BagVerify ------------------------------
(***************************************************************************)
(* The verification of bags: the ten-minute cycle of mytonproviderd that   *)
(* verifies the most overdue bag, the console's "bags verify", and the     *)
(* file of last verification times that both read, change and write back   *)
(* whole, without a lock.                                                  *)
(*                                                                         *)
(* Time is a counter; a bag without a record reads as verified at 0.       *)
(***************************************************************************)
EXTENDS Naturals

CONSTANTS
  Bags,
  Slow,         \* bags whose verification outlasts the request timeout
  NoBag,        \* no bag in hand
  Threshold,    \* age at which a verification is overdue
  MaxTime,      \* bound: the clock stops here
  MaxCommands,  \* bound: "bags verify" commands
  MaxRestarts   \* bound: restarts of mytonproviderd

ASSUME BagAssumption == Slow \subseteq Bags /\ NoBag \notin Bags
ASSUME TimeAssumption ==
  /\ Threshold \in Nat \ {0}
  /\ MaxTime \in Nat /\ MaxTime >= Threshold
ASSUME BoundAssumption == MaxCommands \in Nat /\ MaxRestarts \in Nat

VARIABLES
  now,
  index,         \* bags the storage daemon lists
  lastVerified,  \* the file: time of the last verification of each bag
  cycle,         \* the daemon's cycle: bag under verification, stamp, copy
  cmd,           \* the console's command: same, and whether it is writing
  commands,      \* commands so far
  restarts,
  checked,       \* history: time of the last verification that completed
  raced          \* history: processes whose copy of the file is out of date

vars == <<now, index, lastVerified, cycle, cmd, commands, restarts, checked, raced>>

Times == 0 .. MaxTime
Records == [Bags -> Times]
NoRecord == [b \in Bags |-> 0]

IdleCycle == [bag |-> NoBag, stamp |-> 0, copy |-> NoRecord]
IdleCmd == [pc |-> "idle", bag |-> NoBag, stamp |-> 0, copy |-> NoRecord]

TypeOK ==
  /\ now \in Times
  /\ index \subseteq Bags
  /\ lastVerified \in Records
  /\ cycle \in [bag : Bags \cup {NoBag}, stamp : Times, copy : Records]
  /\ cmd \in [pc : {"idle", "verify", "write"}, bag : Bags \cup {NoBag},
              stamp : Times, copy : Records]
  /\ cmd.pc # "idle" => cmd.bag \in Bags
  /\ commands \in 0 .. MaxCommands
  /\ restarts \in 0 .. MaxRestarts
  /\ checked \in Records
  /\ raced \subseteq {"cycle", "cmd"}

\* Some time has passed since the epoch: a bag without a record is overdue.
Init ==
  /\ now = Threshold
  /\ index \in SUBSET Bags
  /\ lastVerified \in [Bags -> 0 .. Threshold]
  /\ cycle = IdleCycle
  /\ cmd = IdleCmd
  /\ commands = 0
  /\ restarts = 0
  /\ checked = lastVerified
  /\ raced = {}

-----------------------------------------------------------------------------
(* Environment: the clock, and the bags that come and go *)

Tick ==
  /\ now < MaxTime
  /\ now' = now + 1
  /\ UNCHANGED <<index, lastVerified, cycle, cmd, commands, restarts, checked, raced>>

AddBag(b) ==
  /\ b \notin index
  /\ index' = index \cup {b}
  /\ UNCHANGED <<now, lastVerified, cycle, cmd, commands, restarts, checked, raced>>

\* The record of a bag stays in the file when the bag goes.
DropBag(b) ==
  /\ b \in index
  /\ index' = index \ {b}
  /\ UNCHANGED <<now, lastVerified, cycle, cmd, commands, restarts, checked, raced>>

\* The verification request of bag b is answered in time.
Answers(b) == b \in index \ Slow

-----------------------------------------------------------------------------
(* The cycle *)

\* A time in the file stays overdue from Threshold on.
Overdue(b, file) == now - file[b] >= Threshold

OverdueBags == {b \in index : Overdue(b, lastVerified)}

\* Mutant: the youngest overdue record first.
Youngest(b, file) == \A c \in OverdueBags : file[c] <= file[b]

\* min() by time; the order of the listing decides between equals.
Oldest(b, file) == \A c \in OverdueBags : file[b] <= file[c]

\* Mutant: the record is written in milliseconds.
RecordedMillis(file, b, t) == [file EXCEPT ![b] = 1000 * t]

\* Mutant: the file is started afresh.
RecordedAlone(file, b, t) == [NoRecord EXCEPT ![b] = t]

Recorded(file, b, t) == [file EXCEPT ![b] = t]

\* The listing, the file and the clock are read, and the request is sent.
CycleBegin(b) ==
  /\ cycle = IdleCycle
  /\ b \in OverdueBags /\ Oldest(b, lastVerified)
  /\ cycle' = [bag |-> b, stamp |-> now, copy |-> lastVerified]
  /\ raced' = raced \ {"cycle"}
  /\ UNCHANGED <<now, index, lastVerified, cmd, commands, restarts, checked>>

\* The answer, intact or corrupted, is recorded in the copy read before the
\* request was sent, and the copy becomes the file.
CycleFinish(b) ==
  /\ cycle.bag = b
  /\ Answers(b)
  /\ checked' = [checked EXCEPT ![b] = now]
  /\ lastVerified' = Recorded(cycle.copy, b, cycle.stamp)
  /\ cycle' = IdleCycle
  /\ raced' = IF cmd.pc = "write" THEN raced \cup {"cmd"} ELSE raced
  /\ UNCHANGED <<now, index, cmd, commands, restarts>>

\* Mutant: the time is recorded whether the bag was verified or not.
CycleRecordsFailure ==
  /\ cycle # IdleCycle
  /\ lastVerified' = [cycle.copy EXCEPT ![cycle.bag] = cycle.stamp]
  /\ cycle' = IdleCycle
  /\ UNCHANGED <<now, index, cmd, commands, restarts, checked, raced>>

\* The request times out, or the bag is gone: the exception ends the cycle.
CycleFail ==
  /\ cycle # IdleCycle
  /\ cycle' = IdleCycle
  /\ UNCHANGED <<now, index, lastVerified, cmd, commands, restarts, checked, raced>>

RestartDaemon ==
  /\ restarts < MaxRestarts
  /\ restarts' = restarts + 1
  /\ cycle' = IdleCycle
  /\ UNCHANGED <<now, index, lastVerified, cmd, commands, checked, raced>>

-----------------------------------------------------------------------------
(* bags verify *)

CmdVerify(b) ==
  /\ cmd = IdleCmd
  /\ commands < MaxCommands
  /\ commands' = commands + 1
  /\ cmd' = [pc |-> "verify", bag |-> b, stamp |-> 0, copy |-> NoRecord]
  /\ UNCHANGED <<now, index, lastVerified, cycle, restarts, checked, raced>>

\* The request is answered; the file and the clock are read.
CmdVerified ==
  /\ cmd.pc = "verify"
  /\ Answers(cmd.bag)
  /\ checked' = [checked EXCEPT ![cmd.bag] = now]
  /\ cmd' = [cmd EXCEPT !.pc = "write", !.stamp = now, !.copy = lastVerified]
  /\ raced' = raced \ {"cmd"}
  /\ UNCHANGED <<now, index, lastVerified, cycle, commands, restarts>>

CmdWrite ==
  /\ cmd.pc = "write"
  /\ lastVerified' = Recorded(cmd.copy, cmd.bag, cmd.stamp)
  /\ cmd' = IdleCmd
  /\ raced' = IF cycle # IdleCycle THEN raced \cup {"cycle"} ELSE raced
  /\ UNCHANGED <<now, index, cycle, commands, restarts, checked>>

\* The request fails, or the console is closed.
CmdFail ==
  /\ cmd.pc # "idle"
  /\ cmd' = IdleCmd
  /\ UNCHANGED <<now, index, lastVerified, cycle, commands, restarts, checked, raced>>

-----------------------------------------------------------------------------
Environment(b) == AddBag(b) \/ DropBag(b)

Next ==
  \/ Tick
  \/ \E b \in Bags : Environment(b)
  \/ \E b \in Bags : CycleBegin(b)
  \/ \E b \in Bags : CycleFinish(b)
  \/ CycleFail
  \/ RestartDaemon
  \/ \E b \in Bags : CmdVerify(b)
  \/ CmdVerified
  \/ CmdWrite
  \/ CmdFail

\* The cycle's thread keeps running, requests end (they have a timeout), and the
\* request for a bag that could be answered again and again is answered some time.
Fairness ==
  /\ WF_vars(\E b \in Bags : CycleBegin(b))
  /\ WF_vars(CycleFail)
  /\ \A b \in Bags : SF_vars(CycleFinish(b))

Spec == Init /\ [][Next]_vars /\ Fairness

-----------------------------------------------------------------------------
(* Properties *)

\* The file never claims a verification that was not made: whatever the two
\* writers lose of each other's work, no bag's record is later than its last
\* completed verification.
RecordBacked == \A b \in Bags : lastVerified[b] <= checked[b]

\* What RecordBacked rests on: the copies in hand claim no more than the file may,
\* and a time about to be written is the time of a verification, or the time
\* before one.
CopiesBacked ==
  /\ \A b \in Bags : cycle.copy[b] <= checked[b] /\ cmd.copy[b] <= checked[b]
  /\ cmd.pc = "write" => cmd.stamp <= checked[cmd.bag]
  /\ cycle.stamp <= now
  /\ \A b \in Bags : checked[b] <= now

\* A bag's record goes back in time only when the writer worked on a copy that the
\* other process had changed since: a lost update, and nothing else, forgets a
\* verification.
RecordsGoBackOnlyInRace ==
  [][\A b \in Bags :
       lastVerified'[b] < lastVerified[b] =>
         \/ cycle # IdleCycle /\ "cycle" \in raced
         \/ cmd.pc = "write" /\ "cmd" \in raced]_vars

\* What that rests on: a process that was not overtaken holds the file as it is,
\* and no record in its copy is later than the time it is about to write.
CopiesCurrent ==
  /\ cycle # IdleCycle /\ "cycle" \notin raced =>
       cycle.copy = lastVerified
  /\ cmd.pc = "write" /\ "cmd" \notin raced => cmd.copy = lastVerified
  /\ \A b \in Bags : cycle # IdleCycle => cycle.copy[b] <= cycle.stamp
  /\ \A b \in Bags : cmd.pc = "write" => cmd.copy[b] <= cmd.stamp

\* The two writers and the file are a SharedFile, where a change is a record of one
\* bag that is not earlier than the one before: the times change in no other way, and
\* in place unless the other process wrote meanwhile.
Advances(f, g) == \E b \in Bags, t \in Times : f[b] <= t /\ g = [f EXCEPT ![b] = t]

Held(w) ==
  IF w = "cycle"
  THEN IF cycle = IdleCycle THEN {} ELSE {Recorded(cycle.copy, cycle.bag, cycle.stamp)}
  ELSE IF cmd.pc = "write" THEN {Recorded(cmd.copy, cmd.bag, cmd.stamp)} ELSE {}

Shared == INSTANCE SharedFile
       WITH Writers <- {"cycle", "cmd"}, Contents <- Records, Edits <- Advances,
            content <- lastVerified, hand <- [w \in {"cycle", "cmd"} |-> Held(w)],
            overtaken <- {w \in raced : Held(w) # {}}

ImplementsSharedFile == Shared!Spec

\* An overdue bag is verified, or goes, unless a bag that cannot be verified in
\* time is at least as overdue: that one is picked in every cycle, and nothing
\* behind it is ever verified.
Blocked(b) == \E s \in Slow \cap index : lastVerified[s] <= lastVerified[b]

OverdueVerified ==
  \A b \in Bags \ Slow :
    (b \in index /\ Overdue(b, lastVerified))
      ~> (b \notin index \/ ~ Overdue(b, lastVerified) \/ Blocked(b))
=============================================================================
