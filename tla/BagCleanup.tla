----------------------------- MODULE BagCleanup -----------------------------
(***************************************************************************)
(* The bags of ton-storage: the storage daemon's index of bags, the        *)
(* directories below <storage>/provider, the console's "bags" commands     *)
(* and the daily cleanup cycle of mytonproviderd, which lists the index,   *)
(* scans the directory and removes every bag directory not in the listing. *)
(*                                                                         *)
(* The storage daemon (tonutils-storage) and the provider daemon, which    *)
(* adds and drops bags through the same HTTP API as contracts come and go, *)
(* are external: they are modelled by the API calls the code makes.        *)
(***************************************************************************)
EXTENDS Naturals

Cases == {"lower", "upper"}

CONSTANTS
  Bags,          \* bag identities
  OtherEntries,  \* what else lives in <storage>/provider: config.json, db, ...
  ApiCase,       \* how the API spells a bag id
  DirCase,       \* how the storage daemon spells a bag's directory
  MaxRestarts    \* bound: restarts of mytonproviderd

\* A spelled bag id: what a directory is called and what the API returns.
BagNames == [bag : Bags, case : Cases]

ASSUME CaseAssumption == ApiCase \in Cases /\ DirCase \in Cases
ASSUME EntryAssumption == OtherEntries \cap BagNames = {}
ASSUME RestartAssumption == MaxRestarts \in Nat

VARIABLES
  index,     \* bags the storage daemon lists
  wanted,    \* bags it downloads (active and download_all)
  disk,      \* entries of <storage>/provider
  cleaner,   \* the cleanup cycle: where it is, what it listed, what is left
  restarts,  \* restarts of mytonproviderd so far
  added,     \* history: bags that entered the index since the last listing
  kept       \* history: bags whose removal printed "Files kept on disk"

vars == <<index, wanted, disk, cleaner, restarts, added, kept>>

ApiName(b) == [bag |-> b, case |-> ApiCase]
DirName(b) == [bag |-> b, case |-> DirCase]

\* str.upper on a bag id.
Upper(n) == [n EXCEPT !.case = "upper"]

Idle == [pc |-> "idle", known |-> {}, todo |-> {}]

TypeOK ==
  /\ index \subseteq Bags
  /\ wanted \subseteq index
  /\ disk \subseteq BagNames \cup OtherEntries
  /\ cleaner \in [pc : {"idle", "listed", "sweep"},
                  known : SUBSET BagNames,
                  todo : SUBSET (BagNames \cup OtherEntries)]
  /\ restarts \in 0 .. MaxRestarts
  /\ added \subseteq Bags
  /\ kept \subseteq Bags

\* The daemon starts on whatever an earlier run left: any index, any subset of
\* the bags' directories, orphans included.
Init ==
  /\ index \in SUBSET Bags
  /\ wanted \in SUBSET index
  /\ disk \in {OtherEntries \cup {DirName(b) : b \in D} : D \in SUBSET Bags}
  /\ cleaner = Idle
  /\ restarts = 0
  /\ added = {}
  /\ kept = {}

-----------------------------------------------------------------------------
(* The storage daemon's API *)

ApiAdd(b, all) ==
  /\ index' = index \cup {b}
  /\ wanted' = IF all THEN wanted \cup {b} ELSE wanted
  /\ added' = IF b \in index THEN added ELSE added \cup {b}
  /\ kept' = kept \ {b}
  /\ UNCHANGED <<disk, cleaner, restarts>>

ApiRemove(b, withFiles) ==
  /\ b \in index
  /\ index' = index \ {b}
  /\ wanted' = wanted \ {b}
  /\ disk' = IF withFiles THEN disk \ {DirName(b)} ELSE disk
  /\ UNCHANGED <<cleaner, restarts, added>>

\* The storage daemon fetches a wanted bag, which creates its directory.
Download(b) ==
  /\ b \in wanted
  /\ disk' = disk \cup {DirName(b)}
  /\ UNCHANGED <<index, wanted, cleaner, restarts, added, kept>>

\* The provider daemon takes a bag under contract, or drops an expired one.
ContractAdd(b) == ApiAdd(b, TRUE)
ContractDrop(b) == ApiRemove(b, TRUE) /\ kept' = kept \ {b}

-----------------------------------------------------------------------------
(* Console commands *)

CmdBagsAdd(b) == \E all \in BOOLEAN : ApiAdd(b, all)

\* Mutant: starting a bag only flags the download, the bag is not added.
StartWithoutAdd(b) ==
  /\ wanted' = wanted \cup {b}
  /\ UNCHANGED <<index, disk, cleaner, restarts, added, kept>>

CmdBagsStart(b) == ApiAdd(b, TRUE)

CmdBagsStop(b) ==
  /\ b \in index
  /\ wanted' = wanted \ {b}
  /\ UNCHANGED <<index, disk, cleaner, restarts, added, kept>>

CmdBagsRemoveWithFiles(b) == ApiRemove(b, TRUE) /\ kept' = kept \ {b}

\* Without --with-files the user is told that the files stay. A reply lost to
\* the request timeout leaves the bag removed and the message unprinted.
CmdBagsRemove(b) ==
  /\ ApiRemove(b, FALSE)
  /\ kept' \in {kept, IF DirName(b) \in disk THEN kept \cup {b} ELSE kept}

-----------------------------------------------------------------------------
(* The cleanup cycle. A listing the API refuses ends the cycle unchanged.    *)

KnownNames == {Upper(ApiName(b)) : b \in index}

\* Mutant: the directory's name is compared as spelled.
OrphanAsSpelled(e, known) == e \in BagNames /\ e \notin known

\* Mutant: entries are not filtered by the bag id pattern.
OrphanAnyName(e, known) == IF e \in BagNames THEN Upper(e) \notin known ELSE TRUE

\* Mutant: the membership test is inverted.
OrphanInverted(e, known) == e \in BagNames /\ Upper(e) \in known

Orphan(e, known) == e \in BagNames /\ Upper(e) \notin known

CleanupList ==
  /\ cleaner.pc = "idle"
  /\ cleaner' = [pc |-> "listed", known |-> KnownNames, todo |-> {}]
  /\ added' = {}
  /\ UNCHANGED <<index, wanted, disk, restarts, kept>>

\* The directory is read after the index was listed.
CleanupScan ==
  /\ cleaner.pc = "listed"
  /\ cleaner' = [cleaner EXCEPT !.pc = "sweep", !.todo = disk]
  /\ UNCHANGED <<index, wanted, disk, restarts, added, kept>>

Done(e) ==
  /\ cleaner.pc = "sweep"
  /\ e \in cleaner.todo
  /\ cleaner' = [cleaner EXCEPT !.todo = @ \ {e}]
  /\ UNCHANGED <<index, wanted, restarts, added, kept>>

CleanupSkip(e) ==
  /\ Done(e)
  /\ ~ Orphan(e, cleaner.known)
  /\ UNCHANGED disk

CleanupRemove(e) ==
  /\ Done(e)
  /\ Orphan(e, cleaner.known)
  /\ disk' = disk \ {e}

\* rmtree(ignore_errors=True) may leave the directory behind.
CleanupRemoveFails(e) ==
  /\ Done(e)
  /\ Orphan(e, cleaner.known)
  /\ UNCHANGED disk

CleanupEnd ==
  /\ cleaner.pc = "sweep"
  /\ cleaner.todo = {}
  /\ cleaner' = Idle
  /\ UNCHANGED <<index, wanted, disk, restarts, added, kept>>

\* mytonproviderd is restarted (telemetry enable, an update, a crash).
RestartDaemon ==
  /\ restarts < MaxRestarts
  /\ restarts' = restarts + 1
  /\ cleaner' = Idle
  /\ UNCHANGED <<index, wanted, disk, added, kept>>

-----------------------------------------------------------------------------
Entries == {DirName(b) : b \in Bags} \cup OtherEntries

StorageStep(b) == Download(b) \/ ContractAdd(b) \/ ContractDrop(b)

ConsoleStep(b) ==
  \/ CmdBagsAdd(b)
  \/ CmdBagsStart(b)
  \/ CmdBagsStop(b)
  \/ CmdBagsRemove(b)
  \/ CmdBagsRemoveWithFiles(b)

CleanerEntry(e) == CleanupSkip(e) \/ CleanupRemove(e) \/ CleanupRemoveFails(e)

Next ==
  \/ \E b \in Bags : StorageStep(b)
  \/ \E b \in Bags : ConsoleStep(b)
  \/ CleanupList
  \/ CleanupScan
  \/ \E e \in Entries : CleanerEntry(e)
  \/ CleanupEnd
  \/ RestartDaemon

\* The cycle's thread keeps running, and a directory that the cycle comes to
\* again and again is not refused by the file system for ever.
Fairness ==
  /\ WF_vars(CleanupList) /\ WF_vars(CleanupScan) /\ WF_vars(CleanupEnd)
  /\ \A e \in Entries : WF_vars(CleanerEntry(e)) /\ SF_vars(CleanupRemove(e))

Spec == Init /\ [][Next]_vars /\ Fairness

-----------------------------------------------------------------------------
(* Properties *)

\* The provider's own files in the directory the cleanup scans (its config with
\* the wallet key, its database) survive every pass.
ProviderDataKept == OtherEntries \subseteq disk

\* The listing a pass works from names every bag of the index except those that
\* entered it since: removals may make it too long, never too short.
ListingCoversIndex ==
  cleaner.pc # "idle" =>
    \A b \in index \ added : Upper(ApiName(b)) \in cleaner.known

\* A bag that stays in the index loses its directory only if it entered the
\* index after the listing the pass works from: the stale listing is the one way
\* for the cleanup (cycle_cleanup_bags) to take the files of a live bag.
LosesOnlyBagsAddedSinceListing ==
  [][\A b \in Bags :
       /\ b \in index /\ b \in index'
       /\ DirName(b) \in disk /\ DirName(b) \notin disk'
       => b \in added]_vars

\* A directory no bag of the index owns does not stay for ever: some pass removes
\* it unless its bag is added again.
OrphansCollected ==
  \A b \in Bags :
    (DirName(b) \in disk /\ b \notin index)
      ~> (DirName(b) \notin disk \/ b \in index)

\* What "bags remove" tells the user: "Files kept on disk". The next pass of the
\* cleanup removes them.
KeptFilesStay == \A b \in kept : DirName(b) \in disk
=============================================================================
