------------------------- MODULE BagCleanup_proofs -------------------------
(* Proofs about BagCleanup for every set of bags, every set of other        *)
(* entries, every spelling of the ids and any number of restarts.           *)
EXTENDS BagCleanup, TLAPS

\* A spelled id is a bag name, and spelling it in upper case keeps its bag.
LEMMA UpperType ==
  /\ \A b \in Bags : ApiName(b) \in BagNames /\ DirName(b) \in BagNames
  /\ \A n \in BagNames : Upper(n) \in BagNames
BY CaseAssumption DEF ApiName, DirName, BagNames, Upper, Cases

\* However the API and the file system spell a bag, str.upper brings the two
\* spellings together (the comparison in cycle_cleanup_bags).
LEMMA UpperAgrees == \A b \in Bags : Upper(ApiName(b)) = Upper(DirName(b))
BY DEF ApiName, DirName, Upper

LEMMA KnownNamesType == index \subseteq Bags => KnownNames \subseteq BagNames
BY UpperType DEF KnownNames

\* No directory of a bag is one of the other entries.
LEMMA NamesApart == \A b \in Bags : DirName(b) \notin OtherEntries
BY UpperType, EntryAssumption

-----------------------------------------------------------------------------
\* The steps of the specification keep every variable in its type.
LEMMA TypeInvariant == TypeOK /\ [Next]_vars => TypeOK'
<1> SUFFICES ASSUME TypeOK, [Next]_vars PROVE TypeOK'
  OBVIOUS
<1> USE DEF TypeOK
<1>1. ASSUME NEW b \in Bags, NEW all \in BOOLEAN, ApiAdd(b, all) PROVE TypeOK'
  BY <1>1 DEF ApiAdd
<1>2. ASSUME NEW b \in Bags, NEW files \in BOOLEAN, ApiRemove(b, files),
             kept' \subseteq kept \cup {b}
      PROVE TypeOK'
  BY <1>2 DEF ApiRemove
<1>3. ASSUME NEW b \in Bags, StorageStep(b) PROVE TypeOK'
  <2>1. CASE Download(b)
    BY <2>1, UpperType DEF Download
  <2>2. CASE ContractAdd(b)
    BY <2>2, <1>1 DEF ContractAdd
  <2>3. CASE ContractDrop(b)
    BY <2>3, <1>2 DEF ContractDrop
  <2> QED
    BY <1>3, <2>1, <2>2, <2>3 DEF StorageStep
<1>4. ASSUME NEW b \in Bags, ConsoleStep(b) PROVE TypeOK'
  <2>1. CASE CmdBagsAdd(b)
    BY <2>1, <1>1 DEF CmdBagsAdd
  <2>2. CASE CmdBagsStart(b)
    BY <2>2, <1>1 DEF CmdBagsStart
  <2>3. CASE CmdBagsStop(b)
    BY <2>3 DEF CmdBagsStop
  <2>4. CASE CmdBagsRemove(b)
    BY <2>4, <1>2 DEF CmdBagsRemove
  <2>5. CASE CmdBagsRemoveWithFiles(b)
    BY <2>5, <1>2 DEF CmdBagsRemoveWithFiles
  <2> QED
    BY <1>4, <2>1, <2>2, <2>3, <2>4, <2>5 DEF ConsoleStep
<1>5. CASE CleanupList
  BY <1>5, KnownNamesType DEF CleanupList
<1>6. CASE CleanupScan
  BY <1>6 DEF CleanupScan
<1>7. ASSUME NEW e \in Entries, CleanerEntry(e) PROVE TypeOK'
  BY <1>7 DEF CleanerEntry, CleanupSkip, CleanupRemove, CleanupRemoveFails, Done
<1>8. CASE CleanupEnd
  BY <1>8 DEF CleanupEnd, Idle
<1>9. CASE RestartDaemon
  BY <1>9, RestartAssumption DEF RestartDaemon, Idle
<1>10. CASE UNCHANGED vars
  BY <1>10 DEF vars
<1> QED
  BY <1>3, <1>4, <1>5, <1>6, <1>7, <1>8, <1>9, <1>10 DEF Next

LEMMA InitType == Init => TypeOK
BY UpperType, RestartAssumption DEF Init, TypeOK, Idle

\* Every reachable state is well typed.
THEOREM TypeCorrect == Spec => []TypeOK
BY InitType, TypeInvariant, PTL DEF Spec

-----------------------------------------------------------------------------
\* The provider's own files survive every pass of the cleanup: an entry that is
\* no bag id is never an orphan.
THEOREM ProviderDataSafe == Spec => []ProviderDataKept
<1>1. Init => ProviderDataKept
  BY DEF Init, ProviderDataKept
<1>2. TypeOK /\ ProviderDataKept /\ [Next]_vars => ProviderDataKept'
  <2> SUFFICES ASSUME TypeOK, ProviderDataKept, [Next]_vars
               PROVE ProviderDataKept'
    OBVIOUS
  <2> USE DEF ProviderDataKept
  <2>1. ASSUME NEW b \in Bags, StorageStep(b) PROVE ProviderDataKept'
    BY <2>1, NamesApart
    DEF StorageStep, Download, ContractAdd, ContractDrop, ApiAdd, ApiRemove
  <2>2. ASSUME NEW b \in Bags, ConsoleStep(b) PROVE ProviderDataKept'
    BY <2>2, NamesApart
    DEF ConsoleStep, CmdBagsAdd, CmdBagsStart, CmdBagsStop, CmdBagsRemove,
        CmdBagsRemoveWithFiles, ApiAdd, ApiRemove
  <2>3. ASSUME NEW e \in Entries, CleanerEntry(e) PROVE ProviderDataKept'
    BY <2>3, EntryAssumption
    DEF CleanerEntry, CleanupSkip, CleanupRemove, CleanupRemoveFails, Orphan
  <2>4. CASE CleanupList \/ CleanupScan \/ CleanupEnd \/ RestartDaemon
    BY <2>4 DEF CleanupList, CleanupScan, CleanupEnd, RestartDaemon
  <2>5. CASE UNCHANGED vars
    BY <2>5 DEF vars
  <2> QED
    BY <2>1, <2>2, <2>3, <2>4, <2>5 DEF Next
<1> QED
  BY <1>1, <1>2, TypeCorrect, PTL DEF Spec

-----------------------------------------------------------------------------
\* One step keeps the listing complete up to the bags added since.
LEMMA ListingStep ==
  TypeOK /\ ListingCoversIndex /\ [Next]_vars => ListingCoversIndex'
<1> SUFFICES ASSUME TypeOK, ListingCoversIndex, [Next]_vars
             PROVE ListingCoversIndex'
  OBVIOUS
<1> USE DEF TypeOK, ListingCoversIndex
<1>1. ASSUME NEW b \in Bags, NEW all \in BOOLEAN, ApiAdd(b, all)
      PROVE ListingCoversIndex'
  <2> SUFFICES ASSUME cleaner'.pc # "idle", NEW a \in index' \ added'
               PROVE Upper(ApiName(a)) \in cleaner'.known
    BY DEF Upper, ApiName
  <2>1. a \in index \ added /\ cleaner' = cleaner
    BY <1>1 DEF ApiAdd
  <2> QED
    BY <2>1
<1>2. ASSUME NEW b \in Bags, NEW files \in BOOLEAN, ApiRemove(b, files)
      PROVE ListingCoversIndex'
  BY <1>2 DEF ApiRemove, Upper, ApiName
<1>3. ASSUME NEW b \in Bags, StorageStep(b) PROVE ListingCoversIndex'
  <2>1. CASE Download(b)
    BY <2>1 DEF Download, Upper, ApiName
  <2>2. CASE ContractAdd(b) \/ ContractDrop(b)
    BY <2>2, <1>1, <1>2 DEF ContractAdd, ContractDrop
  <2> QED
    BY <1>3, <2>1, <2>2 DEF StorageStep
<1>4. ASSUME NEW b \in Bags, ConsoleStep(b) PROVE ListingCoversIndex'
  <2>1. CASE CmdBagsStop(b)
    BY <2>1 DEF CmdBagsStop, Upper, ApiName
  <2>2. CASE CmdBagsAdd(b) \/ CmdBagsStart(b)
    BY <2>2, <1>1 DEF CmdBagsAdd, CmdBagsStart
  <2>3. CASE CmdBagsRemove(b) \/ CmdBagsRemoveWithFiles(b)
    BY <2>3, <1>2 DEF CmdBagsRemove, CmdBagsRemoveWithFiles
  <2> QED
    BY <1>4, <2>1, <2>2, <2>3 DEF ConsoleStep
<1>5. CASE CleanupList
  BY <1>5 DEF CleanupList, KnownNames, Upper, ApiName
<1>6. CASE CleanupScan
  BY <1>6 DEF CleanupScan, Upper, ApiName
<1>7. ASSUME NEW e \in Entries, CleanerEntry(e) PROVE ListingCoversIndex'
  BY <1>7 DEF CleanerEntry, CleanupSkip, CleanupRemove, CleanupRemoveFails, Done,
              Upper, ApiName
<1>8. CASE CleanupEnd \/ RestartDaemon
  BY <1>8 DEF CleanupEnd, RestartDaemon, Idle
<1>9. CASE UNCHANGED vars
  BY <1>9 DEF vars, Upper, ApiName
<1> QED
  BY <1>3, <1>4, <1>5, <1>6, <1>7, <1>8, <1>9 DEF Next

\* The listing of a pass in progress names every bag of the index that was there
\* when it was taken.
THEOREM ListingComplete == Spec => []ListingCoversIndex
<1>1. Init => ListingCoversIndex
  BY DEF Init, ListingCoversIndex, Idle
<1> QED
  BY <1>1, ListingStep, TypeCorrect, PTL DEF Spec

\* The stale listing is the one way for the cleanup to take the directory of a
\* bag that stays in the index.
THEOREM OnlyLateBagsLoseFiles == Spec => LosesOnlyBagsAddedSinceListing
<1> DEFINE Late ==
      \A b \in Bags :
        /\ b \in index /\ b \in index'
        /\ DirName(b) \in disk /\ DirName(b) \notin disk'
        => b \in added
<1>1. TypeOK /\ ListingCoversIndex /\ [Next]_vars => [Late]_vars
  <2> SUFFICES ASSUME TypeOK, ListingCoversIndex, Next,
                      NEW b \in Bags, b \in index, b \in index',
                      DirName(b) \in disk, DirName(b) \notin disk'
               PROVE b \in added
    OBVIOUS
  <2>1. \A a \in Bags : DirName(a) = DirName(b) => a = b
    BY DEF DirName
  <2>2. ASSUME NEW a \in Bags, StorageStep(a) PROVE FALSE
    BY <2>1, <2>2
    DEF StorageStep, Download, ContractAdd, ContractDrop, ApiAdd, ApiRemove, TypeOK
  <2>3. ASSUME NEW a \in Bags, ConsoleStep(a) PROVE FALSE
    BY <2>1, <2>3
    DEF ConsoleStep, CmdBagsAdd, CmdBagsStart, CmdBagsStop, CmdBagsRemove,
        CmdBagsRemoveWithFiles, ApiAdd, ApiRemove, TypeOK
  <2>4. ASSUME NEW e \in Entries, CleanerEntry(e) PROVE b \in added
    <3>1. CleanupRemove(e) /\ e = DirName(b)
      BY <2>4 DEF CleanerEntry, CleanupSkip, CleanupRemove, CleanupRemoveFails
    <3>2. Upper(ApiName(b)) \notin cleaner.known /\ cleaner.pc = "sweep"
      BY <3>1, UpperAgrees DEF CleanupRemove, Orphan, Done
    <3> QED
      BY <3>2 DEF ListingCoversIndex
  <2>5. ~ (CleanupList \/ CleanupScan \/ CleanupEnd \/ RestartDaemon)
    BY DEF CleanupList, CleanupScan, CleanupEnd, RestartDaemon
  <2> QED
    BY <2>2, <2>3, <2>4, <2>5 DEF Next
<1> QED
  BY <1>1, TypeCorrect, ListingComplete, PTL
  DEF Spec, LosesOnlyBagsAddedSinceListing
=============================================================================
