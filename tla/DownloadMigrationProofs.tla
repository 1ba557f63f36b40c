---------------------- MODULE DownloadMigrationProofs ----------------------
(***************************************************************************)
(* Proofs about DownloadMigration, for every set of folders, file names    *)
(* and contents and for every bound on edits and faults.                   *)
(***************************************************************************)
EXTENDS DownloadMigration, TLAPS

-----------------------------------------------------------------------------
(* The inductive invariant. *)

\* Where the process is agrees with the stage of the journal on disk.
PhaseOK ==
    /\ pc \in PreJournal => journal.stage = "none"
    /\ pc \in Copying => journal.stage = "copying"
    /\ pc \in Committing => journal.stage = "verified"
    /\ pc \in Cleaning => journal.stage = "cleanup"
    /\ pc \in Copying \cup Committing \cup Cleaning
         => todo \subseteq journal.files
    /\ pc \in {"lookup", "stage", "place", "unlink"} => file \in journal.files

\* Which folder each of the two copies of the setting names, stage by stage.
FoldersOK ==
    /\ Pending => Source # Dest
    /\ pc \in PreJournal => target # memPath
    /\ journal.stage = "copying" => savedPath = Source
    /\ journal.stage = "cleanup" => savedPath = Dest
    /\ pc # "off" /\ journal.stage \in {"none", "copying"} => memPath = savedPath
    /\ pc # "off" /\ journal.stage = "cleanup" => memPath = Dest
    /\ journal.stage = "verified" => savedPath \in {Source, Dest}
    /\ pc \in {"commit", "committed"} => memPath = Dest
    /\ pc = "committed" => savedPath = Dest

\* A folder holds f as the library did; a staging copy may have come on top.
Holds(d, f) == lib[f] # Absent \/ f \notin Partials => disk[d][f] = lib[f]

\* What the two folders hold, but for touched files.
FilesOK ==
    \A f \in Files \ touched :
      /\ Holds(savedPath, f)
      /\ pc \in PreJournal => disk[savedPath][f] = lib[f]
      /\ pc \in {"inventory", "write"} => disk[target][f] = Absent
      /\ pc = "write" => (f \in found <=> lib[f] # Absent)
      /\ Pending /\ f \in journal.files => lib[f] # Absent
      /\ Pending /\ f \notin journal.files
           => /\ lib[f] = Absent
              /\ f \notin Partials => disk[Dest][f] = Absent
      /\ journal.stage \in {"copying", "verified"} => disk[Source][f] = lib[f]
      /\ pc = "reverify" /\ f \notin todo => Holds(Dest, f)
      /\ pc \in {"commit", "committed"} => Holds(Dest, f)

\* The file being staged was absent when migrate looked for it, and its
\* staging copy has a name of its own.
StagingOK ==
    /\ pc \in {"stage", "place"} /\ file \notin late => disk[Dest][file] = Absent
    /\ pc = "place" => staging \in Partials \ journal.files

IInv == TypeOK /\ PhaseOK /\ FoldersOK /\ FilesOK /\ StagingOK

USE DEF Holds, NoJournal, Over, Data, Folder, Stages, PreJournal, Copying, Committing, Cleaning,
        Working, Pending, Source, Dest, InFolder, Unhashed

-----------------------------------------------------------------------------
LEMMA InitIInv == Init => IInv
<1> SUFFICES ASSUME Init PROVE IInv
  OBVIOUS
<1>1. TypeOK
  <2>1. edits \in 0..MaxEdits /\ faults \in 0..MaxFaults
    BY BoundsAssumption DEF Init
  <2>2. Unhashed \in Folder /\ lib \in Folder
    BY DEF Init
  <2>3. journal \in [stage : Stages, source : Dirs, destination : Dirs,
                     files : SUBSET Files, hash : Folder]
    BY <2>2 DEF Init
  <2> QED
    BY <2>1, <2>2, <2>3 DEF Init, TypeOK
<1>2. PhaseOK /\ FoldersOK
  BY DEF Init, PhaseOK, FoldersOK
<1>3. FilesOK /\ StagingOK
  BY DEF Init, FilesOK, StagingOK
<1> QED
  BY <1>1, <1>2, <1>3 DEF IInv

\* A throw leaves the persistent state alone.
LEMMA ThrowIInv ==
  ASSUME IInv, pc \in Working, Throw,
         edits' \in 0..MaxEdits, faults' \in 0..MaxFaults
  PROVE  IInv'
<1> USE DEF Throw, persistent, call, history
<1>1. TypeOK'
  BY DEF IInv, TypeOK
<1>2. PhaseOK'
  BY DEF IInv, TypeOK, PhaseOK
<1>3. FoldersOK'
  BY DEF IInv, TypeOK, FoldersOK
<1>4. FilesOK'
  BY DEF IInv, TypeOK, FilesOK
<1>5. StagingOK'
  BY DEF IInv, TypeOK, StagingOK
<1> QED
  BY <1>1, <1>2, <1>3, <1>4, <1>5 DEF IInv

\* Every other step, one lemma per action.
LEMMA BootIInv ==
  ASSUME IInv, Boot
  PROVE  IInv'
<1> USE DEF Boot, Resume, persistent, loop, call, history, bounds
<1>1. TypeOK'
  BY BoundsAssumption DEF IInv, TypeOK
<1>2. PhaseOK'
  BY DEF IInv, TypeOK, PhaseOK
<1>3. FoldersOK'
  BY DEF IInv, TypeOK, PhaseOK, FoldersOK
<1>4. FilesOK'
  BY DEF IInv, TypeOK, PhaseOK, FoldersOK, FilesOK
<1>5. StagingOK'
  BY DEF IInv, TypeOK, StagingOK
<1> QED
  BY <1>1, <1>2, <1>3, <1>4, <1>5 DEF IInv

LEMMA ChooseIInv ==
  ASSUME NEW d \in Dirs, IInv, Choose(d)
  PROVE  IInv'
<1> USE DEF Choose, Resume, persistent, loop, call, history, bounds
<1>1. TypeOK'
  BY BoundsAssumption DEF IInv, TypeOK
<1>2. PhaseOK'
  BY DEF IInv, TypeOK, PhaseOK
<1>3. FoldersOK'
  BY DEF IInv, TypeOK, PhaseOK, FoldersOK
<1>4. FilesOK'
  BY DEF IInv, TypeOK, PhaseOK, FoldersOK, FilesOK
<1>5. StagingOK'
  BY DEF IInv, TypeOK, StagingOK
<1> QED
  BY <1>1, <1>2, <1>3, <1>4, <1>5 DEF IInv

LEMMA QuitIInv ==
  ASSUME IInv, Quit
  PROVE  IInv'
<1> USE DEF Quit, persistent, loop, call, history, bounds
<1>1. TypeOK'
  BY BoundsAssumption DEF IInv, TypeOK
<1>2. PhaseOK'
  BY DEF IInv, TypeOK, PhaseOK
<1>3. FoldersOK'
  BY DEF IInv, TypeOK, PhaseOK, FoldersOK
<1>4. FilesOK'
  BY DEF IInv, TypeOK, PhaseOK, FoldersOK, FilesOK
<1>5. StagingOK'
  BY DEF IInv, TypeOK, StagingOK
<1> QED
  BY <1>1, <1>2, <1>3, <1>4, <1>5 DEF IInv

LEMMA CheckEmptyIInv ==
  ASSUME IInv, CheckEmpty, ~ Throw
  PROVE  IInv'
<1> USE DEF CheckEmpty, persistent, loop, call, history, bounds
<1>1. TypeOK'
  BY BoundsAssumption DEF IInv, TypeOK
<1>2. PhaseOK'
  BY DEF IInv, TypeOK, PhaseOK
<1>3. FoldersOK'
  BY DEF IInv, TypeOK, PhaseOK, FoldersOK
<1>4. FilesOK'
  BY DEF IInv, TypeOK, PhaseOK, FoldersOK, FilesOK
<1>5. StagingOK'
  BY DEF IInv, TypeOK, StagingOK
<1> QED
  BY <1>1, <1>2, <1>3, <1>4, <1>5 DEF IInv

LEMMA InventoryIInv ==
  ASSUME IInv, Inventory
  PROVE  IInv'
<1> USE DEF Inventory, persistent, loop, call, history, bounds
<1>1. TypeOK'
  BY BoundsAssumption DEF IInv, TypeOK
<1>2. PhaseOK'
  BY DEF IInv, TypeOK, PhaseOK
<1>3. FoldersOK'
  BY DEF IInv, TypeOK, PhaseOK, FoldersOK
<1>4. FilesOK'
  BY DEF IInv, TypeOK, PhaseOK, FoldersOK, FilesOK
<1>5. StagingOK'
  BY DEF IInv, TypeOK, StagingOK
<1> QED
  BY <1>1, <1>2, <1>3, <1>4, <1>5 DEF IInv

LEMMA WriteJournalIInv ==
  ASSUME IInv, WriteJournal
  PROVE  IInv'
<1> USE DEF WriteJournal, persistent, loop, call, history, bounds
<1>1. TypeOK'
  BY BoundsAssumption DEF IInv, TypeOK
<1>2. PhaseOK'
  BY DEF IInv, TypeOK, PhaseOK
<1>3. FoldersOK'
  BY DEF IInv, TypeOK, PhaseOK, FoldersOK
<1>4. FilesOK'
  BY DEF IInv, TypeOK, PhaseOK, FoldersOK, FilesOK
<1>5. StagingOK'
  BY DEF IInv, TypeOK, StagingOK
<1> QED
  BY <1>1, <1>2, <1>3, <1>4, <1>5 DEF IInv

LEMMA DigestOriginalIInv ==
  ASSUME NEW f \in Files, IInv, DigestOriginal(f), ~ Throw
  PROVE  IInv'
<1> USE DEF DigestOriginal, persistent, loop, call, history, bounds
<1>1. TypeOK'
  BY BoundsAssumption DEF IInv, TypeOK
<1>2. PhaseOK'
  BY DEF IInv, TypeOK, PhaseOK
<1>3. FoldersOK'
  BY DEF IInv, TypeOK, PhaseOK, FoldersOK
<1>4. FilesOK'
  BY DEF IInv, TypeOK, PhaseOK, FoldersOK, FilesOK
<1>5. StagingOK'
  BY DEF IInv, TypeOK, StagingOK
<1> QED
  BY <1>1, <1>2, <1>3, <1>4, <1>5 DEF IInv

LEMMA FindExistingIInv ==
  ASSUME IInv, FindExisting, ~ Throw
  PROVE  IInv'
<1> USE DEF FindExisting, Copied, persistent, loop, call, history, bounds
<1>1. TypeOK'
  BY BoundsAssumption DEF IInv, TypeOK
<1>2. PhaseOK'
  BY DEF IInv, TypeOK, PhaseOK
<1>3. FoldersOK'
  BY DEF IInv, TypeOK, PhaseOK, FoldersOK
<1>4. FilesOK'
  BY DEF IInv, TypeOK, PhaseOK, FoldersOK, FilesOK
<1>5. StagingOK'
  BY DEF IInv, TypeOK, StagingOK
<1> QED
  BY <1>1, <1>2, <1>3, <1>4, <1>5 DEF IInv

\* A staging copy lands under a name that neither library nor journal has.
LEMMA StageIInv ==
  ASSUME IInv, NEW c \in Contents, Stage(c),
         edits' \in 0..MaxEdits, faults' \in 0..MaxFaults
  PROVE  IInv'
<1> DEFINE p == staging'
<1> USE DEF persistent, call, history
<1>1. /\ p \in Partials /\ p \in Files /\ p \notin journal.files
      /\ \A d \in Dirs : disk[d][p] = Absent
  BY PartialsAssumption DEF Stage, Fresh
<1>2. disk' = [disk EXCEPT ![Dest][p] = c] /\ Dest \in Dirs /\ Source \in Dirs
  BY DEF Stage, IInv, TypeOK
<1>3. \A d \in Dirs, f \in Files :
        disk'[d][f] = IF d = Dest /\ f = p THEN c ELSE disk[d][f]
  BY <1>2 DEF IInv, TypeOK
<1>4. /\ pc = "stage" /\ pc' = "place" /\ journal.stage = "copying"
      /\ Source # Dest /\ savedPath = Source
      /\ UNCHANGED <<journal, savedPath, memPath, booting, target, found, todo,
                     file, original, hash, lib, touched, late>>
  BY DEF Stage, IInv, PhaseOK, FoldersOK
<1>5. TypeOK'
  <2>1. disk' \in [Dirs -> Folder]
    BY <1>1, <1>2 DEF IInv, TypeOK
  <2> QED
    BY <2>1, <1>1, <1>4 DEF IInv, TypeOK
<1>6. PhaseOK'
  BY <1>4 DEF IInv, PhaseOK
<1>7. FoldersOK'
  BY <1>4 DEF IInv, FoldersOK
<1>8. FilesOK'
  <2> SUFFICES ASSUME NEW f \in Files \ touched
               PROVE  /\ disk'[savedPath][f] = disk[savedPath][f]
                      /\ f \notin Partials => disk'[Dest][f] = disk[Dest][f]
    BY <1>4 DEF IInv, TypeOK, FilesOK
  <2> QED
    BY <1>1, <1>3, <1>4 DEF IInv, TypeOK
<1>9. StagingOK'
  <2>1. file \in journal.files /\ file \in Files
    BY <1>4 DEF IInv, PhaseOK, TypeOK
  <2>2. disk'[Dest][file] = disk[Dest][file]
    BY <1>1, <1>3, <2>1 DEF IInv, TypeOK
  <2> QED
    BY <1>1, <1>4, <2>2 DEF IInv, StagingOK
<1> QED
  BY <1>5, <1>6, <1>7, <1>8, <1>9 DEF IInv

LEMMA StageCopyIInv ==
  ASSUME IInv, StageCopy, ~ Throw
  PROVE  IInv'
<1>1. disk[Source][file] \in Contents /\ Stage(disk[Source][file])
  BY DEF StageCopy, IInv, PhaseOK, TypeOK
<1> QED
  BY <1>1, StageIInv DEF StageCopy, bounds, IInv, TypeOK

LEMMA TornCopyIInv ==
  ASSUME IInv, TornCopy
  PROVE  IInv'
<1>1. PICK c \in Contents : Stage(c)
  BY DEF TornCopy
<1>2. edits' \in 0..MaxEdits /\ faults' \in 0..MaxFaults
  BY BoundsAssumption DEF TornCopy, IInv, TypeOK
<1> QED
  BY <1>1, <1>2, StageIInv

LEMMA PlaceCopyIInv ==
  ASSUME IInv, PlaceCopy, ~ Throw
  PROVE  IInv'
<1> USE DEF PlaceCopy, Copied, persistent, loop, call, history, bounds
<1>1. TypeOK'
  BY BoundsAssumption DEF IInv, TypeOK
<1>2. PhaseOK'
  BY DEF IInv, TypeOK, PhaseOK
<1>3. FoldersOK'
  BY DEF IInv, TypeOK, PhaseOK, FoldersOK
<1>4. FilesOK'
  BY DEF IInv, TypeOK, PhaseOK, FoldersOK, FilesOK
<1>5. StagingOK'
  BY DEF IInv, TypeOK, StagingOK
<1> QED
  BY <1>1, <1>2, <1>3, <1>4, <1>5 DEF IInv

LEMMA CopiesDoneIInv ==
  ASSUME IInv, CopiesDone
  PROVE  IInv'
<1> USE DEF CopiesDone, persistent, loop, call, history, bounds
<1>1. TypeOK'
  BY BoundsAssumption DEF IInv, TypeOK
<1>2. PhaseOK'
  BY DEF IInv, TypeOK, PhaseOK
<1>3. FoldersOK'
  BY DEF IInv, TypeOK, PhaseOK, FoldersOK
<1>4. FilesOK'
  BY DEF IInv, TypeOK, PhaseOK, FoldersOK, FilesOK
<1>5. StagingOK'
  BY DEF IInv, TypeOK, StagingOK
<1> QED
  BY <1>1, <1>2, <1>3, <1>4, <1>5 DEF IInv

LEMMA RecheckFileIInv ==
  ASSUME NEW at \in {"recheck", "reverify"}, NEW f \in Files, IInv, RecheckFile(at, f), ~ Throw
  PROVE  IInv'
<1> USE DEF RecheckFile, Matches, persistent, loop, call, history, bounds
<1>1. TypeOK'
  BY BoundsAssumption DEF IInv, TypeOK
<1>2. PhaseOK'
  BY DEF IInv, TypeOK, PhaseOK
<1>3. FoldersOK'
  BY DEF IInv, TypeOK, PhaseOK, FoldersOK
<1>4. FilesOK'
  BY DEF IInv, TypeOK, PhaseOK, FoldersOK, FilesOK
<1>5. StagingOK'
  BY DEF IInv, TypeOK, StagingOK
<1> QED
  BY <1>1, <1>2, <1>3, <1>4, <1>5 DEF IInv

LEMMA WriteVerifiedIInv ==
  ASSUME IInv, WriteVerified
  PROVE  IInv'
<1> USE DEF WriteVerified, persistent, loop, call, history, bounds
<1>1. TypeOK'
  BY BoundsAssumption DEF IInv, TypeOK
<1>2. PhaseOK'
  BY DEF IInv, TypeOK, PhaseOK
<1>3. FoldersOK'
  BY DEF IInv, TypeOK, PhaseOK, FoldersOK
<1>4. FilesOK'
  BY DEF IInv, TypeOK, PhaseOK, FoldersOK, FilesOK
<1>5. StagingOK'
  BY DEF IInv, TypeOK, StagingOK
<1> QED
  BY <1>1, <1>2, <1>3, <1>4, <1>5 DEF IInv

LEMMA CommitMemoryIInv ==
  ASSUME IInv, CommitMemory
  PROVE  IInv'
<1> USE DEF CommitMemory, persistent, loop, call, history, bounds
<1>1. TypeOK'
  BY BoundsAssumption DEF IInv, TypeOK
<1>2. PhaseOK'
  BY DEF IInv, TypeOK, PhaseOK
<1>3. FoldersOK'
  BY DEF IInv, TypeOK, PhaseOK, FoldersOK
<1>4. FilesOK'
  BY DEF IInv, TypeOK, PhaseOK, FoldersOK, FilesOK
<1>5. StagingOK'
  BY DEF IInv, TypeOK, StagingOK
<1> QED
  BY <1>1, <1>2, <1>3, <1>4, <1>5 DEF IInv

LEMMA CommitSettingsIInv ==
  ASSUME IInv, CommitSettings
  PROVE  IInv'
<1> USE DEF CommitSettings, persistent, loop, call, history, bounds
<1>1. TypeOK'
  BY BoundsAssumption DEF IInv, TypeOK
<1>2. PhaseOK'
  BY DEF IInv, TypeOK, PhaseOK
<1>3. FoldersOK'
  BY DEF IInv, TypeOK, PhaseOK, FoldersOK
<1>4. FilesOK'
  BY DEF IInv, TypeOK, PhaseOK, FoldersOK, FilesOK
<1>5. StagingOK'
  BY DEF IInv, TypeOK, StagingOK
<1> QED
  BY <1>1, <1>2, <1>3, <1>4, <1>5 DEF IInv

LEMMA WriteCleanupIInv ==
  ASSUME IInv, WriteCleanup
  PROVE  IInv'
<1> USE DEF WriteCleanup, persistent, loop, call, history, bounds
<1>1. TypeOK'
  BY BoundsAssumption DEF IInv, TypeOK
<1>2. PhaseOK'
  BY DEF IInv, TypeOK, PhaseOK
<1>3. FoldersOK'
  BY DEF IInv, TypeOK, PhaseOK, FoldersOK
<1>4. FilesOK'
  BY DEF IInv, TypeOK, PhaseOK, FoldersOK, FilesOK
<1>5. StagingOK'
  BY DEF IInv, TypeOK, StagingOK
<1> QED
  BY <1>1, <1>2, <1>3, <1>4, <1>5 DEF IInv

LEMMA CheckOriginalIInv ==
  ASSUME NEW f \in Files, IInv, CheckOriginal(f), ~ Throw
  PROVE  IInv'
<1> USE DEF CheckOriginal, Matches, persistent, loop, call, history, bounds
<1>1. TypeOK'
  BY BoundsAssumption DEF IInv, TypeOK
<1>2. PhaseOK'
  BY DEF IInv, TypeOK, PhaseOK
<1>3. FoldersOK'
  BY DEF IInv, TypeOK, PhaseOK, FoldersOK
<1>4. FilesOK'
  BY DEF IInv, TypeOK, PhaseOK, FoldersOK, FilesOK
<1>5. StagingOK'
  BY DEF IInv, TypeOK, StagingOK
<1> QED
  BY <1>1, <1>2, <1>3, <1>4, <1>5 DEF IInv

LEMMA UnlinkIInv ==
  ASSUME IInv, Unlink, ~ Throw
  PROVE  IInv'
<1> USE DEF Unlink, persistent, loop, call, history, bounds
<1>1. TypeOK'
  BY BoundsAssumption DEF IInv, TypeOK
<1>2. PhaseOK'
  BY DEF IInv, TypeOK, PhaseOK
<1>3. FoldersOK'
  BY DEF IInv, TypeOK, PhaseOK, FoldersOK
<1>4. FilesOK'
  BY DEF IInv, TypeOK, PhaseOK, FoldersOK, FilesOK
<1>5. StagingOK'
  BY DEF IInv, TypeOK, StagingOK
<1> QED
  BY <1>1, <1>2, <1>3, <1>4, <1>5 DEF IInv

LEMMA FinishIInv ==
  ASSUME IInv, Finish
  PROVE  IInv'
<1> USE DEF Finish, persistent, loop, call, history, bounds
<1>1. TypeOK'
  BY BoundsAssumption DEF IInv, TypeOK
<1>2. PhaseOK'
  BY DEF IInv, TypeOK, PhaseOK
<1>3. FoldersOK'
  BY DEF IInv, TypeOK, PhaseOK, FoldersOK
<1>4. FilesOK'
  BY DEF IInv, TypeOK, PhaseOK, FoldersOK, FilesOK
<1>5. StagingOK'
  BY DEF IInv, TypeOK, StagingOK
<1> QED
  BY <1>1, <1>2, <1>3, <1>4, <1>5 DEF IInv

LEMMA CrashIInv ==
  ASSUME IInv, Crash
  PROVE  IInv'
<1> USE DEF Crash, persistent, loop, call, history, bounds
<1>1. TypeOK'
  <2>1. faults' \in 0..MaxFaults
    BY BoundsAssumption DEF IInv, TypeOK
  <2> QED
    BY <2>1 DEF IInv, TypeOK
<1>2. PhaseOK'
  BY DEF IInv, TypeOK, PhaseOK
<1>3. FoldersOK'
  BY DEF IInv, TypeOK, PhaseOK, FoldersOK
<1>4. FilesOK'
  BY DEF IInv, TypeOK, PhaseOK, FoldersOK, FilesOK
<1>5. StagingOK'
  BY DEF IInv, TypeOK, StagingOK
<1> QED
  BY <1>1, <1>2, <1>3, <1>4, <1>5 DEF IInv

LEMMA EditIInv ==
  ASSUME NEW d \in Dirs, NEW f \in Files, NEW c \in Data, IInv, Edit(d, f, c)
  PROVE  IInv'
<1> USE DEF Edit, persistent, loop, call, history, bounds
<1>1. TypeOK'
  BY BoundsAssumption DEF IInv, TypeOK
<1>2. PhaseOK'
  BY DEF IInv, TypeOK, PhaseOK
<1>3. FoldersOK'
  BY DEF IInv, TypeOK, PhaseOK, FoldersOK
<1>4. FilesOK'
  BY DEF IInv, TypeOK, PhaseOK, FoldersOK, FilesOK
<1>5. StagingOK'
  BY DEF IInv, TypeOK, StagingOK
<1> QED
  BY <1>1, <1>2, <1>3, <1>4, <1>5 DEF IInv

\* Unless it throws, a step of the program is one of the steps above.
LEMMA ProgramIInv ==
  ASSUME IInv, Program
  PROVE  IInv'
<1>1. CASE Boot
  BY <1>1, BootIInv
<1>2. CASE \E d \in Dirs : Choose(d)
  BY <1>2, ChooseIInv
<1>3. CASE Quit
  BY <1>3, QuitIInv
<1>4. CASE Migrate
  <2>1. CASE ~ Throw
    <3>1. CASE \E f \in Files : DigestOriginal(f) \/ CheckOriginal(f)
      BY <2>1, <3>1, DigestOriginalIInv, CheckOriginalIInv
    <3>2. CASE \E at \in {"recheck", "reverify"}, f \in Files : RecheckFile(at, f)
      BY <2>1, <3>2, RecheckFileIInv
    <3> QED
      BY <1>4, <2>1, <3>1, <3>2, CheckEmptyIInv, InventoryIInv, WriteJournalIInv,
         FindExistingIInv, StageCopyIInv, PlaceCopyIInv, CopiesDoneIInv,
         WriteVerifiedIInv, CommitMemoryIInv, CommitSettingsIInv,
         WriteCleanupIInv, UnlinkIInv, FinishIInv
      DEF Migrate
  <2>2. CASE Throw
    <3>1. pc \in Working
      BY <1>4 DEF Migrate, CheckEmpty, Inventory, WriteJournal, DigestOriginal,
         FindExisting, StageCopy, PlaceCopy, CopiesDone, RecheckFile,
         WriteVerified, CommitMemory, CommitSettings, WriteCleanup,
         CheckOriginal, Unlink, Finish
    <3>2. UNCHANGED bounds
      BY <1>4 DEF Migrate, CheckEmpty, Inventory, WriteJournal, DigestOriginal,
         FindExisting, StageCopy, PlaceCopy, CopiesDone, RecheckFile,
         WriteVerified, CommitMemory, CommitSettings, WriteCleanup,
         CheckOriginal, Unlink, Finish
    <3> QED
      BY <2>2, <3>1, <3>2, ThrowIInv DEF bounds, IInv, TypeOK
  <2> QED
    BY <2>1, <2>2
<1> QED
  BY <1>1, <1>2, <1>3, <1>4 DEF Program

LEMMA EnvironmentIInv ==
  ASSUME IInv, Environment
  PROVE  IInv'
<1>1. CASE TornCopy
  BY <1>1, TornCopyIInv
<1>2. CASE Crash
  BY <1>2, CrashIInv
<1>3. CASE IOError
  <2>1. edits' \in 0..MaxEdits /\ faults' \in 0..MaxFaults
    BY <1>3, BoundsAssumption DEF IOError, IInv, TypeOK
  <2> QED
    BY <1>3, <2>1, ThrowIInv DEF IOError
<1>4. CASE \E d \in Dirs, f \in Files, c \in Data : Edit(d, f, c)
  BY <1>4, EditIInv
<1> QED
  BY <1>1, <1>2, <1>3, <1>4 DEF Environment

LEMMA StepIInv ==
  ASSUME IInv, [Next]_vars
  PROVE  IInv'
<1>1. CASE Program
  BY <1>1, ProgramIInv
<1>2. CASE Environment
  BY <1>2, EnvironmentIInv
<1>3. CASE UNCHANGED vars
  BY <1>3 DEF vars, persistent, call, loop, history, bounds,
              IInv, TypeOK, PhaseOK, FoldersOK, FilesOK, StagingOK
<1> QED
  BY <1>1, <1>2, <1>3 DEF Next

\* What the journal, the settings and the folders say of each other holds at every
\* await, after every throw and after every crash of migrate.
THEOREM Invariance == Spec => []IInv
<1>1. Init => IInv
  BY InitIInv
<1>2. IInv /\ [Next]_vars => IInv'
  BY StepIInv
<1> QED
  BY <1>1, <1>2, PTL DEF Spec

-----------------------------------------------------------------------------
(* What follows from the invariant. *)

\* Type correctness: every variable of the mover keeps its type in every
\* reachable state.
THEOREM TypeCorrect == Spec => []TypeOK
  BY Invariance, PTL DEF IInv

\* The folder named in the settings file is complete at every instant of a
\* move, whatever crash or error interrupts it.
THEOREM LibraryAlwaysServed == Spec => []ServedComplete
<1>1. IInv => ServedComplete
  BY DEF IInv, FilesOK, ServedComplete
<1> QED
  BY <1>1, Invariance, PTL

\* The running program and the settings file name the same folder whenever
\* no move is unfinished.
THEOREM PathsAlwaysAgree == Spec => []PathsAgree
<1>1. IInv => PathsAgree
  BY DEF IInv, TypeOK, FoldersOK, PathsAgree
<1> QED
  BY <1>1, Invariance, PTL

\* Of the steps of the program only three write to a download folder.
LEMMA DiskWriters ==
  ASSUME Program, disk' # disk
  PROVE  StageCopy \/ PlaceCopy \/ Unlink
<1>1. ~ Throw
  BY DEF Throw, persistent
<1>2. ~ Boot /\ ~ Quit /\ \A d \in Dirs : ~ Choose(d)
  BY DEF Boot, Quit, Choose, persistent
<1>3. ~ CheckEmpty /\ ~ Inventory /\ ~ WriteJournal
  BY <1>1 DEF CheckEmpty, Inventory, WriteJournal, persistent
<1>4. ~ FindExisting /\ ~ CopiesDone
  BY <1>1 DEF FindExisting, CopiesDone, persistent
<1>5. \A f \in Files : ~ DigestOriginal(f) /\ ~ CheckOriginal(f)
  BY <1>1 DEF DigestOriginal, CheckOriginal, persistent
<1>6. \A f \in Files, at \in {"recheck", "reverify"} : ~ RecheckFile(at, f)
  BY <1>1 DEF RecheckFile, persistent
<1>7. ~ WriteVerified /\ ~ CommitMemory /\ ~ CommitSettings
  BY DEF WriteVerified, CommitMemory, CommitSettings, persistent
<1>8. ~ WriteCleanup /\ ~ Finish
  BY DEF WriteCleanup, Finish
<1> QED
  BY <1>2, <1>3, <1>4, <1>5, <1>6, <1>7, <1>8 DEF Program, Migrate

\* Originals go only after the settings name the verified copies.
THEOREM OriginalsKept == Spec => OriginalsUntilCommit
<1>1. ASSUME IInv, [Next]_vars, NEW f \in Files
      PROVE  OriginalStep(f)
  <2> SUFFICES ASSUME Program, Pending, disk'[Source][f] # disk[Source][f]
               PROVE  /\ savedPath = Dest
                      /\ journal.stage = "cleanup"
                      /\ f \notin touched => disk[Dest][f] = lib[f]
    BY DEF OriginalStep
  <2>1. Unlink
    <3>1. CASE PlaceCopy /\ ~ Throw
      <4>1. disk' = [disk EXCEPT ![Dest][file] = original, ![Dest][staging] = Absent]
        BY <3>1 DEF PlaceCopy
      <4>2. Source # Dest
        BY <1>1 DEF IInv, FoldersOK
      <4> QED
        BY <1>1, <4>1, <4>2 DEF IInv, TypeOK
    <3>2. CASE Throw
      BY <3>2 DEF Throw, persistent
    <3>3. CASE StageCopy /\ ~ Throw
      <4>1. disk' = [disk EXCEPT ![Dest][staging'] = disk[Source][file]]
        BY <3>3 DEF StageCopy, Stage
      <4>2. Source # Dest
        BY <1>1 DEF IInv, FoldersOK
      <4> QED
        BY <1>1, <4>1, <4>2 DEF IInv, TypeOK
    <3> QED
      BY <3>1, <3>2, <3>3, DiskWriters
  <2>2. journal.stage = "cleanup"
    BY <1>1, <2>1 DEF Unlink, IInv, PhaseOK
  <2>3. savedPath = Dest
    BY <1>1, <2>2 DEF IInv, FoldersOK
  <2>4. f = file /\ f \in journal.files
    <3>1. pc = "unlink" /\ disk' = [disk EXCEPT ![Source][file] = Absent]
      BY <2>1 DEF Unlink, Throw, persistent
    <3> QED
      BY <1>1, <3>1 DEF IInv, TypeOK, PhaseOK
  <2> QED
    BY <1>1, <2>2, <2>3, <2>4 DEF IInv, FilesOK
<1>2. IInv /\ [Next]_vars => [\A f \in Files : OriginalStep(f)]_vars
  BY <1>1
<1> QED
  BY <1>2, Invariance, PTL DEF Spec, OriginalsUntilCommit

\* What already lies in a folder is adopted or refused, never replaced.
THEOREM NothingOverwritten == Spec => NeverOverwrites
<1>1. ASSUME IInv, [Next]_vars, NEW d \in Dirs, NEW f \in Files
      PROVE  OverwriteStep(d, f)
  <2> SUFFICES ASSUME Program, disk[d][f] # Absent, f \notin late
               PROVE  disk'[d][f] \in {disk[d][f], Absent}
    BY DEF OverwriteStep
  <2>1. CASE disk' = disk
    BY <2>1
  <2>2. CASE PlaceCopy /\ disk' # disk
    <3>1. /\ disk' = [disk EXCEPT ![Dest][file] = original,
                                 ![Dest][staging] = Absent]
          /\ pc = "place"
      BY <2>2 DEF PlaceCopy, Throw, persistent
    <3>2. ~ (d = Dest /\ f = file)
      BY <1>1, <3>1 DEF IInv, StagingOK
    <3> QED
      BY <1>1, <3>1, <3>2 DEF IInv, TypeOK
  <2>4. CASE StageCopy /\ disk' # disk
    <3>1. /\ disk' = [disk EXCEPT ![Dest][staging'] = disk[Source][file]]
          /\ staging' \in Fresh
      BY <2>4 DEF StageCopy, Stage, Throw, persistent
    <3>2. ~ (d = Dest /\ f = staging')
      BY <3>1 DEF Fresh
    <3> QED
      BY <1>1, <3>1, <3>2 DEF IInv, TypeOK
  <2>3. CASE Unlink /\ disk' # disk
    <3>1. disk' = [disk EXCEPT ![Source][file] = Absent]
      BY <2>3 DEF Unlink, Throw, persistent
    <3> QED
      BY <1>1, <3>1 DEF IInv, TypeOK
  <2> QED
    BY <2>1, <2>2, <2>3, <2>4, DiskWriters
<1>2. IInv /\ [Next]_vars
        => [\A d \in Dirs, f \in Files : OverwriteStep(d, f)]_vars
  BY <1>1
<1> QED
  BY <1>2, Invariance, PTL DEF Spec, NeverOverwrites

-----------------------------------------------------------------------------
(* Refinement. *)

\* Steps that leave the settings file, the folders and the set of exempt
\* files alone are stuttering steps of SafeMove.
LEMMA Stutter ==
  ASSUME UNCHANGED <<disk, savedPath, touched>>
  PROVE  UNCHANGED Abstract!vars
  BY DEF Abstract!vars

\* The folder on show is not the one migrate writes to or deletes from.
LEMMA StageHidden ==
  ASSUME IInv, NEW c, Stage(c)
  PROVE  UNCHANGED Abstract!vars
<1>1. /\ disk' = [disk EXCEPT ![Dest][staging'] = c]
      /\ UNCHANGED <<savedPath, touched>>
  BY DEF Stage, history
<1>2. savedPath # Dest
  BY DEF Stage, IInv, PhaseOK, FoldersOK
<1>3. disk'[savedPath] = disk[savedPath]
  BY <1>1, <1>2 DEF IInv, TypeOK
<1> QED
  BY <1>1, <1>3 DEF Abstract!vars

LEMMA DiskWritesHidden ==
  ASSUME IInv, IInv', Program, disk' # disk
  PROVE  UNCHANGED Abstract!vars
<1>1. CASE PlaceCopy
  <2>1. /\ disk' = [disk EXCEPT ![Dest][file] = original,
                               ![Dest][staging] = Absent]
        /\ UNCHANGED <<savedPath, touched>>
    BY <1>1 DEF PlaceCopy, Throw, Copied, persistent, history
  <2>2. savedPath # Dest
    BY <1>1 DEF PlaceCopy, IInv, PhaseOK, FoldersOK
  <2>3. disk'[savedPath] = disk[savedPath]
    BY <2>1, <2>2 DEF IInv, TypeOK
  <2> QED
    BY <2>1, <2>3 DEF Abstract!vars
<1>2. CASE Unlink
  <2>1. /\ disk' = [disk EXCEPT ![Source][file] = Absent]
        /\ UNCHANGED <<savedPath, touched>>
    BY <1>2 DEF Unlink, Throw, persistent, history
  <2>2. savedPath # Source
    BY <1>2 DEF Unlink, IInv, PhaseOK, FoldersOK
  <2>3. disk'[savedPath] = disk[savedPath]
    BY <2>1, <2>2 DEF IInv, TypeOK
  <2> QED
    BY <2>1, <2>3 DEF Abstract!vars
<1>3. CASE StageCopy
  BY <1>3, StageHidden DEF StageCopy, Throw, persistent
<1> QED
  BY <1>1, <1>2, <1>3, DiskWriters

\* A commit is the abstract move, or a repetition of it after a crash.
LEMMA CommitMoves ==
  ASSUME IInv, IInv', CommitSettings
  PROVE  [Abstract!Next]_(Abstract!vars)
<1>1. /\ savedPath' = Dest /\ Dest \in Dirs
      /\ UNCHANGED <<disk, touched>>
  BY DEF CommitSettings, IInv, TypeOK, history
<1>2. disk'[savedPath'] \in [Files -> Data]
  BY DEF IInv, TypeOK
<1>3. \A f \in Files \ touched :
        disk[savedPath][f] # Absent \/ f \notin Partials
          => disk'[savedPath'][f] = disk[savedPath][f]
  <2> SUFFICES ASSUME savedPath # Dest, NEW f \in Files \ touched,
                      disk[savedPath][f] # Absent \/ f \notin Partials
               PROVE  disk[Dest][f] = disk[savedPath][f]
    BY <1>1
  <2>1. savedPath = Source /\ journal.stage = "verified" /\ pc = "commit"
    BY DEF CommitSettings, IInv, PhaseOK, FoldersOK
  <2> QED
    BY <2>1 DEF IInv, FilesOK
<1>4. CASE savedPath = Dest
  BY <1>1, <1>4, Stutter
<1>5. CASE savedPath # Dest
  <2>1. Abstract!Move(Dest)
    BY <1>1, <1>2, <1>3 DEF Abstract!Move
  <2> QED
    BY <1>1, <1>5, <2>1 DEF Abstract!Next
<1> QED
  BY <1>4, <1>5

LEMMA EditRefines ==
  ASSUME IInv, IInv', NEW d \in Dirs, NEW f \in Files, NEW c \in Data,
         Edit(d, f, c)
  PROVE  Abstract!Next
<1>1. /\ disk' = [disk EXCEPT ![d][f] = c]
      /\ touched' = touched \cup {f}
      /\ savedPath' = savedPath
  BY DEF Edit
<1>2. disk'[savedPath'] \in [Files -> Data]
  BY DEF IInv, TypeOK
<1>3. \A g \in Files \ {f} : disk'[savedPath'][g] = disk[savedPath][g]
  BY <1>1 DEF IInv, TypeOK
<1>4. Abstract!Edit(f)
  BY <1>1, <1>2, <1>3 DEF Abstract!Edit
<1> QED
  BY <1>4 DEF Abstract!Next

LEMMA ThrowStutters ==
  ASSUME Throw
  PROVE  UNCHANGED Abstract!vars
  BY Stutter DEF Throw, persistent, history

LEMMA ProgramRefines ==
  ASSUME IInv, IInv', Program
  PROVE  [Abstract!Next]_(Abstract!vars)
<1>1. CASE disk' # disk
  BY <1>1, DiskWritesHidden
<1>2. CASE disk' = disk /\ savedPath' # savedPath
  <2>1. CommitSettings
    <3>1. ~ Throw
      BY <1>2 DEF Throw, persistent
    <3>2. ~ Boot /\ ~ Quit /\ \A d \in Dirs : ~ Choose(d)
      BY <1>2 DEF Boot, Quit, Choose, persistent
    <3>3. ~ CheckEmpty /\ ~ Inventory /\ ~ WriteJournal
      BY <1>2, <3>1 DEF CheckEmpty, Inventory, WriteJournal, persistent
    <3>4. ~ FindExisting /\ ~ StageCopy /\ ~ PlaceCopy /\ ~ CopiesDone
      BY <1>2, <3>1 DEF FindExisting, StageCopy, Stage, PlaceCopy, CopiesDone,
                        Copied, persistent
    <3>5. \A f \in Files : ~ DigestOriginal(f) /\ ~ CheckOriginal(f)
      BY <1>2, <3>1 DEF DigestOriginal, CheckOriginal, persistent
    <3>6. \A f \in Files, at \in {"recheck", "reverify"} : ~ RecheckFile(at, f)
      BY <1>2, <3>1 DEF RecheckFile, persistent
    <3>7. ~ WriteVerified /\ ~ CommitMemory /\ ~ WriteCleanup
      BY <1>2 DEF WriteVerified, CommitMemory, WriteCleanup, persistent
    <3>8. ~ Unlink /\ ~ Finish
      BY <1>2, <3>1 DEF Unlink, Finish
    <3> QED
      BY <3>2, <3>3, <3>4, <3>5, <3>6, <3>7, <3>8 DEF Program, Migrate
  <2> QED
    BY <2>1, CommitMoves
<1>3. CASE /\ UNCHANGED <<disk, savedPath>>
           /\ touched' # touched
  <2>1. touched' = {}
    <3>1. ~ Throw
      BY <1>3 DEF Throw, history
    <3>2. ~ Boot /\ ~ Quit
      BY <1>3 DEF Boot, Quit, history
    <3>3. ~ CheckEmpty /\ ~ Inventory /\ ~ WriteJournal
      BY <1>3, <3>1 DEF CheckEmpty, Inventory, WriteJournal, history
    <3>4. ~ FindExisting /\ ~ StageCopy /\ ~ PlaceCopy /\ ~ CopiesDone
      BY <1>3, <3>1 DEF FindExisting, StageCopy, Stage, PlaceCopy, CopiesDone,
                        Copied, history
    <3>5. \A f \in Files : ~ DigestOriginal(f) /\ ~ CheckOriginal(f)
      BY <1>3, <3>1 DEF DigestOriginal, CheckOriginal, history
    <3>6. \A f \in Files, at \in {"recheck", "reverify"} : ~ RecheckFile(at, f)
      BY <1>3, <3>1 DEF RecheckFile, history
    <3>7. /\ ~ WriteVerified /\ ~ CommitMemory /\ ~ CommitSettings
          /\ ~ WriteCleanup
      BY <1>3 DEF WriteVerified, CommitMemory, CommitSettings, WriteCleanup,
                  history
    <3>8. ~ Unlink /\ ~ Finish
      BY <1>3, <3>1 DEF Unlink, Finish, history
    <3>9. PICK d \in Dirs : Choose(d)
      BY <3>2, <3>3, <3>4, <3>5, <3>6, <3>7, <3>8 DEF Program, Migrate
    <3> QED
      BY <1>3, <3>9 DEF Choose, history
  <2>2. Abstract!Ask
    BY <1>3, <2>1 DEF Abstract!Ask
  <2> QED
    BY <2>2 DEF Abstract!Next
<1>4. CASE UNCHANGED <<disk, savedPath, touched>>
  BY <1>4, Stutter
<1> QED
  BY <1>1, <1>2, <1>3, <1>4

LEMMA EnvironmentRefines ==
  ASSUME IInv, IInv', Environment
  PROVE  [Abstract!Next]_(Abstract!vars)
<1>1. CASE Crash \/ IOError
  BY <1>1, Stutter, ThrowStutters DEF Crash, IOError, persistent, history
<1>3. CASE TornCopy
  BY <1>3, StageHidden DEF TornCopy
<1>2. CASE \E d \in Dirs, f \in Files, c \in Data : Edit(d, f, c)
  BY <1>2, EditRefines
<1> QED
  BY <1>1, <1>2, <1>3 DEF Environment

\* To whoever reads the settings file and the folder it names, the whole
\* protocol, with its crashes and resumptions, is one atomic move.
THEOREM MigrationRefinesSafeMove == Spec => ImplementsSafeMove
<1>1. Init => Abstract!Init
  BY DEF Init, Abstract!Init
<1>2. IInv /\ IInv' /\ [Next]_vars => [Abstract!Next]_(Abstract!vars)
  <2> SUFFICES ASSUME IInv, IInv', [Next]_vars
               PROVE  [Abstract!Next]_(Abstract!vars)
    OBVIOUS
  <2>1. CASE Program
    BY <2>1, ProgramRefines
  <2>2. CASE Environment
    BY <2>2, EnvironmentRefines
  <2>3. CASE UNCHANGED vars
    BY <2>3, Stutter DEF vars, persistent, history
  <2> QED
    BY <2>1, <2>2, <2>3 DEF Next
<1> QED
  BY <1>1, <1>2, Invariance, PTL DEF Spec, Abstract!Spec, ImplementsSafeMove

=============================================================================
