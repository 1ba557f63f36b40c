------------------------- MODULE DownloadMigration -------------------------
(***************************************************************************)
(* Moving the download folder (src/desktop/storage.cjs, migrate), with the *)
(* two callers that run it: chooseDownloads and boot of                    *)
(* src/desktop/main.cjs, and saveDownloadPath, the commit they pass to it. *)
(*                                                                         *)
(* A move survives a kill of the application at any await: what persists   *)
(* is the disk, the journal download-migration.json and the settings file; *)
(* everything else is the memory of the process.  An environment edits     *)
(* files of any folder at any time (the engine while it runs, the book     *)
(* service, the user's file manager).                                      *)
(*                                                                         *)
(* Abstractions.  A file's bytes are one element of Contents, and a digest *)
(* is the content itself.  Folders in Dirs are pairwise disjoint (the      *)
(* `inside` checks only refuse nested ones).  The loops over journal.files *)
(* take the files in any order.  Links, free space, the write probe and    *)
(* sub-folders appear only as the I/O error IOError that any of their      *)
(* calls may raise.                                                        *)
(*                                                                         *)
(* A staging copy is a file like the others, under a name of Partials (the *)
(* code appends a random UUID, so nothing else ever has it).  A kill or a  *)
(* failed verification leaves it in the destination for good: nothing      *)
(* removes it, the emptiness check and the inventory of the next move see  *)
(* it, and that move carries it along like any file of the library.        *)
(***************************************************************************)
EXTENDS Naturals

CONSTANTS
    Dirs,        \* folders the user may choose
    Files,       \* relative names of files
    Partials,    \* those of them that are names of staging copies
    Contents,    \* what a file may hold
    Absent,      \* no such file; also "not hashed yet"
    MaxEdits,    \* bound: edits by others
    MaxFaults    \* bound: crashes, I/O errors and torn copies

ASSUME ContentsAssumption == Absent \notin Contents
ASSUME PartialsAssumption == Partials \subseteq Files
ASSUME BoundsAssumption == MaxEdits \in Nat /\ MaxFaults \in Nat

VARIABLES
    disk,        \* persistent: what each folder holds
    journal,     \* persistent: download-migration.json
    savedPath,   \* persistent: downloadsPath in desktop-settings.json
    memPath,     \* settings.downloadsPath and books.downloadsPath in memory;
                 \* while the process is off, what it would read at its start
    pc,          \* where the process is; "off" when it does not run
    booting,     \* migrate was called by boot, not by chooseDownloads
    target,      \* the destination argument of migrate
    found,       \* the inventory taken before the journal is written
    todo,        \* files the current loop has not visited
    file,        \* the file of the current iteration; Absent between two
    original,    \* its digest, taken first
    staging,     \* the name of its staging copy
    hash,        \* file.hash of the journal object in memory
    lib,         \* history: the library when the current move was asked for
    touched,     \* history: files others edited since
    late,        \* history: files edited since the current file was looked up
    edits,       \* bound counter
    faults       \* bound counter

persistent == <<disk, journal, savedPath>>
loop       == <<todo, file, original, staging, hash>>
call       == <<booting, target, found>>
history    == <<lib, touched, late>>
bounds     == <<edits, faults>>
vars == <<persistent, memPath, pc, call, loop, history, bounds>>

Data   == Contents \cup {Absent}
Folder == [Files -> Data]

\* The stage of the journal; "none" when the journal file does not exist.
Stages == {"none", "copying", "verified", "cleanup"}

PreJournal == {"check", "inventory", "write"}
Copying    == {"copy", "lookup", "stage", "place", "recheck"}
Committing == {"reverify", "commit", "committed"}
Cleaning   == {"cleanup", "unlink"}
Working    == PreJournal \cup Copying \cup Committing \cup Cleaning

Unhashed  == [f \in Files |-> Absent]
Pending   == journal.stage # "none"
Source    == journal.source
Dest      == journal.destination
NoJournal(d) == [stage |-> "none", source |-> d, destination |-> d,
                 files |-> {}, hash |-> Unhashed]
InFolder(d) == {f \in Files : disk[d][f] # Absent}

TypeOK ==
    /\ disk \in [Dirs -> Folder]
    /\ journal \in [stage : Stages, source : Dirs, destination : Dirs,
                    files : SUBSET Files, hash : Folder]
    /\ savedPath \in Dirs /\ memPath \in Dirs /\ target \in Dirs
    /\ pc \in {"off", "idle"} \cup Working
    /\ booting \in BOOLEAN
    /\ found \subseteq Files /\ todo \subseteq Files /\ touched \subseteq Files
    /\ late \subseteq Files
    /\ file \in Files \cup {Absent}
    /\ original \in Data /\ staging \in Files \cup {Absent}
    /\ hash \in Folder /\ lib \in Folder
    /\ edits \in 0..MaxEdits /\ faults \in 0..MaxFaults

\* An installation that has never moved its downloads; other folders may
\* hold anything.
Init ==
    /\ disk \in [Dirs -> Folder]
    /\ \A d \in Dirs : InFolder(d) \cap Partials = {}
    /\ savedPath \in Dirs
    /\ journal = NoJournal(savedPath)
    /\ memPath = savedPath /\ target = savedPath
    /\ pc = "off" /\ booting = FALSE
    /\ found = {} /\ todo = {} /\ file = Absent
    /\ original = Absent /\ staging = Absent /\ hash = Unhashed
    /\ lib = disk[savedPath] /\ touched = {} /\ late = {}
    /\ edits = 0 /\ faults = 0

-----------------------------------------------------------------------------
(* How migrate starts, and how it ends when a step throws. *)

\* Mutant: a verified move resumes without committing the setting.
ResumeSkipsCommit ==
    /\ pc' = IF journal.stage = "copying" THEN "copy" ELSE "cleanup"
    /\ todo' = journal.files
    /\ hash' = journal.hash

\* migrate with a journal on disk: skip to the phase its stage names.
Resume ==
    /\ pc' = CASE journal.stage = "copying"  -> "copy"
               [] journal.stage = "verified" -> "reverify"
               [] journal.stage = "cleanup"  -> "cleanup"
    /\ todo' = journal.files
    /\ hash' = journal.hash

\* boot: read the settings, then finish the move a journal records.
Boot ==
    /\ pc = "off"
    /\ memPath' = savedPath
    /\ booting' = Pending
    /\ IF Pending
         THEN Resume
         ELSE pc' = "idle" /\ UNCHANGED <<todo, hash>>
    /\ UNCHANGED <<persistent, target, found, file, original, staging,
                   history, bounds>>

\* chooseDownloads up to the call of migrate: the folder in use is refused,
\* and an unfinished move is resumed whatever the user chose.
Choose(d) ==
    /\ pc = "idle"
    /\ d # memPath
    /\ booting' = FALSE
    /\ IF Pending
         THEN Resume /\ UNCHANGED <<target, history>>
         ELSE /\ pc' = "check"
              /\ target' = d
              /\ lib' = disk[memPath] /\ touched' = {} /\ UNCHANGED late
              /\ UNCHANGED <<todo, hash>>
    /\ UNCHANGED <<persistent, memPath, found, file, original, staging, bounds>>

\* The user closes the application between operations.
Quit ==
    /\ pc = "idle"
    /\ pc' = "off" /\ memPath' = savedPath
    /\ UNCHANGED <<persistent, call, loop, history, bounds>>

\* The call of migrate is over: its arguments and variables are gone.
Over ==
    /\ booting' = FALSE /\ target' = savedPath /\ found' = {}
    /\ todo' = {} /\ file' = Absent
    /\ original' = Absent /\ staging' = Absent /\ hash' = Unhashed

\* A throw of migrate: boot shows the error and quits, chooseDownloads
\* rejects and keeps the settings object as it is.  The journal file stays.
Throw ==
    /\ pc' = IF booting THEN "off" ELSE "idle"
    /\ Over
    /\ UNCHANGED <<persistent, memPath, history>>

-----------------------------------------------------------------------------
(* Before the journal. *)

\* The destination must be empty.
CheckEmpty ==
    /\ pc = "check"
    /\ \/ /\ InFolder(target) = {}
          /\ pc' = "inventory"
          /\ UNCHANGED <<persistent, memPath, call, loop, history>>
       \/ InFolder(target) # {} /\ Throw
    /\ UNCHANGED bounds

\* Names of the files to move.
Inventory ==
    /\ pc = "inventory"
    /\ found' = InFolder(memPath)
    /\ pc' = "write"
    /\ UNCHANGED <<persistent, memPath, booting, target, loop, history, bounds>>

\* The journal is persisted before anything is copied.
WriteJournal ==
    /\ pc = "write"
    /\ journal' = [stage |-> "copying", source |-> memPath,
                   destination |-> target, files |-> found, hash |-> Unhashed]
    /\ pc' = "copy"
    /\ todo' = found
    /\ target' = savedPath /\ found' = {}
    /\ UNCHANGED <<disk, savedPath, memPath, booting, file, original, staging,
                   hash, history, bounds>>

-----------------------------------------------------------------------------
(* Stage "copying". *)

\* The digest of the original; an original that is gone throws.
DigestOriginal(f) ==
    /\ pc = "copy"
    /\ f \in todo
    /\ \/ /\ disk[Source][f] # Absent
          /\ file' = f
          /\ original' = disk[Source][f]
          /\ pc' = "lookup"
          /\ UNCHANGED <<persistent, memPath, call, todo, staging, hash, history>>
       \/ disk[Source][f] = Absent /\ Throw
    /\ UNCHANGED bounds

\* The end of an iteration of the copy loop.
Copied ==
    /\ hash' = [hash EXCEPT ![file] = original]
    /\ todo' = todo \ {file}
    /\ file' = Absent /\ original' = Absent /\ staging' = Absent
    /\ pc' = "copy"
    /\ UNCHANGED <<journal, savedPath, memPath, call, history>>

\* Mutant: whatever exists is copied over.
FindExistingIgnored ==
    /\ pc = "lookup"
    /\ pc' = "stage"
    /\ late' = {}
    /\ UNCHANGED <<persistent, memPath, call, loop, lib, touched, bounds>>

\* A copy left by an earlier attempt is kept when it is the same, and is a
\* conflict when it is not.
FindExisting ==
    /\ pc = "lookup"
    /\ \/ /\ disk[Dest][file] = Absent
          /\ pc' = "stage"
          /\ late' = {}
          /\ UNCHANGED <<persistent, memPath, call, loop, lib, touched>>
       \/ /\ disk[Dest][file] = original
          /\ Copied /\ UNCHANGED disk
       \/ disk[Dest][file] \notin {Absent, original} /\ Throw
    /\ UNCHANGED bounds

\* Names no folder and no journal has.
Fresh ==
    {p \in Partials :
       p \notin journal.files /\ \A d \in Dirs : disk[d][p] = Absent}

\* A staging copy under a fresh name appears in the destination.
Stage(c) ==
    /\ pc = "stage"
    /\ staging' \in Fresh /\ staging' = CHOOSE p \in Fresh : TRUE
    /\ disk' = [disk EXCEPT ![Dest][staging'] = c]
    /\ pc' = "place"
    /\ UNCHANGED <<journal, savedPath, memPath, call, todo, file, original,
                   hash, history>>

StageCopy ==
    /\ pc = "stage"
    /\ \/ disk[Source][file] # Absent /\ Stage(disk[Source][file])
       \/ disk[Source][file] = Absent /\ Throw
    /\ UNCHANGED bounds

\* The copy has other bytes than the original: the disk returns what it was
\* not given, or (followed by Crash) the process is killed in mid-copy.
TornCopy ==
    /\ faults < MaxFaults
    /\ \E c \in Contents : Stage(c)
    /\ faults' = faults + 1
    /\ UNCHANGED edits

\* Verify the staging copy and rename it to its final name; one that fails
\* is left where it is.
PlaceCopy ==
    /\ pc = "place"
    /\ \/ /\ disk[Dest][staging] = original
          /\ disk' = [disk EXCEPT ![Dest][file] = original,
                                  ![Dest][staging] = Absent]
          /\ Copied
       \/ disk[Dest][staging] # original /\ Throw
    /\ UNCHANGED bounds

CopiesDone ==
    /\ pc = "copy"
    /\ todo = {}
    /\ pc' = "recheck"
    /\ todo' = journal.files
    /\ UNCHANGED <<persistent, memPath, call, file, original, staging, hash,
                   history, bounds>>

\* Original and copy both still have the recorded hash.
Matches(f) ==
    /\ disk[Source][f] # Absent
    /\ disk[Source][f] = hash[f]
    /\ disk[Dest][f] = hash[f]

\* One iteration of either recheck loop.
RecheckFile(at, f) ==
    /\ pc = at
    /\ f \in todo
    /\ \/ /\ Matches(f)
          /\ todo' = todo \ {f}
          /\ UNCHANGED <<persistent, memPath, pc, call, file, original, staging,
                         hash, history>>
       \/ ~ Matches(f) /\ Throw
    /\ UNCHANGED bounds

\* The journal enters stage "verified", with the hashes.
WriteVerified ==
    /\ pc = "recheck"
    /\ todo = {}
    /\ journal' = [journal EXCEPT !.stage = "verified", !.hash = hash]
    /\ pc' = "reverify"
    /\ todo' = journal.files
    /\ UNCHANGED <<disk, savedPath, memPath, call, file, original, staging, hash,
                   history, bounds>>

-----------------------------------------------------------------------------
(* Stage "verified": commit(destination) is saveDownloadPath. *)

\* The settings object and the book service change first...
CommitMemory ==
    /\ pc = "reverify"
    /\ todo = {}
    /\ memPath' = Dest
    /\ pc' = "commit"
    /\ UNCHANGED <<persistent, call, loop, history, bounds>>

\* ... then the settings file.
CommitSettings ==
    /\ pc = "commit"
    /\ savedPath' = Dest
    /\ pc' = "committed"
    /\ UNCHANGED <<disk, journal, memPath, call, loop, history, bounds>>

WriteCleanup ==
    /\ pc = "committed"
    /\ journal' = [journal EXCEPT !.stage = "cleanup"]
    /\ pc' = "cleanup"
    /\ todo' = journal.files
    /\ UNCHANGED <<disk, savedPath, memPath, call, file, original, staging, hash,
                   history, bounds>>

-----------------------------------------------------------------------------
(* Stage "cleanup". *)

\* Mutant: an original that is already gone is an error.
CheckOriginalNoSkip(f) ==
    /\ pc = "cleanup"
    /\ f \in todo
    /\ \/ /\ Matches(f)
          /\ file' = f
          /\ pc' = "unlink"
          /\ UNCHANGED <<persistent, memPath, call, todo, original, staging, hash,
                         history>>
       \/ ~ Matches(f) /\ Throw
    /\ UNCHANGED bounds

\* An original that is gone is skipped; one that no longer matches stops
\* the cleanup.
CheckOriginal(f) ==
    /\ pc = "cleanup"
    /\ f \in todo
    /\ \/ /\ disk[Source][f] = Absent
          /\ todo' = todo \ {f}
          /\ UNCHANGED <<persistent, memPath, pc, call, file, original, staging,
                         hash, history>>
       \/ /\ Matches(f)
          /\ file' = f
          /\ pc' = "unlink"
          /\ UNCHANGED <<persistent, memPath, call, todo, original, staging, hash,
                         history>>
       \/ disk[Source][f] # Absent /\ ~ Matches(f) /\ Throw
    /\ UNCHANGED bounds

\* Mutant: the path is built from the settings instead of the journal.
UnlinkInUse ==
    /\ pc = "unlink"
    /\ disk' = [disk EXCEPT ![memPath][file] = Absent]
    /\ todo' = todo \ {file}
    /\ file' = Absent
    /\ pc' = "cleanup"
    /\ UNCHANGED <<journal, savedPath, memPath, call, original, staging, hash,
                   history, bounds>>

Unlink ==
    /\ pc = "unlink"
    /\ \/ /\ disk[Source][file] # Absent
          /\ disk' = [disk EXCEPT ![Source][file] = Absent]
          /\ todo' = todo \ {file}
          /\ file' = Absent
          /\ pc' = "cleanup"
          /\ UNCHANGED <<journal, savedPath, memPath, call, original, staging,
                         hash, history>>
       \/ disk[Source][file] = Absent /\ Throw
    /\ UNCHANGED bounds

\* The journal file is removed last; migrate returns.
Finish ==
    /\ pc = "cleanup"
    /\ todo = {}
    /\ journal' = NoJournal(savedPath)
    /\ pc' = "idle"
    /\ Over
    /\ UNCHANGED <<disk, savedPath, memPath, history, bounds>>

-----------------------------------------------------------------------------
(* The environment. *)

\* The process is killed, or the machine stops.
Crash ==
    /\ pc # "off"
    /\ faults < MaxFaults
    /\ faults' = faults + 1
    /\ pc' = "off" /\ memPath' = savedPath
    /\ Over
    /\ UNCHANGED <<persistent, history, edits>>

\* Any call of migrate, or of the commit it calls, rejects.
IOError ==
    /\ pc \in Working
    /\ faults < MaxFaults
    /\ faults' = faults + 1
    /\ Throw
    /\ UNCHANGED edits

\* Somebody else writes or removes a file; a fresh name is nobody's to write.
Edit(d, f, c) ==
    /\ edits < MaxEdits
    /\ f \notin Fresh
    /\ c # disk[d][f]
    /\ disk' = [disk EXCEPT ![d][f] = c]
    /\ touched' = touched \cup {f}
    /\ late' = late \cup {f}
    /\ edits' = edits + 1
    /\ UNCHANGED <<journal, savedPath, memPath, pc, call, loop, lib, faults>>

-----------------------------------------------------------------------------
Migrate ==
    \/ CheckEmpty \/ Inventory \/ WriteJournal
    \/ \E f \in Files : DigestOriginal(f)
    \/ FindExisting \/ StageCopy \/ PlaceCopy \/ CopiesDone
    \/ \E at \in {"recheck", "reverify"}, f \in Files : RecheckFile(at, f)
    \/ WriteVerified \/ CommitMemory \/ CommitSettings \/ WriteCleanup
    \/ \E f \in Files : CheckOriginal(f)
    \/ Unlink \/ Finish

Program == Boot \/ (\E d \in Dirs : Choose(d)) \/ Quit \/ Migrate

Environment ==
    \/ TornCopy \/ Crash \/ IOError
    \/ \E d \in Dirs, f \in Files, c \in Data : Edit(d, f, c)

Next == Program \/ Environment

Spec == Init /\ [][Next]_vars

\* The event loop runs a pending continuation; the user follows the message
\* "Close and reopen Bihon to resume the saved migration."
Fairness ==
    /\ WF_vars(Migrate)
    /\ WF_vars(Boot)
    /\ WF_vars(Quit /\ Pending)

FairSpec == Spec /\ Fairness

-----------------------------------------------------------------------------
(* Properties. *)

\* At every instant, and so whatever step a crash or an error interrupts,
\* the folder the settings file names holds every file of the library as it
\* was when the move was asked for, and besides them only staging copies that
\* interrupted attempts left behind.  Files that others edited meanwhile are
\* exempt.  (README: verified, resumable migration.)
ServedComplete ==
    \A f \in Files \ touched :
      lib[f] # Absent \/ f \notin Partials => disk[savedPath][f] = lib[f]

\* While no move is unfinished, the folder the running engine and the book
\* service use is the folder the next start will use: an error between the
\* two halves of saveDownloadPath never escapes the journal.
PathsAgree ==
    pc # "off" /\ ~ Pending => memPath = savedPath

\* A step of the program removes or changes a file of the folder being left
\* only in stage "cleanup", when the settings file already names the
\* destination, and only if the copy there is the library's file.  (Comment
\* of migrate: originals remain intact until the setting commits.)
OriginalStep(f) ==
    Program /\ Pending /\ disk'[Source][f] # disk[Source][f]
      => /\ savedPath = Dest
         /\ journal.stage = "cleanup"
         /\ f \notin touched => disk[Dest][f] = lib[f]

OriginalsUntilCommit == [][\A f \in Files : OriginalStep(f)]_vars

\* A step of the program never replaces the content of a file: what already
\* lies in the destination, also what others put there during the move, is
\* adopted or refused.  Only a file that appears after migrate looked for it,
\* while its copy is being staged, is outside the promise (rename replaces it).
OverwriteStep(d, f) ==
    Program /\ disk[d][f] # Absent /\ f \notin late
      => disk'[d][f] \in {disk[d][f], Absent}

NeverOverwrites == [][\A d \in Dirs, f \in Files : OverwriteStep(d, f)]_vars

\* With no edits by others, an unfinished move ends: a finite number of
\* crashes and I/O errors only delays it.  (Comment of chooseDownloads:
\* restarting Bihon resumes the operation first.)
JournalResolves ==
    (Pending /\ touched = {}) ~> (~ Pending \/ touched # {})

\* Every crash, error and resumption of the detailed protocol is invisible to
\* a reader of the settings file and of the folder it names: the protocol
\* implements SafeMove, whose Move happens at CommitSettings.  The staging
\* copies of interrupted attempts come into view with it.
Abstract ==
    INSTANCE SafeMove WITH path <- savedPath, shelf <- disk[savedPath],
                           edited <- touched, Extras <- Partials

ImplementsSafeMove == Abstract!Spec

=============================================================================
