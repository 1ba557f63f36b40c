---------------------------- MODULE DesktopShell ----------------------------
(***************************************************************************)
(* The Electron main process (src/desktop/main.cjs) as the composition of  *)
(* its parts: boot, the folder operation chooseDownloads, quitting, the    *)
(* engine process (server.cjs), the move of the download folder            *)
(* (storage.cjs, at the grain of its phases; DownloadMigration has its     *)
(* steps) and the managed books (books.cjs, import and remove).  They run  *)
(* as concurrent activities of one event loop, and share the flags busy    *)
(* and quitting, the settings object, the child process and the journal.   *)
(*                                                                         *)
(* When the process is killed its engine sees the end of its input and     *)
(* shuts down on its own.  For a while this orphan still answers on the    *)
(* port of the settings, then it is silent but not gone; if there are two  *)
(* they count as the later one.                                            *)
(*                                                                         *)
(* Abstractions.  A folder is the set of books whose managed file it holds *)
(* (chapters behave as books nobody adds or removes during a move).  One   *)
(* import and one removal run at a time; an import's staging copy matters  *)
(* only when the inventory of a move has listed it.  prepareUpgrade, extension setup  *)
(* and the reader page are in other modules or left out.  The two faults   *)
(* of the environment, slow engine and failing I/O, share one bound.       *)
(***************************************************************************)
EXTENDS Naturals

CONSTANTS
    Dirs,             \* download folders
    Books,            \* book ids (digests)
    Nobody,           \* no book: no import, no removal under way
    EarlyMenu,        \* the user clicks "Download folder..." while boot starts
    MaxFaults         \* bound: crashes, I/O errors, exits, expired deadlines

ASSUME NobodyAssumption == Nobody \notin Books
ASSUME ModeAssumption == EarlyMenu \in BOOLEAN
ASSUME FaultsAssumption == MaxFaults \in Nat

VARIABLES
    shelf,       \* persistent: managed files of each folder
    partial,     \* persistent: an import's staging copy that the journal lists
    index,       \* persistent: books.json
    journal,     \* persistent: download-migration.json
    savedPath,   \* persistent: downloadsPath in the settings file
    memPath,     \* settings.downloadsPath and books.downloadsPath
    at,          \* where boot and chooseDownloads are
    dest,        \* the folder the user picked
    busy, quitting,
    child,       \* server.child: the engine process
    enginePath,  \* the downloads folder it was started with
    orphan,      \* the engine of an earlier process that still shuts down
    imp,         \* the import under way: book, folder, step
    rem,         \* the book whose removal is under way
    asked,       \* history: books the user asked to remove
    orderly,     \* the user leaves the books alone during a move (never changes)
    faults       \* bound counter

disks   == <<shelf, partial, index, journal, savedPath>>
flags   == <<busy, quitting>>
engine  == <<child, enginePath, orphan>>
shelves == <<imp, rem, asked, orderly>>
vars == <<disks, memPath, at, dest, flags, engine, shelves, faults>>

MoveSteps == {"begin", "copy", "recheck", "settle", "saved", "mark", "clean"}
BootSteps == {"off", "checking", "prepare", "waiting", "giveup", "done",
              "failed"} \cup MoveSteps
ChooseSteps == {"none", "dialog", "pause", "stop", "stopping", "restart",
                "waiting", "giveup", "recover", "recovering", "abandon"}
               \cup MoveSteps
Activities == {"boot", "choose"}

Pending   == journal.stage # "none"
Running   == at["boot"] # "off"
Moving(p) == at[p] \in MoveSteps
Alive     == child \in {"booting", "up"}
NoImport  == [book |-> Nobody, dir |-> savedPath, step |-> "none",
              listed |-> FALSE]
Importing == imp.book # Nobody

TypeOK ==
    /\ shelf \in [Dirs -> SUBSET Books] /\ index \subseteq Books
    /\ partial \in {"none", "there", "gone"}
    /\ journal \in [stage : {"none", "copying", "verified", "cleanup"},
                    source : Dirs, destination : Dirs, files : SUBSET Books]
    /\ savedPath \in Dirs /\ memPath \in Dirs /\ dest \in Dirs
    /\ at \in [Activities -> BootSteps \cup ChooseSteps]
    /\ at["boot"] \in BootSteps /\ at["choose"] \in ChooseSteps
    /\ busy \in BOOLEAN /\ quitting \in BOOLEAN
    /\ orphan \in {"none", "answers", "silent"}
    /\ child \in {"none", "booting", "up", "closing"} /\ enginePath \in Dirs
    /\ imp \in [book : Books \cup {Nobody}, dir : Dirs,
                step : {"none", "store", "index"}, listed : BOOLEAN]
    /\ imp.book = Nobody <=> imp.step = "none"
    /\ rem \in Books \cup {Nobody} /\ asked \subseteq Books
    /\ orderly \in BOOLEAN
    /\ faults \in 0..MaxFaults

\* An installed application that is not running; its books are in place.
Init ==
    /\ savedPath \in Dirs
    /\ index \in SUBSET Books
    /\ shelf = [d \in Dirs |-> IF d = savedPath THEN index ELSE {}]
    /\ journal = [stage |-> "none", source |-> savedPath,
                  destination |-> savedPath, files |-> {}]
    /\ partial = "none"
    /\ memPath = savedPath /\ dest = savedPath /\ enginePath = savedPath
    /\ at = [p \in Activities |-> IF p = "boot" THEN "off" ELSE "none"]
    /\ busy = FALSE /\ quitting = FALSE
    /\ child = "none" /\ orphan = "none"
    /\ imp = NoImport /\ rem = Nobody /\ asked = {} /\ orderly \in BOOLEAN
    /\ faults = 0

Goto(p, step) == at' = [at EXCEPT ![p] = step]
Fault == faults < MaxFaults /\ faults' = faults + 1

-----------------------------------------------------------------------------
(* How the two activities fail. *)

InCatch == at["choose"] \in {"recovering", "abandon"}

\* Mutant: no finally around the recovery.
FailStaysBusy(p) ==
    \/ p = "boot" /\ Goto(p, "failed") /\ busy' = FALSE
    \/ p = "choose" /\ ~ InCatch /\ Goto(p, "recover") /\ UNCHANGED busy
    \/ p = "choose" /\ InCatch /\ Goto(p, "none") /\ UNCHANGED busy

\* boot leaves through its finally and will quit; chooseDownloads goes to
\* its catch, and a second failure there leaves through finally.
Fail(p) ==
    \/ p = "boot" /\ Goto(p, "failed") /\ busy' = FALSE
    \/ p = "choose" /\ ~ InCatch /\ Goto(p, "recover") /\ UNCHANGED busy
    \/ p = "choose" /\ InCatch /\ Goto(p, "none") /\ busy' = FALSE

-----------------------------------------------------------------------------
(* boot, up to the engine. *)

\* Settings, book service, window, menu and handlers; then boot awaits the
\* journal.
Launch ==
    /\ ~ Running
    /\ at' = [at EXCEPT !["boot"] = "checking", !["choose"] = "none"]
    /\ memPath' = savedPath
    /\ UNCHANGED <<disks, dest, flags, engine, shelves, faults>>

\* Mutant: the journal is not looked at.
BootJournalSkipped ==
    /\ at["boot"] = "checking"
    /\ busy' = TRUE
    /\ Goto("boot", "prepare")
    /\ UNCHANGED <<disks, memPath, dest, quitting, engine, shelves, faults>>

\* A journal is resumed first; without one boot goes on to the engine.
BootJournal ==
    /\ at["boot"] = "checking"
    /\ busy' = TRUE
    /\ Goto("boot", IF Pending THEN "begin" ELSE "prepare")
    /\ UNCHANGED <<disks, memPath, dest, quitting, engine, shelves, faults>>

-----------------------------------------------------------------------------
(* The engine (Server). *)

\* start: refused while a child exists, else spawned with the settings.
Spawn(p, next) ==
    /\ \/ /\ child = "none"
          /\ child' = "booting" /\ enginePath' = memPath
          /\ Goto(p, next)
          /\ UNCHANGED busy
       \/ child # "none" /\ Fail(p) /\ UNCHANGED <<child, enginePath>>
    /\ UNCHANGED <<disks, memPath, dest, quitting, orphan, shelves, faults>>

BootEngine    == at["boot"] = "prepare" /\ Spawn("boot", "waiting")
RestartEngine == at["choose"] = "restart" /\ Spawn("choose", "waiting")

\* The port answers: it is the one in the settings, so an orphan answers as
\* well as the child does, even for a child that has just exited.
PortAnswers == child = "up" \/ orphan = "answers"

\* The poll of start sees the GraphQL and web answers, or the exit.  A
\* start that fails in the catch of chooseDownloads rejects it.  A start that
\* succeeds opens the reader, also after a failed boot, but not in the catch.
Polled(p) ==
    /\ at[p] \in {"waiting", "recovering"}
    /\ \/ /\ PortAnswers
          /\ at' = [at EXCEPT
                !["choose"] = IF p = "choose" THEN "none" ELSE @,
                !["boot"] = IF p = "boot" \/ (@ = "failed" /\ at[p] = "waiting")
                              THEN "done" ELSE @]
          /\ busy' = FALSE
       \/ child = "none" /\ Fail(p)
    /\ UNCHANGED <<disks, memPath, dest, quitting, engine, shelves, faults>>

\* Two minutes without an answer: stop the engine.
StartExpires(p) ==
    /\ at[p] \in {"waiting", "recovering"} /\ child = "booting"
    /\ Fault
    /\ child' = "closing"
    /\ Goto(p, IF at[p] = "waiting" THEN "giveup" ELSE "abandon")
    /\ UNCHANGED <<disks, memPath, dest, flags, enginePath, orphan, shelves>>

\* The engine answers.  It needs the port, and the lock of the database, which
\* an orphan may have released before it is gone.
EngineReady ==
    /\ child = "booting" /\ orphan # "answers"
    /\ child' = "up"
    /\ UNCHANGED <<disks, memPath, at, dest, flags, enginePath, orphan, shelves,
                   faults>>

\* An engine that finds the port or the database taken gives up.
EngineRefused ==
    /\ child = "booting" /\ orphan # "none"
    /\ child' = "none"
    /\ UNCHANGED <<disks, memPath, at, dest, flags, enginePath, orphan, shelves,
                   faults>>

\* A shutdown that was asked for completes: by `shutdown` or by end of input.
\* An orphan closes its port first.
EngineExits ==
    /\ \/ child = "closing" /\ child' = "none" /\ UNCHANGED orphan
       \/ orphan = "answers" /\ orphan' = "silent" /\ UNCHANGED child
       \/ orphan = "silent" /\ orphan' = "none" /\ UNCHANGED child
    /\ UNCHANGED <<disks, memPath, at, dest, flags, enginePath, shelves, faults>>

\* The engine dies by itself.
EngineDies ==
    /\ Alive /\ Fault
    /\ child' = "none"
    /\ UNCHANGED <<disks, memPath, at, dest, flags, enginePath, orphan, shelves>>

-----------------------------------------------------------------------------
(* chooseDownloads. *)

\* From the menu or the page; refused while busy.  The window of a failed
\* boot, and its menu, stays when the engine does not stop in time; the model
\* lets the user in as soon as boot has failed.
Choose ==
    /\ at["boot"] \in {"done", "failed"} \/ (EarlyMenu /\ at["boot"] = "checking")
    /\ at["choose"] = "none" /\ ~ busy
    /\ ~ orderly \/ (~ Importing /\ rem = Nobody)
    /\ busy' = TRUE
    /\ Goto("choose", "dialog")
    /\ UNCHANGED <<disks, memPath, dest, quitting, engine, shelves, faults>>

\* The dialog: cancelled, or the folder in use, or another folder.
Pick(d) ==
    /\ at["choose"] = "dialog"
    /\ \/ /\ d = memPath
          /\ Goto("choose", "none") /\ busy' = FALSE
          /\ UNCHANGED dest
       \/ /\ d # memPath
          /\ Goto("choose", "pause") /\ dest' = d
          /\ UNCHANGED busy
    /\ UNCHANGED <<disks, memPath, quitting, engine, shelves, faults>>

\* pause: nothing to do without a child; a port that does not answer makes
\* it throw, and a child that is closing may or may not answer.
Pause ==
    /\ at["choose"] = "pause"
    /\ \/ /\ child \in {"none", "closing"} \/ PortAnswers
          /\ Goto("choose", "stop") /\ UNCHANGED <<busy, faults>>
       \/ child \in {"booting", "closing"} /\ Fail("choose") /\ UNCHANGED faults
       \/ child = "up" /\ Fault /\ Fail("choose")
    /\ UNCHANGED <<disks, memPath, dest, quitting, engine, shelves>>

\* stop: ask the child to shut down, then wait for it to close.
Stop ==
    /\ at["choose"] = "stop"
    /\ child' = IF Alive THEN "closing" ELSE child
    /\ Goto("choose", "stopping")
    /\ UNCHANGED <<disks, memPath, dest, flags, enginePath, orphan, shelves, faults>>

\* Mutant: stop does not wait for the process.
StoppedEarly(p) ==
    /\ \/ p = "choose" /\ at[p] = "stopping" /\ Goto(p, "begin") /\ UNCHANGED busy
       \/ at[p] \in {"giveup", "abandon"} /\ Fail(p)
    /\ UNCHANGED <<disks, memPath, dest, quitting, engine, shelves, faults>>

Stopped(p) ==
    /\ child = "none"
    /\ \/ p = "choose" /\ at[p] = "stopping" /\ Goto(p, "begin") /\ UNCHANGED busy
       \/ at[p] \in {"giveup", "abandon"} /\ Fail(p)
    /\ UNCHANGED <<disks, memPath, dest, quitting, engine, shelves, faults>>

\* "Server is still closing": thirty seconds were not enough.
StopExpires(p) ==
    /\ at[p] \in {"stopping", "giveup", "abandon"} /\ child = "closing"
    /\ Fault
    /\ Fail(p)
    /\ UNCHANGED <<disks, memPath, dest, quitting, engine, shelves>>

\* The catch: with a journal, or with a child, nothing is restarted.
Recover ==
    /\ at["choose"] = "recover"
    /\ \/ ~ Pending /\ child = "none" /\ Spawn("choose", "recovering")
       \/ /\ Pending \/ child # "none"
          /\ Goto("choose", "none") /\ busy' = FALSE
          /\ UNCHANGED <<disks, memPath, dest, quitting, engine, shelves, faults>>

-----------------------------------------------------------------------------
(* migrate, called by boot or by chooseDownloads. *)

Unmoved == <<dest, quitting, engine, shelves, faults>>

\* Resume what the journal says, or check the destination and write one.  The
\* inventory lists every file, also the staging copy of an import if there is
\* one by then.  boot passes no folders: it cannot begin a move.
MoveBegin(p) ==
    /\ at[p] = "begin"
    /\ \/ /\ Pending
          /\ Goto(p, CASE journal.stage = "copying" -> "copy"
                       [] journal.stage = "verified" -> "settle"
                       [] journal.stage = "cleanup" -> "clean")
          /\ UNCHANGED <<disks, imp, busy>>
       \/ /\ ~ Pending /\ p = "choose" /\ shelf[dest] = {}
          /\ journal' = [stage |-> "copying", source |-> memPath,
                         destination |-> dest, files |-> shelf[memPath]]
          /\ \/ UNCHANGED <<partial, imp>>
             \/ /\ imp.step = "store" /\ imp.dir = memPath
                /\ partial' = "there" /\ imp' = [imp EXCEPT !.listed = TRUE]
          /\ Goto(p, "copy")
          /\ UNCHANGED <<shelf, index, savedPath, busy>>
       \/ /\ ~ Pending /\ (p = "boot" \/ shelf[dest] # {})
          /\ Fail(p) /\ UNCHANGED <<disks, imp>>
    /\ UNCHANGED <<memPath, dest, quitting, engine, rem, asked, orderly, faults>>

\* Every original is digested and copied; one that is gone throws.
Originals == journal.files \subseteq shelf[journal.source] /\ partial # "gone"

MoveCopy(p) ==
    /\ at[p] = "copy"
    /\ \/ /\ Originals
          /\ shelf' = [shelf EXCEPT ![journal.destination] = @ \cup journal.files]
          /\ Goto(p, "recheck")
          /\ UNCHANGED <<partial, index, journal, savedPath, busy>>
       \/ /\ ~ Originals
          /\ Fail(p) /\ UNCHANGED disks
    /\ UNCHANGED <<memPath, Unmoved>>

BothHold == Originals /\ journal.files \subseteq shelf[journal.destination]

MoveVerified(p) ==
    /\ at[p] = "recheck"
    /\ \/ /\ BothHold
          /\ journal' = [journal EXCEPT !.stage = "verified"]
          /\ Goto(p, "settle")
          /\ UNCHANGED <<shelf, partial, index, savedPath, busy>>
       \/ ~ BothHold /\ Fail(p) /\ UNCHANGED disks
    /\ UNCHANGED <<memPath, Unmoved>>

\* Mutant: the settings object is not updated.
MoveSettleForgets(p) ==
    /\ at[p] = "settle"
    /\ IF BothHold THEN Goto(p, "saved") /\ UNCHANGED busy ELSE Fail(p)
    /\ UNCHANGED <<disks, memPath, Unmoved>>

\* The second recheck, then the first half of saveDownloadPath.
MoveSettle(p) ==
    /\ at[p] = "settle"
    /\ \/ /\ BothHold
          /\ memPath' = journal.destination
          /\ Goto(p, "saved")
          /\ UNCHANGED busy
       \/ ~ BothHold /\ Fail(p) /\ UNCHANGED memPath
    /\ UNCHANGED <<disks, Unmoved>>

\* The second half: the settings file.
MoveSave(p) ==
    /\ at[p] = "saved"
    /\ savedPath' = journal.destination
    /\ Goto(p, "mark")
    /\ UNCHANGED <<shelf, partial, index, journal, memPath, busy, Unmoved>>

MoveMark(p) ==
    /\ at[p] = "mark"
    /\ journal' = [journal EXCEPT !.stage = "cleanup"]
    /\ Goto(p, "clean")
    /\ UNCHANGED <<shelf, partial, index, savedPath, memPath, busy, Unmoved>>

\* Mutant: the old folder is emptied, not only of the files of the journal.
MoveCleanAll(p) ==
    /\ at[p] = "clean"
    /\ shelf' = [shelf EXCEPT ![journal.source] = {}]
    /\ journal' = [journal EXCEPT !.stage = "none"]
    /\ partial' = "none"
    /\ Goto(p, IF p = "boot" THEN "prepare" ELSE "restart")
    /\ UNCHANGED <<index, savedPath, memPath, busy, Unmoved>>

\* Remove the originals that still have a copy, then the journal.  An import
\* whose staging copy goes with them will fail.
MoveClean(p) ==
    /\ at[p] = "clean"
    /\ LET left == journal.files \cap shelf[journal.source]
       IN \/ /\ left \subseteq shelf[journal.destination]
             /\ shelf' = [shelf EXCEPT ![journal.source] = @ \ left]
             /\ journal' = [journal EXCEPT !.stage = "none"]
             /\ partial' = "none"
             /\ Goto(p, IF p = "boot" THEN "prepare" ELSE "restart")
             /\ UNCHANGED <<index, savedPath, busy>>
          \/ /\ ~ (left \subseteq shelf[journal.destination])
             /\ Fail(p) /\ UNCHANGED disks
    /\ UNCHANGED <<memPath, Unmoved>>

\* Any call of migrate rejects.
MoveError(p) ==
    /\ Moving(p) /\ Fault /\ Fail(p)
    /\ UNCHANGED <<disks, memPath, dest, quitting, engine, shelves>>

Move(p) ==
    \/ MoveBegin(p) \/ MoveCopy(p) \/ MoveVerified(p) \/ MoveSettle(p)
    \/ MoveSave(p) \/ MoveMark(p) \/ MoveClean(p)

-----------------------------------------------------------------------------
(* Quitting. *)

\* before-quit: refused while busy, else stop the engine first.
Quit ==
    /\ Running /\ ~ busy /\ ~ quitting
    /\ quitting' = TRUE
    /\ child' = IF Alive THEN "closing" ELSE child
    /\ UNCHANGED <<disks, memPath, at, dest, busy, enginePath, orphan, shelves,
                   faults>>

\* What is left behind when the process ends.
Off ==
    /\ at' = [at EXCEPT !["boot"] = "off", !["choose"] = "none"]
    /\ busy' = FALSE /\ quitting' = FALSE
    /\ orphan' = IF child # "none" THEN "answers" ELSE orphan
    /\ child' = "none"
    /\ imp' = NoImport /\ rem' = Nobody
    /\ UNCHANGED <<disks, memPath, dest, enginePath, asked, orderly>>

\* Mutant: the window lets itself be closed during an operation.
ExitAnyway ==
    /\ quitting
    /\ child # "closing"
    /\ Off
    /\ UNCHANGED faults

\* app.quit, once the engine is down, closes the window; the window refuses
\* while busy.  quitting then stays set, and the next attempt does not stop
\* the engine that was started meanwhile: it ends on end of input.
Exit ==
    /\ quitting /\ ~ busy
    /\ child # "closing"
    /\ Off
    /\ UNCHANGED faults

QuitExpires ==
    /\ quitting /\ child = "closing"
    /\ Fault
    /\ quitting' = FALSE
    /\ UNCHANGED <<disks, memPath, at, dest, busy, engine, shelves>>

Crash ==
    /\ Running /\ Fault /\ Off

-----------------------------------------------------------------------------
(* Books: none of these handlers looks at busy or at the journal. *)

BooksOpen ==
    /\ at["boot"] = "done"
    /\ ~ orderly \/ (at["choose"] = "none" /\ ~ Pending)

\* importFiles: not indexed yet; the destination is fixed now.
ImportBegin(b) ==
    /\ BooksOpen /\ ~ Importing
    /\ b \notin index
    /\ imp' = [book |-> b, dir |-> memPath, step |-> "store", listed |-> FALSE]
    /\ UNCHANGED <<disks, memPath, at, dest, flags, engine, rem, asked, orderly,
                   faults>>

\* What becomes of a listed staging copy when its import renames or removes it.
TakePartial == partial' = IF imp.listed /\ partial = "there" THEN "gone" ELSE partial

\* The verified copy gets its name, unless a move has taken it away.
ImportStore ==
    /\ imp.step = "store"
    /\ \/ /\ imp.listed => partial = "there"
          /\ shelf' = [shelf EXCEPT ![imp.dir] = @ \cup {imp.book}]
          /\ imp' = [imp EXCEPT !.step = "index", !.listed = FALSE]
       \/ /\ imp.listed /\ partial # "there"
          /\ imp' = NoImport /\ UNCHANGED shelf
    /\ TakePartial
    /\ UNCHANGED <<index, journal, savedPath, memPath, at, dest, flags, engine,
                   rem, asked, orderly, faults>>

ImportIndex ==
    /\ imp.step = "index"
    /\ index' = index \cup {imp.book}
    /\ asked' = asked \ {imp.book}
    /\ imp' = NoImport
    /\ UNCHANGED <<shelf, partial, journal, savedPath, memPath, at, dest, flags,
                   engine, rem, orderly, faults>>

\* The copy or the index cannot be written: what the import made is removed
\* where it was made.
ImportFails ==
    /\ Importing /\ Fault
    /\ shelf' = IF imp.step = "index"
                  THEN [shelf EXCEPT ![imp.dir] = @ \ {imp.book}] ELSE shelf
    /\ TakePartial
    /\ imp' = NoImport
    /\ UNCHANGED <<index, journal, savedPath, memPath, at, dest, flags, engine,
                   rem, asked, orderly>>

\* remove: the file in the folder in use now, then the index.
RemoveFile(b) ==
    /\ BooksOpen /\ rem = Nobody
    /\ b \in index
    /\ shelf' = [shelf EXCEPT ![memPath] = @ \ {b}]
    /\ rem' = b /\ asked' = asked \cup {b}
    /\ UNCHANGED <<partial, index, journal, savedPath, memPath, at, dest, flags,
                   engine, imp, orderly, faults>>

RemoveIndex ==
    /\ rem # Nobody
    /\ index' = index \ {rem}
    /\ rem' = Nobody
    /\ UNCHANGED <<shelf, partial, journal, savedPath, memPath, at, dest, flags,
                   engine, imp, asked, orderly, faults>>

RemoveFails ==
    /\ rem # Nobody /\ Fault
    /\ rem' = Nobody
    /\ UNCHANGED <<disks, memPath, at, dest, flags, engine, imp, asked, orderly>>

-----------------------------------------------------------------------------
\* What the event loop does once its input is there.
Continue ==
    \/ BootJournal \/ BootEngine \/ RestartEngine
    \/ \E p \in Activities : Polled(p) \/ Stopped(p) \/ Move(p)
    \/ Pause \/ Stop \/ Recover
    \/ ImportStore \/ ImportIndex \/ RemoveIndex

User ==
    \/ Launch \/ Choose \/ Quit \/ Exit
    \/ \E d \in Dirs : Pick(d)
    \/ \E b \in Books : ImportBegin(b) \/ RemoveFile(b)

Environment ==
    \/ EngineReady \/ EngineRefused \/ EngineExits \/ EngineDies
    \/ \E p \in Activities : StartExpires(p) \/ StopExpires(p) \/ MoveError(p)
    \/ QuitExpires \/ Crash \/ ImportFails \/ RemoveFails

Next == Continue \/ User \/ Environment

Spec == Init /\ [][Next]_vars

\* The event loop runs what is ready, activity by activity; the user answers
\* the folder dialog, reopens the application, closes it when a boot failed or
\* a message asks for it, and does not close it every time before boot has
\* read the journal; the engine gets up or down in the end.
Fairness ==
    /\ SF_vars(BootJournal) /\ WF_vars(BootEngine)
    /\ \A p \in Activities : WF_vars(Polled(p) \/ Stopped(p) \/ Move(p))
    /\ WF_vars(RestartEngine \/ Pause \/ Stop \/ Recover)
    /\ WF_vars(ImportStore \/ ImportIndex) /\ WF_vars(RemoveIndex)
    /\ WF_vars(\E d \in Dirs : Pick(d))
    /\ WF_vars(EngineReady) /\ WF_vars(EngineExits)
    /\ WF_vars(Launch)
    /\ SF_vars((Quit \/ Exit) /\ (at["boot"] = "failed" \/ Pending))

FairSpec == Spec /\ Fairness

-----------------------------------------------------------------------------
(* Properties. *)

\* While a move runs the application has no engine, not even one that was
\* told to shut down and has not, and there is no second move.  (Comment of
\* migrate: the caller stops the server before invoking migration or
\* recovery.)  The application waits for its own child only: an orphan may
\* still be shutting down beside a move, and is outside the promise.
MoveAlone ==
    (\E p \in Activities : Moving(p))
        => /\ child = "none"
           /\ ~ (Moving("boot") /\ Moving("choose"))

\* When no operation is under way and the reader is open, the application's
\* own engine, if it is up, writes its downloads to the folder that the books
\* use and that the next start will use.
EngineFollowsSettings ==
    child = "up" /\ at["boot"] = "done" /\ ~ busy
        => enginePath = memPath /\ memPath = savedPath

\* Whatever runs at the same time, an indexed book the user did not remove
\* has its managed file in some folder: no move deletes the only copy.
BooksNeverLost ==
    \A b \in index \ asked : \E d \in Dirs : b \in shelf[d]

\* The process ends during a move only by a crash: neither the quit command
\* nor closing the window interrupts one, whatever was asked for before.
NoExitDuringMove ==
    [][ (\E p \in Activities : Moving(p)) /\ Running /\ ~ Running' => Crash ]_vars

\* Every folder operation and every boot ends, so that the window can be
\* closed again.
BusyEnds == busy ~> ~ busy

\* README: verified managed copies live under the chosen downloads folder.
BooksServed ==
    Running /\ ~ Pending /\ ~ Importing /\ rem = Nobody
        => index \ asked \subseteq shelf[memPath]

\* Restarting Bihon resumes the operation first (comment of chooseDownloads),
\* so an unfinished move is finished in the end.
MoveResolves == Pending ~> ~ Pending

\* When nobody imports or removes books while a move is unfinished, they are
\* served, and a reader of the settings file finds them all in the folder it
\* names at every instant, also of a move and of its interruptions.
OrderlyBooksServed ==
    orderly => BooksServed /\ index \ asked \subseteq shelf[savedPath]

\* Then, too, an unfinished move is finished in the end.
OrderlyMoveResolves == orderly /\ Pending ~> ~ Pending
=============================================================================
