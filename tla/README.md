# TLA+ specifications of Bihon

Bihon is a local manga and book reader. Its desktop application is an Electron
shell (`desktop/`) around a Java engine (Suwayomi, `vendor/server`) that serves
a web page (`vendor/webui`); its Android application is a pinned Mihon with a
few classes of its own (`android/source`). This directory specifies Bihon's own
logic: what it does to the user's library, over crashes, failures, timeouts and
concurrent requests. Paths and line numbers below are relative to the root of
the repository.

- [The system](#the-system)
- [Hard behaviours](#hard-behaviours)
- [Modules](#modules)
- [Runs](#runs)
- [Where code and documents disagree](#where-code-and-documents-disagree)
- [Fairness](#fairness)
- [Proofs](#proofs)
- [Not modelled](#not-modelled)
- [Plan](#plan)

## The system

| Component | State it keeps | Operations | Correct when |
| --- | --- | --- | --- |
| Desktop shell, `desktop/main.cjs` | `settings`, `busy`, `quitting`, `server`, `books`, the retry timer; `desktop-settings.json` | `boot`, `chooseDownloads`, `before-quit`, the IPC handlers | a folder operation runs alone, ends, and leaves engine, books and settings in one folder |
| Download migration, `desktop/storage.cjs` | `download-migration.json`, both folders | `migrate`: check, inventory, copy, recheck, commit, clean up | no instant shows an incomplete library; every interruption is resumed; nothing is overwritten |
| Engine lifecycle, `desktop/server.cjs`, `desktop/java/BihonServer.java` | `child`, `closed`; `bin/kcef` with its marker | `start`, `pause`, `stop`, each with a deadline | at most one engine holds the library; stop means stopped; no engine starts with half a WebView |
| Upgrade snapshots, `desktop/upgrades.cjs` | `upgrade-state.json`, `backups/bihon-upgrades` | `prepareUpgrade`, `markVersionStarted` | no newer engine opens a library of which there is no verified copy |
| Default store, `desktop/defaults.cjs` | `default-repository.json`, the engine's table of stores | `setupExtensions`, `configureDefaultRepository` | registered in the end, and never again after the user removed it |
| Managed books, `desktop/books.cjs` | `books.json`, the `Books` folder, the cover cache, the promise chain `queue` | `importFiles`, `finalize`, `saveProgress`, `remove`, catalogs, `acquire`, the `bihon-book` protocol | index and files agree, no update is lost, no request goes where the user did not approve, a body is the range asked for |
| Default store on Android, `BihonDefaultExtensionStore.kt`, `BihonDefaultExtensionStoreSetup.kt` | the database's stores, one preference, a mutex, a job | `ensureRegistered`, `remove`, `start` | the user's removal wins; one catalog refresh |
| Runtime tooling, `scripts/bootstrap.cjs`, `runtime-tools.cjs`, `prepare-webview.cjs`, `electron-builder.cjs` | `downloads`, extracted archives and their markers, `kcef` with its marker | `bootstrap`, `downloadVerified`, `prepareWebview`, `beforePack` | "Ready." means that every pinned file is there |
| Android source, `scripts/android-prepare.cjs`, `android-source.cjs`, `android-collect.cjs` | the cached archive, the generated directory, its receipt | `prepare`, `verifyPrepared`, `sourceArchive`, `collect` | a receipt is true; edits are not overwritten; what is shipped is what the recipe makes |
| Platform paths, preload bridge | none | pure functions, forwarding | - |
| Other scripts, workflows, vendored engine and page | build outputs; the engine's own database | - | outside these specifications, see [Not modelled](#not-modelled) |

How they interact:

- `boot` reads the settings, installs menu and handlers, resumes a migration
  that a journal records, takes the upgrade snapshot, starts the engine, records
  the version, registers the default store and loads the page, in this order.
- `chooseDownloads` sets `busy`, asks for a folder, pauses and stops the engine,
  calls `migrate` with `saveDownloadPath` as its commit, and starts the engine
  again. If anything throws it starts the engine again only when no journal is
  left.
- The page calls the shell over IPC; all handlers run as interleaved activities
  of one event loop, so state read before an `await` may be old after it.
- The engine is a child process. It shuts down on a line or on the end of its
  input, so it outlives a killed shell for a while, and answers on the port of the
  settings meanwhile. Its requests go on when the shell stops waiting for them.
- The engine keeps the extension stores in a table, in a setting in memory and in
  `server.conf`, and copies each to the other at its start and after changes.
- Catalog calls share the index and the managed folder with imports; the
  protocol handler reads the index, then the size of a file, then the file, with
  anything in between.
- The scripts hand their results on by files: what `bootstrap` prepared is
  packaged by electron-builder, installed, and copied into the application data
  by `Server.start`. Each stage looks at the marker of the one before.
- Shared state: the settings object and file, the download folder (engine,
  books, migration), the journal, the table of stores.

## Hard behaviours

`PROJECT.json` lists the hazards line by line, with the properties that are
about them. They are of six kinds: a crash between any two steps of a protocol
that spans several files (migration, snapshot, markers, receipts); calls of the event loop
that interleave at awaits (books against a move, quitting against everything,
the index of books, catalogs); deadlines after which the other side goes on (engine start
and stop, `addExtensionStore`); a second program with its own memory (the
engine of a killed shell, older versions of Bihon on the same data); something
that was checked and is used later (the size of a file, the approval of a
catalog, a prepared directory); and what
must happen in the end although attempts fail (a recorded move, the upgrade,
the registration).

## Modules

| Module | Models | Composes |
| --- | --- | --- |
| `SafeMove` | what a move promises: one atomic change of the folder that keeps the library | |
| `DownloadMigration` | `migrate` step by step with its two callers, crashes, errors and edits by others | implements `SafeMove` |
| `MCDownloadMigration` | its instance: interchangeable folders, one content per file at first | |
| `DownloadMigrationProofs` | its theorems | |
| `DesktopShell` | boot, folder operation, quitting, engine, moves at the grain of their phases, imports and removals of books | the parts of the shell |
| `DesktopShellProofs` | its theorems | |
| `UpgradeSnapshot` | snapshots over a history of versions | |
| `UpgradeSnapshotProofs` | its theorems | |
| `DefaultStore` | registration on the desktop; the engine's table, setting and `server.conf` | shell, timer and engine |
| `AndroidDefaultStore` | registration on Android | |
| `DefaultStoreProofs` | theorems of both | |
| `AtomicShelf` | what the book service promises of the index: calls that take effect one at a time | |
| `BookShelf` | the book service: calls, files, covers, index, promise chain | implements `AtomicShelf` |
| `BookShelfProofs` | its theorems | |
| `ByteRange` | `parseByteRange`, and what a range header asks for | |
| `BookRequests` | catalogs, redirections, acquisition, the protocol handler | `ByteRange` |
| `MCBookRequests` | three addresses with their approvals, and `parseByteRange` for all small files | |
| `BookRequestsProofs` | theorems of both | |
| `RuntimeSetup` | bootstrap, WebView preparation, packaging, the copy at the first start | scripts and engine start |
| `MCRuntimeSetup` | its instance: two WebViews, of which the second lacks a file of the first | |
| `RuntimeSetupProofs` | its theorems | |
| `AndroidSource` | preparation, verification, source archive and package of Bihon Android | |
| `MCAndroidSource` | its instance: one file of each kind, two copies | |
| `AndroidSourceProofs` | its theorems | |

The runs of modules without an MC module instantiate the module itself. Names
that start with a comment `Mutant:` are wrong variants of the definition after
them; nothing uses them. They exist to show that each property notices a
plausible bug.

### DownloadMigration

One variable per thing that can disagree: `disk` (every folder), the journal
file, the settings file (`savedPath`), the settings object (`memPath`), and the
local variables of `migrate`. `pc` names the await the process stands at. Each
action is the code between two awaits: `DigestOriginal`, `FindExisting`,
`StageCopy`, `PlaceCopy` are the copy loop (storage.cjs:90-110), `RecheckFile`
both recheck loops (112-114, 118-122), `CommitMemory` and `CommitSettings` the
two halves of `saveDownloadPath` (main.cjs:48), `CheckOriginal` and `Unlink` the
cleanup (127-134). `Throw` is any exception: memory is lost, the journal file
stays. `Crash` and `IOError` may strike at every step, `TornCopy` makes the disk
return other bytes, `Edit` is anybody else. A digest is the content it
stands for.

A staging copy (`<file>.bihon-partial-<uuid>`, storage.cjs:102-104) is a file under
a name of `Partials` that nothing had before. A kill or a failed verification
leaves it in the destination, and nothing ever removes it: after the commit it is
in the folder that is served, the emptiness check of the next move counts it, and the
inventory (74) takes it for a file of the library, which that move copies too.

`ServedComplete` is the heart: at every instant, in particular at every point a
crash may leave, the folder named in the settings file holds every file
the user had when the move was asked for, and besides them nothing but such staging
copies; files that others edited are exempt. `ImplementsSafeMove` says the same as a
refinement, of all steps at once; the staging copies come into view with its `Move`
(`Extras`).

### DesktopShell

The same move in phases (`MoveBegin` ... `MoveClean`), so that everything that
surrounds it fits: the two activities `boot` and `choose` with their own program
counter in `at`, `busy`, `quitting`, the child process with the folder it was
started with, an `orphan` engine of a killed process, one import and one removal
of books. A folder is the set of books whose file it holds; `partial` follows the
staging copy of an import that the inventory of a move happened to list, because
the move then waits for a file that the import renames. `Fail` is the
common exception path: `boot` leaves through its `finally` and will quit,
`chooseDownloads` goes to its `catch` (`Recover`). `Off` is what remains on the
disk when the process ends. `Exit` needs `~ busy` because the window refuses to
close; it does not need the engine stopped a second time, as in the code, where
`before-quit` returns at once when `quitting` is set.

`orphan` is what is left of the engine of a killed process: it `answers`, then it is
`silent` but not gone. A new engine that finds the port or the database taken gives up
(`EngineRefused`, AppMutex.kt), and may come up when the orphan has closed its port
and released the database, before it is gone (`EngineReady`). `Server.start`, like
`pause`, polls the port of the settings, so an orphan that still answers lets it
succeed without an engine of its own (`PortAnswers`, `Polled`; server.cjs:82-91).
The properties therefore speak of the application's own engine. The window of a failed
boot stays when the engine does not stop in time, with its menu: `Choose` includes a
folder operation from there (main.cjs:140-142,196,204), and one that succeeds opens
the reader.

The variable `orderly`, chosen at the start, says whether the user leaves the
books alone while a move is unfinished. `BooksServed` and `MoveResolves` fail
without it and hold with it; `OrderlyBooksServed` then also says of all phases what
`ServedComplete` says of the single steps, that the folder named in the settings file
has the books at every instant.

### UpgradeSnapshot

Versions are numbers; 1 is 0.1.0, which has no upgrade code and writes no
marker. `Launch(v)` starts any newer one, in any order. `schema` is the newest
engine that opened the database, `usedBy` the newest version the user has worked
with, `last` the marker. `Begin`, `CopyItem`, `WriteManifest`, `Reuse`, `Refuse`,
`SkipSnapshot`, `NoSpace` are the branches of `prepareUpgrade`. `low` says that there
is too little space for a whole copy; it is looked at before each attempt, a retry in
the directory of an interrupted one included (upgrades.cjs:43-45), although what that
one copied takes from the space. `FillDisk` is anybody, `FreeSpace` the user. `Stop` is
a kill or any exception, `Damage` a change of a snapshot by somebody else.

### DefaultStore

`pc` walks through `setupExtensions` and `configureDefaultRepository`; `own` is the call
of the engine whose answer the shell awaits, if it has not given it up. The store is in
the engine's table (`present`), in its setting (`listed`) and in `server.conf` (`conf`).
`work` says what each call of the engine does next: the registration and the user's
addition upsert a row and then copy the table to the setting (`syncDbToPrefs`), the
removal deletes the row and does the same (ExtensionStoreMutation.kt:84), the refresh
reads rows, fetches them and upserts what it has read (ExtensionStoreService.kt:127-154).
`SaveConf` saves the setting. The watcher is `syncPrefsToDb` (ServerSetup.kt:524-530):
at the start of the engine and after each change it adds to the table what the setting
has, and takes out what it has not. Each can bring a removed store back, or take a
registered one out (`dropped`).

The timer is in the model with its ends: an attempt that fails while Bihon quits arms
none (main.cjs:39), `before-quit` clears it (203), one that fires while quitting does
nothing (32). After a quit whose stop times out (204) the session goes on without a
timer; `MoveEnds` may leave no engine behind (75).

### AndroidDefaultStore

Two coroutines and a mutex. A store is one of five kinds, by its URL and its
key, which is what `isDefaultStore` and the key check tell apart. `Kill` may
come between the database and the preference. Some names start with `Android`, so that
one proof module can extend this module and `DefaultStore`.

### BookShelf

`call` holds up to `MaxCalls` calls, each with the step it stands at and the
index it has read (`seen`); `queue` is the promise chain. `MutateRead` and
`MutateWrite` are the two awaits inside `mutate`, `WriteCover` the files that
`finalize` writes between them, `Undo` what a failed import removes. Reads and
file operations outside the chain interleave with it.

`AtomicShelf` is what a caller may rely on: a call is asked for (`Ask`), takes effect
on the index in one step (`Import`, `Finalize`, `SaveProgress`, `Remove`) and returns in
it, or has none (`NoEffect`, `Forget`). `ImplementsAtomicShelf` maps `index` to
`shelf`, what the calls under way were asked for to `open`, and `saved` to `reported`.
The effect is in `MutateWrite`, on the index as it is then; all that a call read or
wrote before is a stutter. Files and covers are not in the abstract state:
`IndexedIsThere` ties them to the index.

### ByteRange and BookRequests

`ByteRange` has `parseByteRange` as a function of a header record and a size,
next to `Requested`, the set of offsets that the header denotes.

`BookRequests` tells an address apart by the approval it needs (none, the
user's, or none suffices), which is what `validateCatalogUrl` decides with the
protocol and the answers of the name service. `call` follows each of `addCatalog`,
`fetchCatalog`, `fetchCover` and `acquire`: `Validate` and `Redirect` are the loop
of `fetchChecked`, with the approval read once at the start, `WriteTemp`, `Import`,
`Index` and `Clean` the rest of `acquire`, and `Fails` whatever throws, which ends in
the `finally` from the temporary file on. `temps` are the temporary files on the disk;
`stuck` are the calls that left theirs there, because the process ended or the removal
itself failed (books.cjs:223). `answer` is the protocol handler with its
three looks: `Ask` (the index), `Stat` (the size), `Open` (the file). `RemoveFile`,
`RemoveEntry` and `ReplaceCover` come in between.

### RuntimeSetup

A file's content is the archive it comes from, so a mixture can be seen. `script`
is a running preparation with the pin it was loaded with; `verified` are the
extraction markers, `release` the marker in the server directory, `cefRelease`
the one in the application data. `Verify`, `Fetch`, `FetchFails` are
`downloadVerified`, `Use`, `Unpack`, `Mark` the extraction under its marker, `Copy` and
`Publish` `installWebview`, `Package` `beforePack` and what it lets through, `Launch`,
`CopyCef`, `MarkCef` the lines of `Server.start` about the WebView. `Interrupt` and
`Kill` may come between any two files or in the middle of one, which is then gone or
in part (`Broken`), because `fs.cp` with `force` removes a file before it copies.

Archives have different files (`PartsOf`), and no copy removes what an earlier WebView
left: `Whole` is that every file of an archive is there, whatever is beside them.
`prepareWebview` copies in each run, also over a finished install whose marker stands;
`redone` remembers that such a copy has begun and none has finished since.

### AndroidSource

A file is the upstream one, what a recipe makes of it, or edited. A recipe is a
state of the working tree; `script.mine` is the one a preparation was loaded with,
`recipe` the one that is there now. Templates, icon and identity are read late, from
`recipe`, as in the code. Only a template must not be there yet (`Add`,
android-prepare.cjs:138); icon, launcher, notice and build notes are written over
whatever is there (`Overwrite`), and the copies in the assets are made from files of
the directory (`CopyAsset`, 182-183), with whatever edits those have.
`Verified` reads the files of the receipt and no others.
`ShipSource`/`TarSource` and `CollectApk`/`CopyApk` are the check and the use of
the two scripts that ship; edits, restored edits and gradle come in between.

Two things are assumed of the developer: he builds only where a preparation has
finished, and does not delete a directory while a script works with it. gradle, which
takes minutes, reads all files at one time.

## Runs

| Run | Checks | Instance | Shows |
| --- | --- | --- | --- |
| `migration` | `ServedComplete` `OriginalsUntilCommit` `NeverOverwrites` `ImplementsSafeMove` `JournalResolves` | 2 folders, 2 files and 4 names of staging copies, 2 contents, 1 edit, 2 faults | moves back and forth with interruptions at any step look like atomic moves and are finished |
| `shell` | `MoveAlone` `EngineFollowsSettings` `BooksNeverLost` `OrderlyBooksServed` `NoExitDuringMove` `BusyEnds` `OrderlyMoveResolves` | 2 folders, 1 book, 2 faults | a move is alone, uninterrupted, and never deletes an only copy, whatever the user does to books; operations end; with an orderly user books and moves come out right |
| `upgrade` | `SnapshotBeforeOpen` `NoDowngrade` `SnapshotsAreFinal` `UpgradeSucceeds` | 3 versions, 2 items, 2 contents, 4 snapshots, 2 faults | skipped, failed and repeated upgrades keep a copy of the library |
| `default_store_setup` | `MarkedMeansRegistered` `RemovalStays` `SetupCompletes` | 2 calls of the engine at a time, 3 faults | the registration ends, over failed quits and folder operations too, and a removal that all three records have stays |
| `android_store` | `RemovalWins` `OneRefresh` `SetupSettles` | 5 kinds of store, 2 faults | removal and registration in any order |
| `books` | `IndexedIsThere` `ProgressKept` `RemovedStaysOut` `ImplementsAtomicShelf` `CallsReturn` | 1 book, 3 calls at a time, 1 fault | concurrent calls on one book look like calls that change the index one at a time |
| `book_requests` | `RequestsAllowed` `CatalogsDistinct` `TempsCleaned` `ServedExactly` `CallsEnd` | 3 addresses, 2 calls, 1 redirection, 3 bytes, 2 covers | approvals hold over redirections, calls clean up and end, a served range is exact |
| `runtime` | `ReadyIsWhole` `ReleaseMeansWhole` `EngineSeesWebview` `BootstrapSucceeds` | 1 server with 1 file, WebViews with 2 files and 1, 2 changes of the pin, 2 faults | a bootstrap that finishes is whole; markers lie only where the properties say |
| `android_source` | `ReceiptIsTrue` `ShippedIsPrepared` `EditsKept` `PreparationSucceeds` | 8 files, 2 recipes, 2 changes of the tree, 1 edit, 2 faults | receipts are true, edits stay, what is shipped is of its recipe |
| `shell_books_served`, `shell_move_resolves`, `default_store_removal` | one property each | smallest instance | expected violations, see below |

The type invariants are proved, for each module that has one, and not run
again; the runs above check what is built on them.

Why the bounds are enough:

- `MaxFaults` counts crashes, errors and expired deadlines in a whole behaviour.
  Two let an interruption strike the recovery from an interruption, which is the
  deepest pattern the code has: every recovery starts from the disk alone, so a
  third one starts from a state that two already reach.
- Two folders let a move follow another one back to the folder it came from,
  with everything the first left there. A third folder adds only destinations
  that are like the second. Two files are one already treated and one not yet
  in every loop. Two contents tell the library's file from any other.
- `MaxEdits` 1: the properties are about each file by itself, exempting edited
  ones; one edit leaves one file edited and one not.
- One book in `shell`: the one that is moved is the one being imported or
  removed, which is the case that matters; the theorems have any number.
- Four names of staging copies: each attempt leaves at most one behind, and a name
  that is on the disk is never used again. Two faults leave at most two; a move that
  carries them along needs a third for the copy under way, and one is to spare.
- Three versions are an upgrade that skips a version, a return to the older one,
  and the upgrade again. Four snapshot directories let attempts at the two newer
  versions alternate.
- Three concurrent calls on one book: two that race and a third that undoes or
  completes one of them. Calls on different books share only the index, whose
  writes the chain orders; two calls on one book are the harder case.
- Two calls of the engine at a time: an abandoned registration and its repetition, or
  one of them against a removal or a refresh. The watcher is a third actor.
- Three addresses are one per approval; two catalog calls are two additions, or
  an addition and a removal, of the same one. `MaxRedirects` is 1 instead of 5: the
  loop has a first, a later and a last round with it. A call whose temporary file stays
  behind is not used again, as its name would not be. One header with its end
  beyond the file in the run; `MCBookRequests` evaluates `parseByteRange` for all
  headers and sizes up to 4 (`RangesAgree`), the theorem for all.
- Two WebViews and one server directory: a WebView copied over the same one or over
  another, with a file more or less, is the only way in which preparations meet.
  `MaxAttempts` is 2 instead of 4: one that is repeated and one that is the last.
- One upstream file that the recipe changes, one that it keeps and the one that it
  removes, a template, the icon, the notice, and copies of a written and of a kept file:
  the patches are alike within each group. The theorems have any files, upstream ones
  that are overwritten (the launcher) included.

Deadlock is checked in every run.

## Where code and documents disagree

Three runs check what a document or comment says and find a behaviour of the code
that does otherwise. `PROJECT.json` quotes the lines.

- `shell_books_served`: importing a book during a move (or acquiring one from a
  catalog) can leave its managed file in the folder that was left; README.md says
  that managed copies live under the chosen folder. `BooksNeverLost` shows that
  the file is not gone.
- `shell_move_resolves`: removing a book while a journal exists makes each
  resumption throw, so that Bihon quits at each start; the comment in
  `chooseDownloads` says that restarting resumes the operation. An import that
  was copying when the inventory was taken has the same effect.
- `default_store_removal`: a late or repeated `addExtensionStore` brings back a
  store that the user removed before the marker was written.

Two more are assumptions of the runs and of the theorems, constants that one can
set to `TRUE` to see the behaviour:

- `EarlyMenu` (`DesktopShell`): the menu works before `boot` has set `busy`
  (main.cjs:140,169,174), and a folder operation begun in that instant, one file
  read, runs beside the engine: `MoveAlone` fails.
- `LegacyReturns` (`UpgradeSnapshot`): 0.1.0 writes no marker, so when it has
  changed the library between a failed start of a newer version and the next one,
  the old snapshot is reused (upgrades.cjs:31): `SnapshotBeforeOpen` fails.

Exceptions that the properties themselves name, because the code accepts them:

- `ServedComplete` and `ImplementsSafeMove` exempt files that others edit during a
  move and the staging copies that interrupted attempts leave, `NeverOverwrites`
  files that appear in the destination between the look-up and the rename.
- `IndexedIsThere` exempts books whose removal did not reach the index
  (books.cjs:166-171; importing such a book again reports a duplicate and does not
  restore the file), imports that overlap a removal of the same book, and books
  whose file a failed second import of the same content took away (books.cjs:128).
- `NoDowngrade` is about versions that came up. A newer version whose engine
  migrated the database and then failed leaves no trace in the marker, and the
  older version opens that database; UPDATING.md asks the user to restore the
  snapshot first.
- `MoveAlone` and `EngineFollowsSettings` are about the application's own engine. The
  orphan of a killed process may still be shutting down beside a move that the next
  process resumes; nothing in the code waits for it.
- `UpgradeSucceeds` exempts a damaged snapshot, which the program refuses on purpose. A
  full disk is refused too, and the user is assumed to free space.
- `RemovalStays` starts when the store is out of the table, the setting and
  `server.conf`, and no call of the engine is on its way to add it. Before that an
  abandoned request, a refresh that has read the row, or a kill before `server.conf` is
  saved undoes a removal. `MarkedMeansRegistered` exempts a store that the engine has taken
  out of its table (`dropped`).
- `SetupSettles` exempts a store with a published URL and a foreign key.
- `ServedExactly` exempts a cover that is replaced between the look at its size and
  the opening of the stream (main.cjs:98,108): the announced length is then that of
  the old one. A book is always exact, because its name is its digest.
- `TempsCleaned` exempts the files that a process that ended, or a removal that failed
  (books.cjs:223), leaves in the managed folder (`stuck`); they stay there.
- `ReleaseMeansWhole` exempts a server directory from the first file of a repeated
  install, of the same WebView or another, until one finishes (`redone`): the marker
  stands meanwhile, and after a kill it tells of files that are missing. The comment at
  prepare-webview.cjs:23-24, that an interrupted preparation cannot look like a finished
  install, is true of a first install only. A bootstrap repeated to its end repairs it
  (`ReadyIsWhole`), but `npm run dist` accepts what it finds (`beforePack` looks for
  presence only); `EngineSeesWebview` exempts such a package (`mixed`). It also exempts a user who
  goes back to the release of the installed marker after the copy of another one
  was interrupted (`torn`): the markers agree and nothing is copied
  (server.cjs:28-32).
- `ReceiptIsTrue` exempts a working tree that changes while `prepare` runs
  (`moved`), because templates and identity are read late (android-prepare.cjs:136,234).
- `ShippedIsPrepared` names three gaps of the code. A source archive has the edits that
  were made while `prepare` ran, whose hash is in the receipt, and those made between
  `verifyPrepared` and `tar`. A package may have been built from edited files that were
  restored since, or be built between `verifyPrepared` and `copyFileSync`
  (android-collect.cjs:50-64), so what is said of it is that each file is of its recipe
  or an edit; the signature that `collect` has read may be that of an earlier package.
  Files that the recipe does not change are not verified. A working tree that changed
  while `prepare` ran is exempt here too (`moved`).

## Fairness

Liveness needs that somebody goes on. What is assumed:

- `DownloadMigration`: the process takes its steps (an `await` on local files
  ends), and the user reopens Bihon after it quit, as its message asks. Nothing
  is assumed of edits, of new moves, or of faults, which are finitely many.
- `DesktopShell`: the event loop runs each activity whose input is there (weak
  fairness for each). The user answers the folder dialog, opens Bihon, and quits
  when the start failed or a message asks for it; he does not quit each time
  before boot has read the journal (strong fairness of `BootJournal`). Strong
  fairness of quitting is needed because another operation may make `busy` true
  again. A child that was asked to close ends, and one that starts answers or
  ends; deadlines that expire first are faults.
- `UpgradeSnapshot`: boot takes its steps, sessions end, the user frees space when the
  disk is full, and the newest version is launched again and again, among others
  (strong, because other versions run in between).
- `DefaultStore`: the attempt and the timer go on, the engine works on its calls, and
  an engine that was told to shut down ends; a folder operation ends, with an engine or
  without one (main.cjs:75). When a
  quit has failed or the page has no engine, the user quits in the end and opens Bihon
  again: nothing else brings an engine or the timer back. A registration that the shell awaits
  gets past the table and the setting although other calls change them again and again
  (strong fairness of these two steps).
- `AndroidDefaultStore`: the job and the removal go on; the mutex is handed to a
  waiter in the end (a coroutine `Mutex` is a fair queue); the user opens the
  application again.
- `BookShelf`: each call that can go on does (file operations end).
- `BookRequests`: each call goes on, because requests have a deadline and file
  operations end. Nothing is assumed of what servers answer.
- `RuntimeSetup`: a script that runs goes on; the developer runs bootstrap again
  whenever that is possible again and again, and removes a download that it
  complains about. Failures are faults and finitely many.
- `AndroidSource`: a script goes on; the developer prepares again, and deletes the
  torn archive or the directory that a script refuses; docs/android.md calls the
  directory disposable.

## Proofs

The theorems hold for every value of the constants: any folders, files and contents,
any number of versions, any bounds. The assumptions are those of the modules:
`Absent`, `Missing` and `Nobody` are no contents or books, bounds are natural
numbers, there are at least two versions and there is a book, names of staging copies
are names of files, every server archive has the file that packaging looks for, and
the kinds of files in `AndroidSource` do not overlap. TLC evaluates them in each run.

Each proof module has an inductive invariant, `IInv` or several in layers, a lemma that `Init`
implies it, a lemma that every step keeps it (one case per action), and one
theorem per property.

- `DownloadMigrationProofs`: `TypeCorrect`, `LibraryAlwaysServed`
  (`ServedComplete`), `PathsAlwaysAgree`, `OriginalsKept`, `NothingOverwritten`
  and the refinement `MigrationRefinesSafeMove`. `ServedComplete` alone is not
  inductive: that removing an original does no harm needs to know that the
  settings already name the destination, which depends on the stage of the
  journal and on where the process is (`PhaseOK`, `FoldersOK`), and that the
  destination has every file, which depends on how far the recheck got
  (`FilesOK`). All four stages keep these through `Throw` and `Crash`, because
  they speak of the journal on the disk. `StagingOK` adds, for
  `NeverOverwrites`, that the file being staged was absent, and that its staging copy has
  a name of `Partials` that the journal does not list.
  The refinement shows that `CommitSettings` is `SafeMove!Move` and every other
  step is `Ask`, `Edit` or a stutter.
- `DesktopShellProofs`, assuming `~ EarlyMenu`: `MovesRunAlone` (`MoveAlone`),
  `MovesAreNotInterrupted` (`NoExitDuringMove`), `EngineWritesWhereBooksAre`
  (`EngineFollowsSettings`), `NoBookIsLost` (`BooksNeverLost`), `OrderlyBooksAreServed`;
  `TypeCorrect` needs no assumption. The invariants come in layers, each resting on the
  ones before. `Sequenced` says what boot, the folder operation, `busy` and the child can be at the
  same time, whatever an orphan does; that alone gives the first two theorems.
  `Settled` says which folder the settings object, the settings file, the journal
  and the engine mean at each step. `Shelved` says where the file of an indexed book
  may be while the journal names two folders: cleaning up needs that the destination
  holds what it removes. `OrderlyKept` says more when nobody touches the books: all of
  them are in the folder that the settings name at each stage.
- `BookRequestsProofs`: `RangeIsRequested` and `RefusedAsksNothing` (a range is
  exactly the interval that a header asks for, and is refused only when it asks for
  nothing), then `NoUnapprovedRequest` (`RequestsAllowed`), `TempsAreCleaned`
  (`TempsCleaned`),
  `CatalogsStayDistinct` and `BytesAreExact` (`ServedExactly`). The last one rests on
  `FileWhole` (a file under its final name has all its bytes), `RangeCut` (start and
  end were cut to the size that was seen) and `BodyHeld`.
- `RuntimeSetupProofs`: `BootstrapIsWhole` (`ReadyIsWhole`), `MarkerComesLast`
  (`ReleaseMeansWhole`), `EngineHasWebview` (`EngineSeesWebview`). `MarkersTrue` is
  that an extraction marker names a whole directory, `ScriptSound` what a running
  preparation has done so far, `MarkerCounted` that a copy under a standing marker is
  remembered in `redone`; `BundleSound`, `CefSound` and `AppSound` carry this on
  to the application.
- `AndroidSourceProofs`: `ReceiptTellsTruth`, `ShipsWhatItPrepared`, `EditsAreKept`.
  `ScriptSound` says that each step finds a file as the steps before have left it or
  edited meanwhile, and that there is no receipt while a preparation runs;
  `ReceiptFiles` the same of the hashes in a receipt; `PackageSound` and
  `ShippingSound` tie package and shipment to the receipt, which holds because
  nothing writes a second receipt without the directory having been deleted.
- `UpgradeSnapshotProofs`: `TypeCorrect`, `NeverDowngraded`, `SnapshotsStay` for
  every history; `SnapshotComesFirst` assuming `LegacyReturns = FALSE`. The
  invariant orders the numbers (`Order`: marker, snapshots and database), says
  that the directory being written has no manifest yet (`Directories`), and that
  what `pending` names, once complete, is a copy of the library as it is
  (`Fresh`); only the last needs the assumption.
- `DefaultStoreProofs`: `TypeCorrect`, `MarkerIsTrue` (`MarkedMeansRegistered`),
  `RecordedRemovalStays` (`RemovalStays`). `Answered` is what an attempt knows
  before it writes the marker, `Unrecorded` that no attempt runs after it. For
  `RemovalStays`, `Gone` is kept by each step of the engine's calls (`GoneByGoto`) and by
  its starts and ends (`GoneByEngine`).
  Of Android: `AndroidTypeCorrect`, `DeletionWins` (`RemovalWins`),
  `RefreshedOnce` (`OneRefresh`). `SetupPending` is what the mutex protects: the
  preference is still false while the setup is inside; `Remembered` is what the
  preference records.
- `BookShelfProofs`: `TypeCorrect`, `IndexedBooksAreThere` (`IndexedIsThere`),
  `ProgressIsKept`, `RemovedBooksStayOut` (`RemovedStaysOut`) and the refinement
  `CallsAreAtomic` (`ImplementsAtomicShelf`). None of them is inductive: what a callback
  writes is what it read before. `InLine` says that the chain is a line without
  repetitions, in which a call is exactly while it waits or has its turn, and that
  only the first is inside its callback; `AppendLine` and `TailLine` are the facts
  about sequences under it. From that follows `ReadsCurrent`: the index a callback has
  read is the one on the disk, but for the cover it has written itself. `Recorded`
  ties the index to what was reported. `Shelved` says which files are there, not only
  of indexed books but also of those that a queued import is about to index, and
  `AskedWhile` that a book is exempt as long as its removal is under way. The refinement
  shows that the first step of a call is `Ask`, `MutateWrite` the effect of its kind, a
  return without a write `NoEffect`, a crash `Forget`, and all else a stutter.

What is only model-checked: the liveness properties, since fairness and ENABLED are
beyond the proof system. Every safety property and every action property of the
runs that pass is proved, and so are both refinements.

## Not modelled

- The vendored engine and web page, except for what the shell sees of them, and the
  engine's synchronisation and refresh of extension stores, which `DefaultStore` has.
- Power loss: what a finished system call wrote is on the disk. The migration
  does not flush its copies before it removes the originals, the snapshot does.
- Links, nested folders, free space (except in `UpgradeSnapshot`), Windows file
  locks: in the code they only lead to an exception before or between the steps
  that the models have.
- In `BookRequests`: the content types, size limits and deadlines of answers, which
  only make a call throw; the parsing of addresses, of which the model keeps the
  approval they need. A name that resolves to another address after it was
  validated is outside the model.
- In `desktop/main.cjs`: zoom, navigation rules, menus that open folders, the second
  instance. They change nothing that the properties speak of.
- `platform.cjs`, `preload.cjs`: no state.
- The log stream, the UI copy and `server.conf` of `Server.start`: they delay or fail
  a start, which `DesktopShell` has.
- In the scripts: npm, javac, gradle, the page build and the SDK tools fail or
  change nothing here; `android-sdk.cjs`, `toolchain.cjs` and `build-ui.cjs` find paths
  and start one program each. The signature and version checks of `collect` only
  refuse a package.
- The verification drivers (`scripts/verify-*.cjs`, `android-smoke.cjs`), release
  scripts and workflows: they run the program, or other programs, and are not part
  of it.

## Plan

Done, in this order: `DownloadMigration` with `SafeMove`, `DesktopShell`,
`UpgradeSnapshot`, `DefaultStore`, `AndroidDefaultStore`, `BookShelf`, `RuntimeSetup`,
`AndroidSource`, `ByteRange` and `BookRequests`, their proofs, and `BookShelf` as an
implementation of `AtomicShelf`; then the engine's own store synchronisation in
`DefaultStore`. What is left:

1. The engine's download queue (`DownloadManager.kt`) against a stop in the middle of a
   chapter.
