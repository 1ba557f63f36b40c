---------------------------- MODULE DefaultStore ----------------------------
(***************************************************************************)
(* Registering the default extension store on the desktop: setupExtensions *)
(* with its retry timer and the quit protocol that clears it               *)
(* (src/desktop/main.cjs), configureDefaultRepository with its marker      *)
(* default-repository.json (src/desktop/defaults.cjs), and the engine,     *)
(* which keeps the stores three times: in its table, in memory (the        *)
(* setting extensionStores) and in server.conf (src/vendor/server,         *)
(* ExtensionStoreService).  Its calls change the table and then copy it to *)
(* the setting; a collector saves the setting to server.conf, and another, *)
(* the watcher, copies it back to the table at the start of the engine and *)
(* after each change.  A request that the shell gives up after 12 s goes   *)
(* on in the engine.                                                       *)
(*                                                                         *)
(* Abstractions.  Of all stores only the default one, under one URL.  The  *)
(* engine works on at most as many calls at a time as Calls has.  It stops *)
(* when a folder operation or a quit stops it, when it dies, or when the   *)
(* shell goes away, and its calls end with it wherever they are.           *)
(***************************************************************************)
EXTENDS Naturals

CONSTANTS
    Calls,      \* bound: the calls the engine works on at a time
    Watcher,    \* the collector that runs syncPrefsToDb
    NoCall,
    MaxFaults   \* bound: failed or slow requests, failed writes, exits,
                \* kills, folder operations, changes and quits by the user

ASSUME CallsAssumption == Watcher \notin Calls /\ NoCall \notin Calls \cup {Watcher}
ASSUME BoundsAssumption == MaxFaults \in Nat

VARIABLES
    present,    \* persistent: the default store is in the engine's table
    conf,       \* persistent: it is in server.conf
    listed,     \* it is in the setting extensionStores; as conf if no engine
    dirty,      \* the setting has changed since the watcher looked
    work,       \* what each call, and the watcher, does next
    engine,     \* server.child; "closing": it was told to shut down
    marker,     \* persistent: default-repository.json says configured
    pc,         \* where setupExtensions is; "waiting": the timer is armed;
                \* "idle": neither an attempt nor a timer
    own,        \* the call whose answer the shell awaits
    page,       \* has the reader page been loaded (first attempt over)?
    moving,     \* a folder operation is under way
    quitting,
    asked,      \* the user has asked this process to quit
    dismissed,  \* history: the user removed the store and has not had it back
    dropped,    \* history: the watcher took it out of the table
    faults      \* bound counter

kept    == <<present, conf, listed, dirty, work>>
shell   == <<pc, own, page>>
app     == <<moving, quitting, asked>>
past    == <<dismissed, dropped>>
vars    == <<kept, engine, marker, shell, app, past, faults>>

Workers == Calls \cup {Watcher}
Phases  == {"idle", "register", "add", "renew", "delete", "sync", "list",
            "unlist", "prefs", "wanted", "unwanted"}

TypeOK ==
    /\ present \in BOOLEAN /\ conf \in BOOLEAN /\ listed \in BOOLEAN
    /\ dirty \in BOOLEAN /\ work \in [Workers -> Phases]
    /\ engine \in {"off", "on", "closing"} /\ marker \in BOOLEAN
    /\ pc \in {"off", "check", "query", "adding", "mark", "waiting", "idle"}
    /\ own \in Calls \cup {NoCall} /\ page \in BOOLEAN
    /\ moving \in BOOLEAN /\ quitting \in BOOLEAN /\ asked \in BOOLEAN
    /\ dismissed \in BOOLEAN /\ dropped \in BOOLEAN /\ faults \in 0..MaxFaults
    /\ own # NoCall => pc = "adding"
    /\ engine = "off" => /\ own = NoCall /\ ~ dirty
                         /\ \A w \in Workers : work[w] = "idle"

\* A new installation, whose library may have been used by Bihon 0.1.0.
Init ==
    /\ present \in BOOLEAN /\ conf = present /\ listed = present
    /\ dirty = FALSE /\ work = [w \in Workers |-> "idle"]
    /\ engine = "off" /\ marker = FALSE
    /\ pc = "off" /\ own = NoCall /\ page = FALSE
    /\ moving = FALSE /\ quitting = FALSE /\ asked = FALSE
    /\ dismissed = FALSE /\ dropped = FALSE /\ faults = 0

Fault == faults < MaxFaults /\ faults' = faults + 1

-----------------------------------------------------------------------------
(* The engine's process. *)

\* It reads server.conf, and the watcher makes its first comparison.
EngineStarts ==
    /\ engine' = "on" /\ listed' = conf /\ dirty' = FALSE
    /\ work' = [w \in Workers |-> IF w = Watcher THEN "prefs" ELSE "idle"]

\* Its calls end with it, and what was not saved is lost.
EngineStops ==
    /\ engine' = "off" /\ listed' = conf /\ dirty' = FALSE
    /\ work' = [w \in Workers |-> "idle"]

\* After a shutdown, or by itself.
EngineEnds ==
    /\ \/ engine = "closing" /\ UNCHANGED faults
       \/ engine = "on" /\ Fault
    /\ EngineStops /\ own' = NoCall
    /\ UNCHANGED <<present, conf, marker, pc, page, app, past>>

-----------------------------------------------------------------------------
(* setupExtensions and configureDefaultRepository. *)

\* boot has started the engine and calls setupExtensions.
Launch ==
    /\ pc = "off"
    /\ EngineStarts
    /\ pc' = "check"
    /\ UNCHANGED <<present, conf, marker, own, page, app, past, faults>>

\* Mutant: the marker is not looked at.
CheckIgnoresMarker ==
    /\ pc = "check"
    /\ pc' = "query"
    /\ UNCHANGED <<kept, engine, marker, own, page, app, past, faults>>

\* Configured before: nothing to do.
Check ==
    /\ pc = "check"
    /\ pc' = IF marker THEN "idle" ELSE "query"
    /\ page' = (page \/ marker)
    /\ UNCHANGED <<kept, engine, marker, own, app, past, faults>>

\* Mutant: the marker is written without waiting for the engine's answer.
QueryWithoutAwait ==
    /\ pc = "query" /\ engine # "off"
    /\ pc' = "mark"
    /\ \/ present /\ UNCHANGED work
       \/ /\ ~ present
          /\ \E c \in Calls : /\ work[c] = "idle"
                              /\ work' = [work EXCEPT ![c] = "register"]
    /\ UNCHANGED <<present, conf, listed, dirty, engine, marker, own, page, app,
                   past, faults>>

\* The engine lists its stores; without the default one it is asked to add it.
Query ==
    /\ pc = "query" /\ engine # "off"
    /\ \/ present /\ pc' = "mark" /\ UNCHANGED <<work, own>>
       \/ /\ ~ present /\ pc' = "adding"
          /\ \E c \in Calls : /\ work[c] = "idle" /\ own' = c
                              /\ work' = [work EXCEPT ![c] = "register"]
    /\ UNCHANGED <<present, conf, listed, dirty, engine, marker, page, app,
                   past, faults>>

\* The attempt fails: the timer is armed, unless Bihon is quitting, and boot
\* goes on to load the page.
Retry ==
    /\ pc' = IF quitting THEN "idle" ELSE "waiting"
    /\ page' = TRUE /\ own' = NoCall

\* The list or the marker could not be read or written; or the engine has gone.
AttemptFails ==
    /\ \/ pc \in {"query", "mark"} /\ Fault
       \/ pc = "query" /\ engine = "off" /\ UNCHANGED faults
       \/ pc = "adding" /\ own = NoCall /\ UNCHANGED faults
    /\ Retry
    /\ UNCHANGED <<kept, engine, marker, app, past>>

\* AbortSignal.timeout: the shell gives up, the engine does not.
AddTimesOut ==
    /\ pc = "adding" /\ Fault
    /\ Retry
    /\ UNCHANGED <<kept, engine, marker, app, past>>

WriteMarker ==
    /\ pc = "mark"
    /\ marker' = TRUE
    /\ pc' = "idle" /\ page' = TRUE
    /\ UNCHANGED <<kept, engine, own, app, past, faults>>

\* Mutant: without an engine the timer is not armed again.
TimerGivesUp ==
    /\ pc = "waiting"
    /\ pc' = IF quitting \/ engine = "off" THEN "idle" ELSE "check"
    /\ UNCHANGED <<kept, engine, marker, own, page, app, past, faults>>

\* The timer calls setupExtensions; no engine: again in 30 s.
TimerFires ==
    /\ pc = "waiting"
    /\ pc' = CASE quitting -> "idle"
               [] ~ quitting /\ engine = "off" -> "waiting"
               [] OTHER -> "check"
    /\ UNCHANGED <<kept, engine, marker, own, page, app, past, faults>>

-----------------------------------------------------------------------------
(* The engine's calls: addExtensionStore ("register" for the shell, "add"  *)
(* for the user), removeExtensionStore ("delete"), a refresh of the stores *)
(* or an addition of the watcher ("renew"); "sync" and the two phases that *)
(* follow it are syncDbToPrefs.                                            *)

Goto(w, phase) == work' = [work EXCEPT ![w] = phase]

\* The store has been fetched from the network and is put into the table.
Upsert(w) ==
    /\ work[w] \in {"register", "add", "renew"}
    /\ present' = TRUE
    /\ Goto(w, IF work[w] = "renew" THEN "idle" ELSE "sync")
    /\ dismissed' = (dismissed /\ work[w] # "add") /\ dropped' = FALSE
    /\ UNCHANGED <<conf, listed, dirty, engine, marker, shell, app, faults>>

\* It could not be fetched (offline): the call fails.
FetchFails(w) ==
    /\ work[w] \in {"register", "add", "renew"} /\ Fault
    /\ Goto(w, "idle")
    /\ IF w = own THEN Retry ELSE UNCHANGED shell
    /\ UNCHANGED <<present, conf, listed, dirty, engine, marker, app, past>>

Delete(w) ==
    /\ work[w] = "delete"
    /\ present' = FALSE
    /\ Goto(w, "sync")
    /\ dismissed' = (dismissed \/ w # Watcher)
    /\ dropped' = (dropped \/ w = Watcher)
    /\ UNCHANGED <<conf, listed, dirty, engine, marker, shell, app, faults>>

\* syncDbToPrefs reads the table ...
ReadTable(w) ==
    /\ work[w] = "sync"
    /\ Goto(w, IF present THEN "list" ELSE "unlist")
    /\ UNCHANGED <<present, conf, listed, dirty, engine, marker, shell, app,
                   past, faults>>

\* ... and changes the setting; then the call returns.  addExtensionStore
\* throws when the row is gone by now.
SetPrefs(w) ==
    /\ work[w] \in {"list", "unlist"}
    /\ listed' = (work[w] = "list")
    /\ dirty' = (dirty \/ listed # listed')
    /\ Goto(w, "idle")
    /\ \/ w # own /\ UNCHANGED shell
       \/ w = own /\ present /\ pc' = "mark" /\ own' = NoCall /\ UNCHANGED page
       \/ w = own /\ ~ present /\ Retry
    /\ UNCHANGED <<present, conf, engine, marker, app, past, faults>>

\* getAndRefresh, for the page's list of extensions: the rows it has read are
\* fetched and written back.
RefreshBegins(c) ==
    /\ page /\ engine = "on" /\ work[c] = "idle"
    /\ present /\ Goto(c, "renew")
    /\ UNCHANGED <<present, conf, listed, dirty, engine, marker, shell, app,
                   past, faults>>

-----------------------------------------------------------------------------
(* The collectors of the setting. *)

SaveConf ==
    /\ conf # listed
    /\ conf' = listed
    /\ UNCHANGED <<present, listed, dirty, work, engine, marker, shell, app,
                   past, faults>>

WatcherWakes ==
    /\ dirty /\ work[Watcher] = "idle"
    /\ dirty' = FALSE /\ Goto(Watcher, "prefs")
    /\ UNCHANGED <<present, conf, listed, engine, marker, shell, app, past,
                   faults>>

\* syncPrefsToDb reads the setting, then the table; a store that only the
\* setting has is added, one that only the table has is deleted.
WatcherCompares ==
    /\ \/ /\ work[Watcher] = "prefs"
          /\ Goto(Watcher, IF listed THEN "wanted" ELSE "unwanted")
       \/ /\ work[Watcher] = "wanted"
          /\ Goto(Watcher, IF present THEN "idle" ELSE "renew")
       \/ /\ work[Watcher] = "unwanted"
          /\ Goto(Watcher, IF present THEN "delete" ELSE "idle")
    /\ UNCHANGED <<present, conf, listed, dirty, engine, marker, shell, app,
                   past, faults>>

Worker(w) == Upsert(w) \/ Delete(w) \/ ReadTable(w) \/ SetPrefs(w)
Watch     == WatcherWakes \/ WatcherCompares \/ Worker(Watcher)

-----------------------------------------------------------------------------
(* Folder operations, quitting, kills. *)

MoveBegins ==
    /\ page /\ ~ moving /\ Fault
    /\ moving' = TRUE
    /\ engine' = IF engine = "on" THEN "closing" ELSE engine
    /\ UNCHANGED <<kept, marker, shell, quitting, asked, past>>

\* It ends with a new engine, or, in an error, without one.
MoveEnds ==
    /\ moving /\ moving' = FALSE
    /\ \/ engine = "off" /\ EngineStarts /\ UNCHANGED faults
       \/ Fault /\ UNCHANGED <<engine, listed, dirty, work>>
    /\ UNCHANGED <<present, conf, marker, shell, quitting, asked, past>>

\* Why a user closes Bihon in the end: an earlier quit has failed, or the page
\* has no engine.
MustQuit == asked \/ engine = "off"

\* before-quit: refused during boot and folder operations; the timer is
\* cleared.  Only a quit that cuts the setup short counts against the bound.
Quit ==
    /\ page /\ ~ moving /\ ~ quitting
    /\ IF MustQuit \/ pc = "idle" THEN UNCHANGED faults ELSE Fault
    /\ quitting' = TRUE /\ asked' = TRUE
    /\ pc' = IF pc = "waiting" THEN "idle" ELSE pc
    /\ engine' = IF engine = "on" THEN "closing" ELSE engine
    /\ UNCHANGED <<kept, marker, own, page, moving, past>>

\* The engine does not stop in time: the session goes on, without a timer.
QuitExpires ==
    /\ quitting /\ engine = "closing" /\ Fault
    /\ quitting' = FALSE
    /\ UNCHANGED <<kept, engine, marker, shell, moving, asked, past>>

Off ==
    /\ EngineStops
    /\ pc' = "off" /\ own' = NoCall /\ page' = FALSE
    /\ moving' = FALSE /\ quitting' = FALSE /\ asked' = FALSE
    /\ UNCHANGED <<present, conf, marker, past>>

\* The window closes once the engine is down, but not during a folder operation.
Exit ==
    /\ quitting /\ ~ moving /\ engine # "closing"
    /\ Off /\ UNCHANGED faults

Crash ==
    /\ pc # "off" /\ Fault
    /\ Off

-----------------------------------------------------------------------------
(* The user, on the page. *)

UserRemoves(c) ==
    /\ page /\ engine = "on" /\ work[c] = "idle" /\ Fault
    /\ present /\ Goto(c, "delete")
    /\ UNCHANGED <<present, conf, listed, dirty, engine, marker, shell, app,
                   past>>

UserAdds(c) ==
    /\ page /\ engine = "on" /\ work[c] = "idle" /\ Fault
    /\ ~ present /\ Goto(c, "add")
    /\ UNCHANGED <<present, conf, listed, dirty, engine, marker, shell, app,
                   past>>

-----------------------------------------------------------------------------
Setup == \/ Check \/ Query \/ WriteMarker \/ TimerFires
         \/ faults' = faults /\ AttemptFails

Next ==
    \/ Launch \/ Setup \/ AttemptFails \/ AddTimesOut
    \/ EngineEnds \/ SaveConf \/ Watch
    \/ \E c \in Calls : Worker(c) \/ RefreshBegins(c) \/ UserRemoves(c) \/ UserAdds(c)
    \/ \E w \in Workers : FetchFails(w)
    \/ MoveBegins \/ MoveEnds \/ Quit \/ QuitExpires \/ Exit \/ Crash

Spec == Init /\ [][Next]_vars

\* The shell and the engine go on; a folder operation ends; a user who has
\* asked Bihon to quit, or whom it has left without an engine, closes it in
\* the end, and opens it again.  The watcher does not delete the
\* row of every attempt before that attempt has listed it: attempts are 30 s
\* apart.
Fairness ==
    /\ WF_vars(Setup) /\ WF_vars(Launch) /\ WF_vars(MoveEnds)
    /\ \A c \in Calls : WF_vars(Worker(c))
    /\ SF_vars(\E c \in Calls : c = own /\ present /\ ReadTable(c))
    /\ SF_vars(\E c \in Calls : c = own /\ present /\ SetPrefs(c))
    /\ WF_vars(EngineEnds)
    /\ SF_vars(Quit /\ MustQuit) /\ WF_vars(Exit)

FairSpec == Spec /\ Fairness

-----------------------------------------------------------------------------
(* Properties. *)

\* "Registered once on first launch, ... and respects later removal"
\* (README.md): no registration that Bihon asked for puts the store back into
\* the table after the user has removed it.
RemovalRespected ==
    [][ \A c \in Calls :
          work[c] = "register" /\ Upsert(c) => present \/ ~ dismissed ]_vars

\* The store is nowhere, and nothing under way in the engine will add it.
Gone ==
    /\ ~ present /\ ~ listed /\ ~ conf
    /\ \A w \in Workers :
          work[w] \in {"idle", "delete", "sync", "unlist", "prefs", "unwanted"}

\* Once the marker is written, a store that is out of the table, the setting
\* and server.conf comes back by the user's hand only, whatever is restarted,
\* retried or refreshed.  A removal not yet recorded in all three may be
\* undone: by an abandoned request, by a refresh that has read the row, by a
\* kill before server.conf is saved.
RemovalStays ==
    [][ marker /\ Gone => Gone' \/ \E c \in Calls : UserAdds(c) ]_vars

\* The marker, which stops all retries for good, is never written for a store
\* that has not been in the table: it is there, or the user removed it, or the
\* engine did, to agree with its server.conf.
MarkedMeansRegistered == marker => present \/ dismissed \/ dropped

\* An offline start is retried until the store is registered, through folder
\* operations, quits that fail and restarts; if the timer is gone, when the
\* user has reopened Bihon.
SetupCompletes == <>[] marker
=============================================================================
