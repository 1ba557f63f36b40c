-------------------------- MODULE UpgradeSnapshot --------------------------
(***************************************************************************)
(* The library snapshot a newer version takes before it opens the library  *)
(* (src/desktop/upgrades.cjs), and the part of boot (src/desktop/main.cjs) *)
(* that calls it: prepareUpgrade, server.start, markVersionStarted.  The   *)
(* user may start any installed version in any order; a start may fail     *)
(* before or after the engine opened the database; the process may be      *)
(* killed at any step.                                                     *)
(*                                                                         *)
(* Versions are 1..Newest.  Version 1 stands for 0.1.0, which had no       *)
(* upgrades.cjs: it neither reads nor writes upgrade-state.json.  All      *)
(* others run this code.                                                   *)
(*                                                                         *)
(* Abstractions.  SNAPSHOT_ITEMS are a set of items with a content each;   *)
(* a digest is the content.  `schema' is the newest version whose engine   *)
(* opened the database.  Backup names are numbers: the time stamp makes    *)
(* them unique.  Free space is one flag: is there enough for a copy of all *)
(* items?  What an interrupted attempt has copied takes from it.  Links    *)
(* and listing or copying errors are a Stop.  The engine of a killed       *)
(* process has ended before the next start.                                *)
(***************************************************************************)
EXTENDS Naturals

CONSTANTS
    Newest,         \* the newest version there is
    Items,          \* database, settings, extensions, book index, ...
    Contents,       \* what an item may hold
    Missing,        \* not copied yet
    LegacyReturns,  \* may 0.1.0 run again after a newer version was tried?
    MaxBackups,     \* bound: snapshot directories
    MaxFaults       \* bound: kills, failed starts, errors, damaged backups,
                    \* disks that fill up

ASSUME VersionsAssumption == Newest \in Nat /\ Newest >= 2
ASSUME MissingAssumption == Missing \notin Contents
ASSUME LegacyAssumption == LegacyReturns \in BOOLEAN
ASSUME BoundsAssumption == MaxBackups \in Nat /\ MaxFaults \in Nat

Versions == 1..Newest
Legacy   == 1
Names    == 1..MaxBackups
None     == 0    \* no version, no name

VARIABLES
    lib,       \* persistent: the library, item by item
    schema,    \* persistent: newest engine that opened it; None: no database
    last,      \* persistent: lastSuccessfulVersion of upgrade-state.json
    pending,   \* persistent: pending of upgrade-state.json: version and name
    backups,   \* persistent: backups/bihon-upgrades
    made,      \* names used so far
    low,       \* too little free space for a copy of the library
    pc, ver,   \* the running version and where its boot is
    todo,      \* items still to copy
    usedBy,    \* history: newest version the user has worked with
    damaged,   \* history: some backup was damaged by others
    faults     \* bound counter

library == <<lib, schema>>
marker  == <<last, pending>>
store   == <<backups, made>>
process == <<pc, ver, todo>>
history == <<usedBy, damaged>>
vars == <<library, marker, store, low, process, history, faults>>

Library == [Items -> Contents]
Backup  == [from : Versions, sum : [Items -> Contents \cup {Missing}],
            got : [Items -> Contents \cup {Missing}],
            schema : Versions \cup {None}, complete : BOOLEAN]
NoCopy  == [i \in Items |-> Missing]
NewBackup == [from |-> Legacy, sum |-> NoCopy, got |-> NoCopy, schema |-> None,
              complete |-> FALSE]
NoPending == [to |-> None, name |-> None]

TypeOK ==
    /\ lib \in Library /\ schema \in Versions \cup {None}
    /\ last \in (Versions \ {Legacy}) \cup {None}
    /\ pending \in [to : Versions \cup {None}, name : Names \cup {None}]
    /\ backups \in [Names -> Backup] /\ made \in Names \cup {None}
    /\ pc \in {"off", "prepare", "copy", "open", "waiting", "mark", "using"}
    /\ ver \in Versions /\ todo \subseteq Items
    /\ usedBy \in Versions \cup {None} /\ damaged \in BOOLEAN /\ low \in BOOLEAN
    /\ faults \in 0..MaxFaults

\* A fresh installation, or one that only 0.1.0 has used.
Init ==
    /\ lib \in Library
    /\ schema \in {None, Legacy}
    /\ usedBy = schema
    /\ last = None /\ pending = NoPending
    /\ backups = [n \in Names |-> NewBackup] /\ made = 0
    /\ pc = "off" /\ ver = Legacy /\ todo = {}
    /\ damaged = FALSE /\ low = FALSE
    /\ faults = 0

Fault == faults < MaxFaults /\ faults' = faults + 1

-----------------------------------------------------------------------------
(* prepareUpgrade. *)

Launch(v) ==
    /\ pc = "off"
    /\ pc' = "prepare" /\ ver' = v
    /\ UNCHANGED <<library, marker, store, low, todo, history, faults>>

\* This version was the last to run well; or there is no database yet.
SkipSnapshot ==
    /\ pc = "prepare"
    /\ last = ver \/ (last < ver /\ schema = None)
    /\ pc' = "open"
    /\ UNCHANGED <<library, marker, store, low, ver, todo, history, faults>>

\* "This library was opened by Bihon X.  Install that version or newer."
Refuse ==
    /\ pc = "prepare"
    /\ last > ver
    /\ pc' = "off"
    /\ UNCHANGED <<library, marker, store, low, ver, todo, history, faults>>

MustSnapshot == pc = "prepare" /\ last < ver /\ schema # None

Complete == pending.to = ver /\ backups[pending.name].complete

\* The snapshot of an earlier attempt at this version has its manifest: its
\* copies must still have the digests recorded there.
Reuse ==
    /\ MustSnapshot
    /\ Complete
    /\ pc' = IF backups[pending.name].got = backups[pending.name].sum
               THEN "open" ELSE "off"
    /\ UNCHANGED <<library, marker, store, low, ver, todo, history, faults>>

\* Mutant: the directory of an earlier attempt is always written again.
BeginAlwaysCopies ==
    /\ MustSnapshot /\ ~ low
    /\ IF pending.to = ver
         THEN UNCHANGED <<pending, made>>
         ELSE /\ made < MaxBackups
              /\ made' = made + 1
              /\ pending' = [to |-> ver, name |-> made + 1]
    /\ pc' = "copy" /\ todo' = Items
    /\ UNCHANGED <<library, last, backups, low, ver, history, faults>>

\* Otherwise, with space for a whole copy, the marker names a directory, that
\* of an interrupted attempt at this version or a new one, and copying starts.
Begin ==
    /\ MustSnapshot /\ ~ Complete /\ ~ low
    /\ IF pending.to = ver
         THEN UNCHANGED <<pending, made>>
         ELSE /\ made < MaxBackups
              /\ made' = made + 1
              /\ pending' = [to |-> ver, name |-> made + 1]
    /\ pc' = "copy" /\ todo' = Items
    /\ UNCHANGED <<library, last, backups, low, ver, history, faults>>

\* "Not enough space for a pre-update library backup", for a new directory and
\* for an interrupted one alike; the marker is left as it is.
NoSpace ==
    /\ MustSnapshot /\ ~ Complete /\ low
    /\ pc' = "off"
    /\ UNCHANGED <<library, marker, store, low, ver, todo, history, faults>>

\* Mutant: a copy left by an interrupted attempt is an error.
CopyItemOnce(i) ==
    /\ pc = "copy" /\ i \in todo
    /\ IF backups[pending.name].got[i] = Missing
         THEN /\ backups' = [backups EXCEPT ![pending.name].got[i] = lib[i]]
              /\ todo' = todo \ {i} /\ UNCHANGED pc
         ELSE pc' = "off" /\ todo' = {} /\ UNCHANGED backups
    /\ low' \in {low, TRUE}
    /\ UNCHANGED <<library, marker, made, ver, history, faults>>

\* Copy one item, flush it, compare source, copy and digest.  The copy takes
\* from the free space.
CopyItem(i) ==
    /\ pc = "copy" /\ i \in todo
    /\ backups' = [backups EXCEPT ![pending.name].got[i] = lib[i]]
    /\ todo' = todo \ {i}
    /\ low' \in {low, TRUE}
    /\ UNCHANGED <<library, marker, made, pc, ver, history, faults>>

\* The manifest is written last; its presence means complete.
WriteManifest ==
    /\ pc = "copy" /\ todo = {}
    /\ backups' = [backups EXCEPT
                     ![pending.name].from = IF last = None THEN Legacy ELSE last,
                     ![pending.name].sum = lib,
                     ![pending.name].schema = schema,
                     ![pending.name].complete = TRUE]
    /\ pc' = "open"
    /\ UNCHANGED <<library, marker, made, low, ver, todo, history, faults>>

-----------------------------------------------------------------------------
(* server.start, markVersionStarted, and the session. *)

\* The engine opens the database, creating or upgrading it.
OpenEngine ==
    /\ pc = "open"
    /\ schema' = IF schema < ver THEN ver ELSE schema
    /\ pc' = "waiting"
    /\ UNCHANGED <<lib, marker, store, low, ver, todo, history, faults>>

EngineReady ==
    /\ pc = "waiting"
    /\ pc' = "mark"
    /\ UNCHANGED <<library, marker, store, low, ver, todo, history, faults>>

\* Mutant: the pending snapshot stays in the marker.
MarkKeepsPending ==
    /\ pc = "mark"
    /\ last' = ver
    /\ pc' = "using" /\ usedBy' = IF usedBy < ver THEN ver ELSE usedBy
    /\ UNCHANGED <<library, pending, store, low, ver, todo, damaged, faults>>

\* Mutant: the page is shown without recording the version.
MarkForgotten ==
    /\ pc = "mark"
    /\ pending' = NoPending
    /\ pc' = "using" /\ usedBy' = IF usedBy < ver THEN ver ELSE usedBy
    /\ UNCHANGED <<library, last, store, low, ver, todo, damaged, faults>>

\* markVersionStarted records the version and drops pending; only then is
\* the reader page loaded.
Mark ==
    /\ pc = "mark"
    /\ last' = ver /\ pending' = NoPending
    /\ pc' = "using" /\ usedBy' = IF usedBy < ver THEN ver ELSE usedBy
    /\ UNCHANGED <<library, store, low, ver, todo, damaged, faults>>

UserWrites(i, c) ==
    /\ pc = "using"
    /\ lib' = [lib EXCEPT ![i] = c]
    /\ UNCHANGED <<schema, marker, store, low, process, history, faults>>

Close ==
    /\ pc = "using"
    /\ pc' = "off"
    /\ UNCHANGED <<library, marker, store, low, ver, todo, history, faults>>

\* A kill, or any error: prepareUpgrade and start throw, boot fails and the
\* application quits.
Stop ==
    /\ pc # "off" /\ Fault
    /\ pc' = "off" /\ todo' = {}
    /\ UNCHANGED <<library, marker, store, low, ver, history>>

-----------------------------------------------------------------------------
(* The environment. *)

\* A session of 0.1.0, which knows no marker.
LegacySession(i, c) ==
    /\ pc = "off"
    /\ schema \in {None, Legacy} \/ LegacyReturns
    /\ last = None /\ (made = 0 \/ LegacyReturns)
    /\ lib' = [lib EXCEPT ![i] = c]
    /\ schema' = IF schema = None THEN Legacy ELSE schema
    /\ usedBy' = IF usedBy = None THEN Legacy ELSE usedBy
    /\ UNCHANGED <<marker, store, low, process, damaged, faults>>

\* A file of a snapshot is damaged while Bihon is closed.
Damage(n, i, c) ==
    /\ pc = "off" /\ n <= made /\ Fault
    /\ backups[n].got[i] \notin {c, Missing}
    /\ backups' = [backups EXCEPT ![n].got[i] = c]
    /\ damaged' = TRUE
    /\ UNCHANGED <<library, marker, made, low, process, usedBy>>

\* The disk fills up; the user frees some space, as the message asks.
FillDisk ==
    /\ ~ low /\ Fault
    /\ low' = TRUE
    /\ UNCHANGED <<library, marker, store, process, history>>

FreeSpace ==
    /\ low /\ low' = FALSE
    /\ UNCHANGED <<library, marker, store, process, history, faults>>

-----------------------------------------------------------------------------
Program ==
    \/ SkipSnapshot \/ Refuse \/ Reuse \/ Begin \/ NoSpace
    \/ \E i \in Items : CopyItem(i)
    \/ WriteManifest \/ OpenEngine \/ EngineReady \/ Mark

Next ==
    \/ Program \/ Close \/ Stop \/ FillDisk \/ FreeSpace
    \/ \E v \in Versions \ {Legacy} : Launch(v)
    \/ \E i \in Items, c \in Contents : UserWrites(i, c) \/ LegacySession(i, c)
    \/ \E n \in Names, i \in Items, c \in Contents : Damage(n, i, c)

Spec == Init /\ [][Next]_vars

\* Boot goes on; the user closes what runs, frees space when the disk is full,
\* and keeps starting the newest version.
Fairness ==
    /\ WF_vars(Program) /\ WF_vars(Close) /\ WF_vars(FreeSpace)
    /\ SF_vars(Launch(Newest))
FairSpec == Spec /\ Fairness

-----------------------------------------------------------------------------
(* Properties. *)

\* Copies the library as it is now, taken before an engine newer than the
\* ones that opened it so far, all digests right.
Protects(n) ==
    /\ backups[n].complete
    /\ backups[n].got = backups[n].sum
    /\ backups[n].sum = lib
    /\ backups[n].schema < ver

\* No engine opens an existing library that only older ones have opened
\* unless an intact snapshot of it, everything the user did included, exists.
\* (UPDATING.md: before opening an existing desktop library with a newer
\* version, Bihon copies and verifies ...)
SnapshotBeforeOpen ==
    [][ OpenEngine /\ schema # None /\ schema < ver
          => \E n \in Names : n <= made /\ Protects(n) ]_vars

\* A version the user has worked with is never followed by an older one: the
\* marker is on disk before anything the user does.  (A newer version whose
\* engine opened the database and then failed to start is not recorded, so
\* this says nothing of `schema'.)
NoDowngrade ==
    [][ OpenEngine => ver >= usedBy ]_vars

\* The program never changes a complete snapshot: after a failed start of the
\* newer version it is the only copy of the library as it was.
SnapshotsAreFinal ==
    [][ \A n \in Names :
          Program /\ backups[n].complete => backups'[n] = backups[n] ]_vars

\* Interrupted snapshots retry, also after one that took the last free space:
\* in the end the newest version comes up, unless a snapshot was damaged on
\* the disk.
UpgradeSucceeds == <> (last = Newest \/ damaged)
=============================================================================
