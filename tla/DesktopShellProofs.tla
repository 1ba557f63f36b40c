------------------------- MODULE DesktopShellProofs -------------------------
(***************************************************************************)
(* Theorems about DesktopShell for any folders, books and number of        *)
(* faults, when the folder operation is not started while boot is starting *)
(* (EarlyMenu is FALSE).  The invariants come in layers: types; what boot, *)
(* the folder operation, the engine and the journal say of each other; the *)
(* folder that each of them means; the books in the folders.               *)
(***************************************************************************)
EXTENDS DesktopShell, TLAPS

-----------------------------------------------------------------------------
(* Types. *)

\* Fail keeps the types, and leads only to the places that its text names.
LEMMA FailEffect ==
    ASSUME TypeOK, NEW p \in Activities, Fail(p)
    PROVE  /\ at' \in [Activities -> BootSteps \cup ChooseSteps]
           /\ busy' \in BOOLEAN
           /\ p = "boot" => at'["boot"] = "failed" /\ at'["choose"] = at["choose"] /\ ~ busy'
           /\ p = "choose" => /\ at'["boot"] = at["boot"]
                              /\ \/ ~ InCatch /\ at'["choose"] = "recover" /\ busy' = busy
                                 \/ InCatch /\ at'["choose"] = "none" /\ ~ busy'
BY DEF TypeOK, Fail, Goto, Activities, BootSteps, ChooseSteps, MoveSteps

\* Goto changes the place of one activity.
LEMMA GotoEffect ==
    ASSUME TypeOK, NEW p \in Activities, NEW s \in BootSteps \cup ChooseSteps, Goto(p, s)
    PROVE  /\ at' \in [Activities -> BootSteps \cup ChooseSteps]
           /\ at'[p] = s /\ \A q \in Activities : q # p => at'[q] = at[q]
BY DEF TypeOK, Goto

LEMMA TypeInitially == Init => TypeOK
<1> SUFFICES ASSUME Init PROVE TypeOK
  OBVIOUS
<1>1. /\ at \in [Activities -> BootSteps \cup ChooseSteps]
      /\ at["boot"] \in BootSteps /\ at["choose"] \in ChooseSteps
  BY DEF Init, Activities, BootSteps, ChooseSteps
<1>2. shelf \in [Dirs -> SUBSET Books] /\ index \subseteq Books
  BY DEF Init
<1>3. /\ journal \in [stage : {"none", "copying", "verified", "cleanup"},
                       source : Dirs, destination : Dirs, files : SUBSET Books]
      /\ imp \in [book : Books \cup {Nobody}, dir : Dirs,
                  step : {"none", "store", "index"}, listed : BOOLEAN]
  BY DEF Init, NoImport
<1>4. faults \in 0..MaxFaults
  BY FaultsAssumption DEF Init
<1>5. imp.book = Nobody <=> imp.step = "none"
  BY DEF Init, NoImport
<1> QED
  BY <1>1, <1>2, <1>3, <1>4, <1>5 DEF Init, TypeOK

AtTyped ==
    /\ at \in [Activities -> BootSteps \cup ChooseSteps]
    /\ at["boot"] \in BootSteps /\ at["choose"] \in ChooseSteps

LEMMA FailTyped ==
    ASSUME TypeOK, NEW p \in Activities, Fail(p)
    PROVE  AtTyped' /\ busy' \in BOOLEAN
BY FailEffect DEF AtTyped, TypeOK, Activities, BootSteps, ChooseSteps

LEMMA GotoTyped ==
    ASSUME TypeOK, NEW p \in Activities, NEW s, Goto(p, s),
           p = "boot" => s \in BootSteps, p = "choose" => s \in ChooseSteps
    PROVE  AtTyped'
<1>1. s \in BootSteps \cup ChooseSteps
  BY DEF Activities
<1> QED
  BY <1>1, GotoEffect DEF AtTyped, TypeOK, Activities

LEMMA BootTypes ==
    ASSUME TypeOK, Launch \/ BootJournal \/ BootEngine \/ RestartEngine \/ Recover
    PROVE  TypeOK'
<1>0. \A p \in Activities : p = "boot" \/ p = "choose"
  BY DEF Activities
<1>1. ASSUME NEW p \in Activities, NEW s, Spawn(p, s),
             p = "boot" => s \in BootSteps, p = "choose" => s \in ChooseSteps
      PROVE  TypeOK'
  <2>1. CASE Goto(p, s) /\ child' = "booting" /\ enginePath' = memPath /\ busy' = busy
    <3>1. AtTyped'
      BY <1>1, <2>1, GotoTyped
    <3> QED
      BY <1>1, <2>1, <3>1 DEF TypeOK, AtTyped, Spawn, disks, shelves
  <2>2. CASE Fail(p) /\ child' = child /\ enginePath' = enginePath
    <3>1. AtTyped' /\ busy' \in BOOLEAN
      BY <1>1, <2>2, FailTyped
    <3> QED
      BY <1>1, <2>2, <3>1 DEF TypeOK, AtTyped, Spawn, disks, shelves
  <2> QED
    BY <1>1, <2>1, <2>2 DEF Spawn
<1>2. CASE Launch
  BY <1>2 DEF Launch, TypeOK, disks, flags, engine, shelves, Activities, BootSteps, ChooseSteps
<1>3. CASE BootJournal
  <2>1. AtTyped'
    BY <1>3, GotoTyped DEF BootJournal, Activities, BootSteps, MoveSteps
  <2> QED
    BY <1>3, <2>1 DEF BootJournal, TypeOK, AtTyped, disks, engine, shelves
<1>4. CASE BootEngine
  BY <1>1, <1>4 DEF BootEngine, Activities, BootSteps
<1>5. CASE RestartEngine
  BY <1>1, <1>5 DEF RestartEngine, Activities, ChooseSteps
<1>6. CASE Recover
  <2>1. CASE Spawn("choose", "recovering")
    BY <1>1, <2>1 DEF Activities, ChooseSteps
  <2>2. CASE /\ Goto("choose", "none") /\ busy' = FALSE
             /\ UNCHANGED <<disks, memPath, dest, quitting, engine, shelves, faults>>
    <3>1. AtTyped'
      BY <2>2, GotoTyped DEF Activities, ChooseSteps
    <3>2. /\ UNCHANGED <<shelf, partial, index, journal, savedPath, memPath, dest, quitting>>
          /\ UNCHANGED <<child, enginePath, orphan, imp, rem, asked, orderly, faults>>
      BY <2>2 DEF disks, engine, shelves
    <3>3. busy' \in BOOLEAN
      BY <2>2
    <3> QED
      BY <3>1, <3>2, <3>3 DEF TypeOK, AtTyped
  <2> QED
    BY <1>6, <2>1, <2>2 DEF Recover
<1> QED
  BY <1>2, <1>3, <1>4, <1>5, <1>6

\* A poll fails, or its activity is over and the reader opens.
LEMMA PolledEffect ==
    ASSUME TypeOK, NEW p \in Activities, Polled(p)
    PROVE  /\ AtTyped' /\ busy' \in BOOLEAN
           /\ \/ child = "none" /\ Fail(p)
              \/ /\ p = "boot" /\ at'["boot"] = "done" /\ at'["choose"] = at["choose"]
                 /\ ~ busy'
              \/ /\ p = "choose" /\ at'["choose"] = "none" /\ ~ busy'
                 /\ at'["boot"] = at["boot"] \/ (at["boot"] = "failed" /\ at'["boot"] = "done")
<1>1. CASE child = "none" /\ Fail(p)
  BY <1>1, FailTyped
<1>2. CASE /\ busy' = FALSE
           /\ at' = [at EXCEPT
                !["choose"] = IF p = "choose" THEN "none" ELSE @,
                !["boot"] = IF p = "boot" \/ (@ = "failed" /\ at[p] = "waiting")
                              THEN "done" ELSE @]
  BY <1>2 DEF TypeOK, AtTyped, Activities, BootSteps, ChooseSteps
<1> QED
  BY <1>1, <1>2, FailTyped DEF Polled

LEMMA EngineTypes ==
    ASSUME TypeOK, NEW p \in Activities,
           \/ Polled(p) \/ Stopped(p) \/ StartExpires(p) \/ StopExpires(p) \/ MoveError(p)
           \/ EngineReady \/ EngineRefused \/ EngineExits \/ EngineDies \/ Pause \/ Stop \/ Choose \/ Quit
           \/ Exit \/ QuitExpires \/ Crash
    PROVE  TypeOK'
<1> USE DEF disks, flags, engine, shelves, AtTyped
<1>0. Fault => faults' \in 0..MaxFaults
  BY FaultsAssumption DEF Fault, TypeOK
<1>1. p = "boot" \/ p = "choose"
  BY DEF Activities
<1>2. CASE Polled(p)
  <2>1. AtTyped' /\ busy' \in BOOLEAN
    BY <1>2, PolledEffect
  <2> QED
    BY <1>2, <2>1 DEF Polled, TypeOK
<1>3. CASE Stopped(p)
  <2>1. AtTyped' /\ busy' \in BOOLEAN
    BY <1>1, <1>3, FailTyped, GotoTyped DEF Stopped, TypeOK, ChooseSteps, MoveSteps
  <2> QED
    BY <1>3, <2>1 DEF Stopped, TypeOK
<1>4. CASE StartExpires(p)
  <2>1. AtTyped'
    BY <1>1, <1>4, GotoTyped DEF StartExpires, TypeOK, BootSteps, ChooseSteps, MoveSteps
  <2> QED
    BY <1>0, <1>4, <2>1 DEF StartExpires, TypeOK
<1>5. CASE StopExpires(p) \/ MoveError(p)
  <2>1. AtTyped' /\ busy' \in BOOLEAN
    BY <1>5, FailTyped DEF StopExpires, MoveError
  <2> QED
    BY <1>0, <1>5, <2>1 DEF StopExpires, MoveError, TypeOK
<1>6. CASE EngineReady \/ EngineRefused \/ EngineExits \/ EngineDies
  BY <1>0, <1>6 DEF EngineReady, EngineRefused, EngineExits, EngineDies, TypeOK
<1>7. CASE Pause
  <2>1. AtTyped' /\ busy' \in BOOLEAN
    BY <1>7, FailTyped, GotoTyped DEF Pause, TypeOK, Activities, ChooseSteps
  <2>2. faults' \in 0..MaxFaults
    BY <1>0, <1>7 DEF Pause, TypeOK
  <2> QED
    BY <1>7, <2>1, <2>2 DEF Pause, TypeOK
<1>8. CASE Stop
  <2>1. AtTyped'
    BY <1>8, GotoTyped DEF Stop, Activities, ChooseSteps
  <2> QED
    BY <1>8, <2>1 DEF Stop, TypeOK
<1>9. CASE Choose
  <2>1. AtTyped'
    BY <1>9, GotoTyped DEF Choose, Activities, ChooseSteps
  <2> QED
    BY <1>9, <2>1 DEF Choose, TypeOK
<1>10. CASE Quit \/ QuitExpires
  BY <1>0, <1>10 DEF Quit, QuitExpires, TypeOK
<1>11. CASE Exit \/ Crash
  <2>1. Off /\ faults' \in 0..MaxFaults
    BY <1>0, <1>11 DEF Exit, Crash, TypeOK
  <2>2. AtTyped'
    BY <2>1 DEF Off, TypeOK, Activities, BootSteps, ChooseSteps
  <2>4. orphan' \in {"none", "answers", "silent"}
    BY <2>1 DEF Off, TypeOK
  <2>5. imp'.book = Nobody <=> imp'.step = "none"
    BY <2>1 DEF Off, NoImport
  <2>3. imp' \in [book : Books \cup {Nobody}, dir : Dirs,
                 step : {"none", "store", "index"}, listed : BOOLEAN]
    BY <2>1 DEF Off, NoImport, TypeOK
  <2> QED
    BY <2>1, <2>2, <2>3, <2>4, <2>5 DEF Off, TypeOK
<1> QED
  BY <1>2, <1>3, <1>4, <1>5, <1>6, <1>7, <1>8, <1>9, <1>10, <1>11

LEMMA PickTypes ==
    ASSUME TypeOK, NEW d \in Dirs, Pick(d)
    PROVE  TypeOK'
<1>1. AtTyped'
  BY GotoTyped DEF Pick, Activities, ChooseSteps
<1>2. dest' \in Dirs /\ busy' \in BOOLEAN
  BY DEF Pick, TypeOK
<1> QED
  BY <1>1, <1>2 DEF Pick, TypeOK, AtTyped, disks, engine, shelves

LEMMA MoveTypes ==
    ASSUME TypeOK, NEW p \in Activities, Move(p)
    PROVE  TypeOK'
<1> USE DEF disks, engine, shelves, AtTyped, Unmoved
<1> DEFINE Journals == [stage : {"none", "copying", "verified", "cleanup"},
                        source : Dirs, destination : Dirs, files : SUBSET Books]
<1>1. ASSUME NEW s \in MoveSteps \cup {"prepare", "restart"}, Goto(p, s),
             p = "boot" => s # "restart", p = "choose" => s # "prepare"
      PROVE  AtTyped'
  BY <1>1, GotoTyped DEF Activities, BootSteps, ChooseSteps
<1>2. ASSUME Fail(p)
      PROVE  AtTyped' /\ busy' \in BOOLEAN
  BY <1>2, FailTyped
<1>3. journal \in Journals /\ journal.files \in SUBSET Books
      /\ journal.source \in Dirs /\ journal.destination \in Dirs
  BY DEF TypeOK
<1>4. \A stage \in {"none", "copying", "verified", "cleanup"} :
         [journal EXCEPT !.stage = stage] \in Journals
  BY <1>3
<1>5. CASE MoveBegin(p)
  <2>1. CASE Pending /\ UNCHANGED <<disks, imp, busy>>
    <3>1. AtTyped'
      BY <1>1, <1>5, <2>1 DEF MoveBegin, MoveSteps, TypeOK, Pending
    <3> QED
      BY <1>5, <2>1, <3>1 DEF MoveBegin, TypeOK
  <2>2. CASE ~ Pending /\ p = "choose" /\ shelf[dest] = {}
    <3>1. AtTyped' /\ busy' = busy
      BY <1>1, <1>5, <2>2 DEF MoveBegin, MoveSteps
    <3>2. journal' \in Journals
      BY <1>5, <2>2 DEF MoveBegin, TypeOK
    <3>3. partial' \in {"none", "there", "gone"}
          /\ imp' \in [book : Books \cup {Nobody}, dir : Dirs,
                       step : {"none", "store", "index"}, listed : BOOLEAN]
      BY <1>5, <2>2 DEF MoveBegin, TypeOK
    <3> QED
      BY <1>5, <2>2, <3>1, <3>2, <3>3 DEF MoveBegin, TypeOK
  <2>3. CASE ~ Pending /\ Fail(p) /\ UNCHANGED <<disks, imp>>
    <3>1. AtTyped' /\ busy' \in BOOLEAN
      BY <1>2, <2>3
    <3> QED
      BY <1>5, <2>3, <3>1 DEF MoveBegin, TypeOK
  <2> QED
    BY <1>5, <2>1, <2>2, <2>3 DEF MoveBegin
<1>6. CASE MoveCopy(p)
  <2>1. AtTyped' /\ busy' \in BOOLEAN
    BY <1>1, <1>2, <1>6 DEF MoveCopy, MoveSteps, TypeOK
  <2>2. shelf' \in [Dirs -> SUBSET Books]
    BY <1>3, <1>6 DEF MoveCopy, TypeOK
  <2> QED
    BY <1>6, <2>1, <2>2 DEF MoveCopy, TypeOK
<1>7. CASE MoveVerified(p)
  <2>1. AtTyped' /\ busy' \in BOOLEAN
    BY <1>1, <1>2, <1>7 DEF MoveVerified, MoveSteps, TypeOK
  <2>2. journal' \in Journals
    BY <1>3, <1>4, <1>7 DEF MoveVerified
  <2> QED
    BY <1>7, <2>1, <2>2 DEF MoveVerified, TypeOK
<1>8. CASE MoveSettle(p)
  <2>1. AtTyped' /\ busy' \in BOOLEAN
    BY <1>1, <1>2, <1>8 DEF MoveSettle, MoveSteps, TypeOK
  <2> QED
    BY <1>3, <1>8, <2>1 DEF MoveSettle, TypeOK
<1>9. CASE MoveSave(p)
  <2>1. AtTyped'
    BY <1>1, <1>9 DEF MoveSave, MoveSteps
  <2> QED
    BY <1>3, <1>9, <2>1 DEF MoveSave, TypeOK
<1>10. CASE MoveMark(p)
  <2>1. AtTyped'
    BY <1>1, <1>10 DEF MoveMark, MoveSteps
  <2>2. journal' \in Journals
    BY <1>4, <1>10 DEF MoveMark
  <2> QED
    BY <1>10, <2>1, <2>2 DEF MoveMark, TypeOK
<1>11. CASE MoveClean(p)
  <2> DEFINE left == journal.files \cap shelf[journal.source]
  <2>1. CASE ~ (left \subseteq shelf[journal.destination])
    <3>1. AtTyped' /\ busy' \in BOOLEAN
      BY <1>2, <1>11, <2>1 DEF MoveClean
    <3> QED
      BY <1>11, <2>1, <3>1 DEF MoveClean, TypeOK
  <2>2. CASE left \subseteq shelf[journal.destination]
    <3>1. AtTyped'
      BY <1>1, <1>11, <2>2 DEF MoveClean, Activities
    <3>2. journal' \in Journals
      BY <1>4, <1>11, <2>2 DEF MoveClean
    <3>3. shelf' \in [Dirs -> SUBSET Books] /\ partial' = "none"
      BY <1>3, <1>11, <2>2 DEF MoveClean, TypeOK
    <3> QED
      BY <1>11, <2>2, <3>1, <3>2, <3>3 DEF MoveClean, TypeOK
  <2> QED
    BY <2>1, <2>2
<1> QED
  BY <1>5, <1>6, <1>7, <1>8, <1>9, <1>10, <1>11 DEF Move

BookStep ==
    \/ ImportStore \/ ImportIndex \/ ImportFails \/ RemoveIndex \/ RemoveFails
    \/ \E b \in Books : ImportBegin(b) \/ RemoveFile(b)

LEMMA BookTypes ==
    ASSUME TypeOK, BookStep
    PROVE  TypeOK'
<1> USE DEF disks, flags, engine, shelves
<1> DEFINE Imports == [book : Books \cup {Nobody}, dir : Dirs,
                       step : {"none", "store", "index"}, listed : BOOLEAN]
<1>0. NoImport \in Imports /\ imp \in Imports
  BY DEF NoImport, TypeOK
<1>1. Fault => faults' \in 0..MaxFaults
  BY FaultsAssumption DEF Fault, TypeOK
<1>2. CASE ImportStore
  <2>1. imp.book \in Books /\ imp.dir \in Dirs
    BY <1>2 DEF ImportStore, TypeOK
  <2>2. shelf' \in [Dirs -> SUBSET Books]
    BY <1>2, <2>1 DEF ImportStore, TypeOK
  <2>3. imp' \in Imports /\ (imp'.book = Nobody <=> imp'.step = "none")
    <3>1. CASE imp' = NoImport
      BY <1>0, <3>1 DEF NoImport
    <3>2. CASE imp' = [imp EXCEPT !.step = "index", !.listed = FALSE]
      BY <1>0, <2>1, <3>2, NobodyAssumption
    <3> QED
      BY <1>2, <3>1, <3>2 DEF ImportStore
  <2> QED
    BY <1>2, <2>2, <2>3 DEF ImportStore, TakePartial, TypeOK
<1>4. CASE ImportIndex
  <2>1. imp.book \in Books
    BY <1>4 DEF ImportIndex, TypeOK
  <2>2. imp' \in Imports /\ (imp'.book = Nobody <=> imp'.step = "none")
    BY <1>0, <1>4 DEF ImportIndex, NoImport
  <2> QED
    BY <1>4, <2>1, <2>2 DEF ImportIndex, TypeOK
<1>5. CASE ImportFails
  <2>1. imp' \in Imports /\ (imp'.book = Nobody <=> imp'.step = "none")
    BY <1>0, <1>5 DEF ImportFails, NoImport
  <2>2. shelf' \in [Dirs -> SUBSET Books]
    BY <1>5 DEF ImportFails, TypeOK
  <2> QED
    BY <1>1, <1>5, <2>1, <2>2 DEF ImportFails, TakePartial, TypeOK
<1>6. CASE RemoveIndex \/ RemoveFails
  BY <1>1, <1>6 DEF RemoveIndex, RemoveFails, TypeOK
<1>7. ASSUME NEW b \in Books, ImportBegin(b)
      PROVE  TypeOK'
  <2>1. imp' \in Imports /\ (imp'.book = Nobody <=> imp'.step = "none")
    BY <1>7, NobodyAssumption DEF ImportBegin, TypeOK
  <2> QED
    BY <1>7, <2>1 DEF ImportBegin, TypeOK
<1>8. ASSUME NEW b \in Books, RemoveFile(b)
      PROVE  TypeOK'
  BY <1>8 DEF RemoveFile, TypeOK
<1> QED
  BY <1>2, <1>4, <1>5, <1>6, <1>7, <1>8 DEF BookStep

\* Every variable keeps its type.
THEOREM TypeCorrect == Spec => []TypeOK
<1>1. TypeOK /\ [Next]_vars => TypeOK'
  <2>1. TypeOK /\ UNCHANGED vars => TypeOK'
    BY DEF vars, TypeOK, disks, flags, engine, shelves
  <2>2. \E p \in Activities : TRUE
    BY DEF Activities
  <2> QED
    BY <2>1, <2>2, BootTypes, EngineTypes, PickTypes, MoveTypes, BookTypes
       DEF Next, Continue, User, Environment, BookStep
<1> QED
  BY <1>1, TypeInitially, PTL DEF Spec

-----------------------------------------------------------------------------
(* Boot, the folder operation, the engine and the journal. *)

\* An unfinished move keeps the engine down, an activity that moves, or that is
\* about to start the engine, keeps busy set, and only one of them is there.
Sequenced ==
    /\ at["choose"] # "none" => at["boot"] \in {"done", "failed"} /\ busy
    /\ at["boot"] \in MoveSteps \cup {"prepare", "waiting", "giveup"} => busy
    /\ at["boot"] \in MoveSteps \cup {"off", "checking", "prepare"} => child = "none"
    /\ at["choose"] \in MoveSteps => child = "none"
    /\ Pending => child = "none"
    /\ at["boot"] = "prepare" \/ at["choose"] = "restart" => ~ Pending
    /\ \A p \in Activities : at[p] \in MoveSteps \ {"begin"} => Pending

\* A step of a move: it fails, goes on with a journal, or ends without one.
LEMMA MoveEffect ==
    ASSUME TypeOK, Sequenced, NEW p \in Activities, Move(p)
    PROVE  /\ at[p] \in MoveSteps
           /\ UNCHANGED child
           /\ \/ Fail(p) /\ UNCHANGED journal
              \/ /\ \E s \in MoveSteps \ {"begin"} : Goto(p, s)
                 /\ Pending' /\ UNCHANGED busy
              \/ /\ Goto(p, IF p = "boot" THEN "prepare" ELSE "restart")
                 /\ ~ Pending' /\ UNCHANGED busy
<1> USE DEF Unmoved, disks, engine, Pending
<1>0. journal.stage \in {"none", "copying", "verified", "cleanup"}
      /\ \A stage : [journal EXCEPT !.stage = stage].stage = stage
  BY DEF TypeOK
<1>1. at[p] \in MoveSteps \ {"begin"} => journal.stage # "none"
  BY DEF Sequenced
<1>2. CASE MoveBegin(p)
  <2>1. CASE Fail(p) /\ UNCHANGED journal
    BY <1>2, <2>1 DEF MoveBegin, MoveSteps
  <2>2. CASE journal.stage # "none" /\ UNCHANGED <<journal, busy>>
    BY <1>0, <1>2, <2>2 DEF MoveBegin, MoveSteps
  <2>3. CASE Goto(p, "copy") /\ journal'.stage = "copying" /\ UNCHANGED busy
    BY <1>2, <2>3 DEF MoveBegin, MoveSteps
  <2> QED
    BY <1>2, <2>1, <2>2, <2>3 DEF MoveBegin
<1>3. CASE MoveCopy(p)
  BY <1>1, <1>3 DEF MoveCopy, MoveSteps
<1>4. CASE MoveVerified(p)
  BY <1>0, <1>1, <1>4 DEF MoveVerified, MoveSteps
<1>5. CASE MoveSettle(p)
  BY <1>1, <1>5 DEF MoveSettle, MoveSteps
<1>6. CASE MoveSave(p)
  BY <1>1, <1>6 DEF MoveSave, MoveSteps
<1>7. CASE MoveMark(p)
  BY <1>0, <1>1, <1>7 DEF MoveMark, MoveSteps
<1>8. CASE MoveClean(p)
  BY <1>0, <1>1, <1>8 DEF MoveClean, MoveSteps
<1> QED
  BY <1>2, <1>3, <1>4, <1>5, <1>6, <1>7, <1>8 DEF Move

LEMMA SequencedMove ==
    ASSUME TypeOK, Sequenced, NEW p \in Activities, Move(p)
    PROVE  Sequenced'
<1>1. /\ at[p] \in MoveSteps /\ UNCHANGED child
      /\ p = "boot" \/ p = "choose"
  BY MoveEffect DEF Activities
<1>2. child = "none" /\ busy
      /\ (p = "boot" => at["choose"] = "none")
      /\ (p = "choose" => at["boot"] \in {"done", "failed"})
  BY <1>1 DEF Sequenced, MoveSteps
<1>3. CASE Fail(p) /\ UNCHANGED journal
  <2>1. ~ InCatch \/ p = "boot"
    BY <1>1 DEF InCatch, MoveSteps
  <2> QED
    BY <1>1, <1>2, <1>3, <2>1, FailEffect DEF Sequenced, Pending, Activities, MoveSteps
<1>4. ASSUME NEW s \in MoveSteps \ {"begin"}, Goto(p, s), Pending', UNCHANGED busy
      PROVE  Sequenced'
  <2>1. at'[p] = s /\ \A q \in Activities : q # p => at'[q] = at[q]
    BY <1>4, GotoEffect DEF BootSteps
  <2> QED
    BY <1>1, <1>2, <1>4, <2>1 DEF Sequenced, Activities, MoveSteps
<1>5. ASSUME NEW s, s = (IF p = "boot" THEN "prepare" ELSE "restart"), Goto(p, s),
             ~ Pending', UNCHANGED busy
      PROVE  Sequenced'
  <2>1. at'[p] = s /\ \A q \in Activities : q # p => at'[q] = at[q]
    BY <1>5, GotoEffect DEF BootSteps, ChooseSteps
  <2> QED
    BY <1>1, <1>2, <1>5, <2>1 DEF Sequenced, Activities, MoveSteps
<1> QED
  BY <1>3, <1>4, <1>5, MoveEffect

LEMMA SequencedEngine ==
    ASSUME TypeOK, Sequenced, NEW p \in Activities,
           \/ Polled(p) \/ Stopped(p) \/ StartExpires(p) \/ StopExpires(p) \/ MoveError(p)
    PROVE  Sequenced'
<1>0. UNCHANGED journal /\ (p = "boot" \/ p = "choose")
  BY DEF Polled, Stopped, StartExpires, StopExpires, MoveError, disks, engine, Activities
<1>1. CASE Fail(p) /\ UNCHANGED child
  <2>1. at[p] \in MoveSteps \cup {"waiting", "recovering", "stopping", "giveup", "abandon"}
    BY DEF Polled, Stopped, StartExpires, StopExpires, MoveError, Moving
  <2> QED
    BY <1>0, <1>1, <2>1, FailEffect DEF Sequenced, Pending, InCatch, Activities, MoveSteps
<1>2. CASE Polled(p) /\ ~ Fail(p)
  <2>1. /\ busy' = FALSE
        /\ p = "boot" => at'["boot"] = "done" /\ at'["choose"] = at["choose"]
        /\ p = "choose" =>
             /\ at'["choose"] = "none"
             /\ at'["boot"] = at["boot"] \/ (at["boot"] = "failed" /\ at'["boot"] = "done")
    BY <1>2, PolledEffect
  <2>2. at[p] \in {"waiting", "recovering"} /\ child' = child
    BY <1>2 DEF Polled, engine
  <2> QED
    BY <1>0, <1>2, <2>1, <2>2 DEF Sequenced, Pending, Activities, MoveSteps
<1>3. CASE Stopped(p) /\ p = "choose" /\ at[p] = "stopping" /\ Goto(p, "begin") /\ busy' = busy
  <2>1. at'["choose"] = "begin" /\ at'["boot"] = at["boot"]
    BY <1>3, GotoEffect DEF Activities, ChooseSteps, MoveSteps
  <2>2. child = "none" /\ child' = "none"
    BY <1>3 DEF Stopped, engine
  <2> QED
    BY <1>0, <1>3, <2>1, <2>2 DEF Sequenced, Pending, Activities, MoveSteps
<1>4. CASE StartExpires(p)
  <2>1. /\ p = "boot" => at'["boot"] \in {"giveup", "abandon"} /\ at'["choose"] = at["choose"]
        /\ p = "choose" => at'["choose"] \in {"giveup", "abandon"} /\ at'["boot"] = at["boot"]
    BY <1>0, <1>4, GotoEffect DEF StartExpires, Activities, BootSteps, ChooseSteps
  <2>2. at[p] \in {"waiting", "recovering"} /\ child = "booting" /\ child' = "closing"
        /\ busy' = busy
    BY <1>4 DEF StartExpires, flags
  <2>3. p = "boot" => at[p] = "waiting" /\ at'["boot"] = "giveup"
    BY <1>0, <1>4, <2>2, GotoEffect DEF StartExpires, TypeOK, BootSteps, MoveSteps
  <2> QED
    BY <1>0, <2>1, <2>2, <2>3 DEF Sequenced, Pending, Activities, MoveSteps
<1> QED
  BY <1>1, <1>2, <1>3, <1>4
     DEF Polled, Stopped, StartExpires, StopExpires, MoveError, engine
LEMMA SequencedBoot ==
    ASSUME TypeOK, Sequenced, ~ EarlyMenu,
           \/ Launch \/ BootJournal \/ BootEngine \/ RestartEngine \/ Recover
           \/ EngineReady \/ EngineRefused \/ EngineExits \/ EngineDies \/ Pause \/ Stop \/ Choose \/ Quit
           \/ Exit \/ QuitExpires \/ Crash
    PROVE  Sequenced'
<1> USE DEF Pending, disks, flags, engine
<1>0. "boot" \in Activities /\ "choose" \in Activities
      /\ \A p \in Activities : p = "boot" \/ p = "choose"
  BY DEF Activities
<1>1. ASSUME NEW p \in Activities, NEW s \in {"waiting", "recovering"},
             Spawn(p, s), ~ Pending,
             p = "boot" => at[p] = "prepare" /\ s = "waiting",
             p = "choose" => at[p] \in {"restart", "recover"}
      PROVE  Sequenced'
  <2>1. UNCHANGED journal
    BY <1>1 DEF Spawn
  <2>2. CASE Goto(p, s) /\ child' = "booting" /\ busy' = busy
    <3>1. at'[p] = s /\ \A q \in Activities : q # p => at'[q] = at[q]
      BY <1>1, <2>2, GotoEffect DEF BootSteps, ChooseSteps
    <3> QED
      BY <1>0, <1>1, <2>1, <2>2, <3>1 DEF Sequenced, MoveSteps
  <2>3. CASE Fail(p) /\ child' = child
    BY <1>0, <1>1, <2>1, <2>3, FailEffect DEF Sequenced, InCatch, MoveSteps
  <2> QED
    BY <1>1, <2>2, <2>3 DEF Spawn
<1>2. CASE Launch
  <2>1. /\ at'["boot"] = "checking" /\ at'["choose"] = "none" /\ at["boot"] = "off"
        /\ UNCHANGED <<journal, child>>
    BY <1>2 DEF Launch, Running, TypeOK, Activities
  <2> QED
    BY <1>0, <2>1 DEF Sequenced, MoveSteps
<1>3. CASE BootJournal
  <2>1. /\ at["boot"] = "checking" /\ at'["choose"] = at["choose"] /\ busy' = TRUE
        /\ at'["boot"] = (IF Pending THEN "begin" ELSE "prepare")
        /\ UNCHANGED <<journal, child>>
    BY <1>0, <1>3, GotoEffect DEF BootJournal, BootSteps, MoveSteps
  <2> QED
    BY <1>0, <2>1 DEF Sequenced, MoveSteps
<1>4. CASE BootEngine
  BY <1>0, <1>1, <1>4 DEF BootEngine, Sequenced
<1>5. CASE RestartEngine
  BY <1>0, <1>1, <1>5 DEF RestartEngine, Sequenced
<1>6. CASE Recover
  <2>1. CASE ~ Pending /\ Spawn("choose", "recovering")
    BY <1>0, <1>1, <1>6, <2>1 DEF Recover
  <2>2. CASE Goto("choose", "none") /\ busy' = FALSE /\ UNCHANGED <<journal, child>>
    <3>1. at'["choose"] = "none" /\ at'["boot"] = at["boot"] /\ at["choose"] = "recover"
      BY <1>0, <1>6, <2>2, GotoEffect DEF Recover, ChooseSteps
    <3> QED
      BY <1>0, <2>2, <3>1 DEF Sequenced, MoveSteps
  <2> QED
    BY <1>6, <2>1, <2>2 DEF Recover
<1>7. CASE EngineReady \/ EngineRefused \/ EngineExits \/ EngineDies
  <2>1. /\ UNCHANGED <<journal, at, busy>>
        /\ child' = "none" \/ child' = child \/ (child = "booting" /\ child' = "up")
    BY <1>7 DEF EngineReady, EngineRefused, EngineExits, EngineDies
  <2> QED
    BY <1>0, <2>1 DEF Sequenced, MoveSteps
<1>8. CASE Pause
  <2>1. UNCHANGED <<journal, child>> /\ at["choose"] = "pause"
    BY <1>8 DEF Pause
  <2>2. CASE Goto("choose", "stop") /\ UNCHANGED busy
    <3>1. at'["choose"] = "stop" /\ at'["boot"] = at["boot"]
      BY <1>0, <2>2, GotoEffect DEF ChooseSteps
    <3> QED
      BY <1>0, <2>1, <2>2, <3>1 DEF Sequenced, MoveSteps
  <2>3. CASE Fail("choose")
    BY <1>0, <2>1, <2>3, FailEffect DEF Sequenced, InCatch, MoveSteps
  <2> QED
    BY <1>8, <2>2, <2>3 DEF Pause
<1>9. CASE Stop
  <2>1. /\ UNCHANGED <<journal, busy>> /\ at["choose"] = "stop"
        /\ child' = child \/ (child' = "closing" /\ child # "none")
    BY <1>9 DEF Stop, Alive
  <2>2. at'["choose"] = "stopping" /\ at'["boot"] = at["boot"]
    BY <1>0, <1>9, GotoEffect DEF Stop, ChooseSteps
  <2> QED
    BY <1>0, <2>1, <2>2 DEF Sequenced, MoveSteps
<1>10. CASE Choose
  <2>1. /\ UNCHANGED <<journal, child>> /\ busy' = TRUE
        /\ at["boot"] \in {"done", "failed"}
        /\ at["choose"] = "none"
    BY <1>10 DEF Choose
  <2>2. at'["choose"] = "dialog" /\ at'["boot"] = at["boot"]
    BY <1>0, <1>10, GotoEffect DEF Choose, ChooseSteps
  <2> QED
    BY <1>0, <2>1, <2>2 DEF Sequenced, MoveSteps
<1>11. CASE Quit \/ QuitExpires
  <2>1. /\ UNCHANGED <<journal, at, busy>>
        /\ child' = child \/ (child' = "closing" /\ child # "none")
    BY <1>11 DEF Quit, QuitExpires, Alive
  <2> QED
    BY <1>0, <2>1 DEF Sequenced, MoveSteps
<1>12. CASE Exit \/ Crash
  <2>1. /\ at'["boot"] = "off" /\ at'["choose"] = "none"
        /\ UNCHANGED journal /\ child' = "none"
    BY <1>12 DEF Exit, Crash, Off, TypeOK, Activities
  <2> QED
    BY <1>0, <2>1 DEF Sequenced, MoveSteps
<1> QED
  BY <1>2, <1>3, <1>4, <1>5, <1>6, <1>7, <1>8, <1>9, <1>10, <1>11, <1>12

LEMMA SequencedRest ==
    ASSUME TypeOK, Sequenced, BookStep \/ (\E d \in Dirs : Pick(d)) \/ UNCHANGED vars
    PROVE  Sequenced'
<1>1. CASE BookStep \/ UNCHANGED vars
  <2>1. UNCHANGED <<journal, at, child, busy>>
    BY <1>1 DEF BookStep, ImportStore, ImportIndex, ImportFails, RemoveIndex, RemoveFails,
                ImportBegin, RemoveFile, vars, disks, flags, engine
  <2> QED
    BY <2>1 DEF Sequenced, Pending
<1>2. ASSUME NEW d \in Dirs, Pick(d)
      PROVE  Sequenced'
  <2>1. /\ UNCHANGED <<journal, child>> /\ at["choose"] = "dialog"
        /\ \/ Goto("choose", "none") /\ busy' = FALSE
           \/ Goto("choose", "pause") /\ busy' = busy
    BY <1>2 DEF Pick, disks, engine
  <2>2. CASE Goto("choose", "none") /\ busy' = FALSE
    <3>1. at'["boot"] = at["boot"] /\ at'["choose"] = "none"
      BY <2>2, GotoEffect DEF Activities, ChooseSteps
    <3> QED
      BY <2>1, <3>1 DEF Sequenced, Pending, Activities, MoveSteps
  <2>3. CASE Goto("choose", "pause") /\ busy' = busy
    <3>1. at'["boot"] = at["boot"] /\ at'["choose"] = "pause"
      BY <2>3, GotoEffect DEF Activities, ChooseSteps
    <3> QED
      BY <2>1, <2>3, <3>1 DEF Sequenced, Pending, Activities, MoveSteps
  <2> QED
    BY <2>1, <2>2, <2>3
<1> QED
  BY <1>1, <1>2

LEMMA SequencedPreserved ==
    ASSUME TypeOK, Sequenced, ~ EarlyMenu, [Next]_vars
    PROVE  Sequenced'
<1>1. \E p \in Activities : TRUE
  BY DEF Activities
<1> QED
  BY <1>1, SequencedMove, SequencedEngine, SequencedBoot, SequencedRest
     DEF Next, Continue, User, Environment, BookStep

LEMMA SequencedInitially == Init => Sequenced
BY DEF Init, Sequenced, Pending, Activities, MoveSteps

\* The application has no engine during a move, not even one that still shuts
\* down, and there is one move (migrate is called after the engine was stopped,
\* or before it was started).  What a killed application left behind is not its
\* engine and not covered.
THEOREM MovesRunAlone ==
    ASSUME ~ EarlyMenu
    PROVE  Spec => []MoveAlone
<1>1. Sequenced => MoveAlone
  BY DEF Sequenced, MoveAlone, Moving, Pending, Activities, MoveSteps
<1>2. TypeOK /\ Sequenced /\ [Next]_vars => Sequenced'
  BY SequencedPreserved
<1> QED
  BY <1>1, <1>2, TypeCorrect, SequencedInitially, PTL DEF Spec

\* Only a crash ends the process during a move: a quit that was accepted before
\* does not (before-quit, the close handler of the window).
THEOREM MovesAreNotInterrupted ==
    ASSUME ~ EarlyMenu
    PROVE  Spec => NoExitDuringMove
<1> DEFINE Kept == (\E p \in Activities : Moving(p)) /\ Running /\ ~ Running' => Crash
<1>1. ASSUME TypeOK, Sequenced, Next
      PROVE  Kept
  <2> SUFFICES ASSUME NEW q \in Activities, Moving(q), Running, ~ Running'
               PROVE  Crash
    OBVIOUS
  <2>0. at["boot"] # "off" /\ at'["boot"] = "off" /\ \A p \in Activities : p = "boot" \/ p = "choose"
    BY DEF Running, Activities
  <2>1. busy
    BY <1>1, <2>0 DEF Moving, Sequenced, MoveSteps
  <2>2. ASSUME NEW p \in Activities, Fail(p)
        PROVE  FALSE
    BY <1>1, <2>0, <2>2, FailEffect
  <2>3. ASSUME NEW p \in Activities, NEW s \in BootSteps \cup ChooseSteps, s # "off", Goto(p, s)
        PROVE  FALSE
    BY <1>1, <2>0, <2>3, GotoEffect DEF Activities
  <2>4. ASSUME NEW p \in Activities, Move(p)
        PROVE  FALSE
    <3>1. \A s \in MoveSteps : s \in BootSteps /\ s # "off"
      BY DEF MoveSteps, BootSteps
    <3>2. (IF p = "boot" THEN "prepare" ELSE "restart") \in (BootSteps \cup ChooseSteps) \ {"off"}
      BY DEF BootSteps, ChooseSteps
    <3> QED
      BY <1>1, <2>2, <2>3, <2>4, <3>1, <3>2, MoveEffect
  <2>5. ASSUME NEW p \in Activities,
               \/ Polled(p) \/ Stopped(p) \/ StartExpires(p) \/ StopExpires(p) \/ MoveError(p)
        PROVE  FALSE
    <3>1. CASE Polled(p)
      BY <1>1, <2>0, <2>2, <3>1, PolledEffect
    <3>2. CASE \/ Fail(p)
               \/ \E s \in {"done", "none", "begin", "giveup", "abandon"} : Goto(p, s)
      BY <2>2, <2>3, <3>2 DEF BootSteps, ChooseSteps, MoveSteps
    <3> QED
      BY <2>5, <3>1, <3>2 DEF Stopped, StartExpires, StopExpires, MoveError
  <2>6. ASSUME \/ BootJournal \/ BootEngine \/ RestartEngine \/ Recover \/ Pause \/ Stop \/ Choose
               \/ \E d \in Dirs : Pick(d)
        PROVE  FALSE
    <3>1. \/ \E p \in Activities : Fail(p)
          \/ \E p \in Activities : \E s \in {"begin", "prepare", "waiting", "recovering", "none",
                                          "stop", "stopping", "dialog", "pause"} : Goto(p, s)
      BY <2>6 DEF BootJournal, BootEngine, RestartEngine, Recover, Pause, Stop, Choose, Pick, Spawn,
                  Activities
    <3> QED
      BY <2>2, <2>3, <3>1 DEF BootSteps, ChooseSteps, MoveSteps
  <2>7. ASSUME \/ EngineReady \/ EngineRefused \/ EngineExits \/ EngineDies \/ Quit \/ QuitExpires \/ BookStep
        PROVE  FALSE
    <3>1. UNCHANGED at
      BY <2>7 DEF EngineReady, EngineRefused, EngineExits, EngineDies, Quit, QuitExpires, BookStep, ImportStore,
                  ImportIndex, ImportFails, RemoveIndex, RemoveFails, ImportBegin, RemoveFile
    <3> QED
      BY <2>0, <3>1
  <2>8. ~ Launch /\ ~ Exit
    BY <2>1 DEF Launch, Exit
  <2> QED
    BY <1>1, <2>4, <2>5, <2>6, <2>7, <2>8 DEF Next, Continue, User, Environment, BookStep
<1>2. UNCHANGED vars => UNCHANGED at
  BY DEF vars
<1>3. TypeOK /\ Sequenced /\ [Next]_vars => [Kept]_vars
  BY <1>1
<1>4. TypeOK /\ Sequenced /\ [Next]_vars => Sequenced'
  BY SequencedPreserved
<1> QED
  BY <1>3, <1>4, TypeCorrect, SequencedInitially, PTL DEF Spec, NoExitDuringMove
-----------------------------------------------------------------------------
(* The folders that the settings, the engine and the journal mean. *)

Late   == MoveSteps \ {"begin"}
Chosen == {"pause", "stop", "stopping", "begin"}

\* A step that is not one of a move: the journal and the settings file stay, a
\* move goes on later where it was, and the folder that was picked is another
\* than the one in use.
LEMMA OtherSteps ==
    ASSUME TypeOK, [Next]_vars, ~ \E p \in Activities : Move(p)
    PROVE  /\ UNCHANGED <<journal, savedPath>>
           /\ \A p \in Activities : at'[p] \in Late => at'[p] = at[p]
           /\ Launch \/ (memPath' = memPath /\ (Running' => Running))
           /\ at'["choose"] \in Chosen =>
                \/ at["choose"] \in Chosen /\ UNCHANGED <<dest, memPath>>
                \/ dest' # memPath /\ memPath' = memPath
<1> USE DEF disks, flags, engine
<1>0. "boot" \in Activities /\ "choose" \in Activities
      /\ \A p \in Activities : p = "boot" \/ p = "choose"
  BY DEF Activities
<1> DEFINE Goal ==
      /\ \A p \in Activities : at'[p] \in Late => at'[p] = at[p]
      /\ Running' => Running
      /\ at'["choose"] \in Chosen => at["choose"] \in Chosen
<1>1. ASSUME NEW p \in Activities, Fail(p), p = "boot" => at["boot"] # "off"
      PROVE  Goal
  BY <1>0, <1>1, FailEffect DEF Late, Chosen, MoveSteps, Running
<1>2. ASSUME NEW p \in Activities, NEW s \in BootSteps \cup ChooseSteps, s \notin Late, Goto(p, s),
             p = "boot" => at["boot"] # "off",
             p = "choose" /\ s \in Chosen => at["choose"] \in Chosen
      PROVE  Goal
  BY <1>0, <1>2, GotoEffect DEF Late, Chosen, MoveSteps, Running
<1>3. CASE Launch
  BY <1>0, <1>3 DEF Launch, Late, Chosen, MoveSteps, TypeOK
<1>4. CASE \E d \in Dirs : Pick(d)
  <2>1. UNCHANGED <<journal, savedPath, memPath>> /\ at["choose"] = "dialog"
    BY <1>4 DEF Pick
  <2>2. CASE Goto("choose", "none")
    <3>1. Goal
      BY <1>0, <1>2, <2>2 DEF ChooseSteps, Late, MoveSteps, Chosen
    <3>2. at'["choose"] \notin Chosen
      BY <1>0, <2>2, GotoEffect DEF Chosen, ChooseSteps
    <3> QED
      BY <2>1, <3>1, <3>2
  <2>3. CASE Goto("choose", "pause") /\ dest' # memPath
    <3>1. at'["choose"] = "pause" /\ at'["boot"] = at["boot"]
      BY <1>0, <2>3, GotoEffect DEF ChooseSteps
    <3> QED
      BY <1>0, <2>1, <2>3, <3>1 DEF Late, MoveSteps, Running
  <2> QED
    BY <1>4, <2>2, <2>3 DEF Pick
<1>5. CASE \/ BootJournal \/ BootEngine \/ RestartEngine \/ Recover \/ Pause \/ Stop \/ Choose
           \/ \E p \in Activities :
                \/ Polled(p) \/ Stopped(p) \/ StartExpires(p) \/ StopExpires(p) \/ MoveError(p)
  <2>1. UNCHANGED <<journal, savedPath, memPath, dest>>
    BY <1>5 DEF BootJournal, BootEngine, RestartEngine, Recover, Pause, Stop, Choose, Polled,
                Stopped, StartExpires, StopExpires, MoveError, Spawn
  <2>2. Goal
    <3>1. ASSUME NEW p \in Activities, Fail(p)
          PROVE  Goal
      <4>1. p = "boot" => at["boot"] # "off"
        BY <1>0, <1>5, <3>1 DEF BootJournal, BootEngine, RestartEngine, Recover, Pause, Stop, Choose,
              Polled, Stopped, StartExpires, StopExpires, MoveError, Moving, MoveSteps, Goto, Fail,
              Spawn, TypeOK
      <4> QED
        BY <1>1, <3>1, <4>1
    <3>2. CASE BootJournal
      BY <1>0, <1>2, <3>2 DEF BootJournal, BootSteps, Late, MoveSteps
    <3>3. CASE BootEngine /\ Goto("boot", "waiting")
      BY <1>0, <1>2, <3>3 DEF BootEngine, BootSteps, Late, MoveSteps
    <3>4. CASE Goto("choose", "waiting") \/ Goto("choose", "recovering") \/ Goto("choose", "none")
               \/ Goto("choose", "dialog")
      BY <1>0, <1>2, <3>4 DEF ChooseSteps, Late, MoveSteps, Chosen
    <3>5. CASE (Pause /\ Goto("choose", "stop")) \/ Stop
      BY <1>0, <1>2, <3>5 DEF Pause, Stop, ChooseSteps, Late, MoveSteps, Chosen
    <3>6. ASSUME NEW p \in Activities, Polled(p) \/ StartExpires(p) \/ Stopped(p), ~ Fail(p)
          PROVE  Goal
      <4>1. CASE Polled(p)
        <5>1. at[p] # "off" /\ (p = "boot" => at["boot"] # "off")
          BY <4>1 DEF Polled
        <5> QED
          BY <1>0, <3>6, <4>1, <5>1, PolledEffect DEF Late, MoveSteps, Chosen, Running
      <4>2. CASE StartExpires(p)
        BY <1>0, <1>2, <3>6, <4>2 DEF StartExpires, BootSteps, ChooseSteps, Late, MoveSteps, Chosen
      <4>3. CASE Stopped(p)
        BY <1>0, <1>2, <3>6, <4>3 DEF Stopped, BootSteps, ChooseSteps, Late, MoveSteps, Chosen
      <4> QED
        BY <3>6, <4>1, <4>2, <4>3
    <3> QED
      BY <1>0, <1>5, <3>1, <3>2, <3>3, <3>4, <3>5, <3>6
         DEF BootEngine, RestartEngine, Recover, Pause, Choose, Spawn, StopExpires, MoveError
  <2> QED
    BY <2>1, <2>2
<1>6. CASE EngineReady \/ EngineRefused \/ EngineExits \/ EngineDies \/ Quit \/ QuitExpires \/ BookStep \/ UNCHANGED vars
  <2>1. UNCHANGED <<journal, savedPath, memPath, dest, at>>
    BY <1>6 DEF EngineReady, EngineRefused, EngineExits, EngineDies, Quit, QuitExpires, BookStep, ImportStore,
                ImportIndex, ImportFails, RemoveIndex, RemoveFails, ImportBegin, RemoveFile, vars
  <2> QED
    BY <2>1 DEF Running
<1>7. CASE Exit \/ Crash
  <2>1. UNCHANGED <<journal, savedPath, memPath, dest>> /\ at'["boot"] = "off" /\ at'["choose"] = "none"
    BY <1>7 DEF Exit, Crash, Off, TypeOK, Activities
  <2> QED
    BY <1>0, <2>1 DEF Running, Late, Chosen, MoveSteps
<1> QED
  BY <1>3, <1>4, <1>5, <1>6, <1>7 DEF Next, Continue, User, Environment, BookStep

\* Where the settings object and the settings file differ, and what they mean
\* at the steps of a move.
Settled ==
    /\ child # "none" => enginePath = memPath
    /\ \A p \in Activities :
         /\ at[p] \in {"copy", "recheck"} => journal.stage = "copying"
         /\ at[p] \in {"settle", "saved", "mark"} => journal.stage = "verified"
         /\ at[p] = "clean" => journal.stage = "cleanup"
         /\ at[p] \in {"saved", "mark"} => memPath = journal.destination
         /\ at[p] = "mark" => savedPath = journal.destination
    /\ Running /\ journal.stage # "verified" => memPath = savedPath
    /\ journal.stage = "cleanup" => savedPath = journal.destination

LEMMA SettledOther ==
    ASSUME TypeOK, Sequenced, Settled, [Next]_vars, ~ \E p \in Activities : Move(p)
    PROVE  Settled'
<1>1. /\ UNCHANGED <<journal, savedPath>>
      /\ \A p \in Activities : at'[p] \in Late => at'[p] = at[p]
      /\ Launch \/ (memPath' = memPath /\ (Running' => Running))
  BY OtherSteps
<1>2. child' # "none" => enginePath' = memPath'
  <2>1. CASE Launch
    BY <2>1 DEF Launch, Running, Sequenced, engine
  <2>2. CASE BootEngine \/ RestartEngine \/ Recover
    BY <2>2 DEF BootEngine, RestartEngine, Recover, Spawn, Settled, engine
  <2>3. CASE ~ (Launch \/ BootEngine \/ RestartEngine \/ Recover)
    <3>1. enginePath' = enginePath /\ (child' # "none" => child # "none")
      BY <2>3 DEF Next, Continue, User, Environment, BootJournal, Polled, Stopped, Pause, Stop,
                  ImportStore, ImportIndex, RemoveIndex, Choose, Quit, Exit, Off, Pick, ImportBegin,
                  RemoveFile, EngineReady, EngineRefused, EngineExits, EngineDies, StartExpires, StopExpires,
                  MoveError, QuitExpires, Crash, ImportFails, RemoveFails, Alive, engine, vars
    <3> QED
      BY <1>1, <2>3, <3>1 DEF Settled
  <2> QED
    BY <2>1, <2>2, <2>3
<1>3. CASE Launch
  <2>1. memPath' = savedPath' /\ \A p \in Activities : at'[p] \notin Late
    BY <1>3 DEF Launch, disks, Late, MoveSteps, TypeOK, Activities
  <2> QED
    BY <1>1, <1>2, <2>1 DEF Settled, Late, MoveSteps
<1>4. CASE memPath' = memPath /\ (Running' => Running)
  BY <1>1, <1>2, <1>4 DEF Settled, Late, MoveSteps
<1> QED
  BY <1>1, <1>3, <1>4

LEMMA SettledMove ==
    ASSUME TypeOK, Sequenced, Settled, NEW p \in Activities, Move(p)
    PROVE  Settled'
<1> USE DEF Unmoved, disks, engine
<1>1. /\ child' = "none"
      /\ \A q \in Activities : q # p => at[q] \notin MoveSteps
      /\ at["boot"] # "off"
  BY MoveEffect DEF Sequenced, Activities, MoveSteps
<1>2. ASSUME NEW s \in MoveSteps \cup {"prepare", "restart"}, Goto(p, s)
      PROVE  at'[p] = s /\ \A q \in Activities : q # p => at'[q] = at[q]
  BY <1>2, GotoEffect DEF BootSteps, ChooseSteps
<1>3. ASSUME Fail(p)
      PROVE  /\ at'[p] \notin MoveSteps /\ \A q \in Activities : q # p => at'[q] = at[q]
             /\ Running
  BY <1>1, <1>3, FailEffect DEF Activities, MoveSteps, Running
<1>4. CASE Fail(p) /\ UNCHANGED <<journal, savedPath, memPath>>
  BY <1>1, <1>3, <1>4 DEF Settled, MoveSteps, Running
<1>5. \A stage : /\ [journal EXCEPT !.stage = stage].stage = stage
                 /\ [journal EXCEPT !.stage = stage].destination = journal.destination
  BY DEF TypeOK
<1>6. CASE MoveBegin(p)
  <2>1. UNCHANGED <<memPath, savedPath>>
    BY <1>6 DEF MoveBegin
  <2>2. CASE Pending /\ UNCHANGED <<disks, imp, busy>>
    BY <1>1, <1>2, <1>6, <2>1, <2>2 DEF MoveBegin, Settled, MoveSteps, Pending, TypeOK, Running
  <2>3. CASE ~ Pending /\ Goto(p, "copy") /\ journal'.stage = "copying"
    BY <1>1, <1>2, <2>1, <2>3 DEF Settled, MoveSteps, Pending, Running
  <2> QED
    BY <1>4, <1>6, <2>1, <2>2, <2>3 DEF MoveBegin
<1>7. CASE MoveCopy(p)
  BY <1>1, <1>2, <1>4, <1>7 DEF MoveCopy, Settled, MoveSteps, Running
<1>8. CASE MoveVerified(p)
  <2>1. CASE Fail(p) /\ UNCHANGED disks
    BY <1>4, <1>8, <2>1 DEF MoveVerified
  <2>2. CASE Goto(p, "settle") /\ journal'.stage = "verified" /\ UNCHANGED <<savedPath, memPath>>
    BY <1>1, <1>2, <2>2 DEF Settled, MoveSteps
  <2> QED
    BY <1>5, <1>8, <2>1, <2>2 DEF MoveVerified
<1>9. CASE MoveSettle(p)
  BY <1>1, <1>2, <1>4, <1>9 DEF MoveSettle, Settled, MoveSteps, Running
<1>10. CASE MoveSave(p)
  BY <1>1, <1>2, <1>10 DEF MoveSave, Settled, MoveSteps, Running
<1>11. CASE MoveMark(p)
  BY <1>1, <1>2, <1>5, <1>11 DEF MoveMark, Settled, MoveSteps, Running
<1>12. CASE MoveClean(p)
  <2>1. CASE Fail(p) /\ UNCHANGED disks
    BY <1>4, <1>12, <2>1 DEF MoveClean
  <2>2. CASE Goto(p, IF p = "boot" THEN "prepare" ELSE "restart") /\ journal'.stage = "none"
             /\ UNCHANGED <<savedPath, memPath>>
    BY <1>1, <1>2, <1>12, <2>2 DEF MoveClean, Settled, MoveSteps, Running
  <2> QED
    BY <1>5, <1>12, <2>1, <2>2 DEF MoveClean
<1> QED
  BY <1>6, <1>7, <1>8, <1>9, <1>10, <1>11, <1>12 DEF Move

LEMMA SettledInitially == Init => Settled
BY DEF Init, Settled, Running, Activities

LEMMA SettledPreserved == TypeOK /\ Sequenced /\ Settled /\ [Next]_vars => Settled'
BY SettledOther, SettledMove

\* The engine that serves the reader writes to the folder of the settings
\* object and of the settings file, whatever operations came before.
THEOREM EngineWritesWhereBooksAre ==
    ASSUME ~ EarlyMenu
    PROVE  Spec => []EngineFollowsSettings
<1>1. Sequenced /\ Settled => EngineFollowsSettings
  BY DEF Sequenced, Settled, EngineFollowsSettings, Pending, Running
<1>2. TypeOK /\ Sequenced /\ [Next]_vars => Sequenced'
  BY SequencedPreserved
<1> QED
  BY <1>1, <1>2, TypeCorrect, SequencedInitially, SettledInitially, SettledPreserved, PTL DEF Spec
-----------------------------------------------------------------------------
(* The books. *)

\* A move has two folders, an import is of a book that is not indexed and, once
\* stored, is in a folder.
Shelved ==
    /\ BooksNeverLost
    /\ Pending => journal.source # journal.destination
    /\ at["choose"] \in Chosen => dest # memPath
    /\ Importing => imp.book \notin index
    /\ imp.step = "index" => \E d \in Dirs : imp.book \in shelf[d]

\* A step of a move takes a file away only where the other folder has it.
LEMMA MoveShelves ==
    ASSUME TypeOK, Sequenced, Shelved, NEW p \in Activities, Move(p)
    PROVE  /\ UNCHANGED <<index, asked, rem, orderly, dest>>
           /\ imp'.book = imp.book /\ imp'.step = imp.step /\ imp'.dir = imp.dir
           /\ \/ UNCHANGED shelf
              \/ /\ at[p] = "copy"
                 /\ shelf' = [shelf EXCEPT ![journal.destination] = @ \cup journal.files]
              \/ /\ at[p] = "clean" /\ Pending /\ ~ Pending'
                 /\ shelf' = [shelf EXCEPT ![journal.source] = @ \ (journal.files \cap shelf[journal.source])]
                 /\ journal.files \cap shelf[journal.source] \subseteq shelf[journal.destination]
<1> USE DEF Unmoved, disks, shelves
<1>0. at[p] = "clean" => Pending
  BY DEF Sequenced, MoveSteps
<1>1. \A stage : [journal EXCEPT !.stage = stage].stage = stage
  BY DEF TypeOK
<1>2. CASE MoveBegin(p)
  <2>1. imp'.book = imp.book /\ imp'.step = imp.step /\ imp'.dir = imp.dir
    BY <1>2 DEF MoveBegin, TypeOK
  <2> QED
    BY <1>2, <2>1 DEF MoveBegin
<1>3. CASE MoveCopy(p)
  BY <1>3 DEF MoveCopy
<1>4. CASE MoveClean(p)
  BY <1>0, <1>1, <1>4 DEF MoveClean, Pending
<1>5. CASE MoveVerified(p) \/ MoveSettle(p) \/ MoveSave(p) \/ MoveMark(p)
  BY <1>5 DEF MoveVerified, MoveSettle, MoveSave, MoveMark
<1> QED
  BY <1>2, <1>3, <1>4, <1>5 DEF Move

\* So no book leaves all folders.
LEMMA MoveKeeps ==
    ASSUME TypeOK, Sequenced, Shelved, NEW p \in Activities, Move(p),
           NEW b \in Books, NEW d \in Dirs, b \in shelf[d]
    PROVE  \E e \in Dirs : b \in shelf'[e]
<1>1. journal.source \in Dirs /\ journal.destination \in Dirs
  BY DEF TypeOK
<1>2. CASE UNCHANGED shelf
  BY <1>2
<1>3. CASE shelf' = [shelf EXCEPT ![journal.destination] = @ \cup journal.files]
  BY <1>1, <1>3 DEF TypeOK
<1>4. CASE /\ Pending
           /\ shelf' = [shelf EXCEPT ![journal.source] = @ \ (journal.files \cap shelf[journal.source])]
           /\ journal.files \cap shelf[journal.source] \subseteq shelf[journal.destination]
  <2>1. journal.source # journal.destination
    BY <1>4 DEF Shelved
  <2>2. shelf'[journal.destination] = shelf[journal.destination]
    BY <1>1, <1>4, <2>1 DEF TypeOK
  <2>3. CASE d = journal.source /\ b \in journal.files
    BY <1>1, <1>4, <2>2, <2>3
  <2>4. CASE ~ (d = journal.source /\ b \in journal.files)
    BY <1>1, <1>4, <2>4 DEF TypeOK
  <2> QED
    BY <2>3, <2>4
<1> QED
  BY <1>2, <1>3, <1>4, MoveShelves

LEMMA ShelvedMove ==
    ASSUME TypeOK, Sequenced, Shelved, NEW p \in Activities, Move(p)
    PROVE  Shelved'
<1>1. /\ UNCHANGED <<index, asked, dest>>
      /\ imp'.book = imp.book /\ imp'.step = imp.step
  BY MoveShelves
<1>2. BooksNeverLost' /\ (imp'.step = "index" => \E d \in Dirs : imp'.book \in shelf'[d])
  <2>1. \A b \in Books : (\E d \in Dirs : b \in shelf[d]) => \E d \in Dirs : b \in shelf'[d]
    BY MoveKeeps
  <2>2. index \subseteq Books /\ (imp.step = "index" => imp.book \in Books)
    BY DEF TypeOK
  <2> QED
    BY <1>1, <2>1, <2>2 DEF Shelved, BooksNeverLost
<1>3. Importing' => imp'.book \notin index'
  BY <1>1 DEF Shelved, Importing
<1>4. at["choose"] # "none" => p = "choose"
  BY MoveEffect DEF Sequenced, Activities, MoveSteps
<1>5. Pending' => journal'.source # journal'.destination
  <2>1. CASE journal'.source = journal.source /\ journal'.destination = journal.destination /\ Pending
    BY <2>1 DEF Shelved
  <2>2. CASE MoveBegin(p) /\ ~ Pending /\ p = "choose"
    <3>1. dest # memPath
      BY <2>2 DEF MoveBegin, Shelved, Chosen
    <3> QED
      BY <2>2, <3>1 DEF MoveBegin, Pending, disks
  <2>3. CASE UNCHANGED journal
    BY <2>3 DEF Shelved, Pending
  <2>4. CASE MoveClean(p)
    BY <2>4 DEF MoveClean, Shelved, Pending, disks, TypeOK
  <2>5. CASE MoveVerified(p) \/ MoveMark(p)
    <3>1. Pending
      BY <2>5 DEF MoveVerified, MoveMark, Sequenced, MoveSteps
    <3> QED
      BY <2>1, <2>5, <3>1 DEF MoveVerified, MoveMark, disks, TypeOK
  <2> QED
    BY <2>2, <2>3, <2>4, <2>5 DEF Move, MoveBegin, MoveCopy, MoveSettle, MoveSave, disks
<1>6. at'["choose"] \in Chosen => dest' # memPath'
  <2>1. at'["choose"] \notin Chosen
    <3>1. CASE Fail(p)
      BY <1>4, <3>1, FailEffect DEF Chosen, Activities
    <3>2. ASSUME NEW s \in Late \cup {"prepare", "restart"}, Goto(p, s)
          PROVE  at'["choose"] \notin Chosen
      BY <1>4, <3>2, GotoEffect DEF Chosen, Activities, Late, MoveSteps, BootSteps, ChooseSteps
    <3> QED
      BY <3>1, <3>2, MoveEffect DEF Late
  <2> QED
    BY <2>1
<1> QED
  BY <1>2, <1>3, <1>5, <1>6 DEF Shelved

LEMMA ShelvedBooks ==
    ASSUME TypeOK, Shelved, BookStep
    PROVE  BooksNeverLost' /\ (Importing' => imp'.book \notin index')
           /\ (imp'.step = "index" => \E d \in Dirs : imp'.book \in shelf'[d])
<1> USE NobodyAssumption DEF disks
<1>0. shelf \in [Dirs -> SUBSET Books] /\ index \subseteq Books /\ memPath \in Dirs /\ imp.dir \in Dirs
  BY DEF TypeOK
<1>1. CASE ImportStore
  <2>1. CASE shelf' = [shelf EXCEPT ![imp.dir] = @ \cup {imp.book}]
             /\ imp' = [imp EXCEPT !.step = "index", !.listed = FALSE]
    <3>1. imp'.book = imp.book /\ imp.book \in shelf'[imp.dir]
      BY <1>0, <2>1 DEF TypeOK
    <3>2. \A b, d : d \in Dirs /\ b \in shelf[d] => b \in shelf'[d]
      BY <1>0, <2>1
    <3> QED
      BY <1>0, <1>1, <3>1, <3>2 DEF ImportStore, Shelved, BooksNeverLost, Importing
  <2>2. CASE imp' = NoImport /\ UNCHANGED shelf
    BY <1>1, <2>2 DEF ImportStore, Shelved, BooksNeverLost, Importing, NoImport
  <2> QED
    BY <1>1, <2>1, <2>2 DEF ImportStore
<1>2. CASE ImportIndex
  BY <1>2 DEF ImportIndex, Shelved, BooksNeverLost, Importing, NoImport
<1>3. CASE ImportFails
  <2>1. imp.book \notin index /\ imp' = NoImport /\ UNCHANGED <<index, asked>>
    BY <1>3 DEF ImportFails, Shelved
  <2>2. \A b, d : d \in Dirs /\ b # imp.book /\ b \in shelf[d] => b \in shelf'[d]
    BY <1>0, <1>3 DEF ImportFails
  <2> QED
    BY <2>1, <2>2 DEF Shelved, BooksNeverLost, Importing, NoImport
<1>4. CASE RemoveIndex \/ RemoveFails
  BY <1>4 DEF RemoveIndex, RemoveFails, Shelved, BooksNeverLost, Importing
<1>5. ASSUME NEW b \in Books, ImportBegin(b)
      PROVE  BooksNeverLost' /\ (Importing' => imp'.book \notin index')
             /\ (imp'.step = "index" => \E d \in Dirs : imp'.book \in shelf'[d])
  BY <1>5 DEF ImportBegin, Shelved, BooksNeverLost, Importing
<1>6. ASSUME NEW b \in Books, RemoveFile(b)
      PROVE  BooksNeverLost' /\ (Importing' => imp'.book \notin index')
             /\ (imp'.step = "index" => \E d \in Dirs : imp'.book \in shelf'[d])
  <2>1. /\ UNCHANGED <<imp, index>> /\ asked' = asked \cup {b} /\ b \in index
        /\ shelf' = [shelf EXCEPT ![memPath] = @ \ {b}]
    BY <1>6 DEF RemoveFile
  <2>2. \A c, d : d \in Dirs /\ c # b /\ c \in shelf[d] => c \in shelf'[d]
    BY <1>0, <2>1
  <2>3. imp.step = "index" => imp.book # b
    BY <2>1 DEF Shelved, Importing, TypeOK
  <2> QED
    BY <2>1, <2>2, <2>3 DEF Shelved, BooksNeverLost, Importing
<1> QED
  BY <1>1, <1>2, <1>3, <1>4, <1>5, <1>6 DEF BookStep

\* A step that is neither one of a move nor one of the books leaves them alone;
\* the end of the process also ends an import.
LEMMA OtherShelves ==
    ASSUME [Next]_vars, ~ BookStep, ~ \E p \in Activities : Move(p)
    PROVE  /\ UNCHANGED <<shelf, index, asked, orderly>>
           /\ UNCHANGED <<imp, rem>> \/ (imp' = NoImport /\ rem' = Nobody /\ Off)
BY DEF Next, Continue, User, Environment, BookStep, BootJournal, BootEngine, RestartEngine, Polled,
       Stopped, Pause, Stop, Recover, Launch, Choose, Quit, Exit, Off, Pick, EngineReady, EngineRefused, EngineExits,
       EngineDies, StartExpires, StopExpires, MoveError, QuitExpires, Crash, Spawn, disks, shelves, vars

LEMMA ShelvedPreserved == TypeOK /\ Sequenced /\ Shelved /\ [Next]_vars => Shelved'
<1> SUFFICES ASSUME TypeOK, Sequenced, Shelved, [Next]_vars
             PROVE  Shelved'
  OBVIOUS
<1>1. CASE \E p \in Activities : Move(p)
  BY <1>1, ShelvedMove
<1>2. CASE ~ \E p \in Activities : Move(p)
  <2>1. /\ Pending' => journal'.source # journal'.destination
        /\ at'["choose"] \in Chosen => dest' # memPath'
    BY <1>2, OtherSteps DEF Shelved, Pending
  <2>2. CASE BookStep
    BY <2>1, <2>2, ShelvedBooks DEF Shelved
  <2>3. CASE ~ BookStep
    <3>1. UNCHANGED <<shelf, index, asked>> /\ (UNCHANGED imp \/ imp' = NoImport)
      BY <1>2, <2>3, OtherShelves
    <3> QED
      BY <2>1, <3>1 DEF Shelved, BooksNeverLost, Importing, NoImport
  <2> QED
    BY <2>2, <2>3
<1> QED
  BY <1>1, <1>2

LEMMA ShelvedInitially == Init => Shelved
BY DEF Init, Shelved, BooksNeverLost, Pending, Chosen, Importing, NoImport, Activities

\* An indexed book that the user did not remove is in some folder, whatever moves,
\* imports, removals and crashes interleave (storage.cjs unlinks an original only
\* where the copy is).
THEOREM NoBookIsLost ==
    ASSUME ~ EarlyMenu
    PROVE  Spec => []BooksNeverLost
<1>1. Shelved => BooksNeverLost
  BY DEF Shelved
<1>2. TypeOK /\ Sequenced /\ [Next]_vars => Sequenced'
  BY SequencedPreserved
<1> QED
  BY <1>1, <1>2, TypeCorrect, SequencedInitially, ShelvedInitially, ShelvedPreserved, PTL DEF Spec
-----------------------------------------------------------------------------
(* The books where the settings say, when the user lets a move end first. *)

Wanted == index \ asked

\* The books are in the folder of the settings file; until the settings name
\* the destination also in the inventory of the journal, all of which, once
\* verified, is in the destination.
Kept ==
    /\ Pending \/ at["choose"] # "none" \/ at["boot"] # "done" => ~ Importing /\ rem = Nobody
    /\ Importing => imp.dir = memPath
    /\ imp.step = "index" => imp.book \in shelf[imp.dir]
    /\ Wanted \subseteq shelf[savedPath]
    /\ journal.stage \in {"copying", "verified"} => Wanted \subseteq journal.files
    /\ journal.stage = "verified" => journal.files \subseteq shelf[journal.destination]

OrderlyKept == orderly => Kept

LEMMA KeptMove ==
    ASSUME TypeOK, Sequenced, Settled, Shelved, Kept, NEW p \in Activities, Move(p)
    PROVE  Kept'
<1> USE DEF Wanted, Pending, Unmoved, disks, shelves
<1>1. ~ Importing /\ rem = Nobody /\ at[p] \in MoveSteps /\ at["boot"] # "off"
  BY MoveEffect DEF Kept, Sequenced, Activities, MoveSteps
<1>2. /\ UNCHANGED <<index, asked, rem>>
      /\ imp'.book = imp.book /\ imp'.step = imp.step
  BY MoveShelves
<1>3. /\ ~ Importing' /\ rem' = Nobody /\ imp'.step # "index"
  BY <1>1, <1>2 DEF Importing, TypeOK
<1>4. /\ shelf \in [Dirs -> SUBSET Books] /\ journal.files \subseteq Books
      /\ savedPath \in Dirs /\ journal.source \in Dirs /\ journal.destination \in Dirs
      /\ journal.stage \in {"none", "copying", "verified", "cleanup"}
  BY DEF TypeOK
<1>5. \A stage : /\ [journal EXCEPT !.stage = stage].stage = stage
                 /\ [journal EXCEPT !.stage = stage].destination = journal.destination
                 /\ [journal EXCEPT !.stage = stage].files = journal.files
  BY DEF TypeOK
<1>6. CASE UNCHANGED <<shelf, journal, savedPath>>
  BY <1>2, <1>3, <1>6 DEF Kept
<1>7. CASE MoveBegin(p) /\ ~ UNCHANGED <<shelf, journal, savedPath>>
  <2>1. /\ journal' = [stage |-> "copying", source |-> memPath,
                       destination |-> dest, files |-> shelf[memPath]]
        /\ UNCHANGED <<shelf, savedPath>> /\ journal.stage = "none"
    BY <1>7 DEF MoveBegin
  <2>2. memPath = savedPath
    BY <1>1, <2>1 DEF Settled, Running
  <2>3. journal'.stage = "copying" /\ journal'.files = shelf[savedPath]
    BY <2>1, <2>2
  <2> QED
    BY <1>2, <1>3, <2>1, <2>3 DEF Kept
<1>8. CASE MoveCopy(p) /\ ~ UNCHANGED <<shelf, journal, savedPath>>
  <2>1. /\ UNCHANGED <<journal, savedPath>>
        /\ shelf' = [shelf EXCEPT ![journal.destination] = @ \cup journal.files]
    BY <1>8 DEF MoveCopy
  <2>2. \A d \in Dirs : shelf[d] \subseteq shelf'[d]
    BY <1>4, <2>1
  <2> QED
    BY <1>2, <1>3, <1>4, <2>1, <2>2 DEF Kept
<1>9. CASE MoveVerified(p) /\ ~ UNCHANGED <<shelf, journal, savedPath>>
  <2>1. UNCHANGED <<shelf, savedPath>> /\ journal' = [journal EXCEPT !.stage = "verified"] /\ BothHold
        /\ at[p] = "recheck"
    BY <1>9 DEF MoveVerified
  <2>2. journal.stage = "copying"
    BY <2>1 DEF Settled
  <2> QED
    BY <1>2, <1>3, <1>5, <2>1, <2>2 DEF Kept, BothHold
<1>10. CASE MoveSave(p)
  <2>1. /\ journal.stage = "verified" /\ UNCHANGED <<shelf, journal>>
        /\ savedPath' = journal.destination
    BY <1>10 DEF MoveSave, Settled
  <2> QED
    BY <1>2, <1>3, <2>1 DEF Kept
<1>11. CASE MoveMark(p)
  <2>1. /\ journal.stage = "verified" /\ UNCHANGED <<shelf, savedPath>>
        /\ journal' = [journal EXCEPT !.stage = "cleanup"]
    BY <1>11 DEF MoveMark, Settled
  <2> QED
    BY <1>2, <1>3, <1>5, <2>1 DEF Kept
<1>12. CASE MoveClean(p) /\ ~ UNCHANGED <<shelf, journal, savedPath>>
  <2>1. /\ journal.stage = "cleanup" /\ savedPath = journal.destination
        /\ journal' = [journal EXCEPT !.stage = "none"] /\ savedPath' = savedPath
        /\ shelf' = [shelf EXCEPT ![journal.source] = @ \ (journal.files \cap shelf[journal.source])]
    BY <1>12 DEF MoveClean, Settled
  <2>2. shelf'[journal.destination] = shelf[journal.destination]
    BY <1>4, <2>1 DEF Shelved
  <2>3. journal'.stage = "none" /\ Wanted \subseteq shelf'[savedPath']
    BY <1>5, <2>1, <2>2 DEF Kept
  <2> QED
    BY <1>2, <1>3, <2>3 DEF Kept
<1> QED
  BY <1>6, <1>7, <1>8, <1>9, <1>10, <1>11, <1>12 DEF Move, MoveSettle

LEMMA KeptBooks ==
    ASSUME TypeOK, Sequenced, Settled, Shelved, Kept, orderly, BookStep
    PROVE  Kept'
<1> USE NobodyAssumption DEF Wanted, Pending, disks
<1>0. /\ shelf \in [Dirs -> SUBSET Books] /\ index \subseteq Books /\ memPath \in Dirs
      /\ imp.dir \in Dirs /\ savedPath \in Dirs
  BY DEF TypeOK
<1>1. UNCHANGED <<journal, savedPath, memPath, at>>
  BY DEF BookStep, ImportStore, ImportIndex, ImportFails, RemoveIndex, RemoveFails, ImportBegin, RemoveFile
<1>2. journal.stage = "none" /\ at["boot"] = "done" /\ at["choose"] = "none"
  BY DEF BookStep, ImportStore, ImportIndex, ImportFails, RemoveIndex, RemoveFails, ImportBegin,
         RemoveFile, BooksOpen, Importing, Kept, TypeOK
<1>3. memPath = savedPath
  BY <1>2 DEF Settled, Running
<1>4. CASE ImportStore
  <2>1. CASE shelf' = [shelf EXCEPT ![imp.dir] = @ \cup {imp.book}]
             /\ imp' = [imp EXCEPT !.step = "index", !.listed = FALSE]
    <3>1. imp'.dir = imp.dir /\ imp'.book = imp.book /\ imp.book \in shelf'[imp.dir]
      BY <1>0, <2>1 DEF TypeOK
    <3>2. \A d \in Dirs : shelf[d] \subseteq shelf'[d]
      BY <1>0, <2>1
    <3>3. UNCHANGED <<index, asked>>
      BY <1>4 DEF ImportStore
    <3> QED
      BY <1>0, <1>1, <1>2, <3>1, <3>2, <3>3 DEF Kept, Importing
  <2>2. CASE imp' = NoImport /\ UNCHANGED shelf
    BY <1>1, <1>2, <1>4, <2>2 DEF ImportStore, Kept, Importing, NoImport
  <2> QED
    BY <1>4, <2>1, <2>2 DEF ImportStore
<1>5. CASE ImportIndex
  <2>1. imp.book \in shelf[savedPath]
    BY <1>3, <1>5 DEF ImportIndex, Kept, Importing, TypeOK
  <2>2. Wanted' \subseteq Wanted \cup {imp.book} /\ imp' = NoImport /\ UNCHANGED shelf
    BY <1>5 DEF ImportIndex
  <2> QED
    BY <1>1, <1>2, <2>1, <2>2 DEF Kept, Importing, NoImport
<1>6. CASE ImportFails
  <2>1. imp.book \notin index /\ imp' = NoImport /\ UNCHANGED <<index, asked>>
    BY <1>6 DEF ImportFails, Shelved
  <2>2. \A b \in shelf[savedPath] : b # imp.book => b \in shelf'[savedPath]
    BY <1>0, <1>6 DEF ImportFails
  <2> QED
    BY <1>1, <1>2, <2>1, <2>2 DEF Kept, Importing, NoImport
<1>7. CASE RemoveIndex \/ RemoveFails
  BY <1>1, <1>2, <1>7 DEF RemoveIndex, RemoveFails, Kept, Importing
<1>8. ASSUME NEW b \in Books, ImportBegin(b)
      PROVE  Kept'
  <2>1. imp' = [book |-> b, dir |-> memPath, step |-> "store", listed |-> FALSE]
        /\ UNCHANGED <<shelf, index, asked>>
    BY <1>8 DEF ImportBegin
  <2> QED
    BY <1>1, <1>2, <2>1 DEF Kept, Importing
<1>9. ASSUME NEW b \in Books, RemoveFile(b)
      PROVE  Kept'
  <2>1. /\ UNCHANGED <<imp, index>> /\ asked' = asked \cup {b} /\ b \in index
        /\ shelf' = [shelf EXCEPT ![memPath] = @ \ {b}]
    BY <1>9 DEF RemoveFile
  <2>2. \A c, d : d \in Dirs /\ c # b /\ c \in shelf[d] => c \in shelf'[d]
    BY <1>0, <2>1
  <2>3. imp.step = "index" => imp.book # b
    BY <2>1 DEF Shelved, Importing, TypeOK
  <2> QED
    BY <1>0, <1>1, <1>2, <2>1, <2>2, <2>3 DEF Kept, Importing
<1> QED
  BY <1>4, <1>5, <1>6, <1>7, <1>8, <1>9 DEF BookStep

LEMMA KeptOther ==
    ASSUME TypeOK, Sequenced, Settled, Shelved, Kept, orderly, [Next]_vars,
           ~ BookStep, ~ \E p \in Activities : Move(p)
    PROVE  Kept'
<1> USE DEF Wanted, Pending
<1>1. UNCHANGED <<shelf, index, asked, journal, savedPath>>
  BY OtherShelves, OtherSteps
<1>2. CASE imp' = NoImport /\ rem' = Nobody
  BY <1>1, <1>2 DEF Kept, Importing, NoImport
<1>3. CASE UNCHANGED <<imp, rem>>
  <2>1. Importing' => imp'.dir = memPath'
    BY <1>3, OtherSteps DEF Kept, Importing, Launch, Running
  <2>2. at'["choose"] # "none" \/ at'["boot"] # "done" => ~ Importing' /\ rem' = Nobody
    <3>1. SUFFICES ASSUME at["choose"] = "none", at["boot"] = "done",
                          at'["choose"] # "none" \/ at'["boot"] # "done"
                   PROVE  ~ Importing' /\ rem' = Nobody
      BY <1>3 DEF Kept, Importing
    <3>2. CASE Choose
      BY <1>3, <3>2 DEF Choose, Importing
    <3>3. CASE Exit \/ Crash
      <4>1. imp' = NoImport /\ rem' = Nobody
        BY <3>3 DEF Exit, Crash, Off
      <4> QED
        BY <4>1 DEF Importing, NoImport
    <3>4. CASE EngineReady \/ EngineRefused \/ EngineExits \/ EngineDies \/ Quit \/ QuitExpires \/ UNCHANGED vars
      BY <3>1, <3>4 DEF EngineReady, EngineRefused, EngineExits, EngineDies, Quit, QuitExpires, vars
    <3>5. CASE \/ Launch \/ BootJournal \/ BootEngine \/ RestartEngine \/ Recover \/ Pause \/ Stop
               \/ \E d \in Dirs : Pick(d)
      BY <3>1, <3>5 DEF Launch, BootJournal, BootEngine, RestartEngine, Recover, Pause, Stop, Pick, Running
    <3>6. ASSUME NEW p \in Activities,
                 \/ Polled(p) \/ Stopped(p) \/ StartExpires(p) \/ StopExpires(p) \/ MoveError(p)
          PROVE  FALSE
      BY <3>1, <3>6 DEF Polled, Stopped, StartExpires, StopExpires, MoveError, Moving, MoveSteps, Activities
    <3> QED
      BY <3>2, <3>3, <3>4, <3>5, <3>6 DEF Next, Continue, User, Environment, BookStep
  <2> QED
    BY <1>1, <1>3, <2>1, <2>2 DEF Kept, Importing
<1> QED
  BY <1>2, <1>3, OtherShelves

LEMMA OrderlyConstant == [Next]_vars => UNCHANGED orderly
<1> SUFFICES ASSUME [Next]_vars PROVE UNCHANGED orderly
  OBVIOUS
<1>1. CASE BookStep
  BY <1>1 DEF BookStep, ImportStore, ImportIndex, ImportFails, RemoveIndex, RemoveFails, ImportBegin,
              RemoveFile
<1>2. ASSUME NEW p \in Activities, Move(p)
      PROVE  UNCHANGED orderly
  BY <1>2 DEF Move, MoveBegin, MoveCopy, MoveVerified, MoveSettle, MoveSave, MoveMark, MoveClean,
              Unmoved, shelves
<1> QED
  BY <1>1, <1>2, OtherShelves

LEMMA OrderlyKeptPreserved ==
    TypeOK /\ Sequenced /\ Settled /\ Shelved /\ OrderlyKept /\ [Next]_vars => OrderlyKept'
BY KeptMove, KeptBooks, KeptOther, OrderlyConstant DEF OrderlyKept

LEMMA OrderlyKeptInitially == Init => OrderlyKept
<1> SUFFICES ASSUME Init PROVE Kept
  BY DEF OrderlyKept
<1>1. shelf[savedPath] = index
  BY DEF Init
<1> QED
  BY <1>1 DEF Init, Kept, Wanted, Pending, Importing, NoImport

\* When nobody imports or removes books during a move, every book is in the folder
\* that the settings file names at every instant, and in the one that the book
\* service reads once the move is over, however often moves fail, are interrupted
\* and are resumed.
THEOREM OrderlyBooksAreServed ==
    ASSUME ~ EarlyMenu
    PROVE  Spec => []OrderlyBooksServed
<1>1. Settled /\ OrderlyKept => OrderlyBooksServed
  BY DEF Settled, OrderlyKept, Kept, Wanted, OrderlyBooksServed, BooksServed, Pending
<1>2. TypeOK /\ Sequenced /\ [Next]_vars => Sequenced'
  BY SequencedPreserved
<1> QED
  BY <1>1, <1>2, TypeCorrect, SequencedInitially, SettledInitially, SettledPreserved, ShelvedInitially,
     ShelvedPreserved, OrderlyKeptInitially, OrderlyKeptPreserved, PTL DEF Spec
=============================================================================
