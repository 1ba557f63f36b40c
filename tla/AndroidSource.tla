--------------------------- MODULE AndroidSource ---------------------------
(***************************************************************************)
(* The generated source of Bihon Android: prepare, patchSource and         *)
(* verifyPrepared (src/scripts/android-prepare.cjs), the source archive    *)
(* (src/scripts/android-source.cjs) and the collected package              *)
(* (src/scripts/android-collect.cjs), with a developer who edits files,    *)
(* changes the working tree, interrupts a script or deletes what it made.  *)
(*                                                                         *)
(* Abstractions.  The content of a file is that of the upstream archive,   *)
(* what a recipe makes of it, or Edited.  A recipe is a state of the       *)
(* working tree (the script, its templates, the icon); its identity is the *)
(* recipe.  The patches change different files, so their order does not    *)
(* matter, except that copies follow what they copy and that the service   *)
(* configuration goes last.  The hashes are taken when the receipt is      *)
(* written: a file edited in between differs from the receipt, as one      *)
(* edited later does.  Listing the pinned archive, the paths of the        *)
(* command line and the SDK tools that read version and certificate of a   *)
(* package only refuse what is wrong.  gradle reads the files at once.     *)
(***************************************************************************)
EXTENDS Naturals

CONSTANTS
    Updated,      \* upstream files that the recipe changes
    Templates,    \* files of android/source, which upstream must not have
    Icon,         \* app/src/main/res/drawable/bihon_mark.png
    Written,      \* launcher, notice and build notes, of which Replaced are
    Replaced,     \*   upstream files too
    CopyOf,       \* the copies under assets: the file that each is made from
    Kept,         \* other upstream files
    Service,      \* app/google-services.json, which the recipe removes
    Recipes,      \* states of the working tree
    Absent, Upstream, Edited,
    MaxCheckouts, \* bound: changes of the working tree
    MaxEdits,     \* bound: edits of generated files
    MaxFaults     \* bound: kills, failed requests and file operations

Copied   == DOMAIN CopyOf
Added    == Templates \cup {Icon} \cup Written \cup Copied
Changed  == Updated \cup Added
Archive  == Updated \cup Replaced \cup Kept \cup {Service}
Files    == Archive \cup Added
Contents == Recipes \cup {Absent, Upstream, Edited}

ASSUME FilesAssumption ==
    /\ Updated \cap Added = {} /\ Kept \cap Changed = {}
    /\ Templates \cap ({Icon} \cup Written \cup Copied) = {}
    /\ Copied \cap ({Icon} \cup Written) = {} /\ Icon \notin Written
    /\ Replaced \subseteq Written /\ CopyOf \in [Copied -> Kept \cup Written]
    /\ Service \notin Changed \cup Kept
ASSUME ContentsAssumption ==
    /\ {Absent, Upstream, Edited} \cap Recipes = {}
    /\ Absent # Upstream /\ Absent # Edited /\ Upstream # Edited
ASSUME BoundsAssumption ==
    MaxCheckouts \in Nat /\ MaxEdits \in Nat /\ MaxFaults \in Nat

VARIABLES
    recipe,   \* the working tree
    cache,    \* persistent: downloads/mihon-<revision>.tar.gz
    dir,      \* persistent: the generated directory
    receipt,  \* persistent: its BIHON-PREPARED.json
    script,   \* the preparation under way
    apk,      \* persistent: what gradle built in the directory
    shipping, \* android-source or android-collect, between check and copy
    shipped,  \* persistent: the last file made in dist, with its recipe
    late,     \* history: files edited while the preparation ran, and copies of
              \* such files that it made
    moved,    \* history: the working tree changed while the preparation ran
    checkouts, edits, faults   \* bound counters

history == <<late, moved>>
counts  == <<checkouts, edits, faults>>
outputs == <<apk, shipping, shipped>>
vars    == <<recipe, cache, dir, receipt, script, outputs, history, counts>>

Empty == [f \in Files |-> Absent]
None  == [is |-> "none"]   \* no receipt, no package, nothing shipped
Idle  == [step |-> "idle", mine |-> Absent, left |-> {}]

Origin(f) == IF f \in Copied THEN CopyOf[f] ELSE f

\* What a recipe makes of the archive.
Result(r) == [f \in Files |-> IF Origin(f) \in Changed THEN r
                                ELSE IF f = Service THEN Absent ELSE Upstream]

Receipts == {None} \cup [is : {"torn"}] \cup
            [is : {"receipt"}, identity : Recipes, files : [Changed -> Contents]]
Packages == {None} \cup [is : {"apk"}, files : [Files -> Contents]]
Shipments == {None} \cup [is : {"source", "apk"}, by : Recipes, files : [Files -> Contents],
                          edited : SUBSET Files, moved : BOOLEAN]

TypeOK ==
    /\ recipe \in Recipes
    /\ cache \in {"absent", "good", "torn"}
    /\ dir \in [Files -> Contents]
    /\ receipt \in Receipts
    /\ script \in [step : {"idle", "archive", "fetch", "extract", "patch", "receipt"},
                   mine : Recipes \cup {Absent}, left : SUBSET Files]
    /\ apk \in Packages
    /\ shipping \in [kind : {"no", "source", "apk"}, by : Recipes \cup {Absent},
                     edited : SUBSET Files]
    /\ shipped \in Shipments
    /\ late \subseteq Files /\ moved \in BOOLEAN
    /\ checkouts \in 0..MaxCheckouts /\ edits \in 0..MaxEdits /\ faults \in 0..MaxFaults

NoShipping == [kind |-> "no", by |-> Absent, edited |-> {}]

Init ==
    /\ recipe \in Recipes
    /\ cache = "absent" /\ dir = Empty /\ receipt = None /\ script = Idle
    /\ apk = None /\ shipping = NoShipping /\ shipped = None
    /\ late = {} /\ moved = FALSE
    /\ checkouts = 0 /\ edits = 0 /\ faults = 0

Fault == faults < MaxFaults /\ faults' = faults + 1 /\ UNCHANGED <<checkouts, edits>>

-----------------------------------------------------------------------------
(* prepare.  With a receipt it only verifies, in a directory with anything  *)
(* else it throws; neither changes anything.                                *)

At(step)         == script.step = step
Goto(step, left) == script' = [script EXCEPT !.step = step, !.left = left]
Throw            == script' = Idle
OnlyScript       == UNCHANGED <<recipe, cache, dir, receipt, outputs, history>>

\* Mutant: only the receipt is looked for.
BeginAnyway ==
    /\ At("idle") /\ receipt = None
    /\ script' = [step |-> "archive", mine |-> recipe, left |-> {}]
    /\ late' = {} /\ moved' = FALSE
    /\ UNCHANGED <<recipe, cache, dir, receipt, outputs, counts>>

\* The script works with the recipe that it was loaded with.
Begin ==
    /\ At("idle") /\ receipt = None /\ dir = Empty
    /\ script' = [step |-> "archive", mine |-> recipe, left |-> {}]
    /\ late' = {} /\ moved' = FALSE
    /\ UNCHANGED <<recipe, cache, dir, receipt, outputs, counts>>

\* The archive is hashed in each run; a torn one is refused.
CheckArchive ==
    /\ At("archive")
    /\ CASE cache = "absent" -> Goto("fetch", {})
         [] cache = "torn"   -> Throw
         [] cache = "good"   -> Goto("extract", Archive)
    /\ OnlyScript /\ UNCHANGED counts

\* The bytes are verified in memory and written under the final name.
Fetch ==
    /\ At("fetch")
    /\ cache' = "good" /\ Goto("archive", {})
    /\ UNCHANGED <<recipe, dir, receipt, outputs, history, counts>>

FetchTorn ==
    /\ At("fetch") /\ Fault
    /\ cache' = "torn" /\ Throw
    /\ UNCHANGED <<recipe, dir, receipt, outputs, history>>

\* tar overwrites what is there.
Extract(f) ==
    /\ At("extract") /\ f \in script.left
    /\ dir' = [dir EXCEPT ![f] = Upstream]
    /\ IF script.left = {f} THEN Goto("patch", Changed \cup {Service})
                            ELSE Goto("extract", script.left \ {f})
    /\ UNCHANGED <<recipe, cache, receipt, outputs, history, counts>>

\* One update; an edited file has the expected text still, or it throws.
Update(f) ==
    /\ f \in Updated /\ dir[f] # Absent
    /\ dir' = [dir EXCEPT ![f] = IF @ = Upstream THEN script.mine ELSE Edited]

\* A template, read from the working tree at this point.
Add(f) ==
    /\ f \in Templates /\ dir[f] = Absent
    /\ dir' = [dir EXCEPT ![f] = recipe]

\* These files are written over whatever is there; the icon is read from the
\* working tree now, the others are texts of the script.
Overwrite(f) ==
    /\ f \in {Icon} \cup Written
    /\ dir' = [dir EXCEPT ![f] = IF f = Icon THEN recipe ELSE script.mine]

\* The notice and the licence of the directory are copied into the assets.
CopyAsset(f) ==
    /\ f \in Copied /\ script.left \subseteq Copied \cup {Service}
    /\ dir' = [dir EXCEPT ![f] = dir[CopyOf[f]]]
    /\ late' = IF dir[CopyOf[f]] = Edited THEN late \cup {f} ELSE late

Patch(f) ==
    /\ At("patch") /\ f \in script.left
    /\ \/ (Update(f) \/ Add(f) \/ Overwrite(f)) /\ late' = late
       \/ CopyAsset(f)
       \/ f = Service /\ script.left = {Service}
            /\ dir' = [dir EXCEPT ![f] = Absent] /\ late' = late
    /\ IF script.left = {f} THEN Goto("receipt", {}) ELSE Goto("patch", script.left \ {f})
    /\ UNCHANGED <<recipe, cache, receipt, outputs, moved, counts>>

\* A file is not as the patch expects it.
PatchThrows ==
    /\ At("patch")
    /\ \E f \in script.left : (f \in Updated /\ dir[f] = Edited)
                              \/ (f \in Templates /\ dir[f] # Absent)
    /\ Throw
    /\ OnlyScript /\ UNCHANGED counts

\* Mutant: the recorded files are those of the archive.
WriteReceiptOfArchive ==
    /\ At("receipt")
    /\ receipt' = [is |-> "receipt", identity |-> recipe,
                   files |-> [f \in Changed |-> Upstream]]
    /\ Throw
    /\ UNCHANGED <<recipe, cache, dir, outputs, history, counts>>

\* The receipt comes last.  The identity is computed now, from the working tree.
WriteReceipt ==
    /\ At("receipt")
    /\ receipt' = [is |-> "receipt", identity |-> recipe,
                   files |-> [f \in Changed |-> dir[f]]]
    /\ Throw
    /\ UNCHANGED <<recipe, cache, dir, outputs, history, counts>>

\* Mutant: the receipt is begun before the files are changed.
InterruptLeavesReceipt ==
    /\ ~ At("idle") /\ Fault
    /\ Throw
    /\ receipt' = IF At("patch") THEN [is |-> "receipt", identity |-> recipe,
                                       files |-> [f \in Changed |-> dir[f]]] ELSE receipt
    /\ UNCHANGED <<recipe, cache, dir, outputs, history>>

\* A kill or an error, possibly in the middle of the receipt.
Interrupt ==
    /\ ~ At("idle") /\ Fault
    /\ Throw
    /\ receipt' = receipt \/ (At("receipt") /\ receipt' = [is |-> "torn"])
    /\ UNCHANGED <<recipe, cache, dir, outputs, history>>

-----------------------------------------------------------------------------
(* verifyPrepared, and the two scripts that ship what it has accepted. *)

\* Mutant: the identity is taken for the files.
VerifiedByIdentity == receipt.is = "receipt" /\ receipt.identity = recipe

\* It reads the files of the receipt, no others.
Verified ==
    /\ receipt.is = "receipt" /\ receipt.identity = recipe
    /\ \A f \in Changed : dir[f] = receipt.files[f]
    /\ dir[Service] = Absent

Ship(kind) ==
    /\ shipping.kind = "no" /\ Verified
    /\ shipping' = [kind |-> kind, by |-> recipe, edited |-> {}]
    /\ UNCHANGED <<recipe, cache, dir, receipt, script, apk, shipped, history, counts>>

Shipment(files) ==
    [is |-> shipping.kind, by |-> shipping.by, files |-> files,
     edited |-> late \cup shipping.edited, moved |-> moved]

ShipSource == Ship("source")

\* tar leaves the service configuration out.
TarSource ==
    /\ shipping.kind = "source"
    /\ shipped' = Shipment([dir EXCEPT ![Service] = Absent])
    /\ shipping' = NoShipping
    /\ UNCHANGED <<recipe, cache, dir, receipt, script, apk, history, counts>>

CollectApk == apk # None /\ Ship("apk")

\* The package that is there now.
CopyApk ==
    /\ shipping.kind = "apk"
    /\ shipped' = Shipment(apk.files)
    /\ shipping' = NoShipping
    /\ UNCHANGED <<recipe, cache, dir, receipt, script, apk, history, counts>>

-----------------------------------------------------------------------------
(* The developer.  He builds only in a directory with a receipt, and does not *)
(* delete a directory while a script works with it.                           *)

\* gradle, also while the directory is verified and its package collected.
Build ==
    /\ receipt.is = "receipt"
    /\ apk' = [is |-> "apk", files |-> dir]
    /\ UNCHANGED <<recipe, cache, dir, receipt, script, shipping, shipped, history, counts>>

Edit(f) ==
    /\ edits < MaxEdits /\ dir[f] # Edited
    /\ dir' = [dir EXCEPT ![f] = Edited] /\ edits' = edits + 1
    /\ late' = IF At("idle") THEN late ELSE late \cup {f}
    /\ shipping' = IF shipping.kind = "no" THEN shipping
                                           ELSE [shipping EXCEPT !.edited = @ \cup {f}]
    /\ UNCHANGED <<recipe, cache, receipt, script, apk, shipped, moved, checkouts, faults>>

\* An edit is taken back.
Restore(f) ==
    /\ dir[f] = Edited /\ receipt.is = "receipt" /\ f \in Changed
    /\ dir' = [dir EXCEPT ![f] = receipt.files[f]]
    /\ UNCHANGED <<recipe, cache, receipt, script, outputs, history, counts>>

Checkout(new) ==
    /\ checkouts < MaxCheckouts /\ new # recipe
    /\ recipe' = new /\ checkouts' = checkouts + 1
    /\ moved' = (moved \/ ~ At("idle"))
    /\ UNCHANGED <<cache, dir, receipt, script, outputs, late, edits, faults>>

\* The generated directory is disposable; the package in it goes with it.
DeleteDirectory ==
    /\ At("idle") /\ shipping.kind = "no" /\ dir # Empty
    /\ dir' = Empty /\ receipt' = None /\ apk' = None
    /\ late' = {}
    /\ UNCHANGED <<recipe, cache, script, shipping, shipped, moved, counts>>

DeleteArchive ==
    /\ At("idle") /\ cache = "torn"
    /\ cache' = "absent"
    /\ UNCHANGED <<recipe, dir, receipt, script, outputs, history, counts>>

-----------------------------------------------------------------------------
Prepare == CheckArchive \/ Fetch \/ PatchThrows \/ WriteReceipt
             \/ \E f \in Files : Extract(f) \/ Patch(f)

Next ==
    \/ Begin \/ Prepare \/ FetchTorn \/ Interrupt
    \/ ShipSource \/ TarSource \/ CollectApk \/ CopyApk
    \/ Build \/ DeleteDirectory \/ DeleteArchive
    \/ \E f \in Files : Edit(f) \/ Restore(f)
    \/ \E new \in Recipes : Checkout(new)

Spec == Init /\ [][Next]_vars

\* A script goes on.  The developer prepares again whenever he can, and deletes
\* what a script refuses.
Fairness ==
    /\ WF_vars(Prepare) /\ WF_vars(TarSource) /\ WF_vars(CopyApk)
    /\ SF_vars(Begin) /\ SF_vars(DeleteArchive)
    /\ SF_vars(~ Verified /\ DeleteDirectory)
FairSpec == Spec /\ Fairness

-----------------------------------------------------------------------------
(* Properties. *)

\* docs/android.md: "Preparation verifies the upstream archive".  A directory
\* with a receipt holds, file by file, what the recipe of the receipt makes of
\* the archive or what somebody wrote there, whatever preparations were
\* interrupted before; except when the working tree changed while the
\* preparation ran (moved).
ReceiptIsTrue ==
    receipt.is = "receipt" /\ ~ moved =>
        \A f \in Files : dir[f] \in {Result(receipt.identity)[f], Edited}

\* docs/android.md: it "refuses to overwrite ... a nonempty unrecognized
\* directory".  No script changes or removes a file that was put or edited there
\* while none ran: only the developer does.
EditsKept ==
    [][ \A f \in Files \ late : dir[f] = Edited =>
          \/ dir'[f] = Edited
          \/ At("idle") /\ (dir' = Empty \/ receipt # None) ]_vars

\* A source archive holds what the recipe that ships it makes of each file that
\* the recipe changes, although files were edited after the preparation; except
\* for files edited while the preparation ran, whose hash is in the receipt, and
\* for those edited between verifyPrepared and tar.  A package, which may be
\* built again while it is collected, holds what the recipe makes, or edits: no
\* check tells of files that were edited when it was built and restored since.
\* Neither is so when the working tree changed while the preparation ran.
ShippedIsPrepared ==
    /\ shipped.is = "source" /\ ~ shipped.moved =>
         \A f \in Changed \ shipped.edited : shipped.files[f] = Result(shipped.by)[f]
    /\ shipped.is = "apk" /\ ~ shipped.moved =>
         \A f \in Files : shipped.files[f] \in {Result(shipped.by)[f], Edited}

\* A developer who deletes what a script refuses gets a prepared directory again
\* and again, after interruptions, torn archives, edits and new recipes.
PreparationSucceeds == []<>Verified
=============================================================================
