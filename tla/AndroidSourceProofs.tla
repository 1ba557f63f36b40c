------------------------ MODULE AndroidSourceProofs ------------------------
(***************************************************************************)
(* Theorems about AndroidSource, for any files, recipes and bounds.  The   *)
(* invariant says what each step of a preparation finds in the directory,  *)
(* that there is no receipt while one runs, and that a receipt, a package  *)
(* and what is about to be shipped belong together.                        *)
(***************************************************************************)
EXTENDS AndroidSource, TLAPS

\* What a preparation finds of a file that nobody edits meanwhile.
Found(f) ==
    CASE script.step \in {"archive", "fetch"} -> dir[f] = Absent
      [] script.step = "extract" ->
           dir[f] = IF f \in Archive \ script.left THEN Upstream ELSE Absent
      [] script.step \in {"patch", "receipt"} ->
           IF f \in script.left
             THEN dir[f] = IF f \in Archive THEN Upstream ELSE Absent
             ELSE moved \/ dir[f] = Result(script.mine)[f]

ScriptSound ==
    ~ At("idle") =>
        /\ receipt = None
        /\ script.mine \in Recipes
        /\ script.mine = recipe \/ moved
        /\ At("extract") => script.left \subseteq Archive
        /\ At("patch") => script.left \subseteq Changed \cup {Service}
        /\ At("receipt") => script.left = {}
        /\ \A f \in Files : Found(f) \/ (f \in late /\ dir[f] = Edited)
        /\ \A f \in Files : dir[f] = Edited => f \in late

\* The hashes of a receipt are those of the recipe it names, or of files that
\* were edited before it was written.
ReceiptFiles ==
    receipt.is = "receipt" /\ ~ moved =>
        \A f \in Changed : \/ receipt.files[f] = Result(receipt.identity)[f]
                           \/ f \in late /\ receipt.files[f] = Edited

PackageSound ==
    apk # None =>
        /\ receipt.is = "receipt"
        /\ ~ moved => \A f \in Files : apk.files[f] \in {Result(receipt.identity)[f], Edited}

ShippingSound ==
    shipping.kind # "no" =>
        /\ receipt.is = "receipt" /\ receipt.identity = shipping.by
        /\ shipping.by \in Recipes
        /\ shipping.kind = "source" => \A f \in Changed \ shipping.edited : dir[f] = receipt.files[f]
        /\ shipping.kind = "apk" => apk # None

IInv == /\ TypeOK /\ ScriptSound /\ ReceiptIsTrue /\ ReceiptFiles
        /\ PackageSound /\ ShippingSound /\ ShippedIsPrepared

-----------------------------------------------------------------------------
(* Types. *)

LEMMA ContentFacts == /\ Recipes \subseteq Contents
                      /\ {Absent, Upstream, Edited} \subseteq Contents
                      /\ Absent \notin Recipes /\ Upstream \notin Recipes /\ Edited \notin Recipes
BY ContentsAssumption DEF Contents

LEMMA FileFacts == /\ Changed \subseteq Files /\ Archive \subseteq Files /\ Service \in Archive
                   /\ Service \notin Changed
                   /\ Changed = Updated \cup Added /\ Updated \subseteq Archive
                   /\ Added = Templates \cup {Icon} \cup Written \cup Copied
                   /\ Changed \cap Kept = {} /\ Kept \subseteq Archive
                   /\ Files \ Changed \subseteq Archive
BY FilesAssumption DEF Changed, Archive, Files, Added

\* Copies are made from files that are not copies.
LEMMA OriginFacts ==
    /\ \A f \in Copied : /\ CopyOf[f] \in Files /\ CopyOf[f] \notin Copied
                         /\ Origin(f) = CopyOf[f] /\ f \in Changed
    /\ \A f \in Files \ Copied : Origin(f) = f
    /\ Service \notin Copied /\ \A f \in Copied : CopyOf[f] # Service
<1>1. \A f \in Copied : CopyOf[f] \in Kept \cup Written
  BY FilesAssumption
<1>2. Copied \cap Kept = {} /\ Copied \cap Written = {} /\ Copied \subseteq Changed
  BY FilesAssumption, FileFacts
<1>3. Kept \subseteq Files /\ Written \subseteq Files
  BY FileFacts
<1> QED
  BY <1>1, <1>2, <1>3, FileFacts, FilesAssumption DEF Origin

LEMMA ResultFacts ==
    ASSUME NEW r
    PROVE  /\ \A f \in Changed \ Copied : Result(r)[f] = r
           /\ \A f \in Copied : Result(r)[f] = Result(r)[CopyOf[f]]
           /\ \A f \in Files \ (Changed \cup {Service}) : Result(r)[f] = Upstream
           /\ Result(r)[Service] = Absent
BY FileFacts, OriginFacts DEF Result

LEMMA ResultTyped ==
    ASSUME NEW r \in Recipes, NEW f \in Files
    PROVE  Result(r)[f] \in Contents /\ Result(r)[f] # Edited
BY ContentFacts, ContentsAssumption DEF Result

LEMMA CountsTyped ==
    ASSUME TypeOK, Fault
    PROVE  faults' \in 0..MaxFaults /\ UNCHANGED <<checkouts, edits>>
BY BoundsAssumption DEF TypeOK, Fault

LEMMA IdleTyped == Idle \in [step : {"idle", "archive", "fetch", "extract", "patch", "receipt"},
                             mine : Recipes \cup {Absent}, left : SUBSET Files]
BY DEF Idle

\* The next step of a preparation.
LEMMA GotoFields ==
    ASSUME TypeOK, NEW step \in {"archive", "fetch", "extract", "patch", "receipt"},
           NEW left \in SUBSET Files, Goto(step, left)
    PROVE  /\ script'.step = step /\ script'.left = left /\ script'.mine = script.mine
           /\ script' \in [step : {"idle", "archive", "fetch", "extract", "patch", "receipt"},
                           mine : Recipes \cup {Absent}, left : SUBSET Files]
BY DEF TypeOK, Goto

LEMMA InitTypeOK == Init => TypeOK
<1> SUFFICES ASSUME Init PROVE TypeOK
  OBVIOUS
<1>1. Empty \in [Files -> Contents]
  BY ContentFacts DEF Empty
<1>2. None \in Receipts /\ None \in Packages /\ None \in Shipments
  BY DEF Receipts, Packages, Shipments
<1>3. 0 \in 0..MaxCheckouts /\ 0 \in 0..MaxEdits /\ 0 \in 0..MaxFaults
  BY BoundsAssumption
<1> QED
  BY <1>1, <1>2, <1>3, IdleTyped DEF Init, TypeOK, NoShipping

LEMMA NextTypeOK ==
    ASSUME TypeOK, ScriptSound, ShippingSound, [Next]_vars PROVE TypeOK'
<1> USE DEF TypeOK, OnlyScript, outputs, history, counts, Throw
<1>1. CASE Begin
  BY <1>1 DEF Begin
<1>2. CASE CheckArchive
  <2>1. script' \in {Idle} \/ Goto("fetch", {}) \/ Goto("extract", Archive)
    BY <1>2 DEF CheckArchive
  <2> QED
    BY <1>2, <2>1, IdleTyped, GotoFields, FileFacts DEF CheckArchive
<1>3. CASE Fetch
  BY <1>3, GotoFields DEF Fetch
<1>4. CASE FetchTorn
  BY <1>4, CountsTyped, IdleTyped DEF FetchTorn
<1>5. ASSUME NEW f \in Files, Extract(f) PROVE TypeOK'
  <2>1. Goto("patch", Changed \cup {Service}) \/ Goto("extract", script.left \ {f})
    BY <1>5 DEF Extract
  <2>2. Changed \cup {Service} \subseteq Files /\ script.left \ {f} \subseteq Files
    BY FileFacts
  <2>3. dir' \in [Files -> Contents]
    BY <1>5, ContentFacts DEF Extract
  <2> QED
    BY <1>5, <2>1, <2>2, <2>3, GotoFields DEF Extract
<1>6. ASSUME NEW f \in Files, Patch(f) PROVE TypeOK'
  <2>1. Goto("receipt", {}) \/ Goto("patch", script.left \ {f})
    BY <1>6 DEF Patch
  <2>2. script.left \ {f} \subseteq Files /\ script.mine \in Recipes
    BY <1>6 DEF Patch, ScriptSound, At
  <2>3. dir' \in [Files -> Contents] /\ late' \subseteq Files
    BY <1>6, <2>2, ContentFacts, OriginFacts DEF Patch, Update, Add, Overwrite, CopyAsset
  <2> QED
    BY <1>6, <2>1, <2>2, <2>3, GotoFields DEF Patch
<1>7. CASE PatchThrows
  BY <1>7, IdleTyped DEF PatchThrows
<1>8. CASE WriteReceipt
  <2>1. receipt' \in Receipts
    <3>1. [f \in Changed |-> dir[f]] \in [Changed -> Contents]
      BY FileFacts
    <3> QED
      BY <1>8, <3>1 DEF WriteReceipt, Receipts
  <2> QED
    BY <1>8, <2>1, IdleTyped DEF WriteReceipt
<1>9. CASE Interrupt
  BY <1>9, CountsTyped, IdleTyped DEF Interrupt, Receipts
<1>10. CASE ShipSource \/ CollectApk
  BY <1>10 DEF ShipSource, CollectApk, Ship
<1>11. ASSUME NEW files \in [Files -> Contents], shipping.kind # "no",
              shipped' = Shipment(files), shipping' = NoShipping
       PROVE  shipped' \in Shipments /\ NoShipping.kind = "no"
  <2>1. shipping.by \in Recipes /\ shipping.kind \in {"source", "apk"}
    BY <1>11 DEF ShippingSound
  <2>2. late \cup shipping.edited \subseteq Files
    OBVIOUS
  <2> QED
    BY <1>11, <2>1, <2>2 DEF Shipments, Shipment, NoShipping
<1>12. CASE TarSource \/ CopyApk
  <2>1. [dir EXCEPT ![Service] = Absent] \in [Files -> Contents]
    BY ContentFacts
  <2>2. apk # None => apk.files \in [Files -> Contents]
    BY DEF Packages
  <2>3. shipped' \in Shipments
    BY <1>11, <1>12, <2>1, <2>2 DEF TarSource, CopyApk, ShippingSound
  <2> QED
    BY <1>12, <2>3 DEF TarSource, CopyApk, NoShipping
<1>13. CASE Build
  <2>1. apk' \in Packages
    BY <1>13 DEF Build, Packages
  <2> QED
    BY <1>13, <2>1 DEF Build
<1>14. CASE DeleteDirectory
  <2>1. Empty \in [Files -> Contents] /\ None \in Receipts /\ None \in Packages
    BY ContentFacts DEF Empty, Receipts, Packages
  <2> QED
    BY <1>14, <2>1 DEF DeleteDirectory
<1>15. CASE DeleteArchive
  BY <1>15 DEF DeleteArchive
<1>16. ASSUME NEW f \in Files, Edit(f) PROVE TypeOK'
  <2>1. edits' \in 0..MaxEdits
    BY <1>16, BoundsAssumption DEF Edit
  <2>2. dir' \in [Files -> Contents]
    BY <1>16, ContentFacts DEF Edit
  <2>3. late' \subseteq Files
    BY <1>16 DEF Edit
  <2>4. shipping' \in [kind : {"no", "source", "apk"}, by : Recipes \cup {Absent},
                       edited : SUBSET Files]
    BY <1>16 DEF Edit
  <2> QED
    BY <1>16, <2>1, <2>2, <2>3, <2>4 DEF Edit
<1>17. ASSUME NEW f \in Files, Restore(f) PROVE TypeOK'
  <2>1. receipt.files[f] \in Contents
    BY <1>17 DEF Restore, Receipts, None
  <2> QED
    BY <1>17, <2>1 DEF Restore
<1>18. ASSUME NEW new \in Recipes, Checkout(new) PROVE TypeOK'
  <2>1. checkouts' \in 0..MaxCheckouts
    BY <1>18, BoundsAssumption DEF Checkout
  <2>2. moved' \in BOOLEAN
    BY <1>18 DEF Checkout
  <2> QED
    BY <1>18, <2>1, <2>2 DEF Checkout
<1>19. CASE UNCHANGED vars
  BY <1>19 DEF vars
<1> QED
  BY <1>1, <1>2, <1>3, <1>4, <1>5, <1>6, <1>7, <1>8, <1>9, <1>10, <1>11, <1>12, <1>13, <1>14,
     <1>15, <1>16, <1>17, <1>18, <1>19 DEF Next, Prepare

-----------------------------------------------------------------------------
(* The preparation. *)

\* The steps that read or change nothing that a preparation works with.
LEMMA ScriptFrame ==
    ASSUME ScriptSound, UNCHANGED <<recipe, dir, receipt, script, history>>
    PROVE  ScriptSound'
BY DEF ScriptSound, Found, At, Result, history

LEMMA IdleSound == ASSUME script'.step = "idle" PROVE ScriptSound'
BY DEF ScriptSound, At

\* A receipt means that no preparation runs.
LEMMA ReceiptIdle == ASSUME ScriptSound, receipt # None PROVE At("idle")
BY DEF ScriptSound

LEMMA NextScript ==
    ASSUME IInv, [Next]_vars PROVE ScriptSound'
<1> USE DEF IInv, TypeOK, At
<1>1. CASE Begin
  <2>1. /\ script'.step = "archive" /\ script'.mine = recipe /\ receipt' = None
        /\ recipe' = recipe /\ late' = {} /\ dir' = Empty
    BY <1>1 DEF Begin
  <2> QED
    BY <2>1, ContentsAssumption DEF ScriptSound, Found, Empty
<1>2. CASE CheckArchive \/ Fetch
  <2>1. UNCHANGED <<recipe, dir, receipt, history>> /\ script.step \in {"archive", "fetch"}
    BY <1>2 DEF CheckArchive, Fetch, OnlyScript
  <2>2. script' = Idle \/ Goto("fetch", {}) \/ Goto("archive", {}) \/ Goto("extract", Archive)
    BY <1>2 DEF CheckArchive, Fetch, Throw
  <2>3. CASE script' = Idle
    BY <2>3, IdleSound DEF Idle
  <2>4. CASE Goto("fetch", {}) \/ Goto("archive", {})
    <3>1. script'.step \in {"archive", "fetch"} /\ script'.mine = script.mine
      BY <2>4, GotoFields
    <3> QED
      BY <2>1, <3>1 DEF ScriptSound, Found, history
  <2>5. CASE Goto("extract", Archive)
    <3>1. script'.step = "extract" /\ script'.left = Archive /\ script'.mine = script.mine
      BY <2>5, GotoFields, FileFacts
    <3> QED
      BY <2>1, <3>1 DEF ScriptSound, Found, history
  <2> QED
    BY <2>2, <2>3, <2>4, <2>5
<1>3. ASSUME NEW f \in Files, Extract(f) PROVE ScriptSound'
  <2>1. /\ UNCHANGED <<recipe, receipt, history>> /\ script.step = "extract" /\ f \in script.left
        /\ script.left \subseteq Archive
    BY <1>3 DEF Extract, ScriptSound
  <2>2. \A g \in Files : dir'[g] = IF g = f THEN Upstream ELSE dir[g]
    BY <1>3 DEF Extract
  <2>3. \A g \in Files :
          \/ dir'[g] = IF g \in Archive \ (script.left \ {f}) THEN Upstream ELSE Absent
          \/ g \in late /\ dir'[g] = Edited
    BY <2>1, <2>2 DEF ScriptSound, Found
  <2>4. \A g \in Files : dir'[g] = Edited => g \in late
    BY <2>1, <2>2, ContentsAssumption DEF ScriptSound
  <2>5. CASE script.left = {f}
    <3>1. /\ script'.step = "patch" /\ script'.left = Changed \cup {Service}
          /\ script'.mine = script.mine
      BY <1>3, <2>5, GotoFields, FileFacts DEF Extract
    <3>2. \A g \in Files : Found(g)' \/ (g \in late /\ dir'[g] = Edited)
      <4>1. \A g \in Files \ script'.left : Result(script'.mine)[g] = Upstream /\ g \in Archive
        BY <3>1, FileFacts, ResultFacts
      <4> QED
        BY <2>1, <2>3, <2>5, <3>1, <4>1 DEF Found, history
    <3> QED
      BY <2>1, <2>4, <3>1, <3>2 DEF ScriptSound, history
  <2>6. CASE script.left # {f}
    <3>1. /\ script'.step = "extract" /\ script'.left = script.left \ {f}
          /\ script'.mine = script.mine
      BY <1>3, <2>6, GotoFields DEF Extract
    <3> QED
      BY <2>1, <2>3, <2>4, <3>1 DEF ScriptSound, Found, history
  <2> QED
    BY <2>5, <2>6
<1>4. ASSUME NEW f \in Files, Patch(f) PROVE ScriptSound'
  <2>1. /\ UNCHANGED <<recipe, receipt, moved>> /\ script.step = "patch" /\ f \in script.left
        /\ script.left \subseteq Changed \cup {Service} /\ script.mine \in Recipes
        /\ (script.mine = recipe \/ moved)
    BY <1>4 DEF Patch, ScriptSound
  <2>2. \A g \in Files \ {f} : dir'[g] = dir[g]
    BY <1>4 DEF Patch, Update, Add, Overwrite, CopyAsset
  <2>3. late \subseteq late' /\ \A g \in late' \ late : g = f
    BY <1>4 DEF Patch, CopyAsset
  <2>4. /\ dir'[f] = Edited => f \in late'
        /\ \/ moved \/ dir'[f] = Result(script.mine)[f]
           \/ f \in late' /\ dir'[f] = Edited
    <3>1. CASE Update(f)
      <4>1. f \in Changed \ Copied /\ f \in Archive
        BY <3>1, FileFacts, FilesAssumption DEF Update
      <4>2. dir[f] = Upstream \/ (f \in late /\ dir[f] = Edited)
        BY <2>1, <4>1 DEF ScriptSound, Found
      <4>3. /\ dir[f] = Upstream => dir'[f] = script.mine
            /\ dir[f] = Edited => dir'[f] = Edited
        BY <3>1, ContentsAssumption DEF Update
      <4> QED
        BY <2>1, <2>3, <4>1, <4>2, <4>3, ResultFacts, ContentFacts
    <3>2. CASE Add(f) \/ Overwrite(f)
      <4>1. f \in Changed \ Copied /\ dir'[f] \in {recipe, script.mine}
        BY <3>2, FileFacts, FilesAssumption DEF Add, Overwrite
      <4> QED
        BY <2>1, <4>1, ResultFacts, ContentFacts
    <3>3. CASE CopyAsset(f)
      <4> DEFINE o == CopyOf[f]
      <4>1. /\ f \in Copied /\ o \in Files /\ o \notin Copied /\ o # Service
            /\ script.left \subseteq Copied \cup {Service}
            /\ dir'[f] = dir[o] /\ (dir[o] = Edited => f \in late')
        BY <3>3, OriginFacts DEF CopyAsset
      <4>2. o \notin script.left
        BY <4>1
      <4>3. moved \/ dir[o] = Result(script.mine)[o] \/ dir[o] = Edited
        BY <2>1, <4>1, <4>2 DEF ScriptSound, Found
      <4>4. Result(script.mine)[f] = Result(script.mine)[o]
        BY <4>1, ResultFacts
      <4> QED
        BY <4>1, <4>3, <4>4
    <3>4. CASE f = Service /\ dir' = [dir EXCEPT ![f] = Absent]
      BY <3>4, ResultFacts, ContentsAssumption
    <3> QED
      BY <1>4, <3>1, <3>2, <3>3, <3>4 DEF Patch
  <2>5. /\ script'.left = script.left \ {f} /\ script'.mine = script.mine
        /\ script'.step = "patch" \/ (script'.step = "receipt" /\ script'.left = {})
    BY <1>4, GotoFields DEF Patch
  <2>6. ASSUME NEW g \in Files
        PROVE  /\ Found(g)' \/ (g \in late' /\ dir'[g] = Edited)
               /\ dir'[g] = Edited => g \in late'
    <3>1. CASE g = f
      BY <2>1, <2>4, <2>5, <3>1 DEF Found, Result
    <3>2. CASE g # f
      <4>1. /\ Found(g) \/ (g \in late /\ dir[g] = Edited)
            /\ dir[g] = Edited => g \in late
        BY <2>1 DEF ScriptSound
      <4>2. dir'[g] = dir[g] /\ (g \in late => g \in late') /\ (g \in script'.left <=> g \in script.left)
        BY <2>2, <2>3, <2>5, <3>2
      <4>3. Found(g) => Found(g)'
        BY <2>1, <2>5, <4>2 DEF Found, Result
      <4> QED
        BY <4>1, <4>2, <4>3
    <3> QED
      BY <3>1, <3>2
  <2> QED
    BY <2>1, <2>5, <2>6 DEF ScriptSound
<1>5. CASE PatchThrows \/ WriteReceipt \/ FetchTorn \/ Interrupt
  BY <1>5, IdleSound DEF PatchThrows, WriteReceipt, FetchTorn, Interrupt, Throw, Idle
<1>6. CASE \/ ShipSource \/ TarSource \/ CollectApk \/ CopyApk \/ Build \/ DeleteArchive
           \/ UNCHANGED vars
  <2>1. UNCHANGED <<recipe, dir, receipt, script, history>>
    BY <1>6 DEF ShipSource, TarSource, CollectApk, CopyApk, Ship, Build, DeleteArchive, outputs, vars
  <2> QED
    BY <2>1, ScriptFrame
<1>7. CASE DeleteDirectory
  <2>1. script'.step = "idle"
    BY <1>7 DEF DeleteDirectory
  <2> QED
    BY <2>1, IdleSound
<1>8. ASSUME NEW f \in Files, Edit(f) PROVE ScriptSound'
  <2>1. CASE At("idle")
    BY <1>8, <2>1, IdleSound DEF Edit
  <2>2. CASE ~ At("idle")
    <3>1. /\ UNCHANGED <<recipe, receipt, script, moved>>
          /\ late' = late \cup {f} /\ dir'[f] = Edited
          /\ \A g \in Files \ {f} : dir'[g] = dir[g]
      BY <1>8, <2>2 DEF Edit
    <3>2. ASSUME NEW g \in Files
          PROVE  /\ Found(g)' \/ (g \in late' /\ dir'[g] = Edited)
                 /\ dir'[g] = Edited => g \in late'
      <4>1. CASE g = f
        BY <3>1, <4>1
      <4>2. CASE g # f
        <5>1. /\ Found(g) \/ (g \in late /\ dir[g] = Edited)
              /\ dir[g] = Edited => g \in late
          BY <2>2 DEF ScriptSound
        <5>2. Found(g) => Found(g)'
          BY <3>1, <4>2 DEF Found, Result
        <5> QED
          BY <3>1, <4>2, <5>1, <5>2
      <4> QED
        BY <4>1, <4>2
    <3> QED
      BY <2>2, <3>1, <3>2 DEF ScriptSound
  <2> QED
    BY <2>1, <2>2
<1>9. ASSUME NEW f \in Files, Restore(f) PROVE ScriptSound'
  <2>1. At("idle") /\ script' = script
    BY <1>9, ReceiptIdle DEF Restore, None
  <2> QED
    BY <2>1, IdleSound
<1>10. ASSUME NEW new \in Recipes, Checkout(new) PROVE ScriptSound'
  <2>1. CASE At("idle")
    BY <1>10, <2>1, IdleSound DEF Checkout
  <2>2. CASE ~ At("idle")
    <3>1. UNCHANGED <<dir, receipt, script, late>> /\ moved' = TRUE
      BY <1>10, <2>2 DEF Checkout
    <3> QED
      BY <2>2, <3>1 DEF ScriptSound, Found, Result
  <2> QED
    BY <2>1, <2>2
<1> QED
  BY <1>1, <1>2, <1>3, <1>4, <1>5, <1>6, <1>7, <1>8, <1>9, <1>10 DEF Next, Prepare

-----------------------------------------------------------------------------
(* The receipt. *)

\* The steps that leave the receipt and the directory alone.
LEMMA ReceiptFrame ==
    ASSUME ReceiptIsTrue, ReceiptFiles, UNCHANGED <<dir, receipt, history>>
    PROVE  ReceiptIsTrue' /\ ReceiptFiles'
BY DEF ReceiptIsTrue, ReceiptFiles, Result, history

LEMMA NoReceipt ==
    ASSUME receipt'.is # "receipt" PROVE ReceiptIsTrue' /\ ReceiptFiles'
BY DEF ReceiptIsTrue, ReceiptFiles

LEMMA NextReceipt ==
    ASSUME IInv, [Next]_vars PROVE ReceiptIsTrue' /\ ReceiptFiles'
<1> USE DEF IInv, TypeOK
<1>1. CASE Begin
  <2>1. receipt'.is # "receipt"
    BY <1>1 DEF Begin, None
  <2> QED
    BY <2>1, NoReceipt
<1>2. ASSUME NEW f \in Files, Extract(f) \/ Patch(f) PROVE ReceiptIsTrue' /\ ReceiptFiles'
  <2>1. receipt'.is # "receipt"
    BY <1>2 DEF Extract, Patch, At, ScriptSound, None
  <2> QED
    BY <2>1, NoReceipt
<1>3. CASE WriteReceipt
  <2>1. /\ UNCHANGED <<dir, history>> /\ ~ At("idle") /\ script.step = "receipt"
        /\ receipt'.identity = recipe /\ \A f \in Changed : receipt'.files[f] = dir[f]
    BY <1>3 DEF WriteReceipt, At
  <2>2. CASE moved
    BY <2>1, <2>2 DEF ReceiptIsTrue, ReceiptFiles, history
  <2>3. CASE ~ moved
    <3>1. script.mine = recipe /\ script.left = {}
      BY <2>1, <2>3 DEF ScriptSound, At
    <3>2. \A f \in Files : dir[f] = Result(recipe)[f] \/ (f \in late /\ dir[f] = Edited)
      BY <2>1, <2>3, <3>1 DEF ScriptSound, Found
    <3> QED
      BY <2>1, <3>2, FileFacts DEF ReceiptIsTrue, ReceiptFiles, history, Result
  <2> QED
    BY <2>2, <2>3
<1>4. CASE Interrupt
  <2>1. CASE receipt' = receipt
    BY <1>4, <2>1, ReceiptFrame DEF Interrupt
  <2>2. CASE receipt' = [is |-> "torn"]
    BY <2>2, NoReceipt
  <2> QED
    BY <1>4, <2>1, <2>2 DEF Interrupt
<1>5. CASE \/ CheckArchive \/ Fetch \/ FetchTorn \/ PatchThrows \/ ShipSource \/ TarSource
           \/ CollectApk \/ CopyApk \/ Build \/ DeleteArchive \/ UNCHANGED vars
  <2>1. UNCHANGED <<dir, receipt, history>>
    BY <1>5 DEF CheckArchive, Fetch, FetchTorn, PatchThrows, ShipSource, TarSource, CollectApk,
                CopyApk, Ship, Build, DeleteArchive, OnlyScript, outputs, vars
  <2> QED
    BY <2>1, ReceiptFrame
<1>6. CASE DeleteDirectory
  <2>1. receipt'.is # "receipt"
    BY <1>6 DEF DeleteDirectory, None
  <2> QED
    BY <2>1, NoReceipt
<1>7. ASSUME NEW f \in Files, Edit(f) PROVE ReceiptIsTrue' /\ ReceiptFiles'
  <2>1. /\ UNCHANGED <<receipt, moved>> /\ late \subseteq late' /\ dir'[f] = Edited
        /\ \A g \in Files \ {f} : dir'[g] = dir[g]
    BY <1>7 DEF Edit
  <2> QED
    BY <2>1 DEF ReceiptIsTrue, ReceiptFiles, Result
<1>8. ASSUME NEW f \in Files, Restore(f) PROVE ReceiptIsTrue' /\ ReceiptFiles'
  <2>1. /\ UNCHANGED <<receipt, history>> /\ receipt.is = "receipt" /\ f \in Changed
        /\ \A g \in Files : dir'[g] = IF g = f THEN receipt.files[f] ELSE dir[g]
    BY <1>8 DEF Restore
  <2>2. ReceiptFiles'
    BY <2>1 DEF ReceiptFiles, history
  <2>3. ~ moved => dir'[f] \in {Result(receipt.identity)[f], Edited}
    BY <2>1 DEF ReceiptFiles, Restore
  <2> QED
    BY <2>1, <2>2, <2>3 DEF ReceiptIsTrue, history, Result
<1>9. ASSUME NEW new \in Recipes, Checkout(new) PROVE ReceiptIsTrue' /\ ReceiptFiles'
  <2>1. UNCHANGED <<dir, receipt, late>> /\ (moved => moved')
    BY <1>9 DEF Checkout
  <2> QED
    BY <2>1 DEF ReceiptIsTrue, ReceiptFiles, Result
<1> QED
  BY <1>1, <1>2, <1>3, <1>4, <1>5, <1>6, <1>7, <1>8, <1>9 DEF Next, Prepare

-----------------------------------------------------------------------------
(* The package and what is shipped. *)

LEMMA NextOutputs ==
    ASSUME IInv, [Next]_vars PROVE PackageSound' /\ ShippingSound' /\ ShippedIsPrepared'
<1> USE DEF IInv, TypeOK
<1> DEFINE Goal == PackageSound' /\ ShippingSound' /\ ShippedIsPrepared'
\* A preparation runs only while there is no package and nothing is shipped.
<1>1. CASE \/ Begin \/ CheckArchive \/ Fetch \/ FetchTorn \/ PatchThrows \/ WriteReceipt \/ Interrupt
           \/ (\E f \in Files : Extract(f) \/ Patch(f))
  <2>1. UNCHANGED outputs /\ receipt.is # "receipt"
    <3>1. UNCHANGED outputs
      BY <1>1 DEF Begin, CheckArchive, Fetch, FetchTorn, PatchThrows, WriteReceipt, Interrupt,
                  Extract, Patch, OnlyScript
    <3>2. receipt = None \/ ~ At("idle")
      BY <1>1 DEF Begin, CheckArchive, Fetch, FetchTorn, PatchThrows, WriteReceipt, Interrupt,
                  Extract, Patch, At
    <3> QED
      BY <3>1, <3>2 DEF ScriptSound, None
  <2>2. apk = None /\ shipping.kind = "no"
    BY <2>1 DEF PackageSound, ShippingSound
  <2> QED
    BY <2>1, <2>2 DEF PackageSound, ShippingSound, ShippedIsPrepared, outputs, Result
<1>2. CASE ShipSource \/ CollectApk
  <2>1. /\ UNCHANGED <<dir, receipt, apk, shipped, history>> /\ Verified
        /\ shipping'.by = recipe /\ (shipping'.kind = "apk" => apk # None)
    BY <1>2 DEF ShipSource, CollectApk, Ship
  <2> QED
    BY <2>1 DEF PackageSound, ShippingSound, ShippedIsPrepared, Verified, Result, history
<1>3. CASE TarSource
  <2>1. /\ UNCHANGED <<receipt, apk, moved>> /\ shipping'.kind = "no" /\ shipping.kind = "source"
        /\ shipped' = Shipment([dir EXCEPT ![Service] = Absent])
    BY <1>3 DEF TarSource, NoShipping, history
  <2>2. PackageSound' /\ ShippingSound'
    BY <2>1 DEF PackageSound, ShippingSound, Result
  <2>3. /\ shipped'.is = "source" /\ shipped'.by = shipping.by
        /\ shipped'.files = [dir EXCEPT ![Service] = Absent]
        /\ shipped'.edited = late \cup shipping.edited /\ shipped'.moved = moved
    BY <2>1 DEF Shipment
  <2>4. ASSUME ~ moved, NEW f \in Changed \ (late \cup shipping.edited)
        PROVE  shipped'.files[f] = Result(shipping.by)[f]
    <3>1. dir[f] = receipt.files[f] /\ receipt.identity = shipping.by /\ receipt.is = "receipt"
      BY <2>1, <2>4 DEF ShippingSound
    <3>2. receipt.files[f] = Result(receipt.identity)[f]
      BY <2>4, <3>1 DEF ReceiptFiles
    <3>3. shipped'.files[f] = dir[f]
      BY <2>3, <2>4, FileFacts
    <3> QED
      BY <3>1, <3>2, <3>3
  <2> QED
    BY <2>2, <2>3, <2>4 DEF ShippedIsPrepared, Result
<1>5. CASE CopyApk
  <2>1. /\ UNCHANGED <<receipt, apk, moved>> /\ shipping'.kind = "no" /\ shipping.kind = "apk"
        /\ shipped' = Shipment(apk.files)
    BY <1>5 DEF CopyApk, NoShipping, history
  <2>2. PackageSound' /\ ShippingSound'
    BY <2>1 DEF PackageSound, ShippingSound, Result
  <2>3. shipped'.is = "apk" /\ shipped'.by = shipping.by /\ shipped'.files = apk.files
        /\ shipped'.moved = moved
    BY <2>1 DEF Shipment
  <2>4. ~ moved => \A f \in Files : apk.files[f] \in {Result(shipping.by)[f], Edited}
    BY <2>1 DEF ShippingSound, PackageSound
  <2> QED
    BY <2>2, <2>3, <2>4 DEF ShippedIsPrepared, Result
<1>6. CASE Build
  <2>1. /\ UNCHANGED <<dir, receipt, shipping, shipped, history>> /\ receipt.is = "receipt"
        /\ apk' = [is |-> "apk", files |-> dir] /\ apk'.files = dir
    BY <1>6 DEF Build
  <2>2. apk' # None
    BY <2>1 DEF None
  <2>3. PackageSound'
    BY <2>1 DEF PackageSound, ReceiptIsTrue, Result, history
  <2> QED
    BY <2>1, <2>2, <2>3 DEF ShippingSound, ShippedIsPrepared, Result, history
<1>7. CASE DeleteDirectory
  <2>1. UNCHANGED <<shipping, shipped>> /\ shipping.kind = "no" /\ apk' = None
    BY <1>7 DEF DeleteDirectory
  <2> QED
    BY <2>1 DEF PackageSound, ShippingSound, ShippedIsPrepared, Result
<1>8. ASSUME NEW f \in Files, Edit(f) PROVE Goal
  <2>1. /\ UNCHANGED <<receipt, apk, shipped, moved>>
        /\ shipping'.kind = shipping.kind /\ shipping'.by = shipping.by
        /\ shipping.kind # "no" => shipping'.edited = shipping.edited \cup {f}
        /\ \A g \in Files \ {f} : dir'[g] = dir[g]
    BY <1>8 DEF Edit
  <2>2. PackageSound' /\ ShippedIsPrepared'
    BY <2>1 DEF PackageSound, ShippedIsPrepared, Result
  <2>3. ShippingSound'
    BY <2>1, FileFacts DEF ShippingSound
  <2> QED
    BY <2>2, <2>3
<1>9. ASSUME NEW f \in Files, Restore(f) PROVE Goal
  <2>1. /\ UNCHANGED <<receipt, outputs, history>> /\ f \in Changed
        /\ \A g \in Files : dir'[g] = IF g = f THEN receipt.files[f] ELSE dir[g]
    BY <1>9 DEF Restore
  <2>2. PackageSound' /\ ShippedIsPrepared'
    BY <2>1 DEF PackageSound, ShippedIsPrepared, outputs, Result, history
  <2>3. ShippingSound'
    BY <2>1, FileFacts DEF ShippingSound, outputs, history
  <2> QED
    BY <2>2, <2>3
<1>10. CASE (\E new \in Recipes : Checkout(new)) \/ DeleteArchive \/ UNCHANGED vars
  <2>1. UNCHANGED <<dir, receipt, outputs, late>> /\ (moved => moved')
    BY <1>10 DEF Checkout, DeleteArchive, history, vars
  <2> QED
    BY <2>1 DEF PackageSound, ShippingSound, ShippedIsPrepared, outputs, Result
<1> QED
  BY <1>1, <1>2, <1>3, <1>5, <1>6, <1>7, <1>8, <1>9, <1>10 DEF Next, Prepare

-----------------------------------------------------------------------------
(* Theorems. *)

LEMMA InitIInv == Init => IInv
<1> SUFFICES ASSUME Init PROVE IInv
  OBVIOUS
<1>1. ScriptSound /\ ReceiptIsTrue /\ ReceiptFiles
  BY DEF Init, ScriptSound, ReceiptIsTrue, ReceiptFiles, At, Idle, None
<1>2. PackageSound /\ ShippingSound /\ ShippedIsPrepared
  BY DEF Init, PackageSound, ShippingSound, ShippedIsPrepared, NoShipping, None
<1> QED
  BY <1>1, <1>2, InitTypeOK DEF IInv

LEMMA Invariant == Spec => []IInv
<1>1. IInv /\ [Next]_vars => IInv'
  <2> SUFFICES ASSUME IInv, [Next]_vars PROVE IInv'
    OBVIOUS
  <2>1. TypeOK'
    BY NextTypeOK DEF IInv
  <2> QED
    BY <2>1, NextScript, NextReceipt, NextOutputs DEF IInv
<1> QED
  BY <1>1, InitIInv, PTL DEF Spec

\* Every variable keeps its type.
THEOREM TypeCorrect == Spec => []TypeOK
<1>1. IInv => TypeOK
  BY DEF IInv
<1> QED
  BY <1>1, Invariant, PTL

\* In a directory with a receipt each file is what the recipe of the receipt makes
\* or somebody's edit, for any files and any history of interrupted preparations.
THEOREM ReceiptTellsTruth == Spec => []ReceiptIsTrue
<1>1. IInv => ReceiptIsTrue
  BY DEF IInv
<1> QED
  BY <1>1, Invariant, PTL

\* What is shipped was made by the recipe of the working tree that shipped it:
\* the changed files of a source archive but for those edited while a script
\* worked with them, and every file of a package but for edits.
THEOREM ShipsWhatItPrepared == Spec => []ShippedIsPrepared
<1>1. IInv => ShippedIsPrepared
  BY DEF IInv
<1> QED
  BY <1>1, Invariant, PTL

\* No script destroys an edit: while one runs, the only edited files are those
\* edited meanwhile, and without a receipt it does not begin in a directory that
\* is not empty.
THEOREM EditsAreKept == Spec => EditsKept
<1>1. IInv /\ [Next]_vars =>
        [\A f \in Files \ late : dir[f] = Edited =>
           \/ dir'[f] = Edited
           \/ At("idle") /\ (dir' = Empty \/ receipt # None)]_vars
  <2> SUFFICES ASSUME IInv, [Next]_vars, NEW f \in Files \ late, dir[f] = Edited, dir'[f] # Edited
               PROVE  At("idle") /\ (dir' = Empty \/ receipt # None)
    BY DEF vars
  <2> USE DEF IInv, TypeOK
  <2>1. ASSUME ~ At("idle") PROVE FALSE
    BY <2>1 DEF ScriptSound
  <2>2. CASE DeleteDirectory
    BY <2>1, <2>2 DEF DeleteDirectory
  <2>3. ASSUME NEW g \in Files, Restore(g) PROVE receipt # None
    BY <2>3 DEF Restore, None
  <2>4. ASSUME NEW g \in Files, Edit(g) PROVE FALSE
    BY <2>4 DEF Edit
  <2>5. CASE \/ Begin \/ CheckArchive \/ Fetch \/ FetchTorn \/ PatchThrows \/ WriteReceipt
             \/ Interrupt \/ (\E g \in Files : Extract(g) \/ Patch(g)) \/ ShipSource \/ TarSource
             \/ CollectApk \/ CopyApk \/ Build \/ DeleteArchive
             \/ (\E new \in Recipes : Checkout(new)) \/ UNCHANGED vars
    <3>1. dir' = dir
      BY <2>1, <2>5 DEF Begin, CheckArchive, Fetch, FetchTorn, PatchThrows, WriteReceipt, Interrupt,
               Extract, Patch, At, ShipSource, TarSource, CollectApk, CopyApk, Ship, Build, DeleteArchive,
               Checkout, OnlyScript, vars
    <3> QED
      BY <3>1
  <2> QED
    BY <2>1, <2>2, <2>3, <2>4, <2>5 DEF Next, Prepare
<1> QED
  BY <1>1, Invariant, PTL DEF Spec, EditsKept
=============================================================================
