------------------------- MODULE RuntimeSetupProofs -------------------------
(***************************************************************************)
(* Theorems about RuntimeSetup, for any archives, bounds and files.  What  *)
(* makes the safety properties inductive: a marker of an extraction is     *)
(* true, and what a running copy has done so far is there.                 *)
(***************************************************************************)
EXTENDS RuntimeSetup, TLAPS

\* .bihon-verified names whole directories.
MarkersTrue == \A a \in verified : Whole(tree[a], a)

\* A running preparation: what it has verified, extracted and copied.
ScriptSound ==
    ~ At("idle") =>
        /\ ~ ready
        /\ script.asset \in {script.pin.server, script.pin.webview}
        /\ script.full \/ script.asset = script.pin.webview
        /\ script.full /\ script.asset = script.pin.webview => script.pin.server \in verified
        /\ At("unpack") => /\ cache[script.asset] = "good" /\ script.asset \notin verified
                           /\ script.left \subseteq PartsOf[script.asset]
                           /\ \A p \in PartsOf[script.asset] \ script.left :
                                tree[script.asset][p] = script.asset
        /\ At("copy") => /\ script.asset = script.pin.webview
                         /\ script.asset \in verified
                         /\ script.left \subseteq PartsOf[script.asset]
                         /\ \A p \in PartsOf[script.asset] \ script.left :
                              kcef[script.pin.server][p] = script.asset

\* The installed application and its data.
BundleSound == bundle.release # Nothing => Whole(bundle.files, bundle.release) \/ mixed
CefSound    == cefRelease # Nothing => Whole(cef, cefRelease) \/ torn \/ mixed
AppSound ==
    /\ app.step = "copy" => /\ bundle.release # Nothing
                            /\ torn \/ cefRelease = Nothing
                            /\ \A p \in Shipped \ app.left : cef[p] = bundle.files[p]
    /\ app.step = "up" => bundle.release # Nothing /\ cefRelease = bundle.release

PreparationInv == TypeOK /\ MarkersTrue /\ ScriptSound
ReleaseInv     == PreparationInv /\ ReleaseMeansWhole
ApplicationInv == TypeOK /\ BundleSound /\ CefSound /\ AppSound
IInv           == ReleaseInv /\ ReadyIsWhole /\ ApplicationInv

-----------------------------------------------------------------------------
(* Types. *)

LEMMA AssetFacts == /\ Servers \subseteq Assets /\ Webviews \subseteq Assets
                    /\ Assets \subseteq Contents /\ Nothing \in Contents /\ Bad \in Contents
                    /\ Nothing \notin Assets
BY AssetsAssumption DEF Assets, Contents

\* A preparation under way is a record with all its fields.
LEMMA Working ==
    ASSUME script \in Scripts, ~ At("idle")
    PROVE  /\ script \in Running
           /\ script.step \in {"verify", "fetch", "unpack", "copy"}
           /\ script.pin \in Pins
           /\ script.pin.server \in Servers /\ script.pin.webview \in Webviews
           /\ script.asset \in Assets /\ script.full \in BOOLEAN
           /\ script.attempt \in 1..MaxAttempts /\ script.left \subseteq Parts
<1>1. script \in Running
  BY DEF Scripts, Idle, At
<1> QED
  BY <1>1 DEF Running, Pins

\* Stage and Use are what the steps of a preparation lead to.
LEMMA StageTyped ==
    ASSUME script \in Scripts, ~ At("idle"), NEW asset \in Assets
    PROVE  /\ Stage(asset) \in Running
           /\ Stage(asset).pin = script.pin /\ Stage(asset).full = script.full
           /\ asset = script.pin.webview =>
                Stage(asset).step = "copy" /\ Stage(asset).left = PartsOf[asset] /\ Stage(asset).asset = script.asset
           /\ asset # script.pin.webview =>
                Stage(asset).step = "verify" /\ Stage(asset).asset = script.pin.webview
<1>1. 1 \in 1..MaxAttempts
  BY BoundsAssumption
<1>2. script \in Running /\ script.pin.webview \in Assets
  BY Working, AssetFacts
<1>3. CASE asset = script.pin.webview
  BY <1>2, <1>3, PartsAssumption DEF Stage, Running
<1>4. CASE asset # script.pin.webview
  BY <1>1, <1>2, <1>4 DEF Stage, Running
<1> QED
  BY <1>3, <1>4

LEMMA UseTyped ==
    ASSUME script \in Scripts, ~ At("idle"), NEW asset \in Assets, Use(asset)
    PROVE  script' \in Running
<1>1. CASE asset \in verified
  BY <1>1, StageTyped DEF Use
<1>2. CASE asset \notin verified
  BY <1>2, Working, PartsAssumption DEF Use, Running
<1> QED
  BY <1>1, <1>2

LEMMA StartTyped ==
    ASSUME pin \in Pins, NEW full \in BOOLEAN, Start(full)
    PROVE  script' \in Scripts
<1>1. 1 \in 1..MaxAttempts
  BY BoundsAssumption
<1>2. pin.server \in Assets /\ pin.webview \in Assets
  BY AssetFacts DEF Pins
<1> QED
  BY <1>1, <1>2 DEF Start, Scripts, Running

\* Every action of a preparation.
LEMMA ScriptTyped ==
    ASSUME TypeOK,
           \/ Bootstrap \/ PrepareWebview \/ Verify \/ Fetch \/ FetchFails
           \/ (\E p \in Parts : Unpack(p) \/ Copy(p)) \/ Mark \/ Publish \/ Interrupt
    PROVE  script' \in Scripts
<1> USE DEF TypeOK
<1>1. CASE Bootstrap \/ PrepareWebview
  BY <1>1, StartTyped DEF Bootstrap, PrepareWebview
<1>2. CASE Verify \/ Fetch
  <2>1. ~ At("idle")
    BY <1>2 DEF Verify, Fetch, At
  <2>2. script' \in {Idle} \/ script' = [script EXCEPT !.step = "fetch"] \/ Use(script.asset)
    <3>1. cache[script.asset] \in {"absent", "good", "bad"}
      BY <2>1, Working
    <3> QED
      BY <1>2, <3>1 DEF Verify, Fetch, Throw
  <2>3. [script EXCEPT !.step = "fetch"] \in Running
    BY <2>1, Working DEF Running
  <2> QED
    BY <2>1, <2>2, <2>3, Working, UseTyped DEF Scripts
<1>3. CASE FetchFails
  <2>1. ~ At("idle")
    BY <1>3 DEF FetchFails, At
  <2>2. ASSUME script.attempt < MaxAttempts
        PROVE  [script EXCEPT !.attempt = @ + 1] \in Running
    <3>1. script.attempt + 1 \in 1..MaxAttempts
      BY <2>1, <2>2, Working, BoundsAssumption
    <3> QED
      BY <2>1, <3>1, Working DEF Running
  <2> QED
    BY <1>3, <2>2 DEF FetchFails, Throw, Scripts
<1>4. ASSUME NEW p \in Parts, Unpack(p) \/ Copy(p) PROVE script' \in Scripts
  <2>1. ~ At("idle")
    BY <1>4 DEF Unpack, Copy, At
  <2>2. script' = [script EXCEPT !.left = @ \ {p}]
    BY <1>4 DEF Unpack, Copy
  <2>3. script.left \ {p} \in SUBSET Parts
    BY <2>1, Working
  <2> QED
    BY <2>1, <2>2, <2>3, Working DEF Running, Scripts
<1>5. CASE Mark
  <2>1. ~ At("idle")
    BY <1>5 DEF Mark, At
  <2> QED
    BY <1>5, <2>1, Working, StageTyped DEF Mark, Scripts
<1>6. CASE Publish \/ Interrupt
  BY <1>6 DEF Publish, Interrupt, Throw, Scripts
<1> QED
  BY <1>1, <1>2, <1>3, <1>4, <1>5, <1>6

LEMMA InitTypeOK == Init => TypeOK
<1> SUFFICES ASSUME Init PROVE TypeOK
  OBVIOUS
<1>1. None \in [Parts -> Contents]
  BY AssetFacts DEF None
<1>2. Idle \in Scripts /\ Closed \in [step : {"closed", "copy", "up"}, left : SUBSET Parts]
  BY DEF Scripts, Closed
<1>3. 0 \in 0..MaxCheckouts /\ 0 \in 0..MaxFaults
  BY BoundsAssumption
<1> QED
  BY <1>1, <1>2, <1>3 DEF Init, TypeOK

\* The counters stay within their bounds.
LEMMA FaultTyped == ASSUME TypeOK, Fault PROVE faults' \in 0..MaxFaults
BY BoundsAssumption DEF TypeOK, Fault

LEMMA NextTypeOK ==
    ASSUME TypeOK, At("copy") => script.asset = script.pin.webview, [Next]_vars
    PROVE  TypeOK'
<1> USE DEF TypeOK, OnlyScript, OnlyState, downloads, webview, state, shipped
<1>1. CASE Bootstrap \/ PrepareWebview
  BY <1>1, ScriptTyped DEF Bootstrap, PrepareWebview, Start
<1>2. CASE Verify
  BY <1>2, ScriptTyped DEF Verify
<1>3. CASE Fetch
  <2>1. cache' \in [Assets -> {"absent", "good", "bad"}]
    BY <1>3 DEF Fetch
  <2> QED
    BY <1>3, <2>1, ScriptTyped DEF Fetch
<1>4. CASE FetchFails \/ Interrupt
  <2>1. CASE FetchFails
    BY <2>1, ScriptTyped, FaultTyped DEF FetchFails
  <2>2. CASE Interrupt
    <3>1. /\ script' \in Scripts /\ faults' \in 0..MaxFaults
          /\ UNCHANGED <<pin, cache, verified, shipped, state, ready, checkouts>>
      BY <2>2, ScriptTyped, FaultTyped DEF Interrupt
    <3>2. CASE UNCHANGED <<tree, webview>>
      BY <3>1, <3>2
    <3>3. ASSUME NEW p \in script.left, NEW rest \in Broken, At("unpack"),
                 tree' = [tree EXCEPT ![script.asset][p] = rest], UNCHANGED webview
          PROVE  TypeOK'
      <4>1. tree' \in [Assets -> [Parts -> Contents]]
        BY <3>3, AssetFacts DEF Broken
      <4> QED
        BY <3>1, <3>3, <4>1
    <3>4. ASSUME NEW p \in script.left, NEW rest \in Broken, At("copy"),
                 kcef' = [kcef EXCEPT ![script.pin.server][p] = rest],
                 UnderMarker, UNCHANGED <<tree, release>>
          PROVE  TypeOK'
      <4>1. kcef' \in [Servers -> [Parts -> Contents]]
        BY <3>4, AssetFacts DEF Broken
      <4>2. redone' \subseteq Servers
        BY <3>4, Working DEF UnderMarker, At
      <4> QED
        BY <3>1, <3>4, <4>1, <4>2
    <3> QED
      BY <2>2, <3>2, <3>3, <3>4 DEF Interrupt
  <2> QED
    BY <1>4, <2>1, <2>2
<1>5. ASSUME NEW p \in Parts, Unpack(p) PROVE TypeOK'
  <2>1. script.asset \in Contents
    BY <1>5, Working, AssetFacts DEF Unpack, At
  <2>2. tree' \in [Assets -> [Parts -> Contents]]
    BY <1>5, <2>1, AssetFacts DEF Unpack
  <2> QED
    BY <1>5, <2>2, ScriptTyped DEF Unpack
<1>6. CASE Mark
  <2>1. verified' \subseteq Assets
    BY <1>6, Working DEF Mark, At
  <2> QED
    BY <1>6, <2>1, ScriptTyped DEF Mark
<1>7. ASSUME NEW p \in Parts, Copy(p) PROVE TypeOK'
  <2>1. script.asset \in Webviews /\ script.asset \in Assets
    BY <1>7, Working, AssetFacts DEF Copy, At
  <2>2. kcef' \in [Servers -> [Parts -> Contents]] /\ redone' \subseteq Servers
    <3>1. tree[script.asset][p] \in Contents
      BY <2>1
    <3>2. script.pin.server \in Servers
      BY <1>7, Working DEF Copy, At
    <3> QED
      BY <1>7, <2>1, <3>1, <3>2 DEF Copy, UnderMarker
  <2> QED
    BY <1>7, <2>2, ScriptTyped DEF Copy
<1>8. CASE Publish
  <2>1. script.asset \in Webviews /\ script.full \in BOOLEAN
    BY <1>8, Working DEF Publish, At
  <2>2. release' \in [Servers -> Webviews \cup {Nothing}] /\ ready' \in BOOLEAN
    BY <1>8, <2>1 DEF Publish
  <2> QED
    BY <1>8, <2>2, ScriptTyped DEF Publish
<1>9. ASSUME NEW new \in Pins, Checkout(new) PROVE TypeOK'
  <2>1. checkouts' \in 0..MaxCheckouts
    BY <1>9, BoundsAssumption DEF Checkout
  <2> QED
    BY <1>9, <2>1 DEF Checkout
<1>10. ASSUME NEW a \in Assets, Damage(a) PROVE TypeOK'
  BY <1>10, FaultTyped DEF Damage
<1>11. ASSUME NEW a \in Assets, RemoveDownload(a) PROVE TypeOK'
  BY <1>11 DEF RemoveDownload
<1>12. CASE Package
  <2>1. pin.server \in Servers
    BY DEF Pins
  <2>2. bundle' \in [files : [Parts -> Contents], release : Webviews \cup {Nothing}]
    BY <1>12, <2>1 DEF Package
  <2>3. mixed' \in BOOLEAN
    BY <1>12 DEF Package
  <2> QED
    BY <1>12, <2>2, <2>3 DEF Package
<1>13. CASE Launch \/ Close \/ Kill
  <2>1. app' \in [step : {"closed", "copy", "up"}, left : SUBSET Parts]
    BY <1>13 DEF Launch, Close, Kill, Closed, Shipped
  <2>2. torn' \in BOOLEAN
    BY <1>13 DEF Launch, Close, Kill
  <2>3. faults' \in 0..MaxFaults
    BY <1>13, FaultTyped DEF Launch, Close, Kill
  <2>4. cef' \in [Parts -> Contents]
    BY <1>13, AssetFacts DEF Launch, Close, Kill
  <2> QED
    BY <1>13, <2>1, <2>2, <2>3, <2>4 DEF Launch, Close, Kill
<1>14. ASSUME NEW p \in Parts, CopyCef(p) PROVE TypeOK'
  BY <1>14 DEF CopyCef
<1>15. CASE MarkCef
  BY <1>15 DEF MarkCef
<1>16. CASE UNCHANGED vars
  BY <1>16 DEF vars
<1> QED
  BY <1>1, <1>2, <1>3, <1>4, <1>5, <1>6, <1>7, <1>8, <1>9, <1>10, <1>11, <1>12, <1>13, <1>14,
     <1>15, <1>16 DEF Next, Step

-----------------------------------------------------------------------------
(* The preparation. *)

\* The steps that leave what the preparation works with alone.
LEMMA PreparationFrame ==
    ASSUME TypeOK, MarkersTrue, ScriptSound, ReadyIsWhole, ReleaseMeansWhole,
           UNCHANGED <<pin, downloads, webview, script, ready>>
    PROVE  MarkersTrue' /\ ScriptSound' /\ ReadyIsWhole' /\ ReleaseMeansWhole'
<1> USE DEF downloads, webview
<1>1. MarkersTrue'
  BY DEF MarkersTrue, Whole
<1>2. ScriptSound'
  BY DEF ScriptSound, At
<1>3. ReadyIsWhole'
  BY DEF ReadyIsWhole, Whole
<1>4. ReleaseMeansWhole'
  BY DEF ReleaseMeansWhole, Whole
<1> QED
  BY <1>1, <1>2, <1>3, <1>4

\* A verified archive, or the server just extracted, leads on.
LEMMA UseSound ==
    ASSUME TypeOK, TypeOK', MarkersTrue, ScriptSound, ~ At("idle"), Use(script.asset),
           cache'[script.asset] = "good", ~ ready',
           UNCHANGED <<tree, verified, webview>>
    PROVE  ScriptSound'
<1> USE DEF webview
<1>1. CASE script.asset \in verified
  <2>1. script' = Stage(script.asset)
    BY <1>1 DEF Use
  <2>2. script \in Scripts
    BY DEF TypeOK
  <2>3. /\ script'.pin = script.pin /\ script'.full = script.full
        /\ script.asset = script.pin.webview =>
             script'.step = "copy" /\ script'.left = PartsOf[script.asset]
             /\ script'.asset = script.asset
        /\ script.asset # script.pin.webview =>
             script'.step = "verify" /\ script'.asset = script.pin.webview
    BY <2>1, <2>2, StageTyped, Working
  <2> QED
    BY <1>1, <2>3 DEF ScriptSound, At
<1>2. CASE script.asset \notin verified
  <2>1. script' = [script EXCEPT !.step = "unpack", !.left = PartsOf[script.asset]] /\ script \in Running
    BY <1>2, Working DEF Use, TypeOK
  <2>2. /\ script'.step = "unpack" /\ script'.left = PartsOf[script.asset] /\ script'.pin = script.pin
        /\ script'.full = script.full /\ script'.asset = script.asset
    BY <2>1 DEF Running
  <2> QED
    BY <1>2, <2>2 DEF ScriptSound, At
<1> QED
  BY <1>1, <1>2

\* A file is written in a server directory: a marker that stands is counted.
LEMMA MarkerCounted ==
    ASSUME TypeOK, ReleaseMeansWhole, ~ At("idle"), UnderMarker, UNCHANGED release,
           NEW p \in Parts, NEW content,
           kcef' = [kcef EXCEPT ![script.pin.server][p] = content]
    PROVE  ReleaseMeansWhole'
<1> DEFINE s == script.pin.server
<1>1. s \in Servers
  BY Working DEF TypeOK
<1>2. redone \subseteq redone' /\ (release[s] # Nothing => s \in redone')
  BY <1>1 DEF UnderMarker
<1>3. \A t \in Servers \ {s} : kcef'[t] = kcef[t]
  BY <1>1 DEF TypeOK
<1>4. ASSUME NEW t \in Servers \ redone', NEW w \in Webviews, release'[t] = w
      PROVE  Whole(kcef'[t], w)
  <2>1. t # s
    BY <1>2, <1>4, AssetFacts
  <2> QED
    BY <1>2, <1>3, <1>4, <2>1 DEF ReleaseMeansWhole, Whole
<1> QED
  BY <1>4 DEF ReleaseMeansWhole

LEMMA InitPreparation == Init => PreparationInv /\ ReadyIsWhole /\ ReleaseMeansWhole
<1> SUFFICES ASSUME Init
             PROVE  PreparationInv /\ ReadyIsWhole /\ ReleaseMeansWhole
  OBVIOUS
<1>1. MarkersTrue /\ ScriptSound /\ ReadyIsWhole
  BY DEF Init, MarkersTrue, ScriptSound, ReadyIsWhole, At, Idle
<1>2. \A s \in Servers : release[s] = Nothing
  BY DEF Init
<1>3. ReleaseMeansWhole
  BY <1>2, AssetFacts DEF ReleaseMeansWhole
<1> QED
  BY <1>1, <1>3, InitTypeOK DEF PreparationInv

LEMMA NextPreparation ==
    ASSUME PreparationInv, ReadyIsWhole, ReleaseMeansWhole, [Next]_vars
    PROVE  PreparationInv' /\ ReadyIsWhole' /\ ReleaseMeansWhole'
<1> USE DEF PreparationInv
<1> DEFINE Goal == MarkersTrue' /\ ScriptSound' /\ ReadyIsWhole' /\ ReleaseMeansWhole'
<1>0. TypeOK'
  BY NextTypeOK DEF ScriptSound, At
<1>1. CASE Bootstrap \/ PrepareWebview
  <2>1. UNCHANGED <<pin, downloads, webview>> /\ ~ ready'
    BY <1>1 DEF Bootstrap, PrepareWebview, Start, OnlyScript
  <2>2. /\ script'.step = "verify" /\ script'.pin = pin
        /\ script'.asset = IF script'.full THEN pin.server ELSE pin.webview
    BY <1>1 DEF Bootstrap, PrepareWebview, Start
  <2>3. pin.server # pin.webview
    BY AssetsAssumption DEF TypeOK, Pins
  <2>4. ScriptSound'
    BY <2>1, <2>2, <2>3 DEF ScriptSound, At
  <2>5. MarkersTrue' /\ ReadyIsWhole' /\ ReleaseMeansWhole'
    BY <2>1 DEF MarkersTrue, ReadyIsWhole, ReleaseMeansWhole, Whole, downloads, webview
  <2> QED
    BY <1>0, <2>4, <2>5
<1>2. CASE Verify \/ Fetch
  <2>1. UNCHANGED <<pin, tree, verified, webview, ready>> /\ ~ At("idle") /\ ~ ready
    BY <1>2 DEF Verify, Fetch, OnlyScript, downloads, At, ScriptSound
  <2>2. MarkersTrue' /\ ReadyIsWhole' /\ ReleaseMeansWhole'
    BY <2>1 DEF MarkersTrue, ReadyIsWhole, ReleaseMeansWhole, Whole, webview
  <2>3. \/ script' = Idle
        \/ cache' = cache /\ script' = [script EXCEPT !.step = "fetch"]
        \/ cache'[script.asset] = "good" /\ Use(script.asset)
    <3>1. cache[script.asset] \in {"absent", "good", "bad"} /\ script.asset \in Assets
      BY <2>1, Working DEF TypeOK
    <3> QED
      BY <1>2, <3>1 DEF Verify, Fetch, Throw, OnlyScript, downloads, TypeOK
  <2>4. CASE script' = Idle
    BY <1>0, <2>2, <2>4 DEF ScriptSound, Idle, At
  <2>5. CASE cache' = cache /\ script' = [script EXCEPT !.step = "fetch"]
    <3>1. /\ script'.step = "fetch" /\ script'.pin = script.pin
          /\ script'.full = script.full /\ script'.asset = script.asset
      BY <2>1, <2>5, Working DEF Running, TypeOK
    <3> QED
      BY <1>0, <2>1, <2>2, <2>5, <3>1 DEF ScriptSound, At
  <2>6. CASE cache'[script.asset] = "good" /\ Use(script.asset)
    BY <1>0, <2>1, <2>2, <2>6, UseSound
  <2> QED
    BY <2>2, <2>3, <2>4, <2>5, <2>6
<1>3. CASE FetchFails
  <2>1. UNCHANGED <<pin, downloads, webview, ready>> /\ ~ At("idle")
    BY <1>3 DEF FetchFails, OnlyScript, At
  <2>2. MarkersTrue' /\ ReadyIsWhole' /\ ReleaseMeansWhole'
    BY <2>1 DEF MarkersTrue, ReadyIsWhole, ReleaseMeansWhole, Whole, downloads, webview
  <2>3. script' = Idle \/ (At("fetch") /\ script' = [script EXCEPT !.attempt = @ + 1])
    BY <1>3 DEF FetchFails, Throw
  <2>4. CASE script' = Idle
    BY <1>0, <2>2, <2>4 DEF ScriptSound, Idle, At
  <2>5. CASE At("fetch") /\ script' = [script EXCEPT !.attempt = @ + 1]
    <3>1. /\ script'.step = "fetch" /\ script'.pin = script.pin
          /\ script'.full = script.full /\ script'.asset = script.asset
      BY <2>1, <2>5, Working DEF Running, TypeOK, At
    <3> QED
      BY <1>0, <2>1, <2>2, <3>1 DEF ScriptSound, At, downloads
  <2> QED
    BY <2>2, <2>3, <2>4, <2>5
<1>12. CASE Interrupt
  <2>1. /\ UNCHANGED <<pin, cache, verified, ready>> /\ ~ At("idle") /\ ~ ready
        /\ script' = Idle
    BY <1>12 DEF Interrupt, Throw, At, ScriptSound
  <2>2. ScriptSound' /\ ReadyIsWhole'
    BY <2>1 DEF ScriptSound, ReadyIsWhole, Idle, At
  <2>3. CASE UNCHANGED <<tree, webview>>
    <3>1. MarkersTrue'
      BY <2>1, <2>3 DEF MarkersTrue, Whole
    <3>2. ReleaseMeansWhole'
      BY <2>3 DEF ReleaseMeansWhole, Whole, webview
    <3> QED
      BY <1>0, <2>2, <3>1, <3>2
  <2>4. ASSUME NEW p \in script.left, NEW rest \in Broken, At("unpack"),
               tree' = [tree EXCEPT ![script.asset][p] = rest], UNCHANGED webview
        PROVE  Goal
    <3>1. \A a \in verified : tree'[a] = tree[a]
      BY <2>4 DEF ScriptSound, TypeOK, At
    <3> QED
      BY <2>1, <2>2, <2>4, <3>1 DEF MarkersTrue, ReleaseMeansWhole, Whole, webview
  <2>5. ASSUME NEW p \in script.left, NEW rest \in Broken, At("copy"),
               kcef' = [kcef EXCEPT ![script.pin.server][p] = rest],
               UnderMarker, UNCHANGED <<tree, release>>
        PROVE  Goal
    <3>1. ReleaseMeansWhole'
      BY <2>1, <2>5, Working, MarkerCounted DEF TypeOK
    <3> QED
      BY <2>1, <2>2, <2>5, <3>1 DEF MarkersTrue, Whole
  <2> QED
    BY <1>0, <1>12, <2>3, <2>4, <2>5 DEF Interrupt
<1>4. ASSUME NEW p \in Parts, Unpack(p) PROVE Goal
  <2>1. /\ UNCHANGED <<pin, cache, verified, webview, ready>> /\ At("unpack") /\ ~ At("idle") /\ ~ ready
        /\ cache[script.asset] = "good" /\ script.asset \in Assets /\ script \in Running
    BY <1>4, Working DEF Unpack, At, ScriptSound, TypeOK
  <2>2. tree' = [tree EXCEPT ![script.asset][p] = script.asset]
    BY <1>4, <2>1 DEF Unpack
  <2>3. /\ script'.step = script.step /\ script'.pin = script.pin /\ script'.full = script.full
        /\ script'.asset = script.asset /\ script'.left = script.left \ {p}
    BY <1>4, <2>1 DEF Unpack, Running
  <2>4. \A a \in Assets, q \in Parts :
          tree'[a][q] = IF a = script.asset /\ q = p THEN script.asset ELSE tree[a][q]
    BY <2>1, <2>2 DEF TypeOK
  <2>5. MarkersTrue'
    <3>1. script.asset \notin verified
      BY <2>1 DEF ScriptSound
    <3> QED
      BY <2>1, <2>4, <3>1, PartsAssumption DEF MarkersTrue, Whole, TypeOK
  <2>6. ScriptSound'
    <3>1. \A q \in PartsOf[script.asset] \ script'.left : tree'[script.asset][q] = script.asset
      BY <2>1, <2>3, <2>4, PartsAssumption DEF ScriptSound
    <3> QED
      BY <2>1, <2>3, <3>1 DEF ScriptSound, At
  <2>7. ReadyIsWhole' /\ ReleaseMeansWhole'
    BY <2>1 DEF ReadyIsWhole, ReleaseMeansWhole, Whole, webview
  <2> QED
    BY <2>5, <2>6, <2>7
<1>5. CASE Mark
  <2>1. /\ UNCHANGED <<pin, cache, tree, webview, ready>> /\ At("unpack") /\ ~ At("idle") /\ ~ ready
        /\ script.asset \in Assets /\ script \in Scripts
        /\ verified' = verified \cup {script.asset} /\ script' = Stage(script.asset)
    BY <1>5, Working DEF Mark, At, ScriptSound, TypeOK
  <2>2. Whole(tree[script.asset], script.asset)
    BY <1>5, <2>1 DEF Mark, ScriptSound, Whole
  <2>3. MarkersTrue'
    BY <2>1, <2>2 DEF MarkersTrue, Whole
  <2>4. /\ script'.pin = script.pin /\ script'.full = script.full
        /\ script.asset = script.pin.webview =>
             script'.step = "copy" /\ script'.left = PartsOf[script.asset]
             /\ script'.asset = script.asset
        /\ script.asset # script.pin.webview =>
             script'.step = "verify" /\ script'.asset = script.pin.webview
    BY <2>1, StageTyped
  <2>5. ScriptSound'
    BY <2>1, <2>4 DEF ScriptSound, At
  <2>6. ReadyIsWhole' /\ ReleaseMeansWhole'
    BY <2>1 DEF ReadyIsWhole, ReleaseMeansWhole, Whole, webview
  <2> QED
    BY <1>0, <2>3, <2>5, <2>6
<1>6. ASSUME NEW p \in Parts, Copy(p) PROVE Goal
  <2> DEFINE s == script.pin.server
  <2>1. /\ UNCHANGED <<pin, downloads, release, ready>> /\ At("copy") /\ ~ At("idle") /\ ~ ready
        /\ script.asset \in Assets /\ script \in Running /\ s \in Servers
        /\ script.asset = script.pin.webview /\ script.asset \in verified
    BY <1>6, Working DEF Copy, At, ScriptSound, TypeOK
  <2>2. tree[script.asset][p] = script.asset
    BY <1>6, <2>1 DEF Copy, ScriptSound, MarkersTrue, Whole
  <2>3. /\ script'.step = script.step /\ script'.pin = script.pin /\ script'.full = script.full
        /\ script'.asset = script.asset /\ script'.left = script.left \ {p}
    BY <1>6, <2>1 DEF Copy, Running
  <2>4. \A t \in Servers, q \in Parts :
          kcef'[t][q] = IF t = s /\ q = p THEN script.asset ELSE kcef[t][q]
    BY <1>6, <2>1, <2>2 DEF Copy, TypeOK
  <2>6. MarkersTrue' /\ ReadyIsWhole'
    BY <2>1 DEF MarkersTrue, ReadyIsWhole, Whole, downloads
  <2>7. ScriptSound'
    <3>1. ASSUME NEW q \in PartsOf[script.asset] \ script'.left
          PROVE  kcef'[s][q] = script.asset
      BY <2>1, <2>3, <2>4, PartsAssumption DEF ScriptSound
    <3> QED
      BY <2>1, <2>3, <3>1 DEF ScriptSound, At, downloads
  <2>8. ReleaseMeansWhole'
    BY <1>6, <2>1, MarkerCounted DEF Copy
  <2> QED
    BY <2>6, <2>7, <2>8
<1>7. CASE Publish
  <2> DEFINE s == script.pin.server
  <2>1. /\ UNCHANGED <<pin, downloads, kcef>> /\ redone' = redone \ {s} /\ At("copy") /\ ~ At("idle")
        /\ script.left = {} /\ script' = Idle /\ ready' = (script.full /\ script.pin = pin)
        /\ script.asset \in Assets /\ s \in Servers
        /\ script.asset = script.pin.webview
    BY <1>7, Working DEF Publish, At, ScriptSound, TypeOK
  <2>2. \A t \in Servers : release'[t] = IF t = s THEN script.asset ELSE release[t]
    BY <1>7, <2>1 DEF Publish, TypeOK
  <2>3. Whole(kcef[s], script.asset)
    BY <2>1 DEF ScriptSound, Whole
  <2>4. MarkersTrue' /\ ScriptSound'
    BY <2>1 DEF MarkersTrue, Whole, ScriptSound, At, Idle, downloads
  <2>6. ReleaseMeansWhole'
    BY <2>1, <2>2, <2>3 DEF ReleaseMeansWhole, Whole
  <2>7. ASSUME ready'
        PROVE  /\ Whole(tree[pin.server], pin.server) /\ Whole(kcef[pin.server], pin.webview)
               /\ release'[pin.server] = pin.webview
    <3>1. script.full /\ script.pin = pin /\ pin.server \in verified
      BY <2>1, <2>7 DEF ScriptSound
    <3> QED
      BY <2>1, <2>2, <2>3, <3>1 DEF MarkersTrue
  <2> QED
    BY <1>0, <2>1, <2>4, <2>6, <2>7 DEF ReadyIsWhole, Whole, downloads
<1>8. ASSUME NEW new \in Pins, Checkout(new) PROVE Goal
  <2>1. UNCHANGED <<downloads, webview, script>> /\ ~ ready'
    BY <1>8 DEF Checkout
  <2>2. MarkersTrue' /\ ReadyIsWhole' /\ ReleaseMeansWhole'
    BY <2>1 DEF MarkersTrue, ReadyIsWhole, ReleaseMeansWhole, Whole, downloads, webview
  <2>3. ScriptSound'
    BY <2>1 DEF ScriptSound, At, downloads, webview
  <2> QED
    BY <2>2, <2>3
<1>9. ASSUME NEW a \in Assets, Damage(a) \/ RemoveDownload(a) PROVE Goal
  <2>1. UNCHANGED <<pin, tree, verified, webview, script, ready>> /\ At("idle")
    BY <1>9 DEF Damage, RemoveDownload
  <2>2. MarkersTrue' /\ ReadyIsWhole' /\ ReleaseMeansWhole'
    BY <2>1 DEF MarkersTrue, ReadyIsWhole, ReleaseMeansWhole, Whole, webview
  <2>3. ScriptSound'
    BY <2>1 DEF ScriptSound, At
  <2> QED
    BY <2>2, <2>3
<1>10. CASE \/ Package \/ Launch \/ (\E p \in Parts : CopyCef(p)) \/ MarkCef \/ Close \/ Kill
            \/ UNCHANGED vars
  <2>1. UNCHANGED <<pin, downloads, webview, script, ready>>
    BY <1>10 DEF Package, Launch, CopyCef, MarkCef, Close, Kill, OnlyState, vars
  <2> QED
    BY <1>0, <2>1, PreparationFrame
<1>11. Goal
  BY <1>1, <1>2, <1>3, <1>4, <1>5, <1>6, <1>7, <1>8, <1>9, <1>10, <1>12 DEF Next, Step
<1> QED
  BY <1>0, <1>11

-----------------------------------------------------------------------------
(* The application. *)

LEMMA InitApplication == Init => BundleSound /\ CefSound /\ AppSound
BY DEF Init, BundleSound, CefSound, AppSound, Closed

\* A release that is not missing is a WebView.
LEMMA PackagedWhole ==
    ASSUME TypeOK, ReleaseInv, Package PROVE BundleSound'
<1>1. /\ bundle' = [files |-> kcef[pin.server], release |-> release[pin.server]]
      /\ mixed' = (mixed \/ ~ Whole(kcef[pin.server], release[pin.server]))
  BY DEF Package
<1> QED
  BY <1>1 DEF BundleSound, Whole

LEMMA NextApplication ==
    ASSUME TypeOK, ReleaseInv, BundleSound, CefSound, AppSound, [Next]_vars
    PROVE  BundleSound' /\ CefSound' /\ AppSound'
<1> USE DEF TypeOK
<1>1. CASE Package
  <2>1. UNCHANGED <<cef, cefRelease, app, torn>> /\ app = Closed /\ (mixed => mixed')
    BY <1>1 DEF Package, state
  <2> QED
    BY <1>1, <2>1, PackagedWhole DEF CefSound, AppSound, Whole, Closed
<1>2. CASE Launch
  <2>1. UNCHANGED <<bundle, mixed, cef, cefRelease>> /\ app = Closed /\ bundle.release # Nothing
    BY <1>2 DEF Launch, OnlyState, shipped
  <2>2. BundleSound'
    BY <2>1 DEF BundleSound, Whole
  <2>3. CASE bundle.release = cefRelease
    <3>1. app' = [step |-> "up", left |-> {}] /\ UNCHANGED torn
      BY <1>2, <2>3 DEF Launch
    <3>2. CefSound'
      BY <2>1, <3>1 DEF CefSound, Whole
    <3> QED
      BY <2>1, <2>2, <2>3, <3>1, <3>2 DEF AppSound
  <2>4. CASE bundle.release # cefRelease
    <3>1. app' = [step |-> "copy", left |-> Shipped] /\ (torn' <=> cefRelease # Nothing)
      BY <1>2, <2>4 DEF Launch
    <3> QED
      BY <2>1, <2>2, <3>1 DEF CefSound, AppSound, Shipped
  <2> QED
    BY <2>3, <2>4
<1>3. ASSUME NEW p \in Parts, CopyCef(p) PROVE BundleSound' /\ CefSound' /\ AppSound'
  <2>1. /\ UNCHANGED <<bundle, mixed, cefRelease, torn>> /\ app.step = "copy"
        /\ app'.step = "copy" /\ app'.left = app.left \ {p}
        /\ \A q \in Parts : cef'[q] = IF q = p THEN bundle.files[p] ELSE cef[q]
    BY <1>3 DEF CopyCef, OnlyState, shipped
  <2>2. BundleSound'
    BY <2>1 DEF BundleSound, Whole
  <2>3. CefSound'
    BY <2>1 DEF CefSound, AppSound
  <2>4. \A q \in Shipped' \ app'.left : cef'[q] = bundle.files[q]
    BY <2>1 DEF AppSound, Shipped
  <2> QED
    BY <2>1, <2>2, <2>3, <2>4 DEF AppSound
<1>4. CASE MarkCef
  <2>1. /\ UNCHANGED <<bundle, mixed, cef>> /\ app.step = "copy" /\ app.left = {}
        /\ app'.step = "up" /\ cefRelease' = bundle.release /\ torn' = FALSE
    BY <1>4 DEF MarkCef, OnlyState, shipped
  <2>2. \A p \in Shipped : cef[p] = bundle.files[p]
    BY <2>1 DEF AppSound
  <2>3. ASSUME bundle.release # Nothing, Whole(bundle.files, bundle.release)
        PROVE  Whole(cef, bundle.release)
    <3>1. bundle.release \in Assets
      BY <2>3, AssetFacts
    <3>2. PartsOf[bundle.release] \subseteq Shipped
      BY <2>3, <3>1, PartsAssumption, AssetFacts DEF Shipped, Whole
    <3> QED
      BY <2>2, <2>3, <3>2 DEF Whole
  <2> QED
    BY <2>1, <2>3 DEF BundleSound, CefSound, AppSound, Whole
<1>5. CASE Close
  <2>1. UNCHANGED <<bundle, mixed, cef, cefRelease, torn>> /\ app' = Closed
    BY <1>5 DEF Close, OnlyState, shipped
  <2> QED
    BY <2>1 DEF BundleSound, CefSound, AppSound, Whole, Closed
<1>7. CASE Kill
  <2>1. /\ UNCHANGED <<bundle, mixed, cefRelease, torn>> /\ app' = Closed
        /\ torn \/ cefRelease = Nothing
    BY <1>7 DEF Kill, OnlyState, shipped, AppSound
  <2> QED
    BY <2>1 DEF BundleSound, CefSound, AppSound, Whole, Closed
<1>6. CASE \/ Bootstrap \/ PrepareWebview \/ Step \/ FetchFails \/ Interrupt
           \/ (\E new \in Pins : Checkout(new))
           \/ (\E a \in Assets : Damage(a) \/ RemoveDownload(a))
           \/ UNCHANGED vars
  <2>1. UNCHANGED <<shipped, state>>
    BY <1>6 DEF Bootstrap, PrepareWebview, Start, Step, Verify, Fetch, Mark, Publish, Unpack, Copy,
                FetchFails, Interrupt, Checkout, Damage, RemoveDownload, OnlyScript, vars
  <2> QED
    BY <2>1 DEF shipped, state, BundleSound, CefSound, AppSound, Shipped, Whole
<1> QED
  BY <1>1, <1>2, <1>3, <1>4, <1>5, <1>6, <1>7 DEF Next

-----------------------------------------------------------------------------
(* Theorems. *)

LEMMA Invariant == Spec => []IInv
<1>1. Init => IInv
  BY InitPreparation, InitApplication, InitTypeOK
     DEF IInv, ReleaseInv, PreparationInv, ApplicationInv
<1>2. IInv /\ [Next]_vars => IInv'
  <2> SUFFICES ASSUME IInv, [Next]_vars PROVE IInv'
    OBVIOUS
  <2>1. PreparationInv' /\ ReadyIsWhole' /\ ReleaseMeansWhole'
    BY NextPreparation DEF IInv, ReleaseInv
  <2>2. BundleSound' /\ CefSound' /\ AppSound'
    BY NextApplication DEF IInv, ApplicationInv
  <2> QED
    BY <2>1, <2>2 DEF IInv, ReleaseInv, PreparationInv, ApplicationInv
<1> QED
  BY <1>1, <1>2, PTL DEF Spec

\* Every variable keeps its type, whatever is interrupted.
THEOREM TypeCorrect == Spec => []TypeOK
<1>1. IInv => TypeOK
  BY DEF IInv, ApplicationInv
<1> QED
  BY <1>1, Invariant, PTL

\* A finished bootstrap leaves every pinned file, for any archives and any
\* history of interrupted runs.
THEOREM BootstrapIsWhole == Spec => []ReadyIsWhole
<1>1. IInv => ReadyIsWhole
  BY DEF IInv
<1> QED
  BY <1>1, Invariant, PTL

\* The release marker names a WebView whose files are all there, wherever no
\* repeated install has begun that did not finish.
THEOREM MarkerComesLast == Spec => []ReleaseMeansWhole
<1>1. IInv => ReleaseMeansWhole
  BY DEF IInv, ReleaseInv
<1> QED
  BY <1>1, Invariant, PTL

\* The engine starts with the WebView of the application's release, but for the
\* two exceptions that the property names.
THEOREM EngineHasWebview == Spec => []EngineSeesWebview
<1>1. IInv => EngineSeesWebview
  BY DEF IInv, ApplicationInv, CefSound, AppSound, EngineSeesWebview
<1> QED
  BY <1>1, Invariant, PTL
=============================================================================
