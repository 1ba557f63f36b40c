---------------------------- MODULE RuntimeSetup ----------------------------
(***************************************************************************)
(* The native parts of the desktop application from the pinned downloads   *)
(* to the running engine: bootstrap (src/scripts/bootstrap.cjs) with       *)
(* downloadVerified (src/scripts/runtime-tools.cjs) and prepareWebview     *)
(* (src/scripts/prepare-webview.cjs), packaging                            *)
(* (src/electron-builder.cjs), and the copy of the WebView into the        *)
(* application data that Server.start makes (src/desktop/server.cjs).      *)
(*                                                                         *)
(* Abstractions.  The name of an asset carries its version, so an asset    *)
(* stands for its pin and checksum.  The content of a file is the asset it *)
(* comes from, or Bad.  A download under its staging name has a random     *)
(* name, so one that a kill leaves is no state.  npm, javac and the page   *)
(* build fail or change nothing here: Interrupt.  The look-ups of expected *)
(* files after an extraction succeed for the pinned archives.  fs.cp and   *)
(* tar remove a file and write it anew; as nobody reads a directory while  *)
(* it is written, that is one step, unless it is interrupted in the middle *)
(* (Broken).  A marker, which is short, is written in one step.            *)
(***************************************************************************)
EXTENDS Naturals

CONSTANTS
    Servers,       \* server archives, each with a directory of its own
    Webviews,      \* WebView archives
    Parts,         \* the names of files in archives
    PartsOf,       \* those of each archive
    Jar,           \* the part of a server archive that packaging looks for
    Nothing, Bad,  \* no file; the content of a damaged or foreign archive, or
                   \* of a file written in part
    MaxAttempts,   \* downloads tried in a row: 4 in the code
    MaxCheckouts,  \* bound: changes of UPSTREAM.json
    MaxFaults      \* bound: kills, errors, damaged files

Assets   == Servers \cup Webviews
Contents == Assets \cup {Nothing, Bad}

ASSUME AssetsAssumption ==
    /\ Servers \cap Webviews = {}
    /\ {Nothing, Bad} \cap Assets = {} /\ Nothing # Bad
ASSUME PartsAssumption ==
    /\ PartsOf \in [Assets -> SUBSET Parts]
    /\ \A s \in Servers : Jar \in PartsOf[s]
ASSUME BoundsAssumption ==
    MaxAttempts \in Nat \ {0} /\ MaxCheckouts \in Nat /\ MaxFaults \in Nat

VARIABLES
    pin,        \* UPSTREAM.json of the working tree
    cache,      \* persistent: downloads/<asset>
    tree,       \* persistent: the directory an asset is extracted into
    verified,   \* persistent: assets whose directory has .bihon-verified
    kcef,       \* persistent: <server directory>/kcef
    release,    \* persistent: the marker <server directory>/kcef/release
    script,     \* the preparation under way
    bundle,     \* the WebView of the installed application, with its marker
    cef,        \* persistent: bin/kcef in the application data
    cefRelease, \* persistent: its marker
    app,        \* the application: closed, preparing its WebView, up
    redone,     \* history: server directories where a copy over a WebView with
                \* its marker has begun and was not finished since
    ready,      \* history: bootstrap finished for this pin, and nothing since
    mixed,      \* history: a packaged WebView was not that of its marker
    torn,       \* history: a copy over another release was not finished
    checkouts, faults   \* bound counters

downloads == <<cache, tree, verified>>
webview   == <<kcef, release, redone>>
state     == <<cef, cefRelease, app, torn>>
shipped   == <<bundle, mixed>>
vars      == <<pin, downloads, webview, script, shipped, state, ready, checkouts, faults>>

Pins == [server : Servers, webview : Webviews]
None == [p \in Parts |-> Nothing]

\* Every file of the archive is there.  Others may be beside them: neither
\* installWebview nor Server.start removes what an earlier WebView has left.
Whole(files, asset) == \A p \in PartsOf[asset] : files[p] = asset

Idle    == [step |-> "idle"]
Running ==
    [step : {"verify", "fetch", "unpack", "copy"}, pin : Pins, asset : Assets,
     full : BOOLEAN, attempt : 1..MaxAttempts, left : SUBSET Parts]
Scripts == {Idle} \cup Running
Closed  == [step |-> "closed", left |-> {}]

TypeOK ==
    /\ pin \in Pins
    /\ cache \in [Assets -> {"absent", "good", "bad"}]
    /\ tree \in [Assets -> [Parts -> Contents]]
    /\ verified \subseteq Assets
    /\ kcef \in [Servers -> [Parts -> Contents]]
    /\ release \in [Servers -> Webviews \cup {Nothing}]
    /\ script \in Scripts
    /\ bundle \in [files : [Parts -> Contents], release : Webviews \cup {Nothing}]
    /\ cef \in [Parts -> Contents] /\ cefRelease \in Webviews \cup {Nothing}
    /\ app \in [step : {"closed", "copy", "up"}, left : SUBSET Parts]
    /\ redone \subseteq Servers
    /\ ready \in BOOLEAN /\ mixed \in BOOLEAN /\ torn \in BOOLEAN
    /\ checkouts \in 0..MaxCheckouts /\ faults \in 0..MaxFaults

Init ==
    /\ pin \in Pins
    /\ cache = [a \in Assets |-> "absent"]
    /\ tree = [a \in Assets |-> None] /\ verified = {}
    /\ kcef = [s \in Servers |-> None]
    /\ release = [s \in Servers |-> Nothing] /\ redone = {}
    /\ script = Idle
    /\ bundle = [files |-> None, release |-> Nothing]
    /\ cef = None /\ cefRelease = Nothing /\ app = Closed
    /\ ready = FALSE /\ mixed = FALSE /\ torn = FALSE
    /\ checkouts = 0 /\ faults = 0

Fault == faults < MaxFaults /\ faults' = faults + 1

-----------------------------------------------------------------------------
(* The preparation works for the pin that it loaded at its start. *)

At(step) == script.step = step
Throw    == script' = Idle
OnlyScript == UNCHANGED <<pin, downloads, webview, shipped, state, checkouts>>

Start(full) ==
    /\ At("idle")
    /\ script' = [step |-> "verify", pin |-> pin, full |-> full,
                  asset |-> IF full THEN pin.server ELSE pin.webview,
                  attempt |-> 1, left |-> {}]
    /\ ready' = FALSE
    /\ OnlyScript /\ UNCHANGED faults

Bootstrap      == Start(TRUE)
PrepareWebview == Start(FALSE)   \* the script run by itself

\* Mutant: bootstrap returns when the server is there already.
StageReturns(asset) ==
    IF asset = script.pin.webview
      THEN [script EXCEPT !.step = "copy", !.left = PartsOf[asset]]
      ELSE IF asset \in verified THEN Idle
           ELSE [script EXCEPT !.step = "verify", !.asset = script.pin.webview, !.attempt = 1]

\* What follows the extraction of an archive.
Stage(asset) ==
    IF asset = script.pin.webview
      THEN [script EXCEPT !.step = "copy", !.left = PartsOf[asset]]
      ELSE [script EXCEPT !.step = "verify", !.asset = script.pin.webview, !.attempt = 1]

\* A verified archive is extracted unless the marker says that it was.
Use(asset) ==
    script' = IF asset \in verified THEN Stage(asset)
                ELSE [script EXCEPT !.step = "unpack", !.left = PartsOf[asset]]

\* Mutant: a cached download is taken as it is.
VerifyTrusts ==
    /\ At("verify")
    /\ IF cache[script.asset] = "absent"
         THEN script' = [script EXCEPT !.step = "fetch"]
         ELSE Use(script.asset)
    /\ OnlyScript /\ UNCHANGED <<ready, faults>>

\* A cached archive is hashed again in each run; a wrong one is left alone.
Verify ==
    /\ At("verify")
    /\ CASE cache[script.asset] = "absent" -> script' = [script EXCEPT !.step = "fetch"]
         [] cache[script.asset] = "bad"    -> Throw
         [] cache[script.asset] = "good"   -> Use(script.asset)
    /\ OnlyScript /\ UNCHANGED <<ready, faults>>

\* The staged download has the pinned checksum and gets its name.
Fetch ==
    /\ At("fetch")
    /\ cache' = [cache EXCEPT ![script.asset] = "good"]
    /\ Use(script.asset)
    /\ UNCHANGED <<pin, tree, verified, webview, shipped, state, ready, checkouts, faults>>

\* The request or the write fails and is repeated, except for the last time;
\* a wrong checksum is not tried again.
FetchFails ==
    /\ At("fetch") /\ Fault
    /\ \/ script.attempt < MaxAttempts /\ script' = [script EXCEPT !.attempt = @ + 1]
       \/ Throw
    /\ OnlyScript /\ UNCHANGED ready

\* tar writes the files one by one, over those of an interrupted extraction.
Unpack(p) ==
    /\ At("unpack") /\ p \in script.left
    /\ tree' = [tree EXCEPT ![script.asset][p] =
                  IF cache[script.asset] = "good" THEN script.asset ELSE Bad]
    /\ script' = [script EXCEPT !.left = @ \ {p}]
    /\ UNCHANGED <<pin, cache, verified, webview, shipped, state, ready, checkouts, faults>>

Mark ==
    /\ At("unpack") /\ script.left = {}
    /\ verified' = verified \cup {script.asset}
    /\ script' = Stage(script.asset)
    /\ UNCHANGED <<pin, cache, tree, webview, shipped, state, ready, checkouts, faults>>

\* A marker that stands does so while its files are replaced.
UnderMarker ==
    redone' = IF release[script.pin.server] = Nothing THEN redone
                                                      ELSE redone \cup {script.pin.server}

\* installWebview copies file by file, over what an earlier one left, whether
\* the marker says that this WebView is there already or not.
Copy(p) ==
    /\ At("copy") /\ p \in script.left
    /\ kcef' = [kcef EXCEPT ![script.pin.server][p] = tree[script.asset][p]]
    /\ UnderMarker
    /\ script' = [script EXCEPT !.left = @ \ {p}]
    /\ UNCHANGED <<pin, downloads, release, shipped, state, ready, checkouts, faults>>

\* Mutant: the marker does not wait for the other files.
PublishEarly ==
    /\ At("copy")
    /\ release' = [release EXCEPT ![script.pin.server] = script.asset]
    /\ redone' = redone \ {script.pin.server}
    /\ Throw
    /\ ready' = (script.full /\ script.pin = pin)
    /\ UNCHANGED <<pin, downloads, kcef, shipped, state, checkouts, faults>>

\* The release marker comes last.
Publish ==
    /\ At("copy") /\ script.left = {}
    /\ release' = [release EXCEPT ![script.pin.server] = script.asset]
    /\ redone' = redone \ {script.pin.server}
    /\ script' = Idle
    /\ ready' = (script.full /\ script.pin = pin)
    /\ UNCHANGED <<pin, downloads, kcef, shipped, state, checkouts, faults>>

\* What an interruption leaves of the file that is being written.
Broken == {Nothing, Bad}

\* A kill or an error: what is on the disk stays.
Interrupt ==
    /\ ~ At("idle") /\ Fault
    /\ Throw
    /\ \/ UNCHANGED <<tree, webview>>
       \/ \E p \in script.left, rest \in Broken :
            /\ At("unpack")
            /\ tree' = [tree EXCEPT ![script.asset][p] = rest]
            /\ UNCHANGED webview
       \/ \E p \in script.left, rest \in Broken :
            /\ At("copy")
            /\ kcef' = [kcef EXCEPT ![script.pin.server][p] = rest]
            /\ UnderMarker
            /\ UNCHANGED <<tree, release>>
    /\ UNCHANGED <<pin, cache, verified, shipped, state, ready, checkouts>>

-----------------------------------------------------------------------------
(* The developer and the disk. *)

Checkout(new) ==
    /\ checkouts < MaxCheckouts /\ new # pin
    /\ pin' = new /\ checkouts' = checkouts + 1 /\ ready' = FALSE
    /\ UNCHANGED <<downloads, webview, script, shipped, state, faults>>

\* A cached archive goes bad while no script reads it.
Damage(a) ==
    /\ At("idle") /\ cache[a] = "good" /\ Fault
    /\ cache' = [cache EXCEPT ![a] = "bad"]
    /\ UNCHANGED <<pin, tree, verified, webview, script, shipped, state, ready, checkouts>>

\* "Remove that generated download and retry."
RemoveDownload(a) ==
    /\ At("idle") /\ cache[a] = "bad"
    /\ cache' = [cache EXCEPT ![a] = "absent"]
    /\ UNCHANGED <<pin, tree, verified, webview, script, shipped, state, ready, checkouts, faults>>

\* beforePack looks for a few files, the marker among them; the package
\* replaces the installed application.
Package ==
    /\ At("idle") /\ app = Closed
    /\ tree[pin.server][Jar] # Nothing /\ release[pin.server] # Nothing
    /\ bundle' = [files |-> kcef[pin.server], release |-> release[pin.server]]
    /\ mixed' = (mixed \/ ~ Whole(kcef[pin.server], release[pin.server]))
    /\ UNCHANGED <<pin, downloads, webview, script, state, ready, checkouts, faults>>

-----------------------------------------------------------------------------
(* Server.start in the installed application. *)

Shipped == {p \in Parts : bundle.files[p] # Nothing}

OnlyState == UNCHANGED <<pin, downloads, webview, script, shipped, ready, checkouts>>

\* Mutant: a WebView that is there is not replaced.
LaunchIfMissing ==
    /\ app = Closed /\ bundle.release # Nothing
    /\ app' = IF cefRelease # Nothing THEN [step |-> "up", left |-> {}]
                                      ELSE [step |-> "copy", left |-> Shipped]
    /\ OnlyState /\ UNCHANGED <<cef, cefRelease, torn, faults>>

\* The two markers are compared; only different ones lead to a copy.
Launch ==
    /\ app = Closed /\ bundle.release # Nothing
    /\ IF bundle.release = cefRelease
         THEN app' = [step |-> "up", left |-> {}] /\ UNCHANGED torn
         ELSE /\ app' = [step |-> "copy", left |-> Shipped]
              /\ torn' = (cefRelease # Nothing)
    /\ OnlyState /\ UNCHANGED <<cef, cefRelease, faults>>

CopyCef(p) ==
    /\ app.step = "copy" /\ p \in app.left
    /\ cef' = [cef EXCEPT ![p] = bundle.files[p]]
    /\ app' = [app EXCEPT !.left = @ \ {p}]
    /\ OnlyState /\ UNCHANGED <<cefRelease, torn, faults>>

\* The marker is written last; the engine may start.
MarkCef ==
    /\ app.step = "copy" /\ app.left = {}
    /\ cefRelease' = bundle.release /\ torn' = FALSE
    /\ app' = [app EXCEPT !.step = "up"]
    /\ OnlyState /\ UNCHANGED <<cef, faults>>

Close ==
    /\ app.step = "up"
    /\ app' = Closed
    /\ OnlyState /\ UNCHANGED <<cef, cefRelease, torn, faults>>

\* Of the file that is being written, nothing or a part is left; nobody tells
\* the two apart here, and Bad stands for both.
Kill ==
    /\ app.step = "copy" /\ Fault
    /\ app' = Closed
    /\ cef' = cef \/ \E p \in app.left : cef' = [cef EXCEPT ![p] = Bad]
    /\ OnlyState /\ UNCHANGED <<cefRelease, torn>>

-----------------------------------------------------------------------------
Step == Verify \/ Fetch \/ Mark \/ Publish \/ (\E p \in Parts : Unpack(p) \/ Copy(p))

Next ==
    \/ Bootstrap \/ PrepareWebview \/ Step \/ FetchFails \/ Interrupt \/ Package
    \/ \E new \in Pins : Checkout(new)
    \/ \E a \in Assets : Damage(a) \/ RemoveDownload(a)
    \/ Launch \/ (\E p \in Parts : CopyCef(p)) \/ MarkCef \/ Close \/ Kill

Spec == Init /\ [][Next]_vars

\* A script that runs goes on.  The developer runs bootstrap again and again,
\* among other things, and removes the downloads it complains about.
Fairness ==
    /\ WF_vars(Step)
    /\ SF_vars(Bootstrap)
    /\ SF_vars(\E a \in Assets : RemoveDownload(a))
FairSpec == Spec /\ Fairness

-----------------------------------------------------------------------------
(* Properties. *)

\* bootstrap.cjs: "Ready."  Whatever earlier runs were interrupted, for this
\* pin or others, and whatever became of the cached archives: a bootstrap that
\* finishes leaves every file of the pinned server and WebView.
ReadyIsWhole ==
    ready => /\ Whole(tree[pin.server], pin.server)
             /\ Whole(kcef[pin.server], pin.webview)
             /\ release[pin.server] = pin.webview

\* prepare-webview.cjs: "interrupted preparation cannot look like a finished
\* install".  That is so of a first install in a directory, and again after each
\* install that finishes: the marker means that every file is there.  It is not
\* so from the first file of a repeated install, of the same WebView or another,
\* until one finishes (redone): the marker stands meanwhile.
ReleaseMeansWhole ==
    \A s \in Servers \ redone, w \in Webviews :
        release[s] = w => Whole(kcef[s], w)

\* server.cjs: "Copy the marker last so interrupted first-run setup retries."
\* The engine runs with the WebView of the application's release, whatever
\* copies were interrupted, except when the user goes back to the release of the
\* marker after the copy of another one was interrupted (torn), and when the
\* packaged files were mixed.
EngineSeesWebview ==
    app.step = "up" => Whole(cef, bundle.release) \/ torn \/ mixed

\* A developer who repeats bootstrap gets there, after failed downloads, kills
\* and damaged archives.
BootstrapSucceeds ==
    \A new \in Pins : <>[](pin = new) => []<>ready
=============================================================================
