------------------------- MODULE DefaultStoreProofs -------------------------
(***************************************************************************)
(* Proofs about both registrations of the default extension store,         *)
(* DefaultStore (desktop) and AndroidDefaultStore, which share no state,   *)
(* for every bound on requests and faults.                                 *)
(*                                                                         *)
(* Desktop.  Neither property is inductive.  That the marker means a       *)
(* registration rests on what the attempt knows before it writes the       *)
(* marker (Answered).  That a recorded removal stays rests on there being  *)
(* no attempt once the marker is there (Unrecorded), and on the phases of  *)
(* Gone being closed: no call in one of them reads or fetches the store.   *)
(*                                                                         *)
(* Android.  The inductive invariant adds to the types what the mutex and  *)
(* the preference protect: inside the mutex the setup still finds          *)
(* completed false (SetupPending), and both a removal that returned and a  *)
(* refresh leave it true (Remembered).                                     *)
(***************************************************************************)
EXTENDS DefaultStore, AndroidDefaultStore, TLAPS

\* The engine has answered: the store was there, and only the user and the
\* watcher take it away.
Answered == pc = "mark" => present \/ dismissed \/ dropped

\* An attempt begins only without the marker, and only it writes the marker.
Unrecorded == pc \in {"query", "adding"} => ~ marker

IInv == TypeOK /\ Answered /\ Unrecorded /\ MarkedMeansRegistered

USE CallsAssumption, BoundsAssumption

LEMMA InitIInv == Init => IInv
<1> SUFFICES ASSUME Init PROVE IInv
  OBVIOUS
<1>1. faults \in 0..MaxFaults /\ work \in [Workers -> Phases]
  BY DEF Init, Phases
<1>2. \A w \in Workers : work[w] = "idle"
  BY DEF Init
<1>3. present \in BOOLEAN /\ conf \in BOOLEAN /\ listed \in BOOLEAN
  BY Zenon DEF Init
<1> QED
  BY <1>1, <1>2, <1>3, Zenon
     DEF Init, IInv, TypeOK, Answered, Unrecorded, MarkedMeansRegistered

\* What Goto does to the workers.
LEMMA GotoEffect ==
  ASSUME work \in [Workers -> Phases], NEW w \in Workers, NEW phase \in Phases,
         Goto(w, phase)
  PROVE  /\ work' \in [Workers -> Phases]
         /\ work'[w] = phase
         /\ \A v \in Workers : v # w => work'[v] = work[v]
  BY DEF Goto

LEMMA CallsWork == Calls \subseteq Workers /\ Watcher \in Workers
  BY DEF Workers

\* The two ways the engine's memory is made anew.
LEMMA EngineMade ==
  ASSUME conf \in BOOLEAN, EngineStarts \/ EngineStops
  PROVE  /\ listed' \in BOOLEAN /\ dirty' = FALSE /\ work' \in [Workers -> Phases]
         /\ engine' \in {"off", "on"} /\ listed' = conf
         /\ EngineStarts => engine' = "on"
         /\ EngineStops => \A w \in Workers : work'[w] = "idle"
         /\ \A w \in Workers : work'[w] \in {"idle", "prefs"}
<1>1. CASE EngineStarts
  <2>1. engine' = "on" /\ listed' = conf /\ dirty' = FALSE
    BY <1>1, Zenon DEF EngineStarts
  <2>2. work' = [w \in Workers |-> IF w = Watcher THEN "prefs" ELSE "idle"]
    BY <1>1, Zenon DEF EngineStarts
  <2>3. /\ work' \in [Workers -> Phases]
        /\ \A w \in Workers : work'[w] \in {"idle", "prefs"}
    BY <2>2 DEF Phases
  <2>4. ~ EngineStops
    BY <2>1, Zenon DEF EngineStops
  <2> QED
    BY <2>1, <2>3, <2>4, Zenon
<1>2. CASE EngineStops
  <2>1. engine' = "off" /\ listed' = conf /\ dirty' = FALSE
    BY <1>2, Zenon DEF EngineStops
  <2>2. work' = [w \in Workers |-> "idle"]
    BY <1>2, Zenon DEF EngineStops
  <2>3. /\ work' \in [Workers -> Phases]
        /\ \A w \in Workers : work'[w] = "idle"
    BY <2>2 DEF Phases
  <2>4. ~ EngineStarts
    BY <2>1, Zenon DEF EngineStarts
  <2> QED
    BY <2>1, <2>3, <2>4, Zenon
<1> QED
  BY <1>1, <1>2

\* Types and bounds of a failed attempt.
LEMMA RetryEffect ==
  ASSUME Retry
  PROVE  pc' \in {"idle", "waiting"} /\ page' = TRUE /\ own' = NoCall
  BY Zenon DEF Retry

LEMMA NextIInv == IInv /\ [Next]_vars => IInv'
<1> SUFFICES ASSUME IInv, [Next]_vars PROVE IInv'
  OBVIOUS
<1> USE DEF IInv, TypeOK, Answered, Unrecorded, MarkedMeansRegistered
<1>0. faults \in 0..MaxFaults /\ (Fault => faults' \in 0..MaxFaults)
  BY DEF Fault
<1>1. CASE Launch
  BY <1>1, EngineMade, Zenon DEF Launch, app, past
<1>2. CASE Check
  <2>1. /\ pc' = (IF marker THEN "idle" ELSE "query") /\ page' = (page \/ marker)
        /\ UNCHANGED <<present, conf, listed, dirty, work, engine, marker, own,
                       moving, quitting, asked, dismissed, dropped, faults>>
        /\ pc = "check"
    BY <1>2, Zenon DEF Check, kept, app, past
  <2> QED
    BY <2>1
<1>3. CASE Query
  <2>1. /\ pc = "query" /\ engine # "off"
        /\ UNCHANGED <<present, conf, listed, dirty, engine, marker, page, moving,
                       quitting, asked, dismissed, dropped, faults>>
    BY <1>3, Zenon DEF Query, app, past
  <2>2. CASE present /\ pc' = "mark" /\ UNCHANGED <<work, own>>
    BY <2>1, <2>2
  <2>3. CASE \E c \in Calls : /\ pc' = "adding" /\ own' = c
                              /\ Goto(c, "register")
    <3>1. PICK c \in Calls : pc' = "adding" /\ own' = c /\ Goto(c, "register")
      BY <2>3
    <3>2. work' \in [Workers -> Phases]
      BY <3>1, GotoEffect, CallsWork DEF Phases
    <3> QED
      BY <2>1, <3>1, <3>2
  <2> QED
    BY <1>3, <2>2, <2>3 DEF Query, Goto
<1>4. CASE AttemptFails
  <2>1. faults' \in 0..MaxFaults
    BY <1>0, <1>4, Zenon DEF AttemptFails
  <2>2. /\ Retry
        /\ UNCHANGED <<present, conf, listed, dirty, work, engine, marker, moving,
                       quitting, asked, dismissed, dropped>>
    BY <1>4, Zenon DEF AttemptFails, kept, app, past
  <2> QED
    BY <2>1, <2>2, RetryEffect
<1>5. CASE AddTimesOut
  <2>1. /\ Retry /\ faults' \in 0..MaxFaults
        /\ UNCHANGED <<present, conf, listed, dirty, work, engine, marker, moving,
                       quitting, asked, dismissed, dropped>>
    BY <1>0, <1>5, Zenon DEF AddTimesOut, kept, app, past
  <2> QED
    BY <2>1, RetryEffect
<1>6. CASE WriteMarker
  BY <1>6, Zenon DEF WriteMarker, kept, app, past
<1>7. CASE TimerFires
  <2>1. /\ pc = "waiting" /\ pc' \in {"idle", "waiting", "check"}
        /\ UNCHANGED <<present, conf, listed, dirty, work, engine, marker, own,
                       page, moving, quitting, asked, dismissed, dropped, faults>>
    BY <1>7 DEF TimerFires, kept, app, past
  <2> QED
    BY <2>1
<1>8. CASE EngineEnds
  <2>1. faults' \in 0..MaxFaults
    BY <1>0, <1>8, Zenon DEF EngineEnds
  <2>2. /\ EngineStops /\ own' = NoCall
        /\ UNCHANGED <<present, conf, marker, pc, page, moving, quitting, asked,
                       dismissed, dropped>>
    BY <1>8, Zenon DEF EngineEnds, app, past
  <2> QED
    BY <2>1, <2>2, EngineMade
<1>9. CASE SaveConf
  <2>1. /\ conf' = listed
        /\ UNCHANGED <<present, listed, dirty, work, engine, marker, pc, own, page,
                       moving, quitting, asked, dismissed, dropped, faults>>
    BY <1>9, Zenon DEF SaveConf, shell, app, past
  <2> QED
    BY <2>1
<1>10. CASE WatcherWakes
  <2>1. work' \in [Workers -> Phases] /\ engine # "off"
    BY <1>10, GotoEffect, CallsWork DEF WatcherWakes, Phases
  <2>2. /\ dirty' \in BOOLEAN
        /\ UNCHANGED <<present, conf, listed, engine, marker, pc, own, page,
                       moving, quitting, asked, dismissed, dropped, faults>>
    BY <1>10, Zenon DEF WatcherWakes, shell, app, past
  <2> QED
    BY <2>1, <2>2
<1>11. CASE WatcherCompares
  <2>1. work' \in [Workers -> Phases] /\ engine # "off"
    BY <1>11, GotoEffect, CallsWork DEF WatcherCompares, Phases
  <2> QED
    BY <1>11, <2>1 DEF WatcherCompares, shell, app, past
<1>12. ASSUME NEW w \in Workers, Upsert(w) PROVE IInv'
  <2>1. work' \in [Workers -> Phases] /\ engine # "off"
    BY <1>12, GotoEffect DEF Upsert, Phases
  <2>2. dismissed' \in BOOLEAN /\ dropped' \in BOOLEAN
    BY <1>12, Zenon DEF Upsert
  <2> QED
    BY <1>12, <2>1, <2>2 DEF Upsert, shell, app
<1>13. ASSUME NEW w \in Workers, Delete(w) PROVE IInv'
  <2>1. work' \in [Workers -> Phases] /\ engine # "off"
    BY <1>13, GotoEffect DEF Delete, Phases
  <2>2. /\ dismissed' \in BOOLEAN /\ dropped' \in BOOLEAN
        /\ dismissed' \/ dropped'
    BY <1>13, Zenon DEF Delete
  <2>3. /\ present' \in BOOLEAN
        /\ UNCHANGED <<conf, listed, dirty, engine, marker, pc, own, page,
                       moving, quitting, asked, faults>>
    BY <1>13, Zenon DEF Delete, shell, app
  <2>4. pc = "mark" => dismissed' \/ dropped'
    BY <2>2, Zenon
  <2> QED
    BY <2>1, <2>2, <2>3, <2>4
<1>14. ASSUME NEW w \in Workers, ReadTable(w) PROVE IInv'
  <2>1. work' \in [Workers -> Phases] /\ engine # "off"
    BY <1>14, GotoEffect DEF ReadTable, Phases
  <2> QED
    BY <1>14, <2>1 DEF ReadTable, shell, app, past
<1>15. ASSUME NEW w \in Workers, SetPrefs(w) PROVE IInv'
  <2>1. work' \in [Workers -> Phases] /\ engine # "off"
    BY <1>15, GotoEffect DEF SetPrefs, Phases
  <2>2. listed' \in BOOLEAN /\ dirty' \in BOOLEAN
    BY <1>15, Zenon DEF SetPrefs
  <2>3. UNCHANGED <<present, conf, engine, marker, moving, quitting, asked,
                    dismissed, dropped, faults>>
    BY <1>15, Zenon DEF SetPrefs, app, past
  <2>4. CASE UNCHANGED <<pc, own, page>>
    BY <2>1, <2>2, <2>3, <2>4
  <2>5. CASE present /\ pc' = "mark" /\ own' = NoCall /\ UNCHANGED page
    BY <2>1, <2>2, <2>3, <2>5
  <2>6. CASE Retry
    BY <2>1, <2>2, <2>3, <2>6, RetryEffect
  <2> QED
    BY <1>15, <2>4, <2>5, <2>6 DEF SetPrefs, shell
<1>16. CASE \E c \in Calls : RefreshBegins(c)
  <2>1. work' \in [Workers -> Phases]
    BY <1>16, GotoEffect, CallsWork DEF RefreshBegins, Phases
  <2> QED
    BY <1>16, <2>1 DEF RefreshBegins, shell, app, past
<1>17. CASE \E c \in Calls : UserRemoves(c)
  <2>1. work' \in [Workers -> Phases]
    BY <1>17, GotoEffect, CallsWork DEF UserRemoves, Phases
  <2> QED
    BY <1>0, <1>17, <2>1 DEF UserRemoves, shell, app, past
<1>18. CASE \E c \in Calls : UserAdds(c)
  <2>1. work' \in [Workers -> Phases]
    BY <1>18, GotoEffect, CallsWork DEF UserAdds, Phases
  <2> QED
    BY <1>0, <1>18, <2>1 DEF UserAdds, shell, app, past
<1>19. CASE \E w \in Workers : FetchFails(w)
  <2> PICK w \in Workers : FetchFails(w)
    BY <1>19
  <2>1. work' \in [Workers -> Phases] /\ engine # "off"
    BY GotoEffect DEF FetchFails, Phases
  <2>2. /\ faults' \in 0..MaxFaults
        /\ UNCHANGED <<present, conf, listed, dirty, engine, marker, moving,
                       quitting, asked, dismissed, dropped>>
    BY <1>0, Zenon DEF FetchFails, app, past
  <2>3. Retry \/ UNCHANGED <<pc, own, page>>
    BY Zenon DEF FetchFails, shell
  <2>4. CASE Retry
    BY <2>1, <2>2, <2>4, RetryEffect
  <2>5. CASE UNCHANGED <<pc, own, page>>
    BY <2>1, <2>2, <2>5
  <2> QED
    BY <2>3, <2>4, <2>5
<1>20. CASE MoveBegins
  <2>1. /\ engine' \in {"off", "on", "closing"} /\ (engine' = "off" => engine = "off")
        /\ UNCHANGED <<present, conf, listed, dirty, work, marker, pc, own, page,
                       quitting, asked, dismissed, dropped>>
        /\ moving' = TRUE /\ faults' \in 0..MaxFaults
    BY <1>0, <1>20 DEF MoveBegins, kept, shell, past
  <2> QED
    BY <2>1
<1>21. CASE MoveEnds
  <2>1. /\ moving' \in BOOLEAN
        /\ UNCHANGED <<present, conf, marker, pc, own, page, quitting, asked,
                       dismissed, dropped>>
    BY <1>21, Zenon DEF MoveEnds, shell, past
  <2>2. CASE EngineStarts /\ UNCHANGED faults
    BY <2>1, <2>2, EngineMade
  <2>3. CASE Fault /\ UNCHANGED <<engine, listed, dirty, work>>
    <3>1. faults' \in 0..MaxFaults /\ UNCHANGED <<engine, listed, dirty, work>>
      BY <1>0, <2>3, Zenon
    <3> QED
      BY <2>1, <3>1
  <2> QED
    BY <1>21, <2>2, <2>3 DEF MoveEnds
<1>22. CASE Quit
  <2>1. /\ engine' \in {"off", "on", "closing"} /\ (engine' = "off" => engine = "off")
        /\ pc' = pc \/ (pc = "waiting" /\ pc' = "idle")
        /\ UNCHANGED <<present, conf, listed, dirty, work, marker, own, page, moving,
                       dismissed, dropped>>
        /\ quitting' = TRUE /\ asked' = TRUE
    BY <1>22 DEF Quit, kept, past
  <2>2. faults' \in 0..MaxFaults
    BY <1>0, <1>22, Zenon DEF Quit
  <2> QED
    BY <2>1, <2>2
<1>23. CASE QuitExpires
  <2>1. /\ quitting' \in BOOLEAN /\ faults' \in 0..MaxFaults
        /\ UNCHANGED <<present, conf, listed, dirty, work, engine, marker, pc, own,
                       page, moving, asked, dismissed, dropped>>
    BY <1>0, <1>23, Zenon DEF QuitExpires, kept, shell, past
  <2> QED
    BY <2>1
<1>24. CASE Exit \/ Crash
  <2>1. faults' \in 0..MaxFaults /\ Off
    BY <1>0, <1>24, Zenon DEF Exit, Crash
  <2> QED
    BY <2>1, EngineMade DEF Off, past
<1>25. CASE UNCHANGED vars
  BY <1>25 DEF vars, kept, shell, app, past
<1>26. CASE \E w \in Workers : Worker(w)
  BY <1>12, <1>13, <1>14, <1>15, <1>26, Zenon DEF Worker
<1> QED
  BY <1>1, <1>2, <1>3, <1>4, <1>5, <1>6, <1>7, <1>8, <1>9, <1>10, <1>11, <1>16,
     <1>17, <1>18, <1>19, <1>20, <1>21, <1>22, <1>23, <1>24, <1>25, <1>26,
     CallsWork, Zenon DEF Next, Setup, Watch

\* The inductive invariant holds in every reachable state.
THEOREM Invariance == Spec => []IInv
  BY InitIInv, NextIInv, PTL DEF Spec

\* Types are kept; no call is open in an engine that is gone.
THEOREM TypeCorrect == Spec => []TypeOK
<1>1. IInv => TypeOK
  BY DEF IInv
<1> QED
  BY <1>1, Invariance, PTL

\* default-repository.json is never written for a store that has not been
\* registered.
THEOREM MarkerIsTrue == Spec => []MarkedMeansRegistered
<1>1. IInv => MarkedMeansRegistered
  BY DEF IInv
<1> QED
  BY <1>1, Invariance, PTL

\* The phases that neither hold a row that was read nor ask for the store.
Blank == {"idle", "delete", "sync", "unlist", "prefs", "unwanted"}

\* A step of worker w into a phase of Blank that leaves the store's absence in
\* the table, the setting and server.conf as it is keeps Gone.
LEMMA GoneByGoto ==
  ASSUME TypeOK, Gone, NEW w \in Workers, NEW phase \in Blank, Goto(w, phase),
         ~ present', ~ listed', ~ conf'
  PROVE  Gone'
<1>1. \A v \in Workers : v # w => work'[v] = work[v]
  BY GotoEffect DEF TypeOK, Blank, Phases
<1>2. work'[w] = phase
  BY GotoEffect DEF TypeOK, Blank, Phases
<1>3. \A v \in Workers : work'[v] \in Blank
  BY <1>1, <1>2 DEF Gone, Blank
<1> QED
  BY <1>3, Zenon DEF Gone, Blank

\* A new or stopped engine knows of the store what server.conf says.
LEMMA GoneByEngine ==
  ASSUME TypeOK, Gone, EngineStarts \/ EngineStops, UNCHANGED <<present, conf>>
  PROVE  Gone'
<1>1. /\ listed' = conf
      /\ \A w \in Workers : work'[w] \in {"idle", "prefs"}
  BY EngineMade DEF TypeOK
<1>2. ~ present' /\ ~ conf' /\ ~ listed'
  BY <1>1, Zenon DEF Gone
<1>3. \A w \in Workers : work'[w] \in Blank
  BY <1>1 DEF Blank
<1> QED
  BY <1>2, <1>3, Zenon DEF Gone, Blank

\* Once the marker is written, a store whose removal is in the table, the
\* setting and server.conf comes back by the user's hand only.
THEOREM RecordedRemovalStays == Spec => RemovalStays
<1>1. ASSUME IInv, marker, Gone, [Next]_vars
      PROVE  Gone' \/ \E c \in Calls : UserAdds(c)
  <2> USE <1>1
  <2>1. TypeOK /\ Unrecorded /\ ~ present /\ ~ listed /\ ~ conf
    BY Zenon DEF IInv, Gone
  <2>2. \A w \in Workers : work[w] \in Blank
    BY Zenon DEF Gone, Blank
  <2>3. ASSUME UNCHANGED <<present, conf, listed, work>> PROVE Gone'
    BY <2>3, Zenon DEF Gone
  <2>4. CASE Launch
    BY <2>1, <2>4, GoneByEngine, Zenon DEF Launch
  <2>5. CASE Setup \/ AttemptFails \/ AddTimesOut
    <3>1. pc # "query"
      BY <2>1 DEF Unrecorded
    <3> QED
      BY <2>3, <2>5, <3>1, Zenon
         DEF Setup, Check, Query, WriteMarker, TimerFires, AttemptFails,
             AddTimesOut, kept
  <2>6. CASE EngineEnds
    BY <2>1, <2>6, GoneByEngine, Zenon DEF EngineEnds
  <2>7. CASE SaveConf
    BY <2>1, <2>7, Zenon DEF SaveConf, Gone
  <2>8. CASE WatcherWakes
    <3>1. Goto(Watcher, "prefs") /\ UNCHANGED <<present, conf, listed>>
      BY <2>8, Zenon DEF WatcherWakes
    <3> QED
      BY <2>1, <3>1, GoneByGoto, CallsWork, Zenon DEF Blank
  <2>9. CASE WatcherCompares
    <3>1. /\ UNCHANGED <<present, conf, listed>>
          /\ \E phase \in {"idle", "unwanted", "wanted", "renew", "delete"} :
                /\ Goto(Watcher, phase)
                /\ phase \in {"wanted", "renew"} => work[Watcher] = "wanted"
      <4>1. UNCHANGED <<present, conf, listed>>
        BY <2>9, Zenon DEF WatcherCompares
      <4>2. CASE work[Watcher] = "prefs"
        BY <2>1, <2>9, <4>1, <4>2 DEF WatcherCompares
      <4>3. CASE work[Watcher] = "unwanted"
        BY <2>1, <2>9, <4>1, <4>3 DEF WatcherCompares
      <4> QED
        BY <2>2, <2>9, <4>2, <4>3, CallsWork DEF WatcherCompares, Blank
    <3>2. PICK phase \in {"idle", "unwanted", "delete"} : Goto(Watcher, phase)
      BY <2>2, <3>1, CallsWork DEF Blank
    <3> QED
      BY <2>1, <3>1, <3>2, GoneByGoto, CallsWork DEF Blank
  <2>10. CASE \E w \in Workers : Worker(w)
    <3> PICK w \in Workers : Worker(w)
      BY <2>10
    <3>1. ~ Upsert(w)
      BY <2>2 DEF Upsert, Blank
    <3>2. CASE Delete(w)
      <4>1. Goto(w, "sync") /\ present' = FALSE /\ UNCHANGED <<conf, listed>>
        BY <3>2, Zenon DEF Delete
      <4> QED
        BY <2>1, <4>1, GoneByGoto, Zenon DEF Blank
    <3>3. CASE ReadTable(w)
      <4>1. Goto(w, "unlist") /\ UNCHANGED <<present, conf, listed>>
        BY <2>1, <3>3, Zenon DEF ReadTable
      <4> QED
        BY <2>1, <4>1, GoneByGoto, Zenon DEF Blank
    <3>4. CASE SetPrefs(w)
      <4>1. work[w] # "list"
        BY <2>2 DEF Blank
      <4>2. Goto(w, "idle") /\ ~ listed' /\ UNCHANGED <<present, conf>>
        BY <3>4, <4>1, Zenon DEF SetPrefs
      <4> QED
        BY <2>1, <4>2, GoneByGoto, Zenon DEF Blank
    <3> QED
      BY <3>1, <3>2, <3>3, <3>4, Zenon DEF Worker
  <2>11. CASE \E c \in Calls : RefreshBegins(c) \/ UserRemoves(c)
    BY <2>1, <2>11, Zenon DEF RefreshBegins, UserRemoves
  <2>12. CASE \E w \in Workers : FetchFails(w)
    <3>1. PICK w \in Workers : FetchFails(w)
      BY <2>12
    <3> QED
      BY <2>2, <3>1 DEF FetchFails, Blank
  <2>13. CASE MoveEnds
    BY <2>1, <2>3, <2>13, GoneByEngine, Zenon DEF MoveEnds
  <2>14. CASE MoveBegins \/ Quit \/ QuitExpires
    BY <2>3, <2>14, Zenon DEF MoveBegins, Quit, QuitExpires, kept
  <2>15. CASE Exit \/ Crash
    BY <2>1, <2>15, GoneByEngine, Zenon DEF Exit, Crash, Off
  <2>16. CASE UNCHANGED vars
    BY <2>3, <2>16, Zenon DEF vars, kept
  <2> QED
    BY <2>4, <2>5, <2>6, <2>7, <2>8, <2>9, <2>10, <2>11, <2>12, <2>13, <2>14,
       <2>15, <2>16, CallsWork, Zenon DEF Next, Watch
<1>2. IInv /\ [Next]_vars
      => [marker /\ Gone => Gone' \/ \E c \in Calls : UserAdds(c)]_vars
  BY <1>1, Zenon
<1> QED
  BY <1>2, Invariance, PTL DEF Spec, RemovalStays

-----------------------------------------------------------------------------
(* Android. *)

\* What the setup read at its first step holds as long as it has the mutex.
SetupPending == InSetup => ~ completed

\* The preference remembers both ways the setup can be over.
Remembered ==
    /\ removed => completed
    /\ refreshed => completed
    /\ setup = "refresh" => completed /\ ~ refreshed

AndroidIInv == AndroidTypeOK /\ SetupPending /\ Remembered

LEMMA AndroidInitIInv == AndroidInit => AndroidIInv
<1> SUFFICES ASSUME AndroidInit PROVE AndroidIInv
  OBVIOUS
<1>1. stores \subseteq Kinds
  BY DEF AndroidInit
<1>2. "other" \in Kinds /\ 0 \in 0..MaxFailures
  BY FailuresAssumption DEF Kinds
<1>3. ~ InSetup /\ ~ InRemoval
  BY DEF AndroidInit, InSetup, InRemoval
<1>4. AndroidTypeOK
  BY <1>1, <1>2, <1>3 DEF AndroidInit, AndroidTypeOK, Nobody
<1> QED
  BY <1>3, <1>4 DEF AndroidInit, AndroidIInv, SetupPending, Remembered

\* Every step keeps the invariant: one case per action.
LEMMA AndroidNextIInv == AndroidIInv /\ [AndroidNext]_androidVars => AndroidIInv'
<1> SUFFICES ASSUME AndroidIInv, [AndroidNext]_androidVars PROVE AndroidIInv'
  OBVIOUS
<1> USE DEF AndroidIInv, AndroidTypeOK, SetupPending, Remembered, InSetup, InRemoval, Nobody,
        call, history
<1> USE FailuresAssumption
<1>1. CASE Start  BY <1>1 DEF Start
<1>2. CASE Enter  BY <1>2 DEF Enter
<1>3. CASE Read   BY <1>3 DEF Read, GiveUp
<1>4. CASE Insert BY <1>4 DEF Insert, Kinds
<1>5. CASE Complete BY <1>5 DEF Complete
<1>6. CASE Backoff  BY <1>6 DEF Backoff
<1>7. CASE Refresh  BY <1>7 DEF Refresh
<1>8. CASE CallFails
  BY <1>8 DEF CallFails, GiveUp, Failure
<1>9. CASE \E s \in Kinds : UserRemovesStore(s)
  BY <1>9 DEF UserRemovesStore
<1>10. CASE RemoveEnter
  BY <1>10 DEF RemoveEnter, DefaultUrl, OfficialKey
<1>11. CASE RemoveDelete
  BY <1>11 DEF RemoveDelete
<1>12. CASE RemoveComplete
  BY <1>12 DEF RemoveComplete, Unlock
<1>13. CASE RemoveFails
  BY <1>13 DEF RemoveFails, Unlock, Failure
<1>14. CASE \E s \in Kinds : UserAddsStore(s)
  BY <1>14 DEF UserAddsStore
<1>15. CASE Kill
  BY <1>15 DEF Kill, Failure
<1>16. CASE UNCHANGED androidVars
  BY <1>16 DEF androidVars
<1> QED
  BY <1>1, <1>2, <1>3, <1>4, <1>5, <1>6, <1>7, <1>8, <1>9, <1>10, <1>11, <1>12,
     <1>13, <1>14, <1>15, <1>16 DEF AndroidNext, SetupJob, Removal

\* The inductive invariant holds in every reachable state.
THEOREM AndroidInvariance == AndroidSpec => []AndroidIInv
  BY AndroidInitIInv, AndroidNextIInv, PTL DEF AndroidSpec

\* Types are kept and the mutex is held by the call inside it.
THEOREM AndroidTypeCorrect == AndroidSpec => []AndroidTypeOK
<1>1. AndroidIInv => AndroidTypeOK
  BY DEF AndroidIInv
<1> QED
  BY <1>1, AndroidInvariance, PTL

\* The user's deletion wins: the setup inserts nothing after remove returned.
THEOREM DeletionWins == AndroidSpec => RemovalWins
<1>1. AndroidIInv => [Insert => ~ removed]_androidVars
  BY DEF AndroidIInv, SetupPending, Remembered, InSetup, Insert
<1> QED
  BY <1>1, AndroidInvariance, PTL DEF RemovalWins

\* The one catalog refresh is not repeated.
THEOREM RefreshedOnce == AndroidSpec => OneRefresh
<1>1. AndroidIInv => [Refresh => ~ refreshed]_androidVars
  BY DEF AndroidIInv, Remembered, Refresh
<1> QED
  BY <1>1, AndroidInvariance, PTL DEF OneRefresh
=============================================================================
