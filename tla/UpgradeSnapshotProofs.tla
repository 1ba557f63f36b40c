------------------------ MODULE UpgradeSnapshotProofs ------------------------
(***************************************************************************)
(* Proofs about UpgradeSnapshot for every number of versions, every set of *)
(* items and contents and every bound.                                     *)
(*                                                                         *)
(* The argument.  The numbers are ordered (Order): the marker is never     *)
(* ahead of the database, no snapshot was taken of a database newer than   *)
(* the present one, and a boot that was not refused runs a version not     *)
(* older than the marker.  The directory that pending names is used and,   *)
(* while it is being written, incomplete (Directories).  What pending      *)
(* names, once complete, is a copy of the library as it is now, because    *)
(* nobody writes the library before the version is marked and pending      *)
(* dropped (Fresh); this is the only part that needs LegacyReturns = FALSE *)
(***************************************************************************)
EXTENDS UpgradeSnapshot, TLAPS

Booting == {"copy", "open", "waiting", "mark"}
Opened  == {"waiting", "mark", "using"}

Order ==
    /\ last <= schema
    /\ \A n \in Names : backups[n].complete => backups[n].schema <= schema
    /\ pc \in Booting => last <= ver
    /\ pc \in Opened => ver <= schema
    /\ pc # "off" => ver # Legacy
    /\ usedBy > Legacy => usedBy <= last

Directories ==
    /\ pending.to # None => pending.name \in Names /\ pending.name <= made
    /\ \A n \in Names : n > made => ~ backups[n].complete
    /\ pc = "copy" => /\ pending.to = ver
                      /\ ~ backups[pending.name].complete
                      /\ \A i \in Items \ todo :
                            backups[pending.name].got[i] = lib[i]

Fresh ==
    /\ pc = "using" => pending.to = None
    /\ pending.to # None /\ backups[pending.name].complete
         => backups[pending.name].sum = lib
    /\ pc = "open" /\ schema # None /\ schema < ver
         => \E n \in Names : n <= made /\ Protects(n)

IInv == TypeOK /\ Order /\ Directories /\ (LegacyReturns = FALSE => Fresh)

USE DEF Versions, Legacy, Names, None, Booting, Opened
USE VersionsAssumption, BoundsAssumption

-----------------------------------------------------------------------------
LEMMA InitIInv == Init => IInv
<1> SUFFICES ASSUME Init PROVE IInv
  OBVIOUS
<1>1. NewBackup \in Backup /\ ~ NewBackup.complete
  BY DEF NewBackup, Backup, NoCopy
<1>2. TypeOK
  <2>1. backups \in [Names -> Backup]
    BY <1>1 DEF Init
  <2>2. pending \in [to : Versions \cup {None}, name : Names \cup {None}]
    BY DEF Init, NoPending
  <2>3. schema \in Versions \cup {None} /\ usedBy \in Versions \cup {None}
    BY DEF Init
  <2>4. faults \in 0..MaxFaults /\ made \in Names \cup {None} /\ ver \in Versions
    BY DEF Init
  <2>5. damaged \in BOOLEAN /\ low \in BOOLEAN /\ todo \subseteq Items /\ lib \in Library
    BY DEF Init
  <2>6. last \in (Versions \ {Legacy}) \cup {None} /\ pc = "off"
    BY DEF Init
  <2> QED
    BY <2>1, <2>2, <2>3, <2>4, <2>5, <2>6, Zenon DEF TypeOK
<1>3. Order /\ Directories
  BY <1>1 DEF Init, Order, Directories, NoPending
<1>4. Fresh
  BY DEF Init, Fresh, NoPending
<1> QED
  BY <1>2, <1>3, <1>4 DEF IInv

-----------------------------------------------------------------------------
(* The parts that hold whatever 0.1.0 does. *)

Base == TypeOK /\ Order /\ Directories

\* A step that only moves the boot on, or off.
LEMMA PureStep ==
  ASSUME Base, UNCHANGED <<library, marker, store, todo, history>>,
         faults' \in 0..MaxFaults, low' \in BOOLEAN,
         \/ pc' = "off" /\ ver' \in Versions
         \/ pc' = "prepare" /\ ver' \in Versions \ {Legacy}
         \/ pc' = "open" /\ ver' = ver /\ last <= ver /\ ver # Legacy
         \/ pc = "waiting" /\ pc' = "mark" /\ ver' = ver
  PROVE  Base'
  BY DEF Base, TypeOK, Order, Directories, library, marker, store, history

LEMMA BaseBegin == Base /\ Begin => Base'
<1> SUFFICES ASSUME Base, Begin PROVE Base'
  OBVIOUS
<1> USE DEF Base, Begin, Complete, MustSnapshot, library, history
<1>1. TypeOK'
  BY DEF TypeOK
<1>2. Order'
  BY DEF TypeOK, Order
<1>3. Directories'
  BY DEF TypeOK, Order, Directories
<1> QED
  BY <1>1, <1>2, <1>3

LEMMA BaseCopyItem == ASSUME NEW i \in Items, Base, CopyItem(i) PROVE Base'
<1> DEFINE m == pending.name
<1>1. m \in Names /\ m <= made /\ ~ backups[m].complete /\ pending.to = ver
      /\ pc = "copy" /\ i \in todo
  BY DEF Base, Directories, CopyItem, TypeOK, Order
<1> DEFINE copy == [backups[m] EXCEPT !.got = [backups[m].got EXCEPT ![i] = lib[i]]]
<1>2. /\ backups' = [backups EXCEPT ![m] = copy]
      /\ todo' = todo \ {i}
      /\ UNCHANGED <<library, marker, made, pc, ver, history, faults>>
      /\ low' \in BOOLEAN
  BY DEF CopyItem, Base, TypeOK
<1>3. backups \in [Names -> Backup] /\ backups[m] \in Backup /\ lib \in Library
  BY <1>1 DEF Base, TypeOK
<1>4. /\ copy \in Backup
      /\ copy.complete = backups[m].complete /\ copy.schema = backups[m].schema
      /\ \A j \in Items : copy.got[j] = IF j = i THEN lib[i] ELSE backups[m].got[j]
  BY <1>3 DEF Backup, Library
<1> HIDE DEF copy
<1>5. backups' \in [Names -> Backup]
  BY <1>2, <1>3, <1>4
<1>6. \A n \in Names : /\ backups'[n].complete = backups[n].complete
                       /\ backups'[n].schema = backups[n].schema
  BY <1>1, <1>2, <1>3, <1>4
<1>7. \A j \in Items : backups'[m].got[j] = IF j = i THEN lib[i] ELSE backups[m].got[j]
  BY <1>1, <1>2, <1>3, <1>4
<1>8. TypeOK'
  BY <1>2, <1>5 DEF Base, TypeOK, library, marker, history
<1>9. Order'
  BY <1>1, <1>2, <1>6 DEF Base, Order, library, marker, history
<1>10. Directories'
  BY <1>1, <1>2, <1>6, <1>7 DEF Base, Directories, library, marker, history
<1> QED
  BY <1>8, <1>9, <1>10 DEF Base

LEMMA BaseWriteManifest == Base /\ WriteManifest => Base'
<1> SUFFICES ASSUME Base, WriteManifest PROVE Base'
  OBVIOUS
<1> DEFINE m == pending.name
<1> DEFINE whole == [backups[m] EXCEPT !.from = IF last = None THEN Legacy ELSE last,
                                       !.sum = lib, !.schema = schema,
                                       !.complete = TRUE]
<1>1. /\ m \in Names /\ m <= made /\ pending.to = ver
      /\ pc = "copy" /\ pc' = "open"
  BY DEF Base, Directories, WriteManifest, TypeOK, Order
<1>2. /\ backups' = [backups EXCEPT ![m] = whole]
      /\ UNCHANGED <<library, marker, made, low, ver, todo, history, faults>>
  BY DEF WriteManifest
<1>3. /\ backups \in [Names -> Backup] /\ backups[m] \in Backup
      /\ lib \in Library /\ schema \in Versions \cup {None}
      /\ last \in Versions \cup {None}
  BY <1>1 DEF Base, TypeOK
<1>4. whole \in Backup /\ whole.schema = schema
  <2>1. lib \in [Items -> Contents \cup {Missing}]
    BY <1>3 DEF Library
  <2> DEFINE from == IF last = None THEN Legacy ELSE last
  <2>2. from \in Versions
    BY <1>3
  <2> HIDE DEF from
  <2>3. whole = [backups[m] EXCEPT !.from = from, !.sum = lib, !.schema = schema,
                                   !.complete = TRUE]
    BY DEF from
  <2> QED
    BY <1>3, <2>1, <2>2, <2>3 DEF Backup
<1> HIDE DEF whole
<1>5. backups' \in [Names -> Backup]
  BY <1>2, <1>3, <1>4
<1>6. \A n \in Names : backups'[n] = IF n = m THEN whole ELSE backups[n]
  BY <1>2, <1>3
<1>7. TypeOK'
  BY <1>1, <1>2, <1>5 DEF Base, TypeOK, library, marker, history
<1>8. Order'
  BY <1>1, <1>2, <1>3, <1>4, <1>6 DEF Base, Order, TypeOK, library, marker, history
<1>9. Directories'
  BY <1>1, <1>2, <1>6 DEF Base, Directories, TypeOK, library, marker, history
<1> QED
  BY <1>7, <1>8, <1>9 DEF Base

LEMMA BaseOpenEngine == Base /\ OpenEngine => Base'
<1> SUFFICES ASSUME Base, OpenEngine PROVE Base'
  OBVIOUS
<1>1. /\ schema' \in Versions /\ schema <= schema' /\ ver <= schema'
      /\ pc = "open" /\ pc' = "waiting"
      /\ UNCHANGED <<lib, marker, store, low, ver, todo, history, faults>>
  BY DEF Base, OpenEngine, TypeOK
<1>2. \A n \in Names : backups[n].schema \in Versions \cup {None}
  BY DEF Base, TypeOK, Backup
<1> QED
  BY <1>1, <1>2 DEF Base, TypeOK, Order, Directories, marker, store, history

LEMMA BaseMark == Base /\ Mark => Base'
  BY DEF Base, Mark, TypeOK, Order, Directories, NoPending, library, store

LEMMA BaseUserWrites ==
  ASSUME NEW i \in Items, NEW c \in Contents, Base, UserWrites(i, c) PROVE Base'
<1>1. lib' \in Library /\ pc = "using"
  BY DEF Base, UserWrites, TypeOK, Library
<1> QED
  BY <1>1 DEF Base, UserWrites, TypeOK, Order, Directories, marker, store,
              process, history

LEMMA BaseLegacySession ==
  ASSUME NEW i \in Items, NEW c \in Contents, Base, LegacySession(i, c)
  PROVE  Base'
<1>1. lib' \in Library /\ pc = "off" /\ last = None
  BY DEF Base, LegacySession, TypeOK, Library
<1>2. schema' \in Versions \cup {None} /\ schema <= schema'
      /\ usedBy' \in Versions \cup {None}
      /\ usedBy' > Legacy => usedBy' = usedBy
  BY DEF Base, LegacySession, TypeOK
<1>3. \A n \in Names : backups[n].schema \in Versions \cup {None}
  BY DEF Base, TypeOK, Backup
<1> QED
  BY <1>1, <1>2, <1>3 DEF Base, LegacySession, TypeOK, Order, Directories, marker,
                          store, process

LEMMA BaseDamage ==
  ASSUME NEW n \in Names, NEW i \in Items, NEW c \in Contents, Base,
         Damage(n, i, c)
  PROVE  Base'
<1> DEFINE hurt == [backups[n] EXCEPT !.got = [backups[n].got EXCEPT ![i] = c]]
<1>1. /\ backups' = [backups EXCEPT ![n] = hurt]
      /\ damaged' = TRUE /\ pc = "off"
      /\ UNCHANGED <<library, marker, made, low, process, usedBy>>
      /\ faults' \in 0..MaxFaults
  BY DEF Base, TypeOK, Damage, Fault
<1>2. backups \in [Names -> Backup] /\ backups[n] \in Backup
  BY DEF Base, TypeOK
<1>3. /\ hurt \in Backup
      /\ hurt.complete = backups[n].complete /\ hurt.schema = backups[n].schema
  BY <1>2 DEF Backup
<1> HIDE DEF hurt
<1>4. /\ backups' \in [Names -> Backup]
      /\ \A k \in Names : /\ backups'[k].complete = backups[k].complete
                          /\ backups'[k].schema = backups[k].schema
  BY <1>1, <1>2, <1>3
<1>5. TypeOK'
  BY <1>1, <1>4 DEF Base, TypeOK, library, marker, process
<1>6. Order'
  BY <1>1, <1>4 DEF Base, Order, library, marker, process
<1>7. Directories'
  BY <1>1, <1>4 DEF Base, Directories, library, marker, process
<1> QED
  BY <1>5, <1>6, <1>7 DEF Base

LEMMA NextBase == Base /\ [Next]_vars => Base'
<1> SUFFICES ASSUME Base, [Next]_vars PROVE Base'
  OBVIOUS
<1>0. faults \in 0..MaxFaults /\ ver \in Versions /\ low \in BOOLEAN
  BY DEF Base, TypeOK
<1>1. CASE SkipSnapshot
  <2>1. last <= ver /\ ver # Legacy
    BY <1>1 DEF SkipSnapshot, Base, Order, TypeOK
  <2> QED
    BY <1>0, <1>1, <2>1, PureStep DEF SkipSnapshot
<1>2. CASE Refuse
  BY <1>0, <1>2, PureStep DEF Refuse
<1>3. CASE Reuse
  <2>1. last <= ver /\ ver # Legacy
    BY <1>3 DEF Reuse, MustSnapshot, Base, Order, TypeOK
  <2> QED
    BY <1>0, <1>3, <2>1, PureStep DEF Reuse
<1>4. CASE Begin
  BY <1>4, BaseBegin
<1>5. CASE NoSpace
  BY <1>0, <1>5, PureStep DEF NoSpace
<1>6. CASE \E i \in Items : CopyItem(i)
  BY <1>6, BaseCopyItem
<1>7. CASE WriteManifest
  BY <1>7, BaseWriteManifest
<1>8. CASE OpenEngine
  BY <1>8, BaseOpenEngine
<1>9. CASE EngineReady
  BY <1>0, <1>9, PureStep DEF EngineReady
<1>10. CASE Mark
  BY <1>10, BaseMark
<1>11. CASE Close
  BY <1>0, <1>11, PureStep DEF Close
<1>12. CASE Stop
  BY <1>12 DEF Stop, Fault, Base, TypeOK, Order, Directories, library, marker,
               store, history
<1>13. CASE \E v \in Versions \ {Legacy} : Launch(v)
  BY <1>0, <1>13, PureStep DEF Launch
<1>14. CASE \E i \in Items, c \in Contents : UserWrites(i, c) \/ LegacySession(i, c)
  BY <1>14, BaseUserWrites, BaseLegacySession
<1>15. CASE \E n \in Names, i \in Items, c \in Contents : Damage(n, i, c)
  BY <1>15, BaseDamage
<1>16. CASE FillDisk \/ FreeSpace
  <2>1. UNCHANGED <<lib, schema, last, pending, backups, made, pc, ver, todo,
                   usedBy, damaged>>
    BY <1>16 DEF FillDisk, FreeSpace, library, marker, store, process, history
  <2>2. low' \in BOOLEAN
    BY <1>16 DEF FillDisk, FreeSpace
  <2>3. faults' \in 0..MaxFaults
    BY <1>0, <1>16 DEF FillDisk, FreeSpace, Fault
  <2> QED
    BY <2>1, <2>2, <2>3 DEF Base, TypeOK, Order, Directories
<1>17. CASE UNCHANGED vars
  BY <1>17 DEF vars, Base, TypeOK, Order, Directories, library, marker, store,
               process, history, Protects
<1> QED
  BY <1>1, <1>2, <1>3, <1>4, <1>5, <1>6, <1>7, <1>8, <1>9, <1>10, <1>11, <1>12,
     <1>13, <1>14, <1>15, <1>16, <1>17 DEF Next, Program
-----------------------------------------------------------------------------
(* The part that needs 0.1.0 not to come back. *)

LEMMA NextFresh ==
  Base /\ Fresh /\ LegacyReturns = FALSE /\ [Next]_vars => Fresh'
<1> SUFFICES ASSUME Base, Fresh, LegacyReturns = FALSE, [Next]_vars PROVE Fresh'
  OBVIOUS
<1>0. /\ backups \in [Names -> Backup] /\ made \in Names \cup {None}
      /\ pending \in [to : Versions \cup {None}, name : Names \cup {None}]
      /\ ver \in Versions /\ schema \in Versions \cup {None}
      /\ last \in Versions \cup {None}
  BY DEF Base, TypeOK
\* A step that leaves library, marker and snapshots alone and opens nothing.
<1>1. ASSUME UNCHANGED <<lib, marker, store>>, pc' \notin {"open", "using"}
      PROVE  Fresh'
  BY <1>1 DEF Fresh, marker, store
<1>2. CASE SkipSnapshot
  <2>1. schema = None \/ ver <= schema
    BY <1>0, <1>2 DEF SkipSnapshot, Base, Order
  <2> QED
    BY <1>0, <1>2, <2>1 DEF SkipSnapshot, Fresh, library, marker, store
<1>3. CASE Reuse
  <2> DEFINE m == pending.name
  <2>1. /\ m \in Names /\ m <= made /\ pending.to = ver /\ pending.to # None
        /\ backups[m].complete /\ backups[m].sum = lib
        /\ backups[m].schema <= schema /\ backups[m].schema \in Versions \cup {None}
    BY <1>0, <1>3 DEF Reuse, Complete, MustSnapshot, Base, Directories, Order, Fresh,
          Backup
  <2>2. UNCHANGED <<library, marker, store, ver>> /\ pc' # "using"
    BY <1>3 DEF Reuse
  <2>3. CASE pc' # "open"
    BY <2>2, <2>3, <1>1 DEF library
  <2>4. CASE pc' = "open"
    <3>1. backups[m].got = backups[m].sum
      BY <1>3, <2>4 DEF Reuse
    <3>2. schema < ver => Protects(m)
      BY <1>0, <2>1, <3>1 DEF Protects
    <3>3. Protects(m) => Protects(m)'
      BY <2>2 DEF Protects, library, marker, store
    <3> QED
      BY <2>1, <2>2, <2>4, <3>2, <3>3 DEF Fresh, library, marker, store
  <2> QED
    BY <2>3, <2>4
<1>4. CASE Begin
  <2>1. pending' = pending \/ pending' = [to |-> ver, name |-> made + 1]
    BY <1>4 DEF Begin
  <2>2. pending' = pending => ~ backups[pending.name].complete
    BY <1>0, <1>4 DEF Begin, Complete
  <2>3. pending'.name = made + 1 /\ pending' # pending
          => made + 1 \in Names /\ ~ backups[made + 1].complete
    BY <1>0, <1>4 DEF Begin, Base, Directories
  <2>4. pc' = "copy" /\ UNCHANGED <<library, backups>>
    BY <1>4 DEF Begin
  <2> QED
    BY <2>1, <2>2, <2>3, <2>4 DEF Fresh, library
<1>5. CASE \E i \in Items : CopyItem(i)
  <2> PICK i \in Items : CopyItem(i)
    BY <1>5
  <2>1. pending.name \in Names /\ ~ backups[pending.name].complete
    BY <1>0 DEF CopyItem, Base, Directories, Order
  <2>2. ~ backups'[pending.name].complete
    BY <1>0, <2>1 DEF CopyItem, Backup
  <2> QED
    BY <2>2 DEF CopyItem, Fresh, library, marker
<1>6. CASE WriteManifest
  <2> DEFINE m == pending.name
  <2>1. /\ m \in Names /\ m <= made /\ pc' = "open" /\ lib \in Library
        /\ \A i \in Items : backups[m].got[i] = lib[i]
        /\ backups[m].got \in [Items -> Contents \cup {Missing}]
    BY <1>0, <1>6 DEF WriteManifest, Base, Directories, Order, TypeOK, Backup
  <2>2. backups[m].got = lib
    BY <2>1 DEF Library
  <2>3. /\ backups'[m].complete /\ backups'[m].sum = lib
        /\ backups'[m].got = backups[m].got /\ backups'[m].schema = schema
        /\ UNCHANGED <<library, marker, made, ver>>
    BY <1>0, <1>6, <2>1 DEF WriteManifest, Backup
  <2>4. schema < ver => Protects(m)'
    BY <2>2, <2>3 DEF Protects, library, marker
  <2> QED
    BY <2>1, <2>3, <2>4 DEF Fresh, library, marker
<1>7. CASE OpenEngine
  BY <1>7, <1>1 DEF OpenEngine
<1>8. CASE Mark
  BY <1>8 DEF Mark, NoPending, Fresh
<1>9. CASE \E i \in Items, c \in Contents : UserWrites(i, c)
  BY <1>9 DEF UserWrites, Fresh, marker, store, process
<1>10. CASE \E i \in Items, c \in Contents : LegacySession(i, c)
  <2>1. made = 0 /\ pc = "off" /\ UNCHANGED <<marker, store, process>>
    BY <1>10 DEF LegacySession
  <2>2. pending.to = None
    BY <1>0, <2>1 DEF Base, Directories
  <2> QED
    BY <2>1, <2>2 DEF Fresh, marker, process
<1>11. CASE \E n \in Names, i \in Items, c \in Contents : Damage(n, i, c)
  <2> PICK n \in Names, i \in Items, c \in Contents : Damage(n, i, c)
    BY <1>11
  <2>1. \A k \in Names : /\ backups'[k].complete = backups[k].complete
                        /\ backups'[k].sum = backups[k].sum
    BY <1>0 DEF Damage, Backup
  <2>2. pc' = "off" /\ UNCHANGED <<library, marker>>
    BY DEF Damage, process
  <2>3. pending.to # None => pending.name \in Names
    BY DEF Base, Directories
  <2> QED
    BY <2>1, <2>2, <2>3 DEF Fresh, library, marker
<1>12. CASE Refuse \/ NoSpace \/ EngineReady \/ Close \/ Stop
  BY <1>12, <1>1 DEF Refuse, NoSpace, EngineReady, Close, Stop, library
<1>13. CASE \E v \in Versions \ {Legacy} : Launch(v)
  BY <1>13, <1>1 DEF Launch, library
<1>14. CASE FillDisk \/ FreeSpace
  BY <1>14 DEF FillDisk, FreeSpace, Fresh, Protects, library, marker, store, process
<1>15. CASE UNCHANGED vars
  BY <1>15 DEF vars, Fresh, Protects, library, marker, store, process
<1> QED
  BY <1>2, <1>3, <1>4, <1>5, <1>6, <1>7, <1>8, <1>9, <1>10, <1>11, <1>12, <1>13,
     <1>14, <1>15 DEF Next, Program

LEMMA NextIInv == IInv /\ [Next]_vars => IInv'
  BY NextBase, NextFresh DEF IInv, Base

-----------------------------------------------------------------------------
\* The inductive invariant holds in every reachable state.
THEOREM Invariance == Spec => []IInv
  BY InitIInv, NextIInv, PTL DEF Spec

\* Types are kept; in particular the marker never names 0.1.0.
THEOREM TypeCorrect == Spec => []TypeOK
<1>1. IInv => TypeOK
  BY DEF IInv
<1> QED
  BY <1>1, Invariance, PTL

\* When 0.1.0 does not come back, no newer engine opens an existing library
\* of which there is no intact snapshot as it is at that moment.
THEOREM SnapshotComesFirst ==
  ASSUME LegacyReturns = FALSE PROVE Spec => SnapshotBeforeOpen
<1>1. IInv => [OpenEngine /\ schema # None /\ schema < ver
                 => \E n \in Names : n <= made /\ Protects(n)]_vars
  BY DEF IInv, Fresh, OpenEngine
<1> QED
  BY <1>1, Invariance, PTL DEF SnapshotBeforeOpen

\* Whatever 0.1.0 does, a version the user has worked with is not followed by
\* an older one.
THEOREM NeverDowngraded == Spec => NoDowngrade
<1>1. IInv => [OpenEngine => ver >= usedBy]_vars
  <2> SUFFICES ASSUME IInv, OpenEngine PROVE ver >= usedBy
    OBVIOUS
  <2>1. /\ ver \in Versions /\ usedBy \in Versions \cup {None}
        /\ last \in Versions \cup {None}
        /\ last <= ver /\ (usedBy > Legacy => usedBy <= last)
    BY DEF IInv, TypeOK, Order, OpenEngine
  <2> QED
    BY <2>1
<1> QED
  BY <1>1, Invariance, PTL DEF NoDowngrade

\* The program writes into no snapshot that has its manifest.
THEOREM SnapshotsStay == Spec => SnapshotsAreFinal
<1>1. IInv => [\A n \in Names :
                 Program /\ backups[n].complete => backups'[n] = backups[n]]_vars
  <2> SUFFICES ASSUME IInv, NEW n \in Names, Program, backups[n].complete
               PROVE  backups'[n] = backups[n]
    OBVIOUS
  <2>1. backups \in [Names -> Backup]
    BY DEF IInv, TypeOK
  <2>2. pc = "copy" => pending.name # n
    BY DEF IInv, Directories
  <2>3. CASE \E i \in Items : CopyItem(i)
    BY <2>1, <2>2, <2>3 DEF CopyItem
  <2>4. CASE WriteManifest
    BY <2>1, <2>2, <2>4 DEF WriteManifest
  <2>5. CASE UNCHANGED backups
    BY <2>5
  <2> QED
    BY <2>3, <2>4, <2>5 DEF Program, SkipSnapshot, Refuse, Reuse, Begin, NoSpace,
       OpenEngine, EngineReady, Mark, store
<1> QED
  BY <1>1, Invariance, PTL DEF SnapshotsAreFinal
=============================================================================
