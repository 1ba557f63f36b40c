------------------------ MODULE AndroidDefaultStore ------------------------
(***************************************************************************)
(* Registering the default extension store on Android: ensureRegistered    *)
(* and remove of BihonDefaultExtensionStore, which share a Mutex, and      *)
(* start of BihonDefaultExtensionStoreSetup, which retries in the          *)
(* background (android/source).  The database and the preferences are kept *)
(* over a kill of the process; nothing else is.                            *)
(*                                                                         *)
(* A store is its kind, whatever two stores of a kind differ in: pinned    *)
(* (the published URL and key), alias (another published URL, the key),    *)
(* mirror (a foreign URL, the key), rogue (a published URL, another key),  *)
(* other.                                                                  *)
(*                                                                         *)
(* Names that DefaultStore has too carry the platform here, since          *)
(* DefaultStoreProofs extends both.                                        *)
(***************************************************************************)
EXTENDS Naturals

CONSTANT MaxFailures    \* bound: failed calls and kills

ASSUME FailuresAssumption == MaxFailures \in Nat

Kinds      == {"pinned", "alias", "mirror", "rogue", "other"}
DefaultUrl == {"pinned", "alias", "rogue"}     \* isDefaultUrl
OfficialKey == {"pinned", "alias", "mirror"}   \* signingKey == SIGNING_KEY
DefaultStores == DefaultUrl \cup OfficialKey   \* isDefaultStore
Nobody     == "nobody"

VARIABLES
    stores,     \* persistent: the database's extension stores
    completed,  \* persistent: the preference COMPLETED_KEY
    lock,       \* who holds the mutex
    setup,      \* where the job of start() is
    removal,    \* where the call of remove() is
    target,     \* its store
    isDefault,  \* what it found out
    removed,    \* history: remove() of a default store returned, and the user
                \* has added none since
    refreshed,  \* history: the one catalog refresh was made
    failures    \* bound counter

call    == <<removal, target, isDefault>>
history == <<removed, refreshed>>
androidVars == <<stores, completed, lock, setup, call, history, failures>>

\* Inside the mutex.
InSetup   == setup \in {"read", "insert", "complete"}
InRemoval == removal \in {"delete", "complete"}

AndroidTypeOK ==
    /\ stores \subseteq Kinds /\ completed \in BOOLEAN
    /\ lock \in {Nobody, "setup", "remove"}
    /\ setup \in {"off", "enter", "read", "insert", "complete", "backoff",
                  "refresh", "done"}
    /\ removal \in {"none", "enter", "delete", "complete"}
    /\ target \in Kinds /\ isDefault \in BOOLEAN
    /\ removed \in BOOLEAN /\ refreshed \in BOOLEAN
    /\ failures \in 0..MaxFailures
    /\ lock = "setup" <=> InSetup
    /\ lock = "remove" <=> InRemoval

\* A new installation, or one with the stores of an earlier version.
AndroidInit ==
    /\ stores \in SUBSET Kinds
    /\ completed = FALSE /\ lock = Nobody
    /\ setup = "off"
    /\ removal = "none" /\ target = "other" /\ isDefault = FALSE
    /\ removed = FALSE /\ refreshed = FALSE
    /\ failures = 0

Failure == failures < MaxFailures /\ failures' = failures + 1

-----------------------------------------------------------------------------
(* start and ensureRegistered. *)

\* The application starts, or start() is called again: one job at a time.
Start ==
    /\ setup \in {"off", "done"}
    /\ setup' = "enter"
    /\ UNCHANGED <<stores, completed, lock, call, history, failures>>

\* Mutant: true although an earlier call finished the setup.
EnterTrue ==
    /\ setup = "enter" /\ lock = Nobody
    /\ IF completed
         THEN setup' = "refresh" /\ UNCHANGED lock
         ELSE setup' = "read" /\ lock' = "setup"
    /\ UNCHANGED <<stores, completed, call, history, failures>>

\* ensureRegistered takes the mutex; completed before: it returns false.
Enter ==
    /\ setup = "enter" /\ lock = Nobody
    /\ IF completed
         THEN setup' = "done" /\ UNCHANGED lock
         ELSE setup' = "read" /\ lock' = "setup"
    /\ UNCHANGED <<stores, completed, call, history, failures>>

\* The exception leaves the mutex; the job waits 30 s and tries again.
GiveUp == lock' = Nobody /\ setup' = "backoff"

\* getAll: the first default store in the database's order is checked for its
\* key; without one the pinned store will be added.
Read ==
    /\ setup = "read"
    /\ \/ /\ stores \cap DefaultStores = {}
          /\ setup' = "insert" /\ UNCHANGED lock
       \/ \E existing \in stores \cap DefaultStores :
             IF existing \in OfficialKey
               THEN setup' = "complete" /\ UNCHANGED lock
               ELSE GiveUp
    /\ UNCHANGED <<stores, completed, call, history, failures>>

Insert ==
    /\ setup = "insert"
    /\ stores' = stores \cup {"pinned"}
    /\ setup' = "complete"
    /\ UNCHANGED <<completed, lock, call, history, failures>>

Complete ==
    /\ setup = "complete"
    /\ completed' = TRUE 
    /\ lock' = Nobody /\ setup' = "refresh"
    /\ UNCHANGED <<stores, call, history, failures>>

\* Mutant: the exception ends the job.
CallFailsForGood ==
    /\ InSetup /\ Failure
    /\ lock' = Nobody /\ setup' = "done"
    /\ UNCHANGED <<stores, completed, call, history>>

\* The database or the preferences throw.
CallFails ==
    /\ InSetup /\ Failure
    /\ GiveUp
    /\ UNCHANGED <<stores, completed, call, history>>

Backoff ==
    /\ setup = "backoff"
    /\ setup' = "enter"
    /\ UNCHANGED <<stores, completed, lock, call, history, failures>>

\* The catalog is loaded, or is not within 30 s: no second try.
Refresh ==
    /\ setup = "refresh"
    /\ refreshed' = TRUE
    /\ setup' = "done"
    /\ UNCHANGED <<stores, completed, lock, call, removed, failures>>

-----------------------------------------------------------------------------
(* remove, called for the user. *)

UserRemovesStore(s) ==
    /\ setup # "off" /\ removal = "none"
    /\ removal' = "enter" /\ target' = s
    /\ UNCHANGED <<stores, completed, lock, setup, isDefault, history, failures>>

RemoveEnter ==
    /\ removal = "enter" /\ lock = Nobody
    /\ lock' = "remove"
    /\ isDefault' = (target \in DefaultUrl \/ target \in stores \cap OfficialKey)
    /\ removal' = "delete"
    /\ UNCHANGED <<stores, completed, setup, target, history, failures>>

RemoveDelete ==
    /\ removal = "delete"
    /\ stores' = stores \ {target}
    /\ removal' = "complete"
    /\ UNCHANGED <<completed, lock, setup, target, isDefault, history, failures>>

\* Leaving the mutex; nothing is done to one that another holds.
Unlock == lock' = IF lock = "remove" THEN Nobody ELSE lock

\* Mutant: the preference is left alone.
RemoveForgets ==
    /\ removal = "complete"
    /\ removed' = (removed \/ isDefault)
    /\ Unlock /\ removal' = "none"
    /\ UNCHANGED <<stores, completed, setup, target, isDefault, refreshed, failures>>

\* The preference is set, and remove returns to the user.
RemoveComplete ==
    /\ removal = "complete"
    /\ completed' = (completed \/ isDefault)
    /\ removed' = (removed \/ isDefault)
    /\ Unlock /\ removal' = "none"
    /\ UNCHANGED <<stores, setup, target, isDefault, refreshed, failures>>

RemoveFails ==
    /\ InRemoval /\ Failure
    /\ Unlock /\ removal' = "none"
    /\ UNCHANGED <<stores, completed, setup, target, isDefault, history>>

-----------------------------------------------------------------------------
(* The environment. *)

\* The user adds a store on the application's own path, without the mutex.
UserAddsStore(s) ==
    /\ setup # "off" /\ s \notin stores
    /\ stores' = stores \cup {s}
    /\ removed' = (removed /\ s \notin DefaultStores)
    /\ UNCHANGED <<completed, lock, setup, call, refreshed, failures>>

Kill ==
    /\ setup # "off" /\ Failure
    /\ setup' = "off"
    /\ lock' = Nobody /\ removal' = "none"
    /\ UNCHANGED <<stores, completed, target, isDefault, history>>

-----------------------------------------------------------------------------
SetupJob == Enter \/ Read \/ Insert \/ Complete \/ Backoff \/ Refresh
Removal  == RemoveEnter \/ RemoveDelete \/ RemoveComplete

AndroidNext ==
    \/ Start \/ SetupJob \/ CallFails
    \/ \E s \in Kinds : UserRemovesStore(s)
    \/ Removal \/ RemoveFails
    \/ \E s \in Kinds : UserAddsStore(s)
    \/ Kill

AndroidSpec == AndroidInit /\ [][AndroidNext]_androidVars

\* The job and a call of remove go on; a released mutex is handed over; the
\* user opens the application again.
AndroidFairness ==
    /\ WF_androidVars(SetupJob) /\ SF_androidVars(Enter)
    /\ WF_androidVars(Removal) /\ SF_androidVars(RemoveEnter)
    /\ WF_androidVars(setup = "off" /\ Start)

AndroidFairSpec == AndroidSpec /\ AndroidFairness

-----------------------------------------------------------------------------
(* Properties. *)

\* "Serialize explicit removal with setup, so the user's deletion wins either
\* ordering": once remove has returned, the setup adds no default store,
\* whichever of the two was called first and whatever was killed or retried.
RemovalWins == [][ Insert => ~ removed ]_androidVars

\* ensureRegistered returns true at most once in the life of an installation,
\* so the catalog is refreshed at most once for it.
OneRefresh == [][ Refresh => ~ refreshed ]_androidVars

\* The setup ends, unless a store with a published URL and a foreign key stays:
\* that one is neither trusted nor replaced.
SetupSettles == []<> (completed \/ "rogue" \in stores)
=============================================================================
