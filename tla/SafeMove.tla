------------------------------ MODULE SafeMove ------------------------------
(***************************************************************************)
(* What moving the download folder promises (README.md of the repository,  *)
(* "moves downloads through a verified, resumable migration").  A reader   *)
(* of the settings file sees one folder name and the files in that folder. *)
(* A move replaces the name and, in the same instant, shows the same       *)
(* files: there is no moment at which a part of the library is missing.    *)
(* What else may appear with it is a file under a name of Extras that the  *)
(* library did not have.  Files that others edited since the move was      *)
(* asked for are exempt.                                                   *)
(***************************************************************************)
CONSTANTS Dirs, Files, Data, Absent, Extras

VARIABLES
    path,      \* the folder the settings name
    shelf,     \* the files in it
    edited     \* files others edited since the move was asked for

vars == <<path, shelf, edited>>

Init ==
    /\ path \in Dirs
    /\ shelf \in [Files -> Data]
    /\ edited = {}

\* A new move is asked for: from here on its exemptions count.
Ask ==
    /\ edited' = {}
    /\ UNCHANGED <<path, shelf>>

\* The move takes effect, all at once.
Move(d) ==
    /\ path' = d
    /\ shelf' \in [Files -> Data]
    /\ \A f \in Files \ edited :
         shelf[f] # Absent \/ f \notin Extras => shelf'[f] = shelf[f]
    /\ UNCHANGED edited

\* Others write, replace or remove a file, in this folder or in another one.
Edit(f) ==
    /\ edited' = edited \cup {f}
    /\ shelf' \in [Files -> Data]
    /\ \A g \in Files \ {f} : shelf'[g] = shelf[g]
    /\ UNCHANGED path

Next ==
    \/ Ask
    \/ \E d \in Dirs : d # path /\ Move(d)
    \/ \E f \in Files : Edit(f)

Spec == Init /\ [][Next]_vars
=============================================================================
