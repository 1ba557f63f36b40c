------------------------ MODULE MCDownloadMigration ------------------------
(***************************************************************************)
(* DownloadMigration for TLC, from fewer initial states.  The folders are  *)
(* interchangeable, so one of them is in use at first; and each file has a *)
(* content of its own, until somebody edits it or a copy is torn.          *)
(***************************************************************************)
EXTENDS DownloadMigration

CONSTANTS
    FirstDir,       \* the folder in use at first
    FirstFile,      \* the file whose content
    FirstContent    \* this is

MCInit ==
    /\ Init
    /\ savedPath = FirstDir
    /\ \A d \in Dirs, f \in Files :
         disk[d][f] # Absent => (f = FirstFile <=> disk[d][f] = FirstContent)

MCSpec == MCInit /\ [][Next]_vars /\ Fairness
=============================================================================
