-------------------------- MODULE MCAndroidSource --------------------------
(* TLC instance of AndroidSource: one file of each kind, and the two copies *)
(* that the recipe makes, one of a file it writes and one of the archive's. *)
EXTENDS AndroidSource, TLC

CONSTANTS notice, license, noticeCopy, licenseCopy

MCCopyOf == (noticeCopy :> notice) @@ (licenseCopy :> license)
=============================================================================
