--------------------------- MODULE MCSyncEngine ---------------------------
(***************************************************************************)
(* SyncEngine with one or two tasks, one or two folders and one file; in   *)
(* the run on the reach of a scan two files, one of them beyond it.        *)
(***************************************************************************)
EXTENDS SyncEngine, TLC

TaskSymmetry == Permutations(Tasks)
=============================================================================
