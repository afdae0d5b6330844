----------------------------- MODULE MCSyncEngine -----------------------------
(***************************************************************************)
(* SyncEngine for TLC.  Files and processes are interchangeable where no   *)
(* temporal property is checked.                                           *)
(***************************************************************************)
EXTENDS SyncEngine, TLC

Symmetry == Permutations(Files) \cup Permutations(Procs)
=============================================================================
