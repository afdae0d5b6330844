----------------------------- MODULE MCAccountFiles -----------------------------
(***************************************************************************)
(* AccountFiles for TLC.                                                   *)
(***************************************************************************)
EXTENDS AccountFiles, TLC

\* All that an install can have, or only tokens and reports.
MCStarts == {Sides, {"tokens", "reports"}}

Symmetry == Permutations(Names)
=============================================================================
