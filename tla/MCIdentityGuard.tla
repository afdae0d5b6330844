---------------------------- MODULE MCIdentityGuard ----------------------------
(***************************************************************************)
(* IdentityGuard for TLC: commands are alike, and so are Google accounts.  *)
(***************************************************************************)
EXTENDS IdentityGuard, TLC

Symmetry == Permutations(Procs) \cup Permutations(People)
=============================================================================
