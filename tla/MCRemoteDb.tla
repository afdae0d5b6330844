------------------------------ MODULE MCRemoteDb ------------------------------
(***************************************************************************)
(* RemoteDb for TLC: which process runs where.                             *)
(***************************************************************************)
EXTENDS RemoteDb, TLC

\* A machine for each process, or one for all.
OwnHost == [p \in Procs |-> p]
SharedHost == [p \in Procs |-> CHOOSE m \in Machines : TRUE]

\* With a machine for each process, the pairs are interchangeable.
Symmetry == Permutations(Machines)
=============================================================================
