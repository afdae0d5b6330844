---------------------------- MODULE MCTrashCommand ----------------------------
(***************************************************************************)
(* TrashCommand for TLC.  Commands are interchangeable, so are folders.   *)
(***************************************************************************)
EXTENDS TrashCommand, TLC

CommandSymmetry == Permutations(Commands)
FolderSymmetry == Permutations(Folders)
=============================================================================
