----------------------------- MODULE MCMoveCommand -----------------------------
(***************************************************************************)
(* MoveCommand for TLC.  New folders are interchangeable.                 *)
(***************************************************************************)
EXTENDS MoveCommand, TLC

CONSTANTS d, f, n, o

Symmetry == Permutations(Fresh)

\* To a folder by its id, to a path that must exist, to one that is made.
MCAsks ==
  {[want |-> {f}, at |-> d, path |-> <<>>, provision |-> FALSE],
   [want |-> {d, f}, at |-> Root, path |-> <<>>, provision |-> FALSE],
   [want |-> {d}, at |-> Root, path |-> <<o>>, provision |-> TRUE],
   [want |-> {d, f}, at |-> Root, path |-> <<n, o>>, provision |-> TRUE]}

\* The file has the name of the folder, or another one; the folder is not managed; the
\* folder, or the file, is shared by others and shows no parent.
MCStarts ==
  {[name |-> [i \in Ids |-> n], manageable |-> Ids, shared |-> {f}],
   [name |-> [i \in Ids |-> IF i = f THEN o ELSE n], manageable |-> Ids, shared |-> {}],
   [name |-> [i \in Ids |-> IF i = f THEN o ELSE n], manageable |-> Ids \ {d}, shared |-> {}],
   [name |-> [i \in Ids |-> IF i = f THEN o ELSE n], manageable |-> Ids, shared |-> {d}]}
=============================================================================
