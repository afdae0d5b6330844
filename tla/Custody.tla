-------------------------------- MODULE Custody --------------------------------
(***************************************************************************)
(* What backup and declutter promise together: a file is let go of only    *)
(* when a copy of it is kept, and a copy once kept stays until a newer one *)
(* of the same file takes its place.                                       *)
(***************************************************************************)
EXTENDS Naturals

CONSTANT Things   \* the files the promise is about

VARIABLES
  now,       \* the version each file is at
  kept,      \* whole copies on the local disk: of a file, at a version
  released   \* files taken out of My Drive

Init ==
  /\ now = [t \in Things |-> 0]
  /\ kept = {}
  /\ released = {}

\* Somebody edits a file.
Revise ==
  /\ \E t \in Things : now' = [now EXCEPT ![t] = @ + 1]
  /\ UNCHANGED <<kept, released>>

\* The copy of a file is complete; older ones may go for it.
Keep ==
  /\ \E t \in Things : \E v \in 0 .. now[t], old \in SUBSET kept :
       /\ \A c \in old : c.of = t /\ c.ver <= v
       /\ kept' = (kept \ old) \cup {[of |-> t, ver |-> v]}
  /\ UNCHANGED <<now, released>>

\* A file whose copy is kept is let go of.
LetGo ==
  /\ \E c \in kept : released' = released \cup {c.of}
  /\ UNCHANGED <<now, kept>>

Spec == Init /\ [][Revise \/ Keep \/ LetGo]_<<now, kept, released>>
=============================================================================
