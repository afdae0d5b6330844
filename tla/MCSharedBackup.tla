----------------------------- MODULE MCSharedBackup -----------------------------
(***************************************************************************)
(* SharedBackup for TLC: a document with two formats, files that may       *)
(* share a path, one whose path is the part file of another, a folder, and *)
(* a Google Earth project the reuse manifest has a file for.               *)
(***************************************************************************)
EXTENDS SharedBackup, TLC

CONSTANTS doc, one, two, odd, dir, earth, p, q, r, s, e, to, at

\* s is the part file of p, and the path of another file.
MCTargets ==
  [i \in Items |-> CASE i = doc -> <<p, q>> [] i \in {one, two} -> <<r>> [] i = odd -> <<s>>
                     [] i = earth -> <<e>> [] OTHER -> << >>]

MCPart ==
  [x \in {p, q, r, s, e} \cap UNION {Range(MCTargets[i]) : i \in Items} |->
     IF x = p THEN s ELSE at]

\* What was matched lies where the part file of another will be.
MCReuse == [i \in {earth} \cap Items |-> [from |-> s, to |-> to]]

\* One file comes later.
MCStarts == {[shared |-> Items \ {one}, held |-> Items \ {one, dir}]}

MCBackupRank ==
  [i \in Items |-> CASE i = dir -> 1 [] i = doc -> 2 [] i \in {one, two} -> 3 [] i = odd -> 4
                     [] i = earth -> 5]
MCCleanupRank ==
  [i \in Items |-> CASE i = odd -> 1 [] i = dir -> 2 [] i = one -> 3 [] i = two -> 4
                     [] i = earth -> 5 [] i = doc -> 6]
=============================================================================
