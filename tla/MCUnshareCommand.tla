---------------------------- MODULE MCUnshareCommand ----------------------------
(***************************************************************************)
(* UnshareCommand for TLC: a folder in a folder, with a file, the operator *)
(* and somebody else, and the ways they can own and share them.            *)
(***************************************************************************)
EXTENDS UnshareCommand, TLC

CONSTANTS a, b, f, me, g

\* The file is in the inner folder, or, shared on its own, beside the outer one.
MCTrees == {[i \in Items |-> CASE i = a -> Root [] i = b -> a [] i = f -> p] : p \in {b, Root}}

MCOwners ==
  {[i \in Items |-> me], [i \in Items |-> IF i = f THEN g ELSE me],
   [i \in Items |-> IF i = a THEN g ELSE me]}

\* One grant at the top, one at the top and one further down, two further down.
MCGrants == {{<<a, g>>}, {<<a, g>>, <<b, g>>}, {<<b, g>>, <<f, g>>}}

MCStarts ==
  {s \in [tree : MCTrees, direct : MCGrants, owner : MCOwners,
          managed : {Items, {i \in Items : i # a}}] :
     /\ \A i \in Items : s.owner[i] = me => i \in s.managed
     /\ s.tree[f] = Root => <<f, g>> \in s.direct}

MCAsks ==
  {[want |-> {a, b, f}, who |-> {g}, retain |-> FALSE],
   [want |-> {b, f}, who |-> {g}, retain |-> FALSE],
   [want |-> {a, f}, who |-> {me, g}, retain |-> FALSE],
   [want |-> {a, f}, who |-> {g}, retain |-> TRUE]}
=============================================================================
