-------------------------- MODULE TrashCommandProofs --------------------------
(***************************************************************************)
(* Theorems of TrashCommand, for every set of items and commands.          *)
(***************************************************************************)
EXTENDS TrashCommand, TLAPS

-----------------------------------------------------------------------------
(* Types and the audit trail.                                              *)

\* What the phase of a command says of the row it is applying.
RowInv(c) ==
  /\ pc[c] \in {"trash", "audit", "history"} => current[c] \in Items
  /\ pc[c] = "trash" =>
       [cmd |-> c, action |-> "trash_file_pending", item |-> current[c]] \in audit
  /\ pc[c] = "audit" => [cmd |-> c, item |-> current[c]] \in calls
  /\ pc[c] = "history" =>
       [cmd |-> c, action |-> "trash_file", item |-> current[c]] \in audit

AuditInv ==
  /\ TypeOK
  /\ AuditBracketsCall
  /\ \A c \in Commands : RowInv(c)

LEMMA SubtreeOfItems == \A tree, i : Subtree(tree, i) \subseteq Items
BY DEF Subtree

LEMMA WithoutIsTree ==
  ASSUME NEW tree \in Trees, NEW gone PROVE Without(tree, gone) \in Trees
<1>1. \A i \in Items : (IF i \in gone THEN Out ELSE tree[i]) \in Places
  BY DEF Trees, Places
<1> QED
  BY <1>1 DEF Trees, Without

LEMMA AuditInvInit == Init => AuditInv
<1> SUFFICES ASSUME Init PROVE AuditInv
  OBVIOUS
<1>1. Nothing \in Trees
  BY DEF Nothing, Trees, Places
<1>2. drive \in Trees /\ edits \in 0 .. MaxEdits
  BY BoundsAssumption DEF Init
<1>3. TypeOK
  BY <1>1, <1>2 DEF Init, TypeOK, Phases
<1>4. AuditBracketsCall
  BY DEF Init, AuditBracketsCall
<1> QED
  BY <1>3, <1>4 DEF Init, AuditInv, RowInv

\* What is left of a process that ends.
LEMMA ExitTyped ==
  ASSUME TypeOK, NEW c \in Commands, NEW phase \in Phases, Exit(c, phase)
  PROVE  /\ pc' \in [Commands -> Phases] /\ wanted' \in [Commands -> SUBSET Items]
         /\ recursive' \in [Commands -> BOOLEAN] /\ plan' \in [Commands -> SUBSET Items]
         /\ view' \in [Commands -> Trees] /\ todo' \in [Commands -> SUBSET Items]
         /\ current' \in [Commands -> Items \cup {Out}] /\ left' \in [Commands -> SUBSET Items]
<1>1. Nothing \in Trees
  BY DEF Nothing, Trees, Places
<1> QED
  BY <1>1 DEF Exit, Goto, TypeOK

\* What others do leaves every command and its records alone.
LEMMA AuditInvOthers ==
  ASSUME AuditInv, (\E i \in Items : EditDrive(i)) \/ SyncElsewhere PROVE AuditInv'
<1> USE DEF AuditInv
<1>1. /\ UNCHANGED <<owned, manageable, audit, history, pc, local, released, calls, trashed>>
      /\ crossed' \in BOOLEAN /\ drive' \in Trees /\ mirror' \in Trees /\ synced' \in BOOLEAN
      /\ edits' \in 0 .. MaxEdits
  <2>1. ASSUME NEW i \in Items, EditDrive(i)
        PROVE  /\ UNCHANGED <<owned, manageable, database, pc, local, events>>
               /\ drive' \in Trees /\ edits' \in 0 .. MaxEdits
    <3>1. ASSUME NEW tree \in Trees, Edit(tree)
          PROVE  /\ UNCHANGED <<owned, manageable, database, pc, local, events>>
                 /\ drive' \in Trees /\ edits' \in 0 .. MaxEdits
      BY <3>1, BoundsAssumption DEF Edit, TypeOK
    <3>2. \A place \in {Root} \cup (Folders \cap Present(drive)) :
            [drive EXCEPT ![i] = place] \in Trees
      BY ItemsAssumption DEF TypeOK, Trees, Places
    <3>3. Without(drive, Subtree(drive, i)) \in Trees
      BY WithoutIsTree DEF TypeOK
    <3> QED
      BY <2>1, <3>1, <3>2, <3>3 DEF EditDrive
  <2>2. CASE SyncElsewhere
    BY <2>2 DEF SyncElsewhere, remote, TypeOK
  <2> QED
    BY <2>1, <2>2 DEF database, events, TypeOK
<1>2. TypeOK'
  BY <1>1 DEF TypeOK, local
<1> QED
  BY <1>1, <1>2 DEF AuditBracketsCall, RowInv, local

\* A step of one command.
LEMMA AuditInvCommand ==
  ASSUME AuditInv, NEW c \in Commands, Command(c) PROVE AuditInv'
<1> USE DEF AuditInv
<1>1. ASSUME NEW want \in SUBSET Items, NEW rec \in BOOLEAN, Preview(c, want, rec)
      PROVE  AuditInv'
  <2>1. TypeOK'
    BY <1>1 DEF Preview, PreviewNeeding, Goto, TypeOK, remote, database, Phases, Running
  <2> QED
    BY <1>1, <2>1
    DEF Preview, PreviewNeeding, Goto, TypeOK, RowInv, AuditBracketsCall, remote, database
<1>2. CASE Release(c)
  <2>1. TypeOK'
    BY <1>2 DEF Release, Goto, TypeOK, remote, database, local, Phases, Running
  <2> QED
    BY <1>2, <2>1
    DEF Release, Goto, TypeOK, RowInv, AuditBracketsCall, remote, database, local
<1>3. CASE ApplyTrash(c)
  <2>1. TypeOK'
    BY <1>3
    DEF ApplyTrash, Goto, TypeOK, remote, database, events, Phases, Running, Rows, Actionable
  <2> QED
    BY <1>3, <2>1
    DEF ApplyTrash, Goto, TypeOK, RowInv, AuditBracketsCall, remote, database, events
<1>4. CASE Reload(c)
  <2>1. TypeOK'
    BY <1>4 DEF Reload, Goto, TypeOK, remote, database, events, Phases, Running
  <2> QED
    BY <1>4, <2>1 DEF Reload, Goto, TypeOK, RowInv, AuditBracketsCall, remote, database, events
<1>5. CASE AuditPending(c)
  <2>1. PICK i \in todo[c] :
          /\ todo' = [todo EXCEPT ![c] = @ \ {i}]
          /\ current' = [current EXCEPT ![c] = i]
          /\ audit' = audit \cup
               {[cmd |-> c, action |-> "trash_file_pending", item |-> i]}
    BY <1>5 DEF AuditPending
  <2>2. i \in Items
    BY DEF TypeOK
  <2>3. TypeOK'
    BY <1>5, <2>1, <2>2
    DEF AuditPending, Goto, TypeOK, remote, events, Phases, Running, Actions
  <2>4. AuditBracketsCall'
    BY <1>5, <2>1 DEF AuditPending, AuditBracketsCall, events
  <2>5. ASSUME NEW d \in Commands PROVE RowInv(d)'
    <3>1. CASE d = c
      BY <1>5, <2>1, <2>2, <3>1 DEF AuditPending, Goto, TypeOK, RowInv, events
    <3>2. CASE d # c
      <4>1. RowInv(d) /\ pc'[d] = pc[d] /\ current'[d] = current[d]
        BY <1>5, <2>1, <2>2, <3>2 DEF AuditPending, Goto, TypeOK, RowInv, events
      <4>2. audit \subseteq audit' /\ calls \subseteq calls'
        BY <1>5, <2>1, <2>2 DEF AuditPending, Goto, TypeOK, RowInv, events
      <4> QED
        BY <4>1, <4>2 DEF RowInv
    <3> QED
      BY <3>1, <3>2
  <2> QED
    BY <2>3, <2>4, <2>5
<1>6. CASE TrashFile(c)
  <2> DEFINE gone == Subtree(drive, current[c])
  <2>1. current[c] \in Items /\ gone \subseteq Items
    BY <1>6, SubtreeOfItems DEF TrashFile, RowInv
  <2>2. Without(drive, gone) \in Trees
    BY WithoutIsTree DEF TypeOK
  <2>3. TypeOK'
    BY <1>6, <2>1, <2>2 DEF TrashFile, Goto, TypeOK, database, local, Phases, Running
  <2>4. AuditBracketsCall'
    <3> USE <1>6 DEF TrashFile, RowInv, database
    <3>1. ASSUME NEW x \in calls'
         PROVE  [cmd |-> x.cmd, action |-> "trash_file_pending", item |-> x.item] \in audit'
      <4>1. CASE x \in calls
        BY <4>1 DEF AuditBracketsCall
      <4>2. CASE x = [cmd |-> c, item |-> current[c]]
        BY <4>2
      <4> QED
        BY <4>1, <4>2
    <3>2. \A a \in audit' :
            a.action = "trash_file" => [cmd |-> a.cmd, item |-> a.item] \in calls'
      BY DEF AuditBracketsCall
    <3>3. \A h \in history' :
            [cmd |-> h.cmd, action |-> "trash_file", item |-> h.via] \in audit'
      BY DEF AuditBracketsCall
    <3> QED
      BY <3>1, <3>2, <3>3 DEF AuditBracketsCall
  <2>5. ASSUME NEW d \in Commands PROVE RowInv(d)'
    <3>1. CASE d = c
      BY <1>6, <2>1, <3>1 DEF TrashFile, Goto, TypeOK, RowInv, database, local
    <3>2. CASE d # c
      <4>1. RowInv(d) /\ pc'[d] = pc[d] /\ current'[d] = current[d]
        BY <1>6, <2>1, <3>2 DEF TrashFile, Goto, TypeOK, RowInv, database, local
      <4>2. audit \subseteq audit' /\ calls \subseteq calls'
        BY <1>6, <2>1 DEF TrashFile, Goto, TypeOK, RowInv, database, local
      <4> QED
        BY <4>1, <4>2 DEF RowInv
    <3> QED
      BY <3>1, <3>2
  <2> QED
    BY <2>3, <2>4, <2>5
<1>7. CASE AuditDone(c)
  <2>1. TrashedEntries(c) \subseteq Items
    BY DEF TrashedEntries, Present
  <2>2. current[c] \in Items
    BY <1>7 DEF AuditDone, AuditEntry, RowInv
  <2>3. TypeOK'
    BY <1>7, <2>1, <2>2
    DEF AuditDone, AuditEntry, Goto, TypeOK, remote, events, Phases, Running, Actions
  <2>4. AuditBracketsCall'
    <3> USE <1>7 DEF AuditDone, AuditEntry, RowInv, events
    <3>1. \A x \in calls' :
            [cmd |-> x.cmd, action |-> "trash_file_pending", item |-> x.item] \in audit'
      BY DEF AuditBracketsCall
    <3>2. ASSUME NEW a \in audit'
         PROVE  a.action = "trash_file" => [cmd |-> a.cmd, item |-> a.item] \in calls'
      <4>1. CASE a \in audit
        BY <4>1 DEF AuditBracketsCall
      <4>2. CASE a = [cmd |-> c, action |-> "trash_file", item |-> current[c]]
        BY <4>2
      <4> QED
        BY <4>1, <4>2
    <3>3. \A h \in history' :
            [cmd |-> h.cmd, action |-> "trash_file", item |-> h.via] \in audit'
      BY DEF AuditBracketsCall
    <3> QED
      BY <3>1, <3>2, <3>3 DEF AuditBracketsCall
  <2>5. ASSUME NEW d \in Commands PROVE RowInv(d)'
    <3>1. CASE d = c
      BY <1>7, <2>2, <3>1 DEF AuditDone, AuditEntry, Goto, TypeOK, RowInv, events
    <3>2. CASE d # c
      <4>1. RowInv(d) /\ pc'[d] = pc[d] /\ current'[d] = current[d]
        BY <1>7, <2>2, <3>2 DEF AuditDone, AuditEntry, Goto, TypeOK, RowInv, events
      <4>2. audit \subseteq audit' /\ calls \subseteq calls'
        BY <1>7, <2>2 DEF AuditDone, AuditEntry, Goto, TypeOK, RowInv, events
      <4> QED
        BY <4>1, <4>2 DEF RowInv
    <3> QED
      BY <3>1, <3>2
  <2> QED
    BY <2>3, <2>4, <2>5
<1>8. CASE AppendTrashedFile(c)
  <2>1. PICK i \in left[c] :
          /\ history' = history \cup {[cmd |-> c, item |-> i, via |-> current[c]]}
          /\ left' = [left EXCEPT ![c] = @ \ {i}]
          /\ Goto(c, IF left[c] = {i} THEN "rows" ELSE "history")
    BY <1>8 DEF AppendTrashedFile
  <2>2. i \in Items /\ current[c] \in Items
    BY <1>8 DEF AppendTrashedFile, TypeOK, RowInv
  <2>3. TypeOK'
    BY <1>8, <2>1, <2>2
    DEF AppendTrashedFile, Goto, TypeOK, remote, events, Phases, Running
  <2>4. AuditBracketsCall'
    <3> USE <1>8, <2>1 DEF AppendTrashedFile, RowInv, events
    <3>1. \A x \in calls' :
            [cmd |-> x.cmd, action |-> "trash_file_pending", item |-> x.item] \in audit'
      BY DEF AuditBracketsCall
    <3>2. \A a \in audit' :
            a.action = "trash_file" => [cmd |-> a.cmd, item |-> a.item] \in calls'
      BY DEF AuditBracketsCall
    <3>3. ASSUME NEW h \in history'
         PROVE  [cmd |-> h.cmd, action |-> "trash_file", item |-> h.via] \in audit'
      <4>1. CASE h \in history
        BY <4>1 DEF AuditBracketsCall
      <4>2. CASE h = [cmd |-> c, item |-> i, via |-> current[c]]
        BY <4>2
      <4> QED
        BY <4>1, <4>2
    <3> QED
      BY <3>1, <3>2, <3>3 DEF AuditBracketsCall
  <2>5. \A d \in Commands : RowInv(d)'
    BY <1>8, <2>1 DEF AppendTrashedFile, Goto, TypeOK, RowInv, events
  <2> QED
    BY <2>3, <2>4, <2>5
<1>9. CASE RowsDone(c)
  <2>1. TypeOK'
    BY <1>9 DEF RowsDone, Goto, TypeOK, remote, database, local, events, Phases, Running
  <2> QED
    BY <1>9, <2>1
    DEF RowsDone, Goto, TypeOK, RowInv, AuditBracketsCall, database, local, events
<1>10. CASE FinalSync(c)
  <2>1. TypeOK'
    BY <1>10, ExitTyped DEF FinalSync, TypeOK, remote, events, Phases
  <2> QED
    BY <1>10, <2>1 DEF FinalSync, Exit, Goto, TypeOK, RowInv, AuditBracketsCall, events
<1>11. CASE Stop(c)
  <2>1. TypeOK'
    BY <1>11, ExitTyped DEF Stop, TypeOK, remote, database, events, Phases
  <2> QED
    BY <1>11, <2>1 DEF Stop, Exit, Goto, TypeOK, RowInv, AuditBracketsCall, database, events
<1> QED
  BY <1>1, <1>2, <1>3, <1>4, <1>5, <1>6, <1>7, <1>8, <1>9, <1>10, <1>11 DEF Command

LEMMA AuditInvInvariant == Spec => []AuditInv
<1>1. AuditInv /\ UNCHANGED vars => AuditInv'
  BY DEF AuditInv, TypeOK, AuditBracketsCall, RowInv, vars
<1>2. AuditInv /\ [Next]_vars => AuditInv'
  BY <1>1, AuditInvOthers, AuditInvCommand DEF Next
<1> QED
  BY AuditInvInit, <1>2, PTL DEF Spec

\* Every variable keeps its type, however many commands run at once.
THEOREM TypeCorrect == Spec => []TypeOK
<1>1. AuditInv => TypeOK
  BY DEF AuditInv
<1> QED
  BY <1>1, AuditInvInvariant, PTL

\* Crash, failure or other commands beside it: every call to Drive has its pending
\* entry, and only what was called has its trash_file entry and its history rows.
THEOREM AuditTrailBracketsCalls == Spec => []AuditBracketsCall
<1>1. AuditInv => AuditBracketsCall
  BY DEF AuditInv
<1> QED
  BY <1>1, AuditInvInvariant, PTL

-----------------------------------------------------------------------------
(* Nothing beside a command: the release.                                  *)

\* As long as no other process used the database beside a command, it finds in its second
\* plan what the preview showed: if nothing was actionable then, nothing is now.
ReleaseInv ==
  /\ \A c, d \in Commands : pc[c] \in Running /\ pc[d] \in Running => c = d
  /\ \A c \in Commands : pc[c] = "plan" =>
       \/ c \in released
       \/ Actionable(Rows(mirror, wanted[c], recursive[c]), recursive[c]) = {}
  /\ \A c \in Commands :
       pc[c] \in {"reload", "rows", "trash", "audit", "history"} => c \in released
  /\ ReleasedFirst

LEMMA StaysUncrossed ==
  ASSUME TypeOK, [Next]_vars, ~crossed'
  PROVE  /\ ~crossed
         /\ SyncElsewhere => ~Busy
         /\ \A c, want, rec : Preview(c, want, rec) => ~Busy
<1>1. SyncElsewhere => ~Busy /\ ~crossed
  BY DEF SyncElsewhere
<1>2. \A c, want, rec : Preview(c, want, rec) => ~Busy /\ ~crossed
  BY DEF Preview, PreviewNeeding
<1>3. ASSUME NEW i \in Items, EditDrive(i) PROVE ~crossed
  BY <1>3 DEF EditDrive, Edit, events
<1>4. ASSUME NEW c \in Commands, Command(c) PROVE ~crossed
  BY <1>2, <1>4 DEF Command, Release, ApplyTrash, Reload, AuditPending, TrashFile, AuditDone,
     AuditEntry, AppendTrashedFile, RowsDone, FinalSync, Stop, events
<1> QED
  BY <1>1, <1>2, <1>3, <1>4 DEF Next, vars

\* What one step does to everything ReleaseInv speaks of, action by action.
LEMMA ReleaseInvStep ==
  ASSUME TypeOK, ~crossed => ReleaseInv, [Next]_vars, ~crossed' PROVE ReleaseInv'
<1> USE DEF ReleaseInv, ReleasedFirst, TypeOK, Goto
<1>0. ReleaseInv
  BY StaysUncrossed
<1>1. ASSUME NEW i \in Items, EditDrive(i) PROVE ReleaseInv'
  <2>1. UNCHANGED <<owned, manageable, database, pc, local, events>>
    BY <1>1 DEF EditDrive, Edit
  <2> QED
    BY <1>0, <2>1 DEF Rows, Suppressed, Actionable, database, local, events
<1>2. CASE SyncElsewhere
  BY <1>0, <1>2 DEF SyncElsewhere, Busy, Running, local
<1>3. ASSUME NEW c \in Commands, Command(c) PROVE ReleaseInv'
  <2>1. ASSUME NEW want \in SUBSET Items, NEW rec \in BOOLEAN, Preview(c, want, rec)
        PROVE  ReleaseInv'
    <3> DEFINE actionable == Actionable(Rows(mirror, want, rec), rec)
    <3>1. /\ \A d \in Commands : pc[d] \notin Running
          /\ UNCHANGED <<mirror, owned, manageable, released, calls>>
          /\ \/ /\ pc' = [pc EXCEPT ![c] = IF actionable # {} THEN "release" ELSE "plan"]
                /\ wanted'[c] = want /\ recursive'[c] = rec
             \/ pc' = [pc EXCEPT ![c] = "stopped"]
      BY <2>1 DEF Preview, PreviewNeeding, Busy, remote, database
    <3>2. \A d \in Commands \ {c} : pc'[d] = pc[d] /\ pc'[d] \notin Running
      BY <3>1
    <3>3. pc'[c] = "plan" => actionable = {} /\ wanted'[c] = want /\ recursive'[c] = rec
      BY <3>1
    <3>4. Actionable(Rows(mirror, want, rec), rec)' = actionable
      BY <3>1 DEF Rows, Suppressed, Actionable, Present
    <3> QED
      BY <1>0, <3>1, <3>2, <3>3, <3>4 DEF Running
  <2>2. CASE Release(c)
    BY <1>0, <2>2 DEF Release, Running, remote, database, local, Rows, Suppressed, Actionable
  <2>3. CASE ApplyTrash(c)
    BY <1>0, <2>3 DEF ApplyTrash, Running, remote, database, events, Rows, Suppressed, Actionable
  <2>4. CASE Reload(c)
    BY <1>0, <2>4 DEF Reload, Running, remote, database, events, Rows, Suppressed, Actionable
  <2>5. CASE AuditPending(c)
    BY <1>0, <2>5 DEF AuditPending, Running, remote, events, Rows, Suppressed, Actionable
  <2>6. CASE TrashFile(c)
    BY <1>0, <2>6 DEF TrashFile, Running, database, local, Rows, Suppressed, Actionable
  <2>7. CASE AuditDone(c)
    BY <1>0, <2>7 DEF AuditDone, AuditEntry, Running, remote, events, Rows, Suppressed, Actionable
  <2>8. CASE AppendTrashedFile(c)
    BY <1>0, <2>8 DEF AppendTrashedFile, Running, remote, events, Rows, Suppressed, Actionable
  <2>9. CASE RowsDone(c)
    BY <1>0, <2>9 DEF RowsDone, Running, remote, database, local, events, Rows, Suppressed, Actionable
  <2>10. CASE FinalSync(c)
    BY <1>0, <2>10 DEF FinalSync, Exit, Running, remote, events
  <2>11. CASE Stop(c)
    BY <1>0, <2>11 DEF Stop, Exit, Running, remote, database, events, Rows, Suppressed, Actionable
  <2> QED
    BY <1>3, <2>1, <2>2, <2>3, <2>4, <2>5, <2>6, <2>7, <2>8, <2>9, <2>10, <2>11 DEF Command
<1>4. CASE UNCHANGED vars
  BY <1>0, <1>4 DEF vars, Rows, Suppressed, Actionable
<1> QED
  BY <1>1, <1>2, <1>3, <1>4 DEF Next

\* As long as no other process used the database beside a command, none touches Drive
\* before its release exists, whatever the filters, the tree, the crashes and the edits.
THEOREM AloneReleasesFirst == Spec => []ReleaseBeforeTrash
<1> DEFINE Calm == ~crossed => ReleaseInv
<1>1. Init => Calm
  BY DEF Init, ReleaseInv, ReleasedFirst, Running
<1>2. TypeOK /\ Calm /\ [Next]_vars => Calm'
  BY ReleaseInvStep
<1>3. Calm => ReleaseBeforeTrash
  BY DEF ReleaseInv, ReleaseBeforeTrash
<1> HIDE DEF Calm
<1> QED
  BY <1>1, <1>2, <1>3, TypeCorrect, PTL DEF Spec

-----------------------------------------------------------------------------
(* Nothing beside a command: the history.                                  *)

\* Whatever is in a subtree, and is not its root, has its parent there.
LEMMA ParentInSubtree ==
  ASSUME NEW tree \in Trees, NEW a \in Items, NEW j \in Subtree(tree, a), j # a
  PROVE  tree[j] \in Subtree(tree, a)
<1> DEFINE C == {x \in Subtree(tree, a) : x = a \/ tree[x] \in Subtree(tree, a)}
<1>1. C \subseteq Items /\ a \in C
  BY DEF Subtree
<1>2. ASSUME NEW k \in Items, tree[k] \in C PROVE k \in C
  <2>1. k \in Subtree(tree, a)
    BY <1>2 DEF Subtree
  <2> QED
    BY <1>2, <2>1
<1>3. \A D \in SUBSET Items :
        a \in D /\ (\A k \in Items : tree[k] \in D => k \in D) => j \in D
  BY DEF Subtree
<1>4. j \in C
  <2> HIDE DEF C
  <2> QED
    BY <1>1, <1>2, <1>3
<1> QED
  BY <1>4

\* Two subtrees that share an item are nested: an item has one parent.
LEMMA SubtreesNest ==
  ASSUME NEW tree \in Trees, NEW a \in Items, NEW b \in Items,
         Subtree(tree, a) \cap Subtree(tree, b) # {}
  PROVE  a \in Subtree(tree, b) \/ b \in Subtree(tree, a)
<1> SUFFICES ASSUME a \notin Subtree(tree, b), b \notin Subtree(tree, a) PROVE FALSE
  OBVIOUS
<1> DEFINE C == Subtree(tree, a) \ Subtree(tree, b)
<1>1. C \subseteq Items /\ a \in C
  BY DEF Subtree
<1>2. ASSUME NEW k \in Items, tree[k] \in C PROVE k \in C
  <2>1. k \in Subtree(tree, a)
    BY <1>2 DEF Subtree
  <2>2. k # b
    BY <2>1
  <2>3. k \notin Subtree(tree, b)
    BY <1>2, <2>2, ParentInSubtree
  <2> QED
    BY <2>1, <2>3
<1>3. Subtree(tree, a) \subseteq C
  BY <1>1, <1>2 DEF Subtree
<1> QED
  BY <1>3

\* The items a row is recorded with.
Entries(tree, i) ==
  (IF i \in Folders THEN Subtree(tree, i) ELSE {i}) \cap Present(tree)

\* Suppression does its job: the actionable rows of a plan share no entry.
LEMMA RowsAreDisjoint ==
  ASSUME NEW tree \in Trees, NEW want \in SUBSET Items, NEW rec \in BOOLEAN,
         NEW a \in Actionable(Rows(tree, want, rec), rec),
         NEW b \in Actionable(Rows(tree, want, rec), rec),
         NEW j \in Entries(tree, a), j \in Entries(tree, b)
  PROVE  a = b
<1> DEFINE selected == want \cap Present(tree)
<1>1. /\ a \in selected /\ a \notin Suppressed(tree, selected, rec)
      /\ b \in selected /\ b \notin Suppressed(tree, selected, rec)
      /\ a \in manageable /\ b \in manageable
      /\ (a \in Folders => rec) /\ (b \in Folders => rec)
      /\ a \in Items /\ b \in Items
  BY DEF Actionable, Rows
<1>2. a \in Subtree(tree, a) /\ b \in Subtree(tree, b)
  BY <1>1 DEF Subtree
<1>3. CASE a \notin Folders /\ b \notin Folders
  BY <1>3 DEF Entries
<1>4. CASE a \in Folders /\ b \notin Folders
  <2>1. rec /\ b \in Subtree(tree, a)
    BY <1>1, <1>4 DEF Entries, Actionable
  <2> QED
    BY <1>1, <1>4, <2>1 DEF Suppressed
<1>5. CASE a \notin Folders /\ b \in Folders
  <2>1. rec /\ a \in Subtree(tree, b)
    BY <1>1, <1>5 DEF Entries, Actionable
  <2> QED
    BY <1>1, <1>5, <2>1 DEF Suppressed
<1>6. CASE a \in Folders /\ b \in Folders
  <2>1. rec /\ Subtree(tree, a) \cap Subtree(tree, b) # {}
    BY <1>6 DEF Entries, Actionable
  <2>2. a \in Subtree(tree, b) \/ b \in Subtree(tree, a)
    BY <1>1, <2>1, SubtreesNest
  <2> QED
    BY <1>1, <1>6, <2>1, <2>2 DEF Suppressed
<1> QED
  BY <1>3, <1>4, <1>5, <1>6

Applying == {"rows", "trash", "audit", "history"}

RowsOf(c) == Actionable(plan[c], recursive[c])

\* The plan of a command at work stands on the snapshot its history is built from;
\* rows done, at work and still to do are told apart, and so are recorded entries
\* and those left.
PlanInv(c) ==
  /\ pc[c] = "reload" => view[c] = mirror
  /\ pc[c] \in {"reload"} \cup Applying =>
       plan[c] = Rows(view[c], wanted[c], recursive[c]) /\ todo[c] \subseteq RowsOf(c)
  /\ pc[c] \in {"trash", "audit", "history"} => current[c] \in RowsOf(c) \ todo[c]
  /\ pc[c] = "history" => left[c] \subseteq Entries(view[c], current[c])
  /\ \A h \in history : h.cmd = c =>
       /\ pc[c] \notin {"new", "release", "plan", "reload"}
       /\ pc[c] \in Applying =>
            h.via \in RowsOf(c) \ todo[c] /\ h.item \in Entries(view[c], h.via)
       /\ pc[c] \in {"trash", "audit"} => h.via # current[c]
       /\ pc[c] = "history" /\ h.via = current[c] => h.item \notin left[c]

RecordedOnce == \A g, h \in history : g.cmd = h.cmd /\ g.item = h.item => g = h

HistoryInv == RecordedOnce /\ \A c \in Commands : PlanInv(c)

LEMMA HistoryInvInit == Init => HistoryInv
BY DEF Init, HistoryInv, RecordedOnce, PlanInv, Applying

\* A step that leaves a command, its history rows and, while it is about to reload,
\* the mirror alone keeps PlanInv.
LEMMA PlanInvFrame ==
  ASSUME NEW c \in Commands, PlanInv(c),
         pc'[c] = pc[c], wanted'[c] = wanted[c], recursive'[c] = recursive[c],
         plan'[c] = plan[c], view'[c] = view[c], todo'[c] = todo[c],
         current'[c] = current[c], left'[c] = left[c],
         UNCHANGED <<owned, manageable>>,
         pc[c] = "reload" => mirror' = mirror,
         \A h \in history' : h.cmd = c => h \in history
  PROVE  PlanInv(c)'
<1>1. RowsOf(c)' = RowsOf(c)
  BY DEF RowsOf, Actionable
<1>2. Rows(view[c], wanted[c], recursive[c])' = Rows(view[c], wanted[c], recursive[c])
  BY DEF Rows, Suppressed
<1>3. \A i : Entries(view[c], i)' = Entries(view[c], i)
  BY DEF Entries, Present
<1> QED
  BY <1>1, <1>2, <1>3 DEF PlanInv

LEMMA HistoryInvStep ==
  ASSUME TypeOK, ~crossed => ReleaseInv, HistoryInv, [Next]_vars, ~crossed' PROVE HistoryInv'
<1> USE DEF HistoryInv
<1>0. ReleaseInv
  BY StaysUncrossed
<1>1. ASSUME NEW i \in Items, EditDrive(i) PROVE HistoryInv'
  <2>1. UNCHANGED <<owned, manageable, database, pc, local, events>>
    BY <1>1 DEF EditDrive, Edit
  <2>2. \A c \in Commands : PlanInv(c)'
    BY <2>1, PlanInvFrame DEF database, local
  <2> QED
    BY <2>1, <2>2 DEF RecordedOnce, database
<1>2. CASE SyncElsewhere
  <2>1. \A c \in Commands : pc[c] # "reload"
    BY <1>2, StaysUncrossed DEF Busy, Running
  <2>2. \A c \in Commands : PlanInv(c)'
    BY <1>2, <2>1, PlanInvFrame DEF SyncElsewhere, remote, local
  <2> QED
    BY <1>2, <2>2 DEF SyncElsewhere, RecordedOnce
<1>3. ASSUME NEW c \in Commands, Command(c) PROVE HistoryInv'
  <2>1. /\ UNCHANGED <<owned, manageable>>
        /\ \A d \in Commands \ {c} :
             /\ pc'[d] = pc[d] /\ wanted'[d] = wanted[d] /\ recursive'[d] = recursive[d]
             /\ plan'[d] = plan[d] /\ view'[d] = view[d] /\ todo'[d] = todo[d]
             /\ current'[d] = current[d] /\ left'[d] = left[d]
             /\ \A h \in history' : h.cmd = d => h \in history
             /\ pc[d] = "reload" => mirror' = mirror
    <3> USE DEF TypeOK, Goto
    <3>1. ASSUME NEW want \in SUBSET Items, NEW rec \in BOOLEAN, Preview(c, want, rec)
          PROVE  <2>1!:
      BY <3>1 DEF Preview, PreviewNeeding, remote, database
    <3>2. CASE Release(c)
      BY <3>2 DEF Release, remote, database, local
    <3>3. CASE ApplyTrash(c)
      BY <3>3 DEF ApplyTrash, remote, database
    <3>4. CASE Reload(c)
      BY <3>4 DEF Reload, remote, database
    <3>5. CASE AuditPending(c)
      BY <3>5 DEF AuditPending, remote
    <3>6. CASE TrashFile(c)
      BY <3>6 DEF TrashFile, database, local
    <3>7. CASE AuditDone(c)
      BY <3>7 DEF AuditDone, AuditEntry, remote
    <3>8. CASE AppendTrashedFile(c)
      BY <3>8 DEF AppendTrashedFile, remote
    <3>9. CASE RowsDone(c)
      BY <3>9 DEF RowsDone, remote, database, local
    <3>10. CASE FinalSync(c)
      BY <1>0, <3>10 DEF FinalSync, Exit, remote, ReleaseInv, Running
    <3>11. CASE Stop(c)
      BY <3>11 DEF Stop, Exit, remote, database
    <3> QED
      BY <1>3, <3>1, <3>2, <3>3, <3>4, <3>5, <3>6, <3>7, <3>8, <3>9, <3>10, <3>11 DEF Command
  <2>2. \A d \in Commands \ {c} : PlanInv(d)'
    BY <2>1, PlanInvFrame
  <2>3. PlanInv(c)' /\ RecordedOnce'
    <3> USE DEF TypeOK, Goto
    <3>1. PlanInv(c) /\ RecordedOnce
      OBVIOUS
    <3>2. ASSUME NEW want \in SUBSET Items, NEW rec \in BOOLEAN, Preview(c, want, rec)
          PROVE  <2>3!:
      <4>1. pc'[c] \in {"release", "plan", "stopped"} /\ pc[c] = "new" /\ history' = history
        BY <3>2 DEF Preview, PreviewNeeding, database
      <4> QED
        BY <3>1, <4>1 DEF PlanInv, RecordedOnce, Applying
    <3>3. CASE Release(c)
      <4>1. pc'[c] = "plan" /\ pc[c] = "release" /\ history' = history
        BY <3>3 DEF Release, database
      <4> QED
        BY <3>1, <4>1 DEF PlanInv, RecordedOnce, Applying
    <3>4. CASE ApplyTrash(c)
      <4> DEFINE rows == Rows(mirror, wanted[c], recursive[c])
      <4>1. /\ pc[c] = "plan" /\ pc'[c] \in {"reload", "sync"}
            /\ UNCHANGED <<history, mirror, owned, manageable, wanted, recursive>>
            /\ plan'[c] = rows /\ view'[c] = mirror
            /\ todo'[c] = Actionable(rows, recursive[c])
        BY <3>4 DEF ApplyTrash, database, remote
      <4>2. RowsOf(c)' = Actionable(rows, recursive[c])
        BY <4>1 DEF RowsOf, Actionable
      <4>3. Rows(view[c], wanted[c], recursive[c])' = rows
        BY <4>1 DEF Rows, Suppressed, Present
      <4> QED
        BY <3>1, <4>1, <4>2, <4>3 DEF PlanInv, RecordedOnce, Applying
    <3>5. CASE Reload(c)
      <4>1. /\ pc[c] = "reload" /\ pc'[c] = "rows"
            /\ UNCHANGED <<history, mirror, owned, manageable, wanted, recursive, plan, todo>>
            /\ view'[c] = mirror
        BY <3>5 DEF Reload, database, remote
      <4>2. RowsOf(c)' = RowsOf(c)
        BY <4>1 DEF RowsOf, Actionable
      <4>3. Rows(view[c], wanted[c], recursive[c])' = Rows(view[c], wanted[c], recursive[c])
        BY <3>1, <4>1 DEF PlanInv, Rows, Suppressed, Present
      <4> QED
        BY <3>1, <4>1, <4>2, <4>3 DEF PlanInv, RecordedOnce, Applying
    <3>6. CASE AuditPending(c)
      <4>1. PICK i \in todo[c] : todo'[c] = todo[c] \ {i} /\ current'[c] = i
        BY <3>6 DEF AuditPending
      <4>2. /\ pc[c] = "rows" /\ pc'[c] = "trash"
            /\ UNCHANGED <<history, owned, manageable, wanted, recursive, plan, view, left>>
        BY <3>6 DEF AuditPending, remote
      <4>3. RowsOf(c)' = RowsOf(c)
        BY <4>2 DEF RowsOf, Actionable
      <4>4. Rows(view[c], wanted[c], recursive[c])' = Rows(view[c], wanted[c], recursive[c])
        BY <4>2 DEF Rows, Suppressed, Present
      <4>5. \A i2 : Entries(view[c], i2)' = Entries(view[c], i2)
        BY <4>2 DEF Entries, Present
      <4> QED
        BY <3>1, <4>1, <4>2, <4>3, <4>4, <4>5 DEF PlanInv, RecordedOnce, Applying
    <3>7. CASE TrashFile(c)
      <4>1. /\ pc[c] = "trash" /\ pc'[c] = "audit"
            /\ UNCHANGED <<history, owned, manageable, wanted, recursive, plan, view,
                           todo, current, left>>
        BY <3>7 DEF TrashFile, database, local
      <4>2. /\ RowsOf(c)' = RowsOf(c)
            /\ Rows(view[c], wanted[c], recursive[c])' = Rows(view[c], wanted[c], recursive[c])
        BY <4>1 DEF RowsOf, Actionable, Rows, Suppressed, Present
      <4>3. \A i2 : Entries(view[c], i2)' = Entries(view[c], i2)
        BY <4>1 DEF Entries, Present
      <4> QED
        BY <3>1, <4>1, <4>2, <4>3 DEF PlanInv, RecordedOnce, Applying
    <3>8. CASE AuditDone(c)
      <4>1. /\ pc[c] = "audit" /\ pc'[c] \in {"history", "rows"}
            /\ UNCHANGED <<history, owned, manageable, wanted, recursive, plan, view,
                           todo, current>>
            /\ left'[c] = Entries(view[c], current[c])
        BY <3>8 DEF AuditDone, AuditEntry, remote, TrashedEntries, Entries
      <4>2. /\ RowsOf(c)' = RowsOf(c)
            /\ Rows(view[c], wanted[c], recursive[c])' = Rows(view[c], wanted[c], recursive[c])
        BY <4>1 DEF RowsOf, Actionable, Rows, Suppressed, Present
      <4>3. \A i2 : Entries(view[c], i2)' = Entries(view[c], i2)
        BY <4>1 DEF Entries, Present
      <4> QED
        BY <3>1, <4>1, <4>2, <4>3 DEF PlanInv, RecordedOnce, Applying
    <3>9. CASE AppendTrashedFile(c)
      <4>1. PICK i \in left[c] :
              /\ history' = history \cup {[cmd |-> c, item |-> i, via |-> current[c]]}
              /\ left' = [left EXCEPT ![c] = @ \ {i}]
              /\ Goto(c, IF left[c] = {i} THEN "rows" ELSE "history")
        BY <3>9 DEF AppendTrashedFile
      <4>2. /\ pc[c] = "history" /\ pc'[c] \in {"history", "rows"}
            /\ UNCHANGED <<owned, manageable, wanted, recursive, plan, view, todo, current>>
            /\ left'[c] = left[c] \ {i}
        BY <3>9, <4>1 DEF AppendTrashedFile, remote
      <4>3. /\ RowsOf(c)' = RowsOf(c)
            /\ Rows(view[c], wanted[c], recursive[c])' = Rows(view[c], wanted[c], recursive[c])
        BY <4>2 DEF RowsOf, Actionable, Rows, Suppressed, Present
      <4>4. \A i2 : Entries(view[c], i2)' = Entries(view[c], i2)
        BY <4>2 DEF Entries, Present
      <4>5. i \in Entries(view[c], current[c]) /\ current[c] \in RowsOf(c) \ todo[c]
        BY <3>1, <4>2 DEF PlanInv
      <4>6. PlanInv(c)'
        BY <3>1, <4>1, <4>2, <4>3, <4>4, <4>5 DEF PlanInv, Applying
      <4>7. ASSUME NEW h \in history, h.cmd = c, h.item = i PROVE FALSE
        <5>1. h.via \in RowsOf(c) /\ i \in Entries(view[c], h.via)
          BY <3>1, <4>2, <4>7 DEF PlanInv, Applying
        <5>2. RowsOf(c) = Actionable(Rows(view[c], wanted[c], recursive[c]), recursive[c])
          BY <3>1, <4>2 DEF PlanInv, RowsOf, Applying
        <5>3. view[c] \in Trees /\ wanted[c] \in SUBSET Items /\ recursive[c] \in BOOLEAN
          OBVIOUS
        <5>4. h.via = current[c]
          BY <4>5, <5>1, <5>2, <5>3, RowsAreDisjoint
        <5> QED
          BY <3>1, <4>2, <4>7, <5>4 DEF PlanInv
      <4>8. RecordedOnce'
        BY <3>1, <4>1, <4>7 DEF RecordedOnce
      <4> QED
        BY <4>6, <4>8
    <3>10. CASE RowsDone(c)
      <4>1. pc[c] = "rows" /\ pc'[c] = "sync" /\ history' = history
        BY <3>10 DEF RowsDone, database
      <4> QED
        BY <3>1, <4>1 DEF PlanInv, RecordedOnce, Applying
    <3>11. CASE FinalSync(c)
      <4>1. pc[c] = "sync" /\ pc'[c] = "done" /\ history' = history
        BY <3>11 DEF FinalSync, Exit
      <4> QED
        BY <3>1, <4>1 DEF PlanInv, RecordedOnce, Applying
    <3>12. CASE Stop(c)
      <4>1. pc'[c] = "stopped" /\ history' = history
        BY <3>12 DEF Stop, Exit, database
      <4> QED
        BY <3>1, <4>1 DEF PlanInv, RecordedOnce, Applying
    <3> QED
      BY <1>3, <3>2, <3>3, <3>4, <3>5, <3>6, <3>7, <3>8, <3>9, <3>10, <3>11, <3>12 DEF Command
  <2> QED
    BY <2>2, <2>3
<1>4. CASE UNCHANGED vars
  <2>1. \A c \in Commands : PlanInv(c)'
    BY <1>4, PlanInvFrame DEF vars
  <2> QED
    BY <1>4, <2>1 DEF vars, RecordedOnce
<1> QED
  BY <1>1, <1>2, <1>3, <1>4 DEF Next

\* As long as no other process used the database beside a command, none records an item
\* twice: for every folder tree, every selection and every order of the rows.
THEOREM AloneRecordsOnce == Spec => []HistoryOnce
<1> DEFINE Calm == ~crossed => ReleaseInv /\ HistoryInv
<1>1. Init => Calm
  BY HistoryInvInit DEF Init, ReleaseInv, ReleasedFirst, Running
<1>2. TypeOK /\ Calm /\ [Next]_vars => Calm'
  BY ReleaseInvStep, HistoryInvStep, StaysUncrossed
<1>3. Calm => HistoryOnce
  BY DEF HistoryInv, RecordedOnce, HistoryOnce
<1> HIDE DEF Calm
<1> QED
  BY <1>1, <1>2, <1>3, TypeCorrect, PTL DEF Spec

-----------------------------------------------------------------------------
(* Many commands at once: what is in the trash is in the history.          *)

\* One tree has nothing in a place where the other does not have it too.
Below(t1, t2) == \A i \in Items : t1[i] = Out \/ t1[i] = t2[i]

\* What a command trashed is recorded, or is about to be, unless the command stopped.
Accounted(x) ==
  \/ pc[x.cmd] = "stopped"
  \/ \E h \in history : h.cmd = x.cmd /\ h.item = x.item
  \/ pc[x.cmd] = "audit" /\ x.item \in Entries(view[x.cmd], current[x.cmd])
  \/ pc[x.cmd] = "history" /\ x.item \in left[x.cmd]

\* As long as nobody else edits it, Drive only loses items, so that every snapshot
\* of a committed sync has what Drive still has, in the same folder: what a call
\* takes is among the entries built from any snapshot.
RecordedInv ==
  /\ \A i \in Items : drive[i] \in Items => drive[i] \in Folders
  /\ synced => Below(drive, mirror)
  /\ \A c \in Commands : pc[c] = "reload" => synced
  /\ \A c \in Commands : pc[c] \in Applying => Below(drive, view[c])
  /\ \A x \in trashed : Accounted(x)

LEMMA WithoutIsBelow ==
  ASSUME NEW tree \in Trees, NEW gone PROVE Below(Without(tree, gone), tree)
BY DEF Below, Without

LEMMA BelowTransitive ==
  ASSUME NEW t1, NEW t2, NEW t3, Below(t1, t2), Below(t2, t3) PROVE Below(t1, t3)
BY DEF Below

\* A subtree that lost items is part of the subtree it was.
LEMMA SubtreeBelow ==
  ASSUME NEW t1, NEW t2, Below(t1, t2), NEW i \in Items
  PROVE  Subtree(t1, i) \subseteq Subtree(t2, i)
<1> SUFFICES ASSUME NEW j \in Subtree(t1, i), NEW C \in SUBSET Items,
                    i \in C, \A k \in Items : t2[k] \in C => k \in C
             PROVE  j \in C
  BY DEF Subtree
<1>1. ASSUME NEW k \in Items, t1[k] \in C PROVE k \in C
  BY <1>1, ItemsAssumption DEF Below
<1> QED
  BY <1>1 DEF Subtree

\* Nothing is inside what is not a folder.
LEMMA FileHoldsItself ==
  ASSUME NEW tree, NEW i \in Items \ Folders,
         \A k \in Items : tree[k] \in Items => tree[k] \in Folders
  PROVE  Subtree(tree, i) \subseteq {i}
<1>1. \A k \in Items : tree[k] \in {i} => k \in {i}
  OBVIOUS
<1> QED
  BY <1>1 DEF Subtree

\* What a call puts in the trash is what the row is recorded with, and at most that.
LEMMA TakenIsEntered ==
  ASSUME NEW t1, NEW t2, Below(t1, t2), NEW i \in Items,
         \A k \in Items : t1[k] \in Items => t1[k] \in Folders
  PROVE  Subtree(t1, i) \cap Present(t1) \subseteq Entries(t2, i)
<1>1. Present(t1) \subseteq Present(t2)
  BY DEF Present, Below
<1>2. CASE i \in Folders
  BY <1>1, <1>2, SubtreeBelow DEF Entries
<1>3. CASE i \notin Folders
  BY <1>1, <1>3, FileHoldsItself DEF Entries
<1> QED
  BY <1>2, <1>3

\* A step of c that leaves Drive, what is trashed and the other commands alone.
LEMMA RecordedFrame ==
  ASSUME TypeOK, RecordedInv, NEW c \in Commands, UNCHANGED <<drive, trashed>>,
         history \subseteq history', synced => synced', synced' => Below(drive, mirror'),
         \A d \in Commands \ {c} :
           /\ pc'[d] = pc[d] /\ view'[d] = view[d]
           /\ current'[d] = current[d] /\ left'[d] = left[d],
         pc'[c] = "reload" => synced', pc'[c] \in Applying => Below(drive, view'[c]),
         \A x \in trashed : x.cmd = c => Accounted(x)'
  PROVE  RecordedInv'
<1>1. ASSUME NEW x \in trashed, x.cmd # c PROVE Accounted(x)'
  <2>1. x.cmd \in Commands \ {c} /\ Accounted(x)
    BY <1>1 DEF TypeOK, RecordedInv
  <2>2. Entries(view[x.cmd], current[x.cmd])' = Entries(view[x.cmd], current[x.cmd])
    BY <2>1 DEF Entries, Present
  <2> QED
    BY <2>1, <2>2 DEF Accounted
<1>2. \A x \in trashed' : Accounted(x)'
  BY <1>1
<1>3. \A d \in Commands : pc'[d] = "reload" => synced'
  BY DEF RecordedInv
<1>4. \A d \in Commands : pc'[d] \in Applying => Below(drive, view'[d])
  BY DEF RecordedInv
<1>5. \A i \in Items : drive'[i] \in Items => drive'[i] \in Folders
  BY DEF RecordedInv
<1> QED
  BY <1>2, <1>3, <1>4, <1>5 DEF RecordedInv, Below, Applying

LEMMA RecordedInvInit == Init => RecordedInv
BY DEF Init, IsTree, RecordedInv, Applying

LEMMA RecordedInvStep ==
  ASSUME AuditInv, edits = 0 => RecordedInv, [Next]_vars, edits' = 0 PROVE RecordedInv'
<1>t. TypeOK
  BY DEF AuditInv
<1>e. /\ edits = 0
      /\ \A i \in Items : ~EditDrive(i)
  BY <1>t, BoundsAssumption DEF EditDrive, Edit, Next, Command, vars, TypeOK, remote,
     SyncElsewhere, Preview, PreviewNeeding, Release, ApplyTrash, Reload, AuditPending,
     TrashFile, AuditDone, AuditEntry, AppendTrashedFile, RowsDone, FinalSync, Stop
<1>r. RecordedInv
  BY <1>e
<1>b. Below(drive, drive)
  BY DEF Below
<1>1. CASE SyncElsewhere
  <2>1. /\ UNCHANGED <<drive, history, pc, view, current, left, trashed>>
        /\ mirror' = drive /\ synced' = TRUE
    BY <1>1 DEF SyncElsewhere, remote, local
  <2> QED
    BY <1>r, <1>b, <2>1 DEF RecordedInv, Accounted, Entries, Present, Below, Applying
<1>2. ASSUME NEW c \in Commands, Command(c) PROVE RecordedInv'
  <2> USE <1>r, <1>t DEF Goto
  <2>1. ASSUME NEW want \in SUBSET Items, NEW rec \in BOOLEAN, Preview(c, want, rec)
        PROVE  RecordedInv'
    <3>1. /\ UNCHANGED <<drive, mirror, synced, history, view, current, left, trashed>>
          /\ pc[c] = "new" /\ pc'[c] \in {"release", "plan", "stopped"}
          /\ \A d \in Commands \ {c} : pc'[d] = pc[d]
      BY <2>1 DEF Preview, PreviewNeeding, remote, database, TypeOK
    <3>2. \A x \in trashed : x.cmd = c => Accounted(x)'
      BY <3>1 DEF RecordedInv, Accounted
    <3> QED
      BY <3>1, <3>2, RecordedFrame DEF RecordedInv, Applying
  <2>2. CASE Release(c)
    <3>1. /\ UNCHANGED <<drive, mirror, synced, history, view, current, left, trashed>>
          /\ pc[c] = "release" /\ pc'[c] = "plan"
          /\ \A d \in Commands \ {c} : pc'[d] = pc[d]
      BY <2>2 DEF Release, remote, database, local, TypeOK
    <3>2. \A x \in trashed : x.cmd = c => Accounted(x)'
      BY <3>1 DEF RecordedInv, Accounted
    <3> QED
      BY <3>1, <3>2, RecordedFrame DEF RecordedInv, Applying
  <2>3. CASE ApplyTrash(c)
    <3>1. /\ UNCHANGED <<drive, mirror, synced, history, current, left, trashed>>
          /\ synced /\ pc[c] = "plan" /\ pc'[c] \in {"reload", "sync"}
          /\ \A d \in Commands \ {c} : pc'[d] = pc[d] /\ view'[d] = view[d]
      BY <2>3 DEF ApplyTrash, remote, database, events, TypeOK
    <3>2. \A x \in trashed : x.cmd = c => Accounted(x)'
      BY <3>1 DEF RecordedInv, Accounted
    <3> QED
      BY <3>1, <3>2, RecordedFrame DEF RecordedInv, Applying
  <2>4. CASE Reload(c)
    <3>1. /\ UNCHANGED <<drive, mirror, synced, history, current, left, trashed>>
          /\ pc[c] = "reload" /\ pc'[c] = "rows" /\ view'[c] = mirror
          /\ \A d \in Commands \ {c} : pc'[d] = pc[d] /\ view'[d] = view[d]
      BY <2>4 DEF Reload, remote, database, events, TypeOK
    <3>2. \A x \in trashed : x.cmd = c => Accounted(x)'
      BY <3>1 DEF RecordedInv, Accounted
    <3> QED
      BY <3>1, <3>2, RecordedFrame DEF RecordedInv, Applying
  <2>5. CASE AuditPending(c)
    <3>1. /\ UNCHANGED <<drive, mirror, synced, history, view, left, trashed>>
          /\ pc[c] = "rows" /\ pc'[c] = "trash"
          /\ \A d \in Commands \ {c} : pc'[d] = pc[d] /\ current'[d] = current[d]
      BY <2>5 DEF AuditPending, remote, events, TypeOK
    <3>2. \A x \in trashed : x.cmd = c => Accounted(x)'
      BY <3>1 DEF RecordedInv, Accounted
    <3> QED
      BY <3>1, <3>2, RecordedFrame DEF RecordedInv, Applying
  <2>6. CASE TrashFile(c)
    <3> DEFINE gone == Subtree(drive, current[c])
    <3>1. /\ UNCHANGED <<mirror, synced, history, view, current, left>>
          /\ drive' = Without(drive, gone)
          /\ trashed' = trashed \cup [cmd : {c}, item : gone \cap Present(drive)]
          /\ pc[c] = "trash" /\ pc'[c] = "audit"
          /\ \A d \in Commands \ {c} : pc'[d] = pc[d]
      BY <2>6 DEF TrashFile, database, local, TypeOK
    <3>2. current[c] \in Items /\ Below(drive, view[c])
      BY <3>1 DEF AuditInv, RowInv, RecordedInv, Applying
    <3>3. gone \cap Present(drive) \subseteq Entries(view[c], current[c])
      BY <3>2, TakenIsEntered DEF RecordedInv
    <3>4. Below(drive', drive)
      BY <3>1, WithoutIsBelow DEF TypeOK
    <3>5. \A i \in Items : drive'[i] \in Items => drive'[i] \in Folders
      BY <3>4, ItemsAssumption DEF Below, RecordedInv
    <3>6. /\ synced' => Below(drive', mirror')
          /\ \A d \in Commands : pc'[d] \in Applying => Below(drive', view'[d])
      <4>1. synced => Below(drive', mirror)
        BY <3>4, BelowTransitive DEF RecordedInv
      <4>2. ASSUME NEW d \in Commands, pc'[d] \in Applying PROVE Below(drive', view[d])
        <5>1. pc[d] \in Applying
          BY <3>1, <4>2 DEF Applying
        <5> QED
          BY <3>4, <5>1, BelowTransitive DEF RecordedInv
      <4> QED
        BY <3>1, <4>1, <4>2
    <3>s. \A d \in Commands : pc'[d] = "reload" => synced'
      BY <3>1 DEF RecordedInv
    <3>7. ASSUME NEW x \in trashed'
          PROVE  Accounted(x)'
      <4>1. CASE x \in [cmd : {c}, item : gone \cap Present(drive)]
        <5>1. Entries(view[c], current[c])' = Entries(view[c], current[c])
          BY <3>1 DEF Entries, Present
        <5> QED
          BY <3>1, <3>3, <4>1, <5>1 DEF Accounted
      <4>2. CASE x \in trashed
        <5>1. x.cmd \in Commands
          BY <4>2 DEF TypeOK
        <5>2. Entries(view[x.cmd], current[x.cmd])' = Entries(view[x.cmd], current[x.cmd])
          BY <3>1 DEF Entries, Present
        <5> QED
          BY <3>1, <4>2, <5>1, <5>2 DEF RecordedInv, Accounted
      <4> QED
        BY <3>1, <4>1, <4>2
    <3> QED
      BY <3>1, <3>5, <3>6, <3>7, <3>s DEF RecordedInv, Applying
  <2>7. CASE AuditDone(c)
    <3>1. /\ UNCHANGED <<drive, mirror, synced, history, view, current, trashed>>
          /\ pc[c] = "audit"
          /\ left'[c] = Entries(view[c], current[c])
          /\ pc'[c] = IF Entries(view[c], current[c]) # {} THEN "history" ELSE "rows"
          /\ \A d \in Commands \ {c} : pc'[d] = pc[d] /\ left'[d] = left[d]
      BY <2>7 DEF AuditDone, AuditEntry, TrashedEntries, Entries, remote, events, TypeOK
    <3>2. \A x \in trashed : x.cmd = c => Accounted(x)'
      BY <3>1 DEF RecordedInv, Accounted
    <3> QED
      BY <3>1, <3>2, RecordedFrame DEF RecordedInv, Applying
  <2>8. CASE AppendTrashedFile(c)
    <3>1. PICK i \in left[c] :
            /\ history' = history \cup {[cmd |-> c, item |-> i, via |-> current[c]]}
            /\ left' = [left EXCEPT ![c] = @ \ {i}]
            /\ Goto(c, IF left[c] = {i} THEN "rows" ELSE "history")
      BY <2>8 DEF AppendTrashedFile
    <3>2. /\ UNCHANGED <<drive, mirror, synced, view, current, trashed>>
          /\ pc[c] = "history"
          /\ pc'[c] = IF left[c] = {i} THEN "rows" ELSE "history"
          /\ left'[c] = left[c] \ {i}
          /\ \A d \in Commands \ {c} : pc'[d] = pc[d] /\ left'[d] = left[d]
      BY <2>8, <3>1 DEF AppendTrashedFile, remote, events, TypeOK
    <3>4. history \subseteq history' /\ \E h \in history' : h.cmd = c /\ h.item = i
      <4> DEFINE row == [cmd |-> c, item |-> i, via |-> current[c]]
      <4>1. row \in history' /\ row.cmd = c /\ row.item = i
        BY <3>1
      <4> QED
        BY <3>1, <4>1
    <3>3. ASSUME NEW x \in trashed, x.cmd = c PROVE Accounted(x)'
      BY <3>2, <3>3, <3>4 DEF RecordedInv, Accounted
    <3> QED
      BY <3>2, <3>3, <3>4, RecordedFrame DEF RecordedInv, Applying
  <2>9. CASE RowsDone(c)
    <3>1. /\ UNCHANGED <<drive, mirror, synced, history, view, current, left, trashed>>
          /\ pc[c] = "rows" /\ pc'[c] = "sync"
          /\ \A d \in Commands \ {c} : pc'[d] = pc[d]
      BY <2>9 DEF RowsDone, remote, database, local, events, TypeOK
    <3>2. \A x \in trashed : x.cmd = c => Accounted(x)'
      BY <3>1 DEF RecordedInv, Accounted
    <3> QED
      BY <3>1, <3>2, RecordedFrame DEF RecordedInv, Applying
  <2>10. CASE FinalSync(c)
    <3>1. /\ UNCHANGED <<drive, history, trashed>>
          /\ mirror' = drive /\ synced' = TRUE
          /\ pc[c] = "sync" /\ pc'[c] = "done"
          /\ \A d \in Commands \ {c} :
               pc'[d] = pc[d] /\ view'[d] = view[d] /\ current'[d] = current[d] /\ left'[d] = left[d]
      BY <2>10 DEF FinalSync, Exit, remote, events, TypeOK
    <3>2. \A x \in trashed : x.cmd = c => Accounted(x)'
      BY <3>1 DEF RecordedInv, Accounted
    <3> QED
      BY <1>b, <3>1, <3>2, RecordedFrame DEF RecordedInv, Applying
  <2>11. CASE Stop(c)
    <3>1. /\ UNCHANGED <<drive, mirror, synced, history, trashed>>
          /\ pc'[c] = "stopped"
          /\ \A d \in Commands \ {c} :
               pc'[d] = pc[d] /\ view'[d] = view[d] /\ current'[d] = current[d] /\ left'[d] = left[d]
      BY <2>11 DEF Stop, Exit, remote, database, events, TypeOK
    <3>2. \A x \in trashed : x.cmd = c => Accounted(x)'
      BY <3>1 DEF RecordedInv, Accounted
    <3> QED
      BY <3>1, <3>2, RecordedFrame DEF RecordedInv, Applying
  <2> QED
    BY <1>2, <2>1, <2>2, <2>3, <2>4, <2>5, <2>6, <2>7, <2>8, <2>9, <2>10, <2>11 DEF Command
<1>3. CASE UNCHANGED vars
  BY <1>r, <1>3 DEF vars, RecordedInv, Accounted, Entries, Present, Below, Applying
<1> QED
  BY <1>e, <1>1, <1>2, <1>3 DEF Next

\* However many commands and syncs work at once, and wherever they crash: unless
\* others edit Drive, a completed command has a history row for all it trashed.
THEOREM TrashIsRecorded == Spec => []UneditedTrashRecorded
<1> DEFINE Unedited == edits = 0 => RecordedInv
<1>1. Init => Unedited
  BY RecordedInvInit
<1>2. AuditInv /\ Unedited /\ [Next]_vars => Unedited'
  BY RecordedInvStep
<1>3. Unedited => UneditedTrashRecorded
  BY DEF RecordedInv, Accounted, UneditedTrashRecorded
<1> QED
  BY <1>1, <1>2, <1>3, AuditInvInvariant, PTL DEF Spec

=============================================================================
