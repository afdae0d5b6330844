-------------------------- MODULE UnshareCommandProofs --------------------------
(***************************************************************************)
(* Theorems of UnshareCommand, for any items, grantees and bounds.         *)
(***************************************************************************)
EXTENDS UnshareCommand, TLAPS

Entries == [cmd : Cmds, action : {"create_backup_folder", "copy_backup",
                                  "delete_permission_pending", "delete_permission"},
            item : Places, who : Grantees \cup {Root}]

\* Plans and snapshots are made of items and grantees.
LEMMA Made ==
  ASSUME NEW m, NEW a
  PROVE  /\ PlannedRows(m, a) \subseteq Rows
         /\ \A t, g : Listed(t, g) \subseteq Items \X Grantees
         /\ \A rows : CopyItems(m, rows) \subseteq Items
<1>1. PlannedRows(m, a) \subseteq Rows
  BY DEF PlannedRows
<1>2. \A t, g : Listed(t, g) \subseteq Items \X Grantees
  BY DEF Listed
<1>3. \A rows : CopyItems(m, rows) \subseteq Items
  BY DEF CopyItems, Subtree
<1> QED
  BY <1>1, <1>2, <1>3

-----------------------------------------------------------------------------
\* A command that runs has a number.
Numbered == pc \in Running => cmd \in Cmds

\* The type invariant.
THEOREM TypeCorrect == Spec => [](TypeOK /\ Numbered)
<1> USE DEF Numbered, Running
<1>1. Init => TypeOK /\ Numbered
  <2> SUFFICES ASSUME Init PROVE TypeOK
    BY DEF Init
  <2>1. PICK s \in Starts :
          tree = s.tree /\ direct = s.direct /\ owner = s.owner /\ managed = s.managed
    BY DEF Init
  <2>2. tree \in Trees /\ direct \in Grants /\ owner \in [Items -> Grantees]
        /\ managed \subseteq Items
    BY <2>1, StartsAssumption
  <2>3. mirror \in [tree : Trees, perms : Grants]
    BY DEF Init, Nothing, Trees, Places, Grants
  <2>4. edits \in 0 .. MaxEdits /\ cmd \in 0 .. MaxCommands
    BY BoundsAssumption DEF Init
  <2>5. ask \in Arguments /\ gone \in Grants /\ todo \subseteq Rows /\ current \subseteq Rows
        /\ copy \subseteq Items
    BY DEF Init, Arguments, Grants
  <2>6. /\ synced \in BOOLEAN /\ audit = {} /\ history = {} /\ pc = "idle" /\ fresh \in BOOLEAN
        /\ copied = {} /\ deleted = {} /\ lost = {}
    BY DEF Init
  <2> QED
    BY <2>2, <2>3, <2>4, <2>5, <2>6 DEF TypeOK
<1>2. TypeOK /\ Numbered /\ [Next]_vars => (TypeOK /\ Numbered)'
  <2> SUFFICES ASSUME TypeOK, Numbered, [Next]_vars PROVE TypeOK' /\ Numbered'
    OBVIOUS
  <2>0. Snapshot \in [tree : Trees, perms : Grants]
    <3>1. Listed(tree, direct) \in Grants
      BY Made DEF Grants
    <3> QED
      BY <3>1 DEF Snapshot, TypeOK
  <2>a. ASSUME NEW action \in {"create_backup_folder", "copy_backup",
                                "delete_permission_pending", "delete_permission"},
                NEW i \in Places, NEW who \in Grantees \cup {Root},
                cmd \in Cmds, Audit(action, i, who)
         PROVE  audit' \subseteq Entries
    BY <2>a DEF Audit, Entries, TypeOK
  <2>1. CASE UNCHANGED vars
    BY <2>1 DEF vars, TypeOK
  <2>2. CASE \E i \in Items : EditDrive(i)
    <3>1. PICK i \in Items : EditDrive(i)
      BY <2>2
    <3>2. edits' \in 0 .. MaxEdits
      BY <3>1, BoundsAssumption DEF EditDrive, Edit, TypeOK
    <3>3. tree' \in Trees /\ direct' \in Grants
      <4>1. CASE \E g \in Grantees : direct' = direct \cup {<<i, g>>} /\ UNCHANGED tree
        BY <4>1 DEF TypeOK, Grants
      <4>2. CASE \E place \in {Root} \cup (Folders \ Subtree(tree, i)) :
                   tree' = [tree EXCEPT ![i] = place] /\ UNCHANGED direct
        BY <4>2, ItemsAssumption DEF TypeOK, Trees, Places
      <4> QED
        BY <3>1, <4>1, <4>2 DEF EditDrive
    <3> QED
      BY <3>1, <3>2, <3>3 DEF EditDrive, Edit, database, arguments, work, events, TypeOK
  <2>3. CASE SyncElsewhere
    BY <2>0, <2>3 DEF SyncElsewhere, remote, arguments, work, events, TypeOK
  <2>4. CASE \E a \in Asks : Preview(a)
    <3>1. PICK a \in Asks : Preview(a)
      BY <2>4
    <3>2. cmd' \in Cmds /\ cmd' \in 0 .. MaxCommands
      BY <3>1, BoundsAssumption DEF Preview, TypeOK, Cmds
    <3>3. ask' \in Arguments
      BY <3>1, AsksAssumption DEF Preview
    <3> QED
      BY <3>1, <3>2, <3>3 DEF Preview, remote, database, work, events, TypeOK
  <2>5. CASE Release
    BY <2>5 DEF Release, remote, database, arguments, work, events, TypeOK
  <2>6. CASE Plan
    <3>1. todo' \subseteq Rows
      BY <2>6, Made DEF Plan
    <3> QED
      BY <2>6, <3>1 DEF Plan, remote, database, arguments, TypeOK
  <2>7. CASE CreateBackupFolder
    <3>1. copy' \subseteq Items
      BY <2>7, Made DEF CreateBackupFolder
    <3> QED
      BY <2>7, <3>1 DEF CreateBackupFolder, remote, database, arguments, events, TypeOK
  <2>8. CASE AuditBackupFolder
    <3>1. audit' \subseteq Entries
      BY <2>8, <2>a DEF AuditBackupFolder, Places
    <3> QED
      BY <2>8, <3>1 DEF AuditBackupFolder, remote, arguments, work, events, TypeOK, Entries
  <2>9. CASE CopyItem
    <3>1. cmd \in Cmds
      BY <2>9 DEF CopyItem
    <3>2. copied' \subseteq [cmd : Cmds, item : Items] /\ copy' \subseteq Items
      BY <2>9, <3>1 DEF CopyItem, TypeOK
    <3> QED
      BY <2>9, <3>2 DEF CopyItem, remote, database, arguments, TypeOK
  <2>10. CASE AuditCopy
    <3>1. PICK x \in copied : Audit("copy_backup", x.item, Root)
      BY <2>10 DEF AuditCopy
    <3>2. x.item \in Places /\ cmd \in Cmds
      BY <2>10 DEF AuditCopy, TypeOK, Places
    <3>3. audit' \subseteq Entries
      BY <3>1, <3>2, <2>a
    <3> QED
      BY <2>10, <3>3 DEF AuditCopy, remote, arguments, work, events, TypeOK, Entries
  <2>11. CASE AuditPending
    <3>1. PICK r \in todo : todo' = todo \ {r} /\ current' = {r} /\ NextRow(r)
      BY <2>11 DEF AuditPending
    <3>2. r \in Rows /\ cmd \in Cmds
      BY <2>11 DEF AuditPending, TypeOK
    <3>3. r.item \in Places /\ r.who \in Grantees \cup {Root}
      BY <3>2 DEF Rows, Places
    <3>4. audit' \subseteq Entries /\ pc' \in {"delete", "audit"}
      BY <3>1, <3>2, <3>3, <2>a DEF NextRow, TypeOK, Entries
    <3> QED
      BY <2>11, <3>1, <3>2, <3>4 DEF AuditPending, remote, arguments, events, TypeOK, Entries
  <2>12. CASE DeletePermission
    <3>1. PICK r \in current :
            LET after == direct \ {<<r.target, r.who>>}
            IN /\ direct' = after
               /\ gone' = gone \cup {<<r.target, r.who>>}
               /\ deleted' = deleted \cup {[cmd |-> cmd, target |-> r.target, who |-> r.who]}
               /\ lost' = lost \cup
                    {[cmd |-> cmd, item |-> p[1], who |-> p[2], via |-> r.target] :
                       p \in Listed(tree, direct) \ Listed(tree, after)}
      BY <2>12 DEF DeletePermission
    <3>2. r.target \in Items /\ r.who \in Grantees /\ cmd \in Cmds
      BY <2>12 DEF DeletePermission, TypeOK, Rows
    <3>3. direct' \in Grants /\ gone' \in Grants
          /\ deleted' \subseteq [cmd : Cmds, target : Items, who : Grantees]
      BY <3>1, <3>2 DEF TypeOK, Grants
    <3>4. lost' \subseteq [cmd : Cmds, item : Items, who : Grantees, via : Items]
      <4>1. Listed(tree, direct) \subseteq Items \X Grantees
        BY Made
      <4> QED
        BY <3>1, <3>2, <4>1 DEF TypeOK
    <3> QED
      BY <2>12, <3>3, <3>4 DEF DeletePermission, database, arguments, TypeOK
  <2>13. CASE AuditDone
    <3>1. PICK r \in current : Audit("delete_permission", r.item, r.who)
      BY <2>13 DEF AuditDone
    <3>2. r.item \in Places /\ r.who \in Grantees /\ cmd \in Cmds
      BY <2>13 DEF AuditDone, TypeOK, Rows, Places
    <3>3. audit' \subseteq Entries
      BY <3>1, <3>2, <2>a
    <3> QED
      BY <2>13, <3>3 DEF AuditDone, remote, arguments, work, events, TypeOK, Entries
  <2>14. CASE AppendRevokedShare
    <3>1. cmd \in Cmds
      BY <2>14 DEF AppendRevokedShare
    <3>2. history' \subseteq [cmd : Cmds, item : Items, who : Grantees, target : Items]
      BY <2>14, <3>1 DEF AppendRevokedShare, TypeOK, Rows
    <3> QED
      BY <2>14, <3>2 DEF AppendRevokedShare, remote, arguments, work, events, TypeOK
  <2>15. CASE RowsDone
    BY <2>15 DEF RowsDone, remote, database, arguments, work, events, TypeOK
  <2>16. CASE FinalSync
    <3>1. gone' \in Grants
      BY <2>16 DEF FinalSync, End, Grants
    <3> QED
      BY <2>16, <2>0, <3>1 DEF FinalSync, End, remote, arguments, events, TypeOK
  <2>17. CASE Stop
    <3>1. gone' \in Grants
      BY <2>17 DEF Stop, End, Grants
    <3> QED
      BY <2>17, <3>1 DEF Stop, End, remote, database, arguments, events, TypeOK
  <2> QED
    BY <2>1, <2>2, <2>3, <2>4, <2>5, <2>6, <2>7, <2>8, <2>9, <2>10, <2>11, <2>12, <2>13,
       <2>14, <2>15, <2>16, <2>17 DEF Next
<1> QED
  BY <1>1, <1>2, PTL DEF Spec

-----------------------------------------------------------------------------
(* The log.                                                                *)

Pending(c, who) ==
  \E a \in audit : a.cmd = c /\ a.action = "delete_permission_pending" /\ a.who = who
Deleted(c, r) == [cmd |-> c, target |-> r.target, who |-> r.who] \in deleted
Logged(c, r) == [cmd |-> c, action |-> "delete_permission", item |-> r.item, who |-> r.who] \in audit

\* What the row in work has by now, phase by phase; and that what the command takes for
\* deleted it has deleted itself.
RowInWork ==
  /\ \A r, q \in current : r = q
  /\ pc = "delete" => \A r \in current : Pending(cmd, r.who)
  /\ pc \in {"audit", "history"} => \A r \in current : Deleted(cmd, r)
  /\ pc = "history" => \A r \in current : Logged(cmd, r)
  /\ \A t \in gone : [cmd |-> cmd, target |-> t[1], who |-> t[2]] \in deleted
  /\ pc \in {"idle", "done", "stopped"} => current = {} /\ gone = {}

\* Whatever is refused, killed, or changed by others: a deletion has its pending entry, and
\* entries and history rows tell of deletions that were made.
THEOREM CallsBracketed == Spec => []LogBracketsCall
<1> DEFINE Inv == LogBracketsCall /\ RowInWork
<1> USE DEF Pending, Deleted, Logged
<1>1. Init => Inv
  BY DEF Init, LogBracketsCall, RowInWork
<1>2. Inv /\ TypeOK /\ [Next]_vars => Inv'
  <2> SUFFICES ASSUME Inv, TypeOK, [Next]_vars PROVE Inv'
    OBVIOUS
  <2> USE DEF LogBracketsCall, RowInWork
  <2>s. ASSUME UNCHANGED <<audit, history, cmd, current, gone, deleted>>,
               pc' = pc \/ (pc' \notin {"idle", "done", "stopped", "delete", "audit", "history"})
        PROVE  Inv'
    BY <2>s
  <2>1. CASE UNCHANGED vars
    BY <2>1, <2>s DEF vars
  <2>2. CASE \E i \in Items : EditDrive(i)
    BY <2>2, <2>s DEF EditDrive, Edit, database, arguments, work, events
  <2>3. CASE SyncElsewhere
    BY <2>3, <2>s DEF SyncElsewhere, arguments, work, events
  <2>4. CASE \E a \in Asks : Preview(a)
    <3>1. /\ UNCHANGED <<audit, history, current, gone, deleted>> /\ current = {} /\ gone = {}
          /\ pc' \in {"release", "plan", "stopped"}
      BY <2>4 DEF Preview, database, work, events
    <3> QED
      BY <3>1
  <2>5. CASE Release
    BY <2>5, <2>s DEF Release, database, arguments, work, events
  <2>6. CASE Plan
    BY <2>6, <2>s DEF Plan, database, arguments
  <2>7. CASE CreateBackupFolder
    BY <2>7, <2>s DEF CreateBackupFolder, database, arguments, events
  <2>a. ASSUME audit \subseteq audit', UNCHANGED <<history, cmd, current, gone, deleted>>,
               pc' \in {"copy", "rows"}
        PROVE  Inv'
    BY <2>a
  <2>8. CASE AuditBackupFolder
    BY <2>8, <2>a DEF AuditBackupFolder, Audit, arguments, work, events
  <2>9. CASE CopyItem
    BY <2>9, <2>s DEF CopyItem, database, arguments
  <2>10. CASE AuditCopy
    BY <2>10, <2>a DEF AuditCopy, Audit, arguments, work, events
  <2>11. CASE AuditPending
    <3>1. PICK r \in todo : current' = {r} /\ NextRow(r)
      BY <2>11 DEF AuditPending
    <3>2. UNCHANGED <<history, cmd, gone, deleted>>
      BY <2>11 DEF AuditPending, arguments, events
    <3>3. CASE <<r.target, r.who>> \in gone
      <4>1. pc' = "audit" /\ UNCHANGED audit /\ Deleted(cmd, r)
        BY <3>1, <3>3 DEF NextRow
      <4> QED
        BY <3>1, <3>2, <4>1
    <3>4. CASE <<r.target, r.who>> \notin gone
      <4>1. pc' = "delete" /\ audit \subseteq audit' /\ Pending(cmd, r.who)'
        <5> DEFINE entry == [cmd |-> cmd, action |-> "delete_permission_pending",
                             item |-> r.item, who |-> r.who]
        <5>1. pc' = "delete" /\ audit' = audit \cup {entry}
          BY <3>1, <3>4 DEF NextRow, Audit
        <5>2. entry.cmd = cmd /\ entry.action = "delete_permission_pending" /\ entry.who = r.who
          OBVIOUS
        <5> HIDE DEF entry
        <5> QED
          BY <5>1, <5>2, <3>2
      <4> QED
        BY <3>1, <3>2, <4>1
    <3> QED
      BY <3>3, <3>4
  <2>12. CASE DeletePermission
    <3>1. PICK r \in current :
            /\ gone' = gone \cup {<<r.target, r.who>>}
            /\ deleted' = deleted \cup {[cmd |-> cmd, target |-> r.target, who |-> r.who]}
      BY <2>12 DEF DeletePermission
    <3>2. UNCHANGED <<audit, history, cmd, current>> /\ pc = "delete" /\ pc' = "audit"
      BY <2>12 DEF DeletePermission, database, arguments
    <3>3. Pending(cmd, r.who) /\ current = {r}
      BY <3>1, <3>2
    <3> QED
      BY <3>1, <3>2, <3>3
  <2>13. CASE AuditDone
    <3>1. PICK r \in current : Audit("delete_permission", r.item, r.who)
      BY <2>13 DEF AuditDone
    <3>2. UNCHANGED <<history, cmd, current, gone, deleted>> /\ pc = "audit" /\ pc' = "history"
      BY <2>13 DEF AuditDone, arguments, work, events
    <3>3. audit \subseteq audit' /\ Logged(cmd, r)' /\ current = {r}
      BY <3>1, <3>2 DEF Audit
    <3> QED
      BY <3>2, <3>3
  <2>14. CASE AppendRevokedShare
    <3>1. PICK r \in current :
            history' = history \cup {[cmd |-> cmd, item |-> r.item, who |-> r.who,
                                      target |-> r.target]}
      BY <2>14 DEF AppendRevokedShare
    <3>2. UNCHANGED <<audit, cmd, current, gone, deleted>> /\ pc = "history" /\ pc' = "rows"
      BY <2>14 DEF AppendRevokedShare, arguments, work, events
    <3>3. Deleted(cmd, r) /\ Logged(cmd, r)
      BY <3>1, <3>2
    <3> QED
      BY <3>1, <3>2, <3>3
  <2>15. CASE RowsDone
    BY <2>15, <2>s DEF RowsDone, database, arguments, work, events
  <2>e. ASSUME UNCHANGED <<audit, history, cmd, deleted>>, current' = {}, gone' = {}
        PROVE  Inv'
    BY <2>e
  <2>16. CASE FinalSync
    BY <2>16, <2>e DEF FinalSync, End, arguments, events
  <2>17. CASE Stop
    BY <2>17, <2>e DEF Stop, End, database, arguments, events
  <2> QED
    BY <2>1, <2>2, <2>3, <2>4, <2>5, <2>6, <2>7, <2>8, <2>9, <2>10, <2>11, <2>12, <2>13,
       <2>14, <2>15, <2>16, <2>17 DEF Next
<1>3. Inv => LogBracketsCall
  OBVIOUS
<1> QED
  BY <1>1, <1>2, <1>3, TypeCorrect, PTL DEF Spec

-----------------------------------------------------------------------------
(* Whose access goes.                                                      *)

\* Taking a grant away takes access from nobody but its grantee.
LEMMA OnlyTheGrantee ==
  ASSUME NEW target, NEW who, NEW p \in Listed(tree, direct) \ Listed(tree, direct \ {<<target, who>>})
  PROVE  p[2] = who
<1>1. \A a \in Items : p[2] # who /\ <<a, p[2]>> \in direct => <<a, p[2]>> \in direct \ {<<target, who>>}
  OBVIOUS
<1> QED
  BY <1>1 DEF Listed

\* A row is for a grantee that was asked for, and its target was selected, directly
\* or as the folder the share is from.
Asked(r) == r.target \in ask.want /\ r.who \in ask.who

Meant ==
  /\ NobodyElseRevoked
  /\ \A r \in todo \cup current : Asked(r)
  /\ \A x \in lost : x.cmd <= cmd
  /\ pc \in {"idle", "done", "stopped"} => todo = {} /\ current = {}

\* Whatever others edit and however old the mirror is, nobody loses access but the
\* grantees the operator asked for, to items selected or held by a selected folder.
THEOREM NobodyElseLosesAccess == Spec => []NobodyElseRevoked
<1>1. Init => Meant
  BY DEF Init, Meant, NobodyElseRevoked
<1>2. ASSUME NEW m, NEW r \in PlannedRows(m, ask)
      PROVE  Asked(r)
  BY DEF PlannedRows, Findings, Actionable, Asked
<1>3. Meant /\ TypeOK /\ [Next]_vars => Meant'
  <2> SUFFICES ASSUME Meant, TypeOK, [Next]_vars PROVE Meant'
    OBVIOUS
  <2> USE DEF Meant, NobodyElseRevoked, Asked
  <2>s. ASSUME UNCHANGED <<cmd, ask, lost>>, todo' \cup current' \subseteq todo \cup current,
               pc' = pc \/ pc' \notin {"idle", "done", "stopped"} \/ todo' \cup current' = {}
        PROVE  Meant'
    BY <2>s
  <2>1. CASE UNCHANGED vars
    BY <2>1, <2>s DEF vars
  <2>2. CASE \E i \in Items : EditDrive(i)
    BY <2>2, <2>s DEF EditDrive, Edit, arguments, work, events
  <2>3. CASE SyncElsewhere
    BY <2>3, <2>s DEF SyncElsewhere, arguments, work, events
  <2>4. CASE \E a \in Asks : Preview(a)
    <3>1. /\ UNCHANGED <<todo, current, lost>> /\ todo = {} /\ current = {} /\ cmd' = cmd + 1
          /\ pc' \in {"release", "plan", "stopped"}
      BY <2>4 DEF Preview, work, events
    <3>2. \A x \in lost : x.cmd < cmd' /\ x.cmd <= cmd'
      BY <3>1 DEF TypeOK, Cmds
    <3> QED
      BY <3>1, <3>2 DEF TypeOK, Cmds
  <2>5. CASE Release
    BY <2>5, <2>s DEF Release, arguments, work, events
  <2>6. CASE Plan
    <3>1. UNCHANGED <<cmd, ask, lost, current>> /\ todo' = PlannedRows(mirror, ask)
          /\ pc' \in {"sync", "folder", "rows"}
      BY <2>6 DEF Plan, arguments
    <3>2. \A r \in todo' : Asked(r)
      BY <3>1, <1>2
    <3> QED
      BY <3>1, <3>2
  <2>7. CASE CreateBackupFolder \/ CopyItem
    BY <2>7, <2>s DEF CreateBackupFolder, CopyItem, arguments, events
  <2>8. CASE AuditBackupFolder \/ AuditCopy \/ AuditDone \/ AppendRevokedShare \/ RowsDone
    BY <2>8, <2>s DEF AuditBackupFolder, AuditCopy, AuditDone, AppendRevokedShare, RowsDone,
                      arguments, work, events
  <2>9. CASE AuditPending
    <3>1. UNCHANGED <<cmd, ask, lost>> /\ todo' \cup current' \subseteq todo \cup current
      BY <2>9 DEF AuditPending, arguments, events
    <3>2. pc' \in {"audit", "delete"}
      BY <2>9 DEF AuditPending, NextRow
    <3> QED
      BY <3>1, <3>2, <2>s
  <2>10. CASE DeletePermission
    <3>1. PICK r \in current :
            lost' = lost \cup
              {[cmd |-> cmd, item |-> p[1], who |-> p[2], via |-> r.target] :
                 p \in Listed(tree, direct) \ Listed(tree, direct \ {<<r.target, r.who>>})}
      BY <2>10 DEF DeletePermission
    <3>2. UNCHANGED <<cmd, ask, todo, current>> /\ pc' = "audit"
      BY <2>10 DEF DeletePermission, arguments
    <3>3. ASSUME NEW x \in lost' \ lost
          PROVE  x.cmd = cmd /\ x.via = r.target /\ x.who = r.who
      <4>1. PICK p \in Listed(tree, direct) \ Listed(tree, direct \ {<<r.target, r.who>>}) :
              x = [cmd |-> cmd, item |-> p[1], who |-> p[2], via |-> r.target]
        BY <3>1, <3>3
      <4>2. p[2] = r.who
        BY OnlyTheGrantee
      <4> QED
        BY <4>1, <4>2
    <3>4. \A x \in lost' : x.cmd <= cmd'
      BY <3>2, <3>3 DEF TypeOK
    <3> QED
      BY <3>2, <3>3, <3>4
  <2>11. CASE FinalSync \/ Stop
    <3>1. UNCHANGED <<cmd, ask, lost>> /\ todo' = {} /\ current' = {}
      BY <2>11 DEF FinalSync, Stop, End, arguments, events
    <3> QED
      BY <3>1
  <2> QED
    BY <2>1, <2>2, <2>3, <2>4, <2>5, <2>6, <2>7, <2>8, <2>9, <2>10, <2>11 DEF Next
<1>4. Meant => NobodyElseRevoked
  BY DEF Meant
<1> QED
  BY <1>1, <1>3, <1>4, TypeCorrect, PTL DEF Spec

-----------------------------------------------------------------------------
(* Folder trees.                                                           *)

\* Of any items, one is not in another of them: no folder is inside itself.
Acyclic(t) == \A C \in SUBSET Items : C # {} => \E i \in C : t[i] \notin C

LEMMA SubtreeHolds ==
  ASSUME NEW t, NEW a \in Items
  PROVE  /\ a \in Subtree(t, a) /\ Subtree(t, a) \subseteq Items
         /\ \A k \in Items : t[k] \in Subtree(t, a) => k \in Subtree(t, a)
BY DEF Subtree

\* What is in a subtree of a subtree is in that subtree.
LEMMA SubtreeTransitive ==
  ASSUME NEW t, NEW a \in Items, NEW b \in Subtree(t, a)
  PROVE  Subtree(t, b) \subseteq Subtree(t, a)
BY SubtreeHolds DEF Subtree

\* Whatever is in a subtree, and is not its root, has its parent there.
LEMMA ParentInSubtree ==
  ASSUME NEW t, NEW a \in Items, NEW j \in Subtree(t, a), j # a
  PROVE  t[j] \in Subtree(t, a)
<1> DEFINE C == {x \in Subtree(t, a) : x = a \/ t[x] \in Subtree(t, a)}
<1>1. C \in SUBSET Items /\ a \in C
  BY SubtreeHolds
<1>2. ASSUME NEW k \in Items, t[k] \in C PROVE k \in C
  BY <1>2, SubtreeHolds
<1>3. j \in C
  <2> HIDE DEF C
  <2> QED
    BY <1>1, <1>2 DEF Subtree
<1> QED
  BY <1>3

\* Two subtrees that share an item are nested: an item has one parent.
LEMMA SubtreesNest ==
  ASSUME NEW t, NEW a \in Items, NEW b \in Items,
         Subtree(t, a) \cap Subtree(t, b) # {}
  PROVE  a \in Subtree(t, b) \/ b \in Subtree(t, a)
<1> SUFFICES ASSUME a \notin Subtree(t, b), b \notin Subtree(t, a) PROVE FALSE
  OBVIOUS
<1> DEFINE C == Subtree(t, a) \ Subtree(t, b)
<1>1. C \in SUBSET Items /\ a \in C
  BY SubtreeHolds
<1>2. ASSUME NEW k \in Items, t[k] \in C PROVE k \in C
  BY <1>2, SubtreeHolds, ParentInSubtree
<1>3. Subtree(t, a) \subseteq C
  <2> HIDE DEF C
  <2> QED
    BY <1>1, <1>2 DEF Subtree
<1> QED
  BY <1>3

\* Two items that are in each other's subtree are one.
LEMMA SubtreeAntisymmetric ==
  ASSUME NEW t, Acyclic(t), NEW x \in Items, NEW y \in Items,
         x \in Subtree(t, y), y \in Subtree(t, x)
  PROVE  x = y
<1> SUFFICES ASSUME x # y PROVE FALSE
  OBVIOUS
<1> DEFINE C == {k \in Subtree(t, x) : x \in Subtree(t, k)}
<1>1. C \in SUBSET Items /\ x \in C
  BY SubtreeHolds
<1>2. PICK k \in C : t[k] \notin C
  BY <1>1 DEF Acyclic
<1>3. k \in Items
  BY <1>1, <1>2
<1>4. t[k] \in Subtree(t, x)
  <2>1. CASE k = x
    <3>1. t[x] \in Subtree(t, y)
      BY ParentInSubtree
    <3>2. Subtree(t, y) \subseteq Subtree(t, x)
      BY SubtreeTransitive
    <3> QED
      BY <2>1, <3>1, <3>2
  <2>2. CASE k # x
    BY <2>2, ParentInSubtree
  <2> QED
    BY <2>1, <2>2
<1>5. x \in Subtree(t, t[k])
  <2>1. t[k] \in Items
    BY <1>4, SubtreeHolds
  <2>2. k \in Subtree(t, t[k])
    BY <1>3, <2>1, SubtreeHolds
  <2>3. Subtree(t, k) \subseteq Subtree(t, t[k])
    BY <2>1, <2>2, SubtreeTransitive
  <2> QED
    BY <2>3
<1> QED
  BY <1>2, <1>4, <1>5

-----------------------------------------------------------------------------
(* Where a share is from.                                                  *)

\* On the way up from a listed item there is a last folder that lists the grantee.
LEMMA ShareSourceExists ==
  ASSUME NEW m, Acyclic(m.tree), m.perms \subseteq Items \X Grantees, NEW p \in m.perms
  PROVE  LET a == ShareSource(m, p)
         IN /\ a \in Items /\ p[1] \in Subtree(m.tree, a)
            /\ <<a, p[2]>> \in m.perms /\ <<m.tree[a], p[2]>> \notin m.perms
<1> DEFINE t == m.tree
           On(a) == \A b \in Items : b \in Subtree(t, a) /\ p[1] \in Subtree(t, b)
                                       => <<b, p[2]>> \in m.perms
           U == {a \in Items : p[1] \in Subtree(t, a) /\ On(a)}
<1>1. p[1] \in Items /\ p = <<p[1], p[2]>>
  OBVIOUS
<1>2. p[1] \in U
  <2>1. p[1] \in Subtree(t, p[1])
    BY <1>1, SubtreeHolds
  <2>2. ASSUME NEW b \in Items, b \in Subtree(t, p[1]), p[1] \in Subtree(t, b)
        PROVE  <<b, p[2]>> \in m.perms
    <3>1. b = p[1]
      BY <1>1, <2>2, SubtreeAntisymmetric
    <3> QED
      BY <1>1, <3>1
  <2> QED
    BY <1>1, <2>1, <2>2
<1>3. PICK a \in U : t[a] \notin U
  <2>1. U \in SUBSET Items /\ U # {}
    BY <1>2
  <2> HIDE DEF U
  <2> QED
    BY <2>1 DEF Acyclic
<1>4. a \in Items /\ p[1] \in Subtree(t, a) /\ On(a)
  BY <1>3
<1>5. <<t[a], p[2]>> \notin m.perms
  <2> SUFFICES ASSUME <<t[a], p[2]>> \in m.perms PROVE t[a] \in U
    BY <1>3
  <2>1. t[a] \in Items
    OBVIOUS
  <2>2. a \in Subtree(t, t[a])
    BY <1>4, <2>1, SubtreeHolds
  <2>3. p[1] \in Subtree(t, t[a])
    BY <1>4, <2>1, <2>2, SubtreeTransitive
  <2>4. ASSUME NEW b \in Items, b \in Subtree(t, t[a]), p[1] \in Subtree(t, b)
        PROVE  <<b, p[2]>> \in m.perms
    <3>1. CASE b \in Subtree(t, a)
      BY <1>4, <2>4, <3>1
    <3>2. CASE b \notin Subtree(t, a)
      <4>1. a \in Subtree(t, b) /\ a # b
        BY <1>4, <2>4, <3>2, SubtreesNest, SubtreeHolds
      <4>2. t[a] \in Subtree(t, b)
        BY <4>1, ParentInSubtree
      <4>3. b = t[a]
        BY <2>1, <2>4, <4>2, SubtreeAntisymmetric
      <4> QED
        BY <4>3
    <3> QED
      BY <3>1, <3>2
  <2> QED
    BY <2>1, <2>3, <2>4
<1>6. \E s \in Items :
        /\ p[1] \in Subtree(m.tree, s)
        /\ \A b \in Items : b \in Subtree(m.tree, s) /\ p[1] \in Subtree(m.tree, b)
                              => <<b, p[2]>> \in m.perms
        /\ <<m.tree[s], p[2]>> \notin m.perms
  BY <1>4, <1>5
<1>7. LET s == ShareSource(m, p)
      IN /\ s \in Items
         /\ p[1] \in Subtree(m.tree, s)
         /\ \A b \in Items : b \in Subtree(m.tree, s) /\ p[1] \in Subtree(m.tree, b)
                               => <<b, p[2]>> \in m.perms
         /\ <<m.tree[s], p[2]>> \notin m.perms
  BY <1>6 DEF ShareSource
<1> QED
  BY <1>7, SubtreeHolds

\* Who is not listed on a folder has no grant on it nor above it.
LEMMA UnlistedAbove ==
  ASSUME NEW t, NEW grants, NEW s \in Items, NEW who \in Grantees,
         <<t[s], who>> \notin Listed(t, grants),
         NEW a \in Items, a # s, s \in Subtree(t, a)
  PROVE  <<a, who>> \notin grants /\ owner[a] # who
<1>1. t[s] \in Subtree(t, a)
  BY ParentInSubtree
<1>2. t[s] \in Items
  BY <1>1, SubtreeHolds
<1> QED
  BY <1>1, <1>2 DEF Listed

\* With an up to date mirror, the share is from the grant itself, or is the owner's.
LEMMA ShareSourceGrants ==
  ASSUME NEW t, NEW grants, Acyclic(t),
         NEW p \in Listed(t, grants), NEW m, m = [tree |-> t, perms |-> Listed(t, grants)]
  PROVE  LET a == ShareSource(m, p) IN <<a, p[2]>> \in grants \/ owner[a] = p[2]
<1> DEFINE a == ShareSource(m, p)
<1>1. p[2] \in Grantees /\ m.tree = t /\ m.perms = Listed(t, grants)
  BY DEF Listed
<1>2. a \in Items /\ <<a, p[2]>> \in Listed(t, grants) /\ <<t[a], p[2]>> \notin Listed(t, grants)
  BY <1>1, Made, ShareSourceExists
<1> HIDE DEF a
<1>3. PICK b \in Items : a \in Subtree(t, b) /\ (owner[b] = p[2] \/ <<b, p[2]>> \in grants)
  BY <1>2 DEF Listed
<1>4. b = a
  BY <1>1, <1>2, <1>3, UnlistedAbove
<1> QED
  BY <1>3, <1>4 DEF a

-----------------------------------------------------------------------------
(* While nobody edits Drive: what is granted only shrinks.                 *)

\* No folder above the target of a row grants its grantee anything.
Top(r) ==
  \A a \in Items : r.target \in Subtree(tree, a) /\ a # r.target => <<a, r.who>> \notin direct

Share(r) == <<r.target, r.who>>

Resting == {"idle", "done", "stopped", "release", "plan"}

\* The mirror lists whoever has access, so that a row is from the last folder up that
\* grants it; what the command takes for deleted is no longer granted, and what it has
\* still to delete is, if its mirror was right.
Unedited ==
  /\ Acyclic(tree)
  /\ synced => mirror.tree = tree /\ Listed(tree, direct) \subseteq mirror.perms
  /\ \A r \in todo \cup current \cup history : Top(r)
  /\ gone \cap direct = {} /\ \A r, q \in current : r = q
  /\ \A h \in history : Share(h) \notin direct
  /\ pc \in {"audit", "history"} => \A r \in current : Share(r) \notin direct
  /\ pc = "delete" => \A r \in current : Share(r) \notin gone
  /\ fresh => \A r \in todo \cup current :
       owner[r.target] # r.who => Share(r) \in direct \cup gone
  /\ pc \in Resting => todo = {} /\ current = {} /\ gone = {}

\* Fewer grants give nobody access.
LEMMA ListedShrinks ==
  ASSUME NEW t, NEW g1, NEW g2, g1 \subseteq g2
  PROVE  Listed(t, g1) \subseteq Listed(t, g2)
BY DEF Listed

\* A plan made from the mirror has a row only where the grant itself is, at the top.
LEMMA PlanIsAtTheTop ==
  ASSUME TypeOK, Unedited, synced, NEW r \in PlannedRows(mirror, ask)
  PROVE  /\ Top(r)
         /\ mirror = Snapshot /\ owner[r.target] # r.who => Share(r) \in direct
<1> DEFINE p == <<r.item, r.who>>
<1>1. /\ mirror.tree = tree /\ Listed(tree, direct) \subseteq mirror.perms /\ Acyclic(tree)
      /\ mirror.perms \subseteq Items \X Grantees
  BY DEF Unedited, TypeOK, Grants
<1>2. p \in mirror.perms /\ r.target = ShareSource(mirror, p) /\ p[2] = r.who /\ r \in Rows
  BY DEF PlannedRows, Findings
<1>3. r.target \in Items /\ <<tree[r.target], r.who>> \notin mirror.perms
  <2> HIDE DEF p
  <2> QED
    BY <1>1, <1>2, ShareSourceExists
<1>4. Top(r)
  <2>1. <<tree[r.target], r.who>> \notin Listed(tree, direct) /\ r.who \in Grantees
    BY <1>1, <1>2, <1>3 DEF Rows
  <2> QED
    BY <1>3, <2>1, UnlistedAbove DEF Top
<1>5. ASSUME mirror = Snapshot, owner[r.target] # r.who PROVE Share(r) \in direct
  <2>1. p \in Listed(tree, direct) /\ mirror = [tree |-> tree, perms |-> Listed(tree, direct)]
    BY <1>2, <1>5 DEF Snapshot
  <2> HIDE DEF p
  <2> QED
    BY <1>1, <1>2, <1>5, <2>1, ShareSourceGrants DEF Share
<1> QED
  BY <1>4, <1>5

\* A step that leaves the grants, the history and what the plan knew alone.
LEMMA UneditedFrame ==
  ASSUME Unedited, UNCHANGED <<tree, direct, owner, mirror, synced, history, fresh>>,
         UNCHANGED gone, todo' \cup current' \subseteq todo \cup current,
         \A r, q \in current' : r = q,
         pc' \in {"audit", "history"} => \A r \in current' : Share(r) \notin direct,
         pc' = "delete" => \A r \in current' : Share(r) \notin gone,
         pc' \in Resting => todo' = {} /\ current' = {} /\ gone' = {}
  PROVE  Unedited'
<1>1. \A r \in todo' \cup current' \cup history' : Top(r)'
  BY DEF Unedited, Top
<1>2. Listed(tree, direct)' = Listed(tree, direct)
  BY DEF Listed
<1>3. \A h \in history' : Share(h)' \notin direct'
  BY DEF Unedited, Share
<1>4. fresh' => \A r \in todo' \cup current' :
        owner'[r.target] # r.who => Share(r)' \in direct' \cup gone'
  BY DEF Unedited, Share
<1>5. \A r : Share(r)' = Share(r)
  BY DEF Share
<1> QED
  BY <1>1, <1>2, <1>3, <1>4, <1>5 DEF Unedited

LEMMA UneditedInit == Init => Unedited
<1> SUFFICES ASSUME Init PROVE Unedited
  OBVIOUS
<1>1. Acyclic(tree)
  BY TreesAssumption DEF Init, Acyclic
<1> QED
  BY <1>1 DEF Init, Unedited

LEMMA UneditedStep ==
  ASSUME TypeOK, edits = 0 => Unedited, [Next]_vars, edits' = 0 PROVE Unedited'
<1>e. edits = 0 /\ ~\E i \in Items : EditDrive(i)
  BY DEF EditDrive, Edit, Next, vars, TypeOK, remote, SyncElsewhere, Preview, Release, Plan,
     CreateBackupFolder, AuditBackupFolder, CopyItem, AuditCopy, AuditPending,
     DeletePermission, AuditDone, AppendRevokedShare, RowsDone, FinalSync, Stop
<1>u. Unedited
  BY <1>e
<1> USE <1>u
<1>s. ASSUME UNCHANGED <<tree, direct, owner, mirror, synced, history, fresh>>,
             UNCHANGED <<todo, current, gone>>,
             \/ pc' = pc
             \/ pc \in Resting /\ pc' \in Resting
             \/ pc' \in {"folder", "folder_audit", "copy", "copy_audit", "rows", "sync"}
      PROVE  Unedited'
  <2>1. todo' = todo /\ current' = current /\ gone' = gone /\ \A r, q \in current' : r = q
    BY <1>s DEF Unedited
  <2>2. /\ pc' \in {"audit", "history"} => \A r \in current' : Share(r) \notin direct
        /\ pc' = "delete" => \A r \in current' : Share(r) \notin gone
        /\ pc' \in Resting => todo' = {} /\ current' = {} /\ gone' = {}
    BY <1>s, <2>1 DEF Unedited, Resting
  <2> QED
    BY <1>s, <2>1, <2>2, UneditedFrame
<1>1. CASE UNCHANGED vars
  BY <1>1, <1>s DEF vars
<1>m. Listed(tree, direct) = Snapshot.perms /\ Snapshot.tree = tree
  BY DEF Snapshot
<1>2. CASE SyncElsewhere
  <2>1. /\ UNCHANGED <<tree, direct, owner, history, fresh, todo, current, gone, pc>>
        /\ mirror' = Snapshot /\ synced' = TRUE
    BY <1>2 DEF SyncElsewhere, remote, work, events
  <2>2. Listed(tree, direct)' = Listed(tree, direct)
    BY <2>1 DEF Listed
  <2>3. \A r \in todo' \cup current' \cup history' : Top(r)'
    BY <2>1 DEF Unedited, Top
  <2>4. \A r : Share(r)' = Share(r)
    BY DEF Share
  <2> QED
    BY <1>m, <2>1, <2>2, <2>3, <2>4 DEF Unedited
<1>3. CASE \E a \in Asks : Preview(a)
  BY <1>3, <1>s DEF Preview, remote, database, work, events, Resting
<1>4. CASE Release
  BY <1>4, <1>s DEF Release, remote, database, work, events, Resting
<1>5. CASE Plan
  <2>1. /\ UNCHANGED <<tree, direct, owner, mirror, synced, history, current, gone>>
        /\ synced /\ pc = "plan" /\ pc' \in {"sync", "folder", "rows"}
        /\ todo' = PlannedRows(mirror, ask) /\ fresh' = (mirror = Snapshot)
    BY <1>5 DEF Plan, remote, database
  <2>2. current = {} /\ gone = {}
    BY <2>1 DEF Unedited, Resting
  <2>3. \A r \in todo' : Top(r) /\ (fresh' /\ owner[r.target] # r.who => Share(r) \in direct)
    BY <2>1, PlanIsAtTheTop
  <2>4. \A r \in todo' \cup current' \cup history' : Top(r)'
    BY <2>1, <2>2, <2>3 DEF Unedited, Top
  <2>5. Listed(tree, direct)' = Listed(tree, direct)
    BY <2>1 DEF Listed
  <2>6. \A r : Share(r)' = Share(r)
    BY DEF Share
  <2> QED
    BY <2>1, <2>2, <2>3, <2>4, <2>5, <2>6 DEF Unedited, Resting
<1>6. CASE CreateBackupFolder
  BY <1>6, <1>s DEF CreateBackupFolder, remote, database, events, Resting
<1>7. CASE AuditBackupFolder
  BY <1>7, <1>s DEF AuditBackupFolder, remote, work, events, Resting
<1>8. CASE CopyItem
  BY <1>8, <1>s DEF CopyItem, remote, database, Resting
<1>9. CASE AuditCopy
  BY <1>9, <1>s DEF AuditCopy, remote, work, events, Resting
<1>10. CASE AuditPending
  <2>1. PICK r \in todo : todo' = todo \ {r} /\ current' = {r} /\ NextRow(r)
    BY <1>10 DEF AuditPending
  <2>2. UNCHANGED <<tree, direct, owner, mirror, synced, history, fresh, gone>>
    BY <1>10 DEF AuditPending, remote, events
  <2>3. \/ pc' = "audit" /\ Share(r) \in gone
        \/ pc' = "delete" /\ Share(r) \notin gone
    BY <2>1 DEF NextRow, Share
  <2>4. Share(r) \in gone => Share(r) \notin direct
    BY DEF Unedited
  <2> QED
    BY <2>1, <2>2, <2>3, <2>4, UneditedFrame DEF Resting
<1>11. CASE DeletePermission
  <2>1. PICK r \in current :
          /\ direct' = direct \ {Share(r)}
          /\ gone' = gone \cup {Share(r)}
          /\ Share(r) \in direct
    BY <1>11 DEF DeletePermission, Deletable, Share
  <2>2. /\ UNCHANGED <<tree, owner, mirror, synced, history, fresh, todo, current>>
        /\ pc = "delete" /\ pc' = "audit"
    BY <1>11 DEF DeletePermission, database
  <2>3. direct' \subseteq direct
    BY <2>1
  <2>4. Listed(tree, direct)' \subseteq Listed(tree, direct)
    BY <2>2, <2>3 DEF Listed
  <2>5. \A q \in todo' \cup current' \cup history' : Top(q)'
    BY <2>2, <2>3 DEF Unedited, Top
  <2>6. \A q : Share(q)' = Share(q)
    BY DEF Share
  <2>7. direct' \cup gone' = direct \cup gone /\ gone' \cap direct' = {}
    <3>1. gone \cap direct = {}
      BY DEF Unedited
    <3> QED
      BY <2>1, <3>1
  <2>8. \A q \in current' : Share(q)' \notin direct'
    BY <2>1, <2>2, <2>6 DEF Unedited
  <2>9. /\ \A h \in history' : Share(h)' \notin direct'
        /\ fresh' => \A q \in todo' \cup current' :
             owner'[q.target] # q.who => Share(q)' \in direct' \cup gone'
    BY <2>2, <2>3, <2>6, <2>7 DEF Unedited
  <2> QED
    BY <2>2, <2>4, <2>5, <2>7, <2>8, <2>9 DEF Unedited, Resting
<1>12. CASE AuditDone
  BY <1>12, UneditedFrame DEF AuditDone, remote, work, events, Resting, Unedited
<1>13. CASE AppendRevokedShare
  <2>1. PICK r \in current :
          history' = history \cup {[cmd |-> cmd, item |-> r.item, who |-> r.who,
                                    target |-> r.target]}
    BY <1>13 DEF AppendRevokedShare
  <2>2. /\ UNCHANGED <<tree, direct, owner, mirror, synced, fresh, todo, current, gone>>
        /\ pc = "history" /\ pc' = "rows"
    BY <1>13 DEF AppendRevokedShare, remote, work, events
  <2>3. Top(r) /\ Share(r) \notin direct
    BY <2>2 DEF Unedited
  <2>4. ASSUME NEW h \in history' PROVE Top(h)' /\ Share(h)' \notin direct'
    <3>1. CASE h \in history
      BY <2>2, <3>1 DEF Unedited, Top, Share
    <3>2. CASE h \notin history
      <4>1. h.target = r.target /\ h.who = r.who
        BY <2>1, <3>2
      <4> QED
        BY <2>2, <2>3, <4>1 DEF Top, Share
    <3> QED
      BY <3>1, <3>2
  <2>5. \A q \in todo' \cup current' \cup history' : Top(q)'
    BY <2>2, <2>4 DEF Unedited, Top
  <2>6. Listed(tree, direct)' = Listed(tree, direct)
    BY <2>2 DEF Listed
  <2>7. \A q : Share(q)' = Share(q)
    BY DEF Share
  <2> QED
    BY <2>2, <2>4, <2>5, <2>6, <2>7 DEF Unedited, Resting
<1>14. CASE RowsDone
  BY <1>14, <1>s DEF RowsDone, remote, database, work, events, Resting
<1>15. CASE FinalSync \/ Stop
  <2>1. /\ UNCHANGED <<tree, direct, owner, history, fresh>>
        /\ todo' = {} /\ current' = {} /\ gone' = {} /\ pc' \in {"done", "stopped"}
        /\ \/ mirror' = Snapshot /\ synced' = TRUE
           \/ UNCHANGED <<mirror, synced>>
    BY <1>15 DEF FinalSync, Stop, End, remote, database, events
  <2>2. Listed(tree, direct)' = Listed(tree, direct)
    BY <2>1 DEF Listed
  <2>3. \A r \in todo' \cup current' \cup history' : Top(r)'
    BY <2>1 DEF Unedited, Top
  <2>4. \A r : Share(r)' = Share(r)
    BY DEF Share
  <2> QED
    BY <1>m, <2>1, <2>2, <2>3, <2>4 DEF Unedited
<1> QED
  BY <1>e, <1>1, <1>2, <1>3, <1>4, <1>5, <1>6, <1>7, <1>8, <1>9, <1>10, <1>11, <1>12, <1>13,
     <1>14, <1>15 DEF Next

LEMMA UneditedInvariant == Spec => [](edits = 0 => Unedited)
<1> DEFINE Inv == edits = 0 => Unedited
<1>1. Init => Inv
  BY UneditedInit
<1>2. TypeOK /\ Inv /\ [Next]_vars => Inv'
  BY UneditedStep
<1> QED
  BY <1>1, <1>2, TypeCorrect, PTL DEF Spec

\* Unless others edit Drive, whoever is in the history has no grant left on the folder
\* named there nor on any above it, however old the mirror was, whatever crashed.
THEOREM RevocationsHold == Spec => []RevokedIsGone
<1>1. (edits = 0 => Unedited) => RevokedIsGone
  BY DEF Unedited, Top, Share, RevokedIsGone
<1> QED
  BY <1>1, UneditedInvariant, PTL

\* A command that planned from an up to date mirror, with nobody editing, asks Drive for
\* nothing it refuses, but for the access of owners.
THEOREM FreshCallsAccepted == Spec => []CallsAccepted
<1>1. (edits = 0 => Unedited) => CallsAccepted
  BY DEF Unedited, Share, CallsAccepted, Deletable
<1> QED
  BY <1>1, UneditedInvariant, PTL

-----------------------------------------------------------------------------
(* The private copies.                                                     *)

CopyOf(i) == [cmd |-> cmd, item |-> i] \in copied
LoggedCopy(i) ==
  [cmd |-> cmd, action |-> "copy_backup", item |-> i, who |-> Root] \in audit
Safe(r) == \A i \in Subtree(tree, r.item) : CopyOf(i) /\ LoggedCopy(i)

\* The phases in which a command has not revoked anything yet.
Before == {"release", "plan", "folder", "folder_audit", "copy", "copy_audit"}

\* Whose command a deletion, a history row or a copy is: a command before this one,
\* or this one, which has revoked nothing before it has copied.
Stamped ==
  /\ \A x \in deleted \cup history \cup copied : x.cmd <= cmd
  /\ pc \in Before => \A x \in deleted \cup history : x.cmd # cmd
  /\ pc \in {"release", "plan", "folder", "folder_audit"} => \A x \in copied : x.cmd # cmd
  /\ pc \in Resting => todo = {} /\ current = {}
  /\ pc \in Before => current = {}
  /\ pc \in Before \ {"release", "plan"} => synced

\* What is in the rows' items is copied or still to copy; all copies are logged, except
\* for the one just made; from the first row on, all are made.
Copying ==
  /\ synced => mirror.tree = tree
  /\ \A h \in history : h.cmd = cmd => Safe(h)
  /\ pc \notin Before => \A r \in todo \cup current : Safe(r)
  /\ pc \in {"folder_audit", "copy", "copy_audit"} =>
       \A r \in todo : \A i \in Subtree(tree, r.item) : i \in copy \/ CopyOf(i)
  /\ pc = "copy" => \A i \in Items : CopyOf(i) => LoggedCopy(i)
  /\ pc = "copy_audit" =>
       \A i, j \in Items : CopyOf(i) /\ CopyOf(j) /\ ~LoggedCopy(i) /\ ~LoggedCopy(j) => i = j

LEMMA StampedInvariant == Spec => []Stamped
<1>1. Init => Stamped
  BY DEF Init, Stamped, Before
<1>2. TypeOK /\ Numbered /\ Stamped /\ [Next]_vars => Stamped'
  <2> SUFFICES ASSUME TypeOK, Numbered, Stamped, [Next]_vars PROVE Stamped'
    OBVIOUS
  <2> USE DEF Stamped, Before, Resting
  <2>0. cmd \in Int
    BY DEF TypeOK
  <2>s. ASSUME UNCHANGED <<cmd, deleted, history, copied, current>>, todo' \subseteq todo,
               synced => synced', pc' = pc
        PROVE  Stamped'
    BY <2>s
  <2>1. CASE UNCHANGED vars
    BY <2>1, <2>s DEF vars
  <2>2. CASE \E i \in Items : EditDrive(i)
    BY <2>2, <2>s DEF EditDrive, Edit, database, arguments, work, events
  <2>3. CASE SyncElsewhere
    BY <2>3, <2>s DEF SyncElsewhere, arguments, work, events
  <2>4. CASE \E a \in Asks : Preview(a)
    <3>1. /\ UNCHANGED <<deleted, history, copied, current, todo, synced>>
          /\ cmd' = cmd + 1 /\ pc' \in {"release", "plan", "stopped"} /\ pc \in Resting
      BY <2>4 DEF Preview, database, work, events
    <3>2. \A x \in deleted \cup history \cup copied : x.cmd \in Int
      BY DEF TypeOK, Cmds
    <3> QED
      BY <2>0, <3>1, <3>2
  <2>5. CASE Release
    BY <2>5 DEF Release, database, arguments, work, events
  <2>6. CASE Plan
    BY <2>6 DEF Plan, database, arguments
  <2>7. CASE CreateBackupFolder
    BY <2>7 DEF CreateBackupFolder, database, arguments, events
  <2>8. CASE AuditBackupFolder
    BY <2>8 DEF AuditBackupFolder, arguments, work, events
  <2>9. CASE CopyItem
    BY <2>0, <2>9 DEF CopyItem, database, arguments
  <2>10. CASE AuditCopy
    BY <2>10 DEF AuditCopy, arguments, work, events
  <2>11. CASE AuditPending
    <3>1. pc' \in {"audit", "delete"}
      BY <2>11 DEF AuditPending, NextRow
    <3> QED
      BY <2>11, <3>1 DEF AuditPending, arguments, events
  <2>12. CASE DeletePermission
    BY <2>0, <2>12 DEF DeletePermission, database, arguments
  <2>13. CASE AuditDone
    BY <2>13 DEF AuditDone, arguments, work, events
  <2>14. CASE AppendRevokedShare
    BY <2>0, <2>14 DEF AppendRevokedShare, arguments, work, events
  <2>15. CASE RowsDone
    BY <2>15 DEF RowsDone, database, arguments, work, events
  <2>16. CASE FinalSync \/ Stop
    <3>1. /\ UNCHANGED <<cmd, deleted, history, copied>> /\ todo' = {} /\ current' = {}
          /\ pc' \in {"done", "stopped"}
      BY <2>16 DEF FinalSync, Stop, End, database, arguments, events
    <3> QED
      BY <3>1
  <2> QED
    BY <2>1, <2>2, <2>3, <2>4, <2>5, <2>6, <2>7, <2>8, <2>9, <2>10, <2>11, <2>12, <2>13,
       <2>14, <2>15, <2>16 DEF Next
<1> QED
  BY <1>1, <1>2, TypeCorrect, PTL DEF Spec

\* A copy that is made and logged stays so.
LEMMA SafeStays ==
  ASSUME UNCHANGED <<tree, cmd>>, audit \subseteq audit', copied \subseteq copied'
  PROVE  /\ \A r : Safe(r) => Safe(r)'
         /\ \A i : (CopyOf(i) => CopyOf(i)') /\ (LoggedCopy(i) => LoggedCopy(i)')
BY DEF Safe, CopyOf, LoggedCopy

\* A step that neither copies nor starts or ends copying.
LEMMA CopyingFrame ==
  ASSUME Stamped, Copying, UNCHANGED <<tree, cmd, history>>,
         audit \subseteq audit', copied' = copied,
         synced' => mirror'.tree = tree,
         pc' \notin Before \cup {"folder", "folder_audit", "copy", "copy_audit"},
         pc \in Before => todo' \cup current' = {},
         todo' \cup current' \subseteq todo \cup current
  PROVE  Copying'
<1>1. \A r : Safe(r) => Safe(r)'
  BY SafeStays
<1>2. \A h \in history' : h.cmd = cmd' => Safe(h)'
  BY <1>1 DEF Copying
<1>3. \A r \in todo' \cup current' : Safe(r)'
  BY <1>1 DEF Copying
<1> QED
  BY <1>2, <1>3 DEF Copying, Before

LEMMA CopyingStep ==
  ASSUME TypeOK, Stamped, edits = 0 /\ ask.retain => Copying, [Next]_vars,
         edits = 0 /\ synced => mirror.tree = tree,
         edits' = 0, ask'.retain
  PROVE  Copying'
<1>e. edits = 0 /\ ~\E i \in Items : EditDrive(i)
  BY DEF EditDrive, Edit, Next, vars, TypeOK, remote, SyncElsewhere, Preview, Release, Plan,
     CreateBackupFolder, AuditBackupFolder, CopyItem, AuditCopy, AuditPending,
     DeletePermission, AuditDone, AppendRevokedShare, RowsDone, FinalSync, Stop
<1>t. synced => mirror.tree = tree
  BY <1>e
<1>m. Snapshot.tree = tree
  BY DEF Snapshot
\* The preview of another command: nothing is told of it yet.
<1>1. CASE \E a \in Asks : Preview(a)
  <2>1. /\ UNCHANGED <<tree, mirror, synced, history, copied, todo, current>>
        /\ cmd' = cmd + 1 /\ pc' \in {"release", "plan", "stopped"} /\ pc \in Resting
    BY <1>1 DEF Preview, remote, database, work, events, Resting
  <2>2. todo' = {} /\ current' = {}
    BY <2>1 DEF Stamped, Resting
  <2>3. \A h \in history' : h.cmd # cmd'
    <3>1. \A h \in history : h.cmd \in Int /\ h.cmd <= cmd
      BY DEF TypeOK, Cmds, Stamped
    <3> QED
      BY <2>1, <3>1 DEF TypeOK
  <2> QED
    BY <1>t, <2>1, <2>2, <2>3 DEF Copying, Before
<1>2. SUFFICES ASSUME ~\E a \in Asks : Preview(a) PROVE Copying'
  BY <1>1
<1>3. UNCHANGED <<cmd, ask, tree>>
  BY <1>2, <1>e DEF Next, vars, SyncElsewhere, Release, Plan,
     CreateBackupFolder, AuditBackupFolder, CopyItem, AuditCopy, AuditPending,
     DeletePermission, AuditDone, AppendRevokedShare, RowsDone, FinalSync, Stop, End,
     remote, arguments
<1>c. Copying
  BY <1>e, <1>3
<1> USE <1>c
<1>f. \A h : h \in history => (pc \in Before => h.cmd # cmd)
  BY DEF Stamped
<1>4. CASE UNCHANGED vars
  BY <1>4 DEF vars, Copying, Safe, CopyOf, LoggedCopy
<1>5. CASE SyncElsewhere
  <2>1. /\ UNCHANGED <<tree, audit, history, copied, todo, current, copy, pc>>
        /\ mirror' = Snapshot
    BY <1>5 DEF SyncElsewhere, remote, work, events
  <2> QED
    BY <1>3, <1>m, <2>1 DEF Copying, Safe, CopyOf, LoggedCopy
<1>6. CASE Release
  <2>1. /\ UNCHANGED <<mirror, synced, history>> /\ pc = "release" /\ pc' = "plan"
    BY <1>6 DEF Release, database
  <2> QED
    BY <1>3, <1>t, <1>f, <2>1 DEF Copying, Before
<1>7. CASE Plan
  <2>1. /\ UNCHANGED <<mirror, synced, history, current>> /\ synced /\ pc = "plan"
        /\ \/ pc' = "sync" /\ todo' = {}
           \/ pc' = "folder"
    BY <1>3, <1>7 DEF Plan, database
  <2>2. current = {}
    BY <2>1 DEF Stamped, Resting
  <2> QED
    BY <1>3, <1>t, <1>f, <2>1, <2>2 DEF Copying, Before
<1>8. CASE CreateBackupFolder
  <2>1. /\ UNCHANGED <<mirror, synced, history, todo>> /\ pc = "folder"
        /\ pc' = "folder_audit" /\ copy' = CopyItems(mirror, todo)
    BY <1>8 DEF CreateBackupFolder, database
  <2>2. mirror.tree = tree
    BY <1>t, <2>1 DEF Stamped, Before
  <2>3. \A r \in todo' : Subtree(tree', r.item) \subseteq copy'
    BY <1>3, <2>1, <2>2 DEF CopyItems
  <2> QED
    BY <1>3, <1>t, <1>f, <2>1, <2>3 DEF Copying, Before
<1>9. CASE AuditBackupFolder
  <2>1. /\ UNCHANGED <<mirror, synced, history, todo, copy, copied>>
        /\ pc = "folder_audit" /\ pc' = "copy"
    BY <1>9 DEF AuditBackupFolder, work, events
  <2>2. \A i : ~CopyOf(i)' /\ CopyOf(i)' = CopyOf(i)
    <3>1. \A x \in copied : x.cmd # cmd
      BY <2>1 DEF Stamped
    <3> QED
      BY <1>3, <2>1, <3>1 DEF CopyOf
  <2>3. \A r \in todo' : \A i \in Subtree(tree', r.item) : i \in copy' \/ CopyOf(i)'
    BY <1>3, <2>1, <2>2 DEF Copying
  <2> QED
    BY <1>3, <1>t, <1>f, <2>1, <2>2, <2>3 DEF Copying, Before
<1>10. CASE CopyItem
  <2>1. /\ UNCHANGED <<mirror, synced, history, todo, audit>>
        /\ pc = "copy" /\ pc' = "copy_audit"
    BY <1>10 DEF CopyItem, database
  <2>2. PICK k \in copy :
          /\ copied' = copied \cup {[cmd |-> cmd, item |-> k]}
          /\ copy' = copy \ {k}
    BY <1>10 DEF CopyItem
  <2>3. \A i : CopyOf(i)' <=> CopyOf(i) \/ i = k
    BY <1>3, <2>2 DEF CopyOf
  <2>4. \A i : LoggedCopy(i)' = LoggedCopy(i)
    BY <1>3, <2>1 DEF LoggedCopy
  <2>5. \A r \in todo' : \A i \in Subtree(tree', r.item) : i \in copy' \/ CopyOf(i)'
    BY <1>3, <2>1, <2>2, <2>3 DEF Copying
  <2>6. \A i, j \in Items :
          CopyOf(i)' /\ CopyOf(j)' /\ ~LoggedCopy(i)' /\ ~LoggedCopy(j)' => i = j
    BY <2>1, <2>3, <2>4 DEF Copying
  <2> QED
    BY <1>3, <1>t, <1>f, <2>1, <2>5, <2>6 DEF Copying, Before
<1>11. CASE AuditCopy
  <2>1. /\ UNCHANGED <<mirror, synced, history, todo, current, copy, copied>>
        /\ pc = "copy_audit" /\ pc' = IF copy = {} THEN "rows" ELSE "copy"
    BY <1>11 DEF AuditCopy, work, events
  <2>2. PICK x \in copied :
          /\ x.cmd = cmd
          /\ [cmd |-> cmd, action |-> "copy_backup", item |-> x.item, who |-> Root] \notin audit
          /\ Audit("copy_backup", x.item, Root)
    BY <1>11 DEF AuditCopy
  <2>3. CopyOf(x.item) /\ ~LoggedCopy(x.item) /\ x.item \in Items
    BY <2>2 DEF CopyOf, LoggedCopy, TypeOK
  <2>4. audit \subseteq audit' /\ LoggedCopy(x.item)'
    BY <1>3, <2>2 DEF Audit, LoggedCopy
  <2>5. \A i : CopyOf(i)' = CopyOf(i) /\ (LoggedCopy(i) => LoggedCopy(i)')
    BY <1>3, <2>1, <2>4 DEF CopyOf, LoggedCopy
  <2>6. \A i \in Items : CopyOf(i)' => LoggedCopy(i)'
    BY <2>1, <2>3, <2>4, <2>5 DEF Copying
  <2>7. \A r \in todo' : \A i \in Subtree(tree', r.item) : i \in copy' \/ CopyOf(i)'
    BY <1>3, <2>1, <2>5 DEF Copying
  <2>8. pc' = "rows" => \A r \in todo' \cup current' : Safe(r)'
    <3>1. current = {} /\ \A r \in todo' : Subtree(tree', r.item) \subseteq Items
      BY <1>3, <2>1 DEF Stamped, Before, Subtree
    <3> QED
      BY <1>3, <2>1, <2>6, <2>7, <3>1 DEF Safe
  <2> QED
    BY <1>3, <1>t, <1>f, <2>1, <2>6, <2>7, <2>8 DEF Copying, Before
<1>12. CASE AuditPending
  <2>1. /\ UNCHANGED <<mirror, synced, history, copied>> /\ audit \subseteq audit'
        /\ todo' \cup current' \subseteq todo \cup current
        /\ pc = "rows" /\ pc' \in {"audit", "delete"}
    BY <1>12 DEF AuditPending, NextRow, Audit, events
  <2> QED
    BY <1>3, <1>t, <2>1, CopyingFrame DEF Before
<1>13. CASE DeletePermission \/ AuditDone \/ RowsDone
  <2>1. /\ UNCHANGED <<mirror, synced, history, copied, todo, current>> /\ audit \subseteq audit'
        /\ pc \in {"delete", "audit", "rows"} /\ pc' \in {"audit", "history", "sync"}
    BY <1>13 DEF DeletePermission, AuditDone, RowsDone, Audit, database, work, events
  <2> QED
    BY <1>3, <1>t, <2>1, CopyingFrame DEF Before
<1>14. CASE AppendRevokedShare
  <2>1. PICK r \in current :
          history' = history \cup {[cmd |-> cmd, item |-> r.item, who |-> r.who,
                                    target |-> r.target]}
    BY <1>14 DEF AppendRevokedShare
  <2>2. /\ UNCHANGED <<mirror, synced, audit, copied, todo, current>>
        /\ pc = "history" /\ pc' = "rows"
    BY <1>14 DEF AppendRevokedShare, work, events
  <2>3. \A q : Safe(q)' = Safe(q)
    BY <1>3, <2>2 DEF Safe, CopyOf, LoggedCopy
  <2>4. \A q \in todo' \cup current' : Safe(q)'
    BY <2>2, <2>3 DEF Copying, Before
  <2>5. ASSUME NEW h \in history', h.cmd = cmd PROVE Safe(h)'
    <3>1. CASE h \in history
      BY <2>3, <2>5, <3>1 DEF Copying
    <3>2. CASE h \notin history
      <4>1. h.item = r.item
        BY <2>1, <3>2
      <4>2. Safe(r)
        BY <2>2 DEF Copying, Before
      <4> QED
        BY <2>3, <4>1, <4>2 DEF Safe
    <3> QED
      BY <3>1, <3>2
  <2> QED
    BY <1>3, <1>t, <2>2, <2>4, <2>5 DEF Copying, Before
<1>15. CASE FinalSync \/ Stop
  <2>1. /\ UNCHANGED <<history, audit, copied>> /\ todo' = {} /\ current' = {}
        /\ pc' \in {"done", "stopped"}
        /\ mirror' = Snapshot \/ UNCHANGED <<mirror, synced>>
    BY <1>15 DEF FinalSync, Stop, End, database, events
  <2> QED
    BY <1>3, <1>t, <1>m, <2>1, CopyingFrame DEF Before
<1> QED
  BY <1>e, <1>2, <1>4, <1>5, <1>6, <1>7, <1>8, <1>9, <1>10, <1>11, <1>12, <1>13, <1>14, <1>15
  DEF Next

\* With --retain-copy and nobody editing: whatever crashes, and however the mirror is
\* synced meanwhile, the first deletion finds a logged copy of all that is in every row.
THEOREM CopiesComeFirst == Spec => []CopiedBeforeRevoked
<1> DEFINE Mirrored == edits = 0 => Unedited
           Inv == edits = 0 /\ ask.retain => Copying
<1>1. Init => Inv
  BY DEF Init, Copying, Before
<1>2. TypeOK /\ Stamped /\ Mirrored /\ Inv /\ [Next]_vars => Inv'
  BY CopyingStep DEF Unedited
<1>3. Stamped /\ Inv => CopiedBeforeRevoked
  <2> SUFFICES ASSUME Stamped, Copying, ask.retain, edits = 0,
                      NEW x \in deleted, x.cmd = cmd,
                      NEW r \in {h \in history : h.cmd = cmd} \cup todo \cup current
               PROVE  Safe(r)
    BY DEF CopiedBeforeRevoked, Safe, CopyOf, LoggedCopy
  <2>1. pc \notin Before
    BY DEF Stamped
  <2> QED
    BY <2>1 DEF Copying
<1> QED
  BY <1>1, <1>2, <1>3, TypeCorrect, StampedInvariant, UneditedInvariant, PTL DEF Spec

=============================================================================
