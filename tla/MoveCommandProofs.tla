---------------------------- MODULE MoveCommandProofs ----------------------------
(***************************************************************************)
(* Theorems of MoveCommand, for any items, paths, arguments and bounds.    *)
(***************************************************************************)
EXTENDS MoveCommand, FiniteSetTheorems, SequenceTheorems, TLAPS

InRow == {"pending", "pending_row", "move", "applied", "applied_row"}
AfterPlan == Running \ {"release", "plan"}

-----------------------------------------------------------------------------
(* What the rows of the history are made of: an item that was on Drive all *)
(* the time is lost from no snapshot, and so is among its own entries.     *)

\* An item is inside itself.
LEMMA InItself ==
  ASSUME NEW tree, NEW i \in Ids
  PROVE  i \in Subtree(tree, i)
BY DEF Subtree

\* A plan is made of items that were asked for.
LEMMA PlansWanted ==
  ASSUME NEW tree, NEW want, NEW to, NEW new
  PROVE  Actionable(tree, want, to, new) \subseteq want
BY DEF Actionable

\* What others have never taken off Drive is there, and in each mirror or snapshot of it.
Whole ==
  /\ drive \in Trees /\ mirror \in Trees /\ top \in {Root, MyDrive}
  /\ ask \in Arguments
  /\ removed \subseteq Ids /\ edits \in Nat /\ (edits = 0 => removed = {})
  /\ \A i \in Items \ removed : drive[i] # Out
  /\ synced => \A i \in Items \ removed : mirror[i] # Out
  /\ pc \in AfterPlan => synced
  /\ pc \in {"rows"} \cup InRow => \A i \in Items \ removed : view[i] # Out
  /\ todo \subseteq Items
  /\ pc \in InRow => current \in Items

\* The item in work is one of the entries of its row.
LEMMA CurrentIsEntry ==
  ASSUME Whole, pc \in InRow, current \notin removed
  PROVE  current \in Entries(current)
BY InItself DEF Whole, InRow, Entries, Present, Ids

LEMMA WholeAlways == Spec => []Whole
<1> USE DEF InRow, AfterPlan, Running
<1>1. Init => Whole
  <2> SUFFICES ASSUME Init PROVE Whole
    OBVIOUS
  <2>1. drive \in Trees /\ mirror \in Trees /\ \A i \in Items : drive[i] # Out
        /\ removed = {} /\ edits = 0
    BY DEF Init, Present, Nothing, Trees, Places
  <2>2. ask \in Arguments
    <3>1. <<>> \in Paths
      <4>1. <<>> \in [1 .. 0 -> Names] /\ 0 \in 0 .. Depth
        BY BoundsAssumption
      <4> QED
        BY <4>1 DEF Paths
    <3> QED
      BY <3>1 DEF Init, Arguments
  <2> QED
    BY <2>1, <2>2 DEF Init, Whole
<1>2. Whole /\ [Next]_vars => Whole'
  <2> SUFFICES ASSUME Whole, [Next]_vars PROVE Whole'
    OBVIOUS
  <2> USE DEF Whole
  <2>0. Out \notin Ids /\ top # Out /\ {top, Shared} \cup FolderIds \subseteq Places
        /\ Items \subseteq Ids
    BY IdsAssumption DEF Places, Ids, FolderIds
  <2>s. ASSUME UNCHANGED <<drive, mirror, synced, top, ask, view, todo, current, edits, removed>>,
               pc' \in AfterPlan => pc \in AfterPlan,
               pc' \in {"rows"} \cup InRow => pc \in {"rows"} \cup InRow,
               pc' \in InRow => pc \in InRow
        PROVE  Whole'
    BY <2>s
  <2>1. CASE UNCHANGED vars
    BY <2>1, <2>s DEF vars
  <2>2. CASE \E i \in Items : EditDrive(i)
    <3>1. PICK i \in Items, place \in {top, Shared} \cup (FolderIds \cap Present(drive)) :
            drive' = [drive EXCEPT ![i] = place] /\ edits' = edits + 1
      BY <2>2 DEF EditDrive
    <3>2. place \in Places /\ place # Out
      BY <3>1, <2>0, IdsAssumption DEF FolderIds, Ids
    <3>3. drive' \in Trees /\ (\A j \in Items \ removed : drive'[j] # Out) /\ edits' \in Nat \ {0}
      BY <3>1, <3>2 DEF Trees, Ids
    <3> QED
      BY <2>2, <3>3 DEF EditDrive, database, arguments, work
  <2>20. CASE \E i \in Items : TakeOff(i)
    <3>1. PICK i \in Items :
            /\ drive' = [j \in Ids |-> IF j \in Subtree(drive, i) THEN Out ELSE drive[j]]
            /\ removed' = removed \cup Subtree(drive, i) /\ edits' = edits + 1
      BY <2>20 DEF TakeOff
    <3>2. Subtree(drive, i) \subseteq Ids
      BY DEF Subtree
    <3>3. /\ drive' \in Trees /\ \A j \in Items \ removed' : drive'[j] # Out
          /\ removed \subseteq removed' /\ removed' \subseteq Ids /\ edits' \in Nat \ {0}
      BY <3>1, <3>2, <2>0 DEF Trees, Places
    <3> QED
      BY <2>20, <3>3 DEF TakeOff, database, arguments, work
  <2>3. CASE SyncElsewhere
    BY <2>3 DEF SyncElsewhere, remote, arguments, work
  <2>4. CASE \E a \in Asks : Preview(a)
    <3>1. ask' \in Arguments /\ pc' \in {"release", "plan", "stopped"}
      BY <2>4, AsksAssumption DEF Preview
    <3> QED
      BY <2>4, <3>1 DEF Preview, remote, database, work
  <2>5. CASE Release
    BY <2>5, <2>s DEF Release, remote, database, arguments, work
  <2>p. ASSUME NEW want, NEW to, NEW new, want = ask.want,
               PlanRows(Actionable(mirror, want, to, new))
        PROVE  todo' \subseteq Items /\ pc' \in {"load", "sync"}
    BY <2>p, PlansWanted DEF PlanRows, Arguments
  <2>6. CASE Plan
    <3>1. synced /\ UNCHANGED <<drive, mirror, synced, top, ask, view, current, edits, removed>>
      BY <2>6 DEF Plan, remote, database, arguments
    <3>2. todo' \subseteq Items /\ pc' \in {"load", "sync", "mkdir"}
      <4>1. PICK r \in Resolved(mirror, ask) :
              IF r.rest = <<>> THEN PlanRows(Actionable(mirror, ask.want, r.at, FALSE))
              ELSE todo' = {} /\ pc' = "mkdir"
        BY <2>6 DEF Plan
      <4> QED
        BY <4>1, <2>p
    <3> QED
      BY <3>1, <3>2
  <2>7. CASE AuditMkdirPending \/ AppendCreatedPending \/ AuditMkdir
    BY <2>7, <2>s DEF AuditMkdirPending, AppendCreatedPending, AuditMkdir, remote, arguments, work
  <2>8. CASE FindFileInFolder
    <3>1. UNCHANGED <<drive, mirror, synced, top, ask, view, todo, current, edits, removed>> /\ pc = "find"
          /\ pc' \in {"mkdir_done", "create"}
      BY <2>8 DEF FindFileInFolder, remote, database, arguments
    <3> QED
      BY <3>1, <2>s
  <2>9. CASE CreateFolder
    <3>1. PICK new \in SUBSET {x \in Fresh : drive[x] = Out} :
            drive' = [i \in Ids |-> IF i \in new THEN Drives(dest) ELSE drive[i]]
      BY <2>9 DEF CreateFolder
    <3>2. Drives(dest) \in Places
      <4>1. Drives(dest) = top \/ dest \in FolderIds
        BY <2>9 DEF CreateFolder
      <4>2. dest \in FolderIds => Drives(dest) \in {top, dest}
        BY DEF Drives
      <4> QED
        BY <4>1, <4>2, <2>0
    <3>3. drive' \in Trees
      BY <3>1, <3>2 DEF Trees, Ids
    <3>4. \A i \in Items \ removed : drive'[i] # Out
      BY <3>1, IdsAssumption DEF Ids
    <3> QED
      BY <2>9, <3>3, <3>4 DEF CreateFolder, database, arguments
  <2>10. CASE AppendCreatedApplied
    <3>1. UNCHANGED <<drive, mirror, synced, top, ask, view, todo, current, edits, removed>>
          /\ pc = "mkdir_applied" /\ pc' \in {"mkdir", "replan"}
      BY <2>10 DEF AppendCreatedApplied, remote, arguments
    <3> QED
      BY <3>1, <2>s
  <2>11. CASE Replan
    <3>1. todo' \subseteq Items /\ pc' \in {"load", "sync"}
      BY <2>11, <2>p DEF Replan
    <3> QED
      BY <2>11, <3>1 DEF Replan, remote, database, arguments
  <2>12. CASE Load
    BY <2>12 DEF Load, remote, database, arguments
  <2>13. CASE NextRow
    <3>1. PICK i \in todo : todo' = todo \ {i} /\ current' = i /\ pc' \in {"pending", "move"}
      BY <2>13 DEF NextRow
    <3> QED
      BY <2>13, <3>1 DEF NextRow, remote, database, arguments
  <2>14. CASE AuditMovePending \/ AuditMoveApplied
    <3>1. UNCHANGED <<drive, mirror, synced, top, ask, view, todo, current, edits, removed>>
          /\ pc \in {"pending", "applied"} /\ pc' \in {"pending_row", "applied_row"}
      BY <2>14 DEF AuditMovePending, AuditMoveApplied, AuditMove, remote, arguments, work
    <3> QED
      BY <3>1, <2>s
  <2>15. CASE AppendMovedPending \/ AppendMovedApplied
    <3>1. UNCHANGED <<drive, mirror, synced, top, ask, view, todo, current, edits, removed>>
          /\ pc \in {"pending_row", "applied_row"} /\ pc' \in {"pending", "move", "applied", "rows"}
      BY <2>15 DEF AppendMovedPending, AppendMovedApplied, AppendMoved, remote, arguments
    <3> QED
      BY <3>1, <2>s
  <2>16. CASE MoveFile
    <3>1. Drives(dest) \in Places /\ Drives(dest) # Out
      BY <2>16, <2>0, IdsAssumption DEF MoveFile, FolderIds, Ids
    <3>2. drive' = [drive EXCEPT ![current] = Drives(dest)] /\ pc' \in {"applied", "rows"}
      BY <2>16 DEF MoveFile
    <3>3. drive' \in Trees /\ \A i \in Items \ removed : drive'[i] # Out
      BY <3>1, <3>2 DEF Trees, Ids
    <3> QED
      BY <2>16, <3>2, <3>3 DEF MoveFile, database, arguments
  <2>17. CASE RowsDone
    BY <2>17, <2>s DEF RowsDone, remote, database, arguments, work
  <2>18. CASE FinalSync
    BY <2>18 DEF FinalSync, End, remote, arguments
  <2>19. CASE Stop
    BY <2>19 DEF Stop, End, remote, database, arguments
  <2> QED
    BY <2>1, <2>2, <2>3, <2>4, <2>5, <2>6, <2>7, <2>8, <2>9, <2>10, <2>11, <2>12, <2>13,
       <2>14, <2>15, <2>16, <2>17, <2>18, <2>19, <2>20 DEF Next
<1> QED
  BY <1>1, <1>2, PTL DEF Spec

-----------------------------------------------------------------------------
(* The history.                                                            *)

\* A call of the command in work has moved the item of its row.
Called == \E m \in moved : m.cmd = cmd /\ m.via = current

\* What the row in work has by now: pending rows for the entries that are done with,
\* for all of them once Drive is called; and after that the call.
RowInWork ==
  /\ pc \in InRow => left \subseteq Entries(current)
  /\ pc \in {"pending", "pending_row"} =>
       \A i \in Entries(current) \ left : Row("pending", i) \in history
  /\ pc \in {"move", "applied", "applied_row"} =>
       \A i \in Entries(current) : Row("pending", i) \in history
  /\ pc \in {"applied", "applied_row"} => Called

LEMMA BracketsAlways == Spec => [](HistoryBracketsCall /\ RowInWork)
<1> DEFINE Inv == HistoryBracketsCall /\ RowInWork
<1> USE DEF InRow
<1>1. Init => Inv
  BY DEF Init, HistoryBracketsCall, RowInWork
<1>2. Whole /\ Inv /\ [Next]_vars => Inv'
  <2> SUFFICES ASSUME Whole, Inv, [Next]_vars PROVE Inv'
    OBVIOUS
  <2> USE DEF HistoryBracketsCall, RowInWork
  <2>r. removed \subseteq removed'
    <3>1. CASE \E i \in Items : TakeOff(i)
      BY <3>1 DEF TakeOff
    <3>2. CASE ~ \E i \in Items : TakeOff(i)
      BY <3>2 DEF Next, vars, EditDrive, SyncElsewhere, Preview, Release, Plan,
         AuditMkdirPending, AppendCreatedPending, FindFileInFolder, CreateFolder, AuditMkdir,
         AppendCreatedApplied, Replan, Load, NextRow, AuditMovePending, AppendMovedPending,
         AppendMoved, AuditMove, MoveFile, AuditMoveApplied, AppendMovedApplied, RowsDone,
         FinalSync, Stop, remote
    <3> QED
      BY <3>1, <3>2
  <2>s. ASSUME UNCHANGED <<history, moved>>, pc' \notin InRow
        PROVE  Inv'
    BY <2>s, <2>r
  <2>t. ASSUME UNCHANGED <<history, moved, cmd, dest, from, view, current, left>>,
               \/ pc' = pc
               \/ pc = "pending" /\ pc' = "pending_row"
               \/ pc = "applied" /\ pc' = "applied_row"
        PROVE  Inv'
    <3>1. Entries(current)' = Entries(current)
      BY <2>t DEF Entries, Present
    <3>2. Called' <=> Called
      BY <2>t DEF Called
    <3>3. \A i : Row("pending", i)' = Row("pending", i)
      BY <2>t DEF Row
    <3> QED
      BY <2>t, <2>r, <3>1, <3>2, <3>3
  <2>1. CASE UNCHANGED vars
    BY <2>1, <2>t DEF vars
  <2>2. CASE \E i \in Items : EditDrive(i) \/ TakeOff(i)
    BY <2>2, <2>t DEF EditDrive, TakeOff, database, arguments, work, events
  <2>3. CASE SyncElsewhere
    BY <2>3, <2>t DEF SyncElsewhere, arguments, work, events
  <2>4. CASE \E a \in Asks : Preview(a)
    <3>1. pc' \in {"release", "plan", "stopped"} /\ UNCHANGED <<history, moved>>
      BY <2>4 DEF Preview, database, events
    <3> QED
      BY <3>1, <2>s
  <2>5. CASE Release
    BY <2>5, <2>s DEF Release, database, events
  <2>6. CASE Plan
    <3>1. pc' \in {"load", "sync", "mkdir"} /\ UNCHANGED <<history, moved>>
      BY <2>6 DEF Plan, PlanRows, database, events
    <3> QED
      BY <3>1, <2>s
  <2>7. CASE AuditMkdirPending \/ AppendCreatedPending \/ AuditMkdir
    <3>1. pc' \in {"mkdir_row", "find", "mkdir_applied"} /\ UNCHANGED <<history, moved>>
      BY <2>7 DEF AuditMkdirPending, AppendCreatedPending, AuditMkdir, events
    <3> QED
      BY <3>1, <2>s
  <2>8. CASE FindFileInFolder \/ CreateFolder
    <3>1. pc' \in {"mkdir_done", "create"} /\ UNCHANGED <<history, moved>>
      BY <2>8 DEF FindFileInFolder, CreateFolder, database, events
    <3> QED
      BY <3>1, <2>s
  <2>9. CASE AppendCreatedApplied \/ Replan \/ Load
    <3>1. pc' \in {"mkdir", "replan", "load", "sync", "rows"} /\ UNCHANGED <<history, moved>>
      BY <2>9 DEF AppendCreatedApplied, Replan, PlanRows, Load, database, events
    <3> QED
      BY <3>1, <2>s
  <2>10. CASE NextRow
    <3>1. PICK i \in todo :
            /\ current' = i /\ left' = Entries(i)
            /\ pc' = IF Entries(i) # {} THEN "pending" ELSE "move"
      BY <2>10 DEF NextRow
    <3>2. UNCHANGED <<history, moved, view>>
      BY <2>10 DEF NextRow, database, events
    <3>3. Entries(current)' = Entries(i)
      BY <3>1, <3>2 DEF Entries, Present
    <3> QED
      BY <2>r, <3>1, <3>2, <3>3
  <2>11. CASE AuditMovePending \/ AuditMoveApplied
    <3>1. /\ UNCHANGED <<history, moved, cmd, dest, from, view, current, left>>
          /\ \/ pc = "pending" /\ pc' = "pending_row"
             \/ pc = "applied" /\ pc' = "applied_row"
      BY <2>11 DEF AuditMovePending, AuditMoveApplied, AuditMove, arguments, work, events
    <3> QED
      BY <3>1, <2>t
  <2>12. ASSUME NEW action, NEW status, NEW again, NEW after, AppendMoved(action, status, again, after)
         PROVE  \E i \in left :
                  /\ history' = history \cup {Row(status, i)}
                  /\ left' = left \ {i}
                  /\ pc' = IF left = {i} THEN after ELSE again
                  /\ UNCHANGED <<moved, cmd, dest, from, view, current>>
                  /\ Entries(current)' = Entries(current)
                  /\ \A j : Row("pending", j)' = Row("pending", j)
    <3>1. PICK i \in left :
            /\ history' = history \cup {Row(status, i)}
            /\ left' = left \ {i}
            /\ pc' = IF left = {i} THEN after ELSE again
            /\ UNCHANGED <<moved, cmd, dest, from, view, current>>
      BY <2>12 DEF AppendMoved, arguments, events
    <3>2. Entries(current)' = Entries(current)
      BY <3>1 DEF Entries, Present
    <3>3. \A j : Row("pending", j)' = Row("pending", j)
      BY <3>1 DEF Row
    <3> QED
      BY <3>1, <3>2, <3>3
  <2>13. CASE AppendMovedPending
    <3>1. PICK i \in left :
            /\ history' = history \cup {Row("pending", i)}
            /\ left' = left \ {i}
            /\ pc' = IF left = {i} THEN "move" ELSE "pending"
            /\ UNCHANGED <<moved, cmd, dest, from, view, current>>
            /\ Entries(current)' = Entries(current)
            /\ \A j : Row("pending", j)' = Row("pending", j)
      BY <2>13, <2>12 DEF AppendMovedPending
    <3>2. pc = "pending_row"
      BY <2>13 DEF AppendMovedPending
    <3>3. HistoryBracketsCall'
      <4>1. Row("pending", i).status = "pending"
        BY DEF Row
      <4>2. \A h \in history' : h.status = "applied" => h \in history
        BY <3>1, <4>1
      <4> QED
        BY <2>r, <3>1, <4>2
    <3>4. \A j \in Entries(current) \ left' : Row("pending", j) \in history'
      BY <3>1, <3>2
    <3>5. pc' = "move" => left' = {}
      BY <3>1
    <3> QED
      BY <3>1, <3>2, <3>3, <3>4, <3>5
  <2>14. CASE MoveFile
    <3> DEFINE new == {[cmd |-> cmd, via |-> current, item |-> i, from |-> drive[i]] :
                         i \in Subtree(drive, current) \cap Present(drive)}
    <3>1. /\ pc = "move" /\ moved' = moved \cup new /\ left' = Entries(current)
          /\ pc' \in {"applied", "rows"} /\ UNCHANGED <<history, cmd, dest, from, view, current>>
      BY <2>14 DEF MoveFile, database, arguments
    <3>2. \A m \in new : m.cmd = cmd /\ m.via = current
      OBVIOUS
    <3>3. new # {}
      <4>1. current \in Ids /\ drive[current] # Out
        BY <2>14, <3>1 DEF MoveFile, Whole, Ids
      <4>2. current \in Subtree(drive, current) \cap Present(drive)
        BY <4>1, InItself DEF Present
      <4> QED
        BY <4>2
    <3> HIDE DEF new
    <3>4. Called'
      BY <3>1, <3>2, <3>3 DEF Called
    <3>5. current \notin removed => Row("pending", current) \in history
      BY <3>1, CurrentIsEntry
    <3>6. Row("pending", current).status = "pending" /\ Row("pending", current).cmd = cmd
          /\ Row("pending", current).item = current
      BY DEF Row
    <3>7. HistoryBracketsCall'
      BY <2>r, <3>1, <3>2, <3>5, <3>6
    <3>8. Entries(current)' = Entries(current) /\ \A j : Row("pending", j)' = Row("pending", j)
      BY <3>1 DEF Entries, Present, Row
    <3> QED
      BY <3>1, <3>4, <3>7, <3>8
  <2>15. CASE AppendMovedApplied
    <3>1. PICK i \in left :
            /\ history' = history \cup {Row("applied", i)}
            /\ left' = left \ {i}
            /\ pc' = IF left = {i} THEN "rows" ELSE "applied"
            /\ UNCHANGED <<moved, cmd, dest, from, view, current>>
            /\ Entries(current)' = Entries(current)
            /\ \A j : Row("pending", j)' = Row("pending", j)
      BY <2>15, <2>12 DEF AppendMovedApplied
    <3>2. pc = "applied_row" /\ Called /\ Row("pending", i) \in history
      BY <2>15, <3>1 DEF AppendMovedApplied
    <3>3. /\ [Row("applied", i) EXCEPT !.status = "pending"] = Row("pending", i)
          /\ Row("applied", i).cmd = cmd /\ Row("applied", i).via = current
          /\ Row("applied", i).status # "pending"
      BY DEF Row
    <3>4. HistoryBracketsCall'
      BY <2>r, <3>1, <3>2, <3>3 DEF Called
    <3>5. Called' <=> Called
      BY <3>1 DEF Called
    <3> QED
      BY <3>1, <3>2, <3>4, <3>5
  <2>16. CASE RowsDone \/ FinalSync \/ Stop
    <3>1. pc' \in {"sync", "done", "stopped"} /\ UNCHANGED <<history, moved>>
      BY <2>16 DEF RowsDone, FinalSync, Stop, End, database, events
    <3> QED
      BY <3>1, <2>s
  <2> QED
    BY <2>1, <2>2, <2>3, <2>4, <2>5, <2>6, <2>7, <2>8, <2>9, <2>10, <2>11, <2>13,
       <2>14, <2>15, <2>16 DEF Next
<1> QED
  BY <1>1, <1>2, WholeAlways, PTL DEF Spec

\* Whatever others edit or sync, and wherever the command is cut off: what a call moves
\* has a pending row of its command before, unless others ever had it off Drive, and an
\* applied row a call and its pending row.
THEOREM MovesBracketed == Spec => []HistoryBracketsCall
BY BracketsAlways, PTL

\* A call without its applied row is shown, or a later command has settled it, unless
\* others ever had the item off Drive.
THEOREM InterruptedAlwaysShown == Spec => []InterruptedShown
<1>1. HistoryBracketsCall => InterruptedShown
  <2> SUFFICES ASSUME HistoryBracketsCall, NEW m \in moved, m.item = m.via, m.item \notin removed
               PROVE  \/ \E h \in history : h.status = "applied" /\ h.item = m.item /\ h.cmd >= m.cmd
                      \/ \E h \in OnlyPending : h.item = m.item /\ h.cmd = m.cmd
    BY DEF InterruptedShown
  <2>1. PICK h \in history : h.status = "pending" /\ h.cmd = m.cmd /\ h.item = m.via
    BY DEF HistoryBracketsCall
  <2> QED
    BY <2>1 DEF OnlyPending
<1> QED
  BY <1>1, MovesBracketed, PTL

-----------------------------------------------------------------------------
(* The folders that are made.                                              *)

Announced(c, n) == \E h \in created : h.status = "pending" /\ h.cmd = c /\ h.name = n
Known(m) == [cmd |-> m.cmd, status |-> "applied", id |-> m.id, name |-> name[m.id]] \in created

\* The folder a command has just made is the one it holds; the others are known.
FoldersTold ==
  /\ cmd \in Nat /\ lost \in Nat
  /\ \A m \in made : m.id \in Fresh /\ m.cmd \in Nat /\ m.cmd <= cmd /\ Announced(m.cmd, name[m.id])
  /\ pc \in {"find", "create", "mkdir_done", "mkdir_applied"} => Announced(cmd, Head(rest))
  /\ lost = 0 /\ pc # "stopped" =>
       \A m \in made : m.cmd = cmd =>
         \/ Known(m)
         \/ pc \in {"mkdir_done", "mkdir_applied"} /\ m.id = dest /\ name[m.id] = Head(rest)

\* Whatever others edit, and wherever commands are cut off: each folder a command made it
\* announced under its name first; and a command that is done has told the ids of them
\* all, but for the answers that got lost.
THEOREM CreatedFoldersTold == Spec => []CreatedFoldersRecorded
<1>1. Init => FoldersTold
  BY DEF Init, FoldersTold
<1>2. FoldersTold /\ [Next]_vars => FoldersTold'
  <2> SUFFICES ASSUME FoldersTold, [Next]_vars PROVE FoldersTold'
    OBVIOUS
  <2> USE DEF FoldersTold, Announced, Known
  <2>s. ASSUME UNCHANGED <<name, lost, cmd, made, dest, rest>>, created \subseteq created',
               \/ pc' = pc \/ pc' = "stopped"
               \/ pc \notin {"mkdir_done", "mkdir_applied", "stopped"}
                  /\ pc' \notin {"find", "create", "mkdir_done", "mkdir_applied"}
               \/ pc = "mkdir_row" /\ pc' = "find" /\ Announced(cmd, Head(rest))'
               \/ pc = "mkdir_done" /\ pc' = "mkdir_applied"
        PROVE  FoldersTold'
    BY <2>s
  <2>e. ASSUME UNCHANGED <<name, lost, cmd, made, created>>,
               \/ pc' = "stopped"
               \/ pc \notin {"mkdir_done", "mkdir_applied", "stopped"}
                  /\ pc' \notin {"find", "create", "mkdir_done", "mkdir_applied"}
        PROVE  FoldersTold'
    BY <2>e
  <2>1. CASE UNCHANGED vars
    BY <2>1, <2>s DEF vars
  <2>2. CASE \E i \in Items : EditDrive(i) \/ TakeOff(i)
    BY <2>2, <2>s DEF EditDrive, TakeOff, database, arguments, work, events
  <2>3. CASE SyncElsewhere
    BY <2>3, <2>s DEF SyncElsewhere, remote, arguments, work, events
  <2>4. CASE \E a \in Asks : Preview(a)
    <3>1. /\ UNCHANGED <<name, lost, made, created, dest, rest>> /\ cmd' = cmd + 1
          /\ pc' \in {"release", "plan", "stopped"}
      BY <2>4 DEF Preview, remote, database, work, events
    <3>2. \A m \in made : m.cmd <= cmd' /\ m.cmd # cmd'
      BY <3>1
    <3> QED
      BY <3>1, <3>2
  <2>5. CASE Release
    BY <2>5, <2>s DEF Release, remote, database, arguments, work, events
  <2>6. CASE Plan
    <3>1. pc = "plan" /\ pc' \in {"load", "sync", "mkdir"}
      BY <2>6 DEF Plan, PlanRows
    <3> QED
      BY <2>6, <3>1, <2>e DEF Plan, remote, database, arguments, events
  <2>7. CASE AuditMkdirPending \/ AuditMkdir
    BY <2>7, <2>s DEF AuditMkdirPending, AuditMkdir, remote, arguments, work, events
  <2>8. CASE AppendCreatedPending
    <3> DEFINE h == [cmd |-> cmd, status |-> "pending", id |-> Out, name |-> Head(rest)]
    <3>1. created' = created \cup {h} /\ pc = "mkdir_row" /\ pc' = "find"
          /\ UNCHANGED <<name, lost, cmd, made, dest, rest>>
      BY <2>8 DEF AppendCreatedPending, AppendCreated, remote, arguments, work, events
    <3>2. h.status = "pending" /\ h.cmd = cmd /\ h.name = Head(rest)
      OBVIOUS
    <3> HIDE DEF h
    <3>3. Announced(cmd, Head(rest))'
      BY <3>1, <3>2
    <3> QED
      BY <3>1, <3>3, <2>s
  <2>9. CASE FindFileInFolder
    <3>1. /\ pc = "find" /\ pc' \in {"mkdir_done", "create"}
          /\ UNCHANGED <<name, lost, cmd, made, created, rest>>
      BY <2>9 DEF FindFileInFolder, remote, database, arguments, events
    <3>2. Announced(cmd, Head(rest))'
      BY <3>1
    <3>3. \A m \in made' : m.id \in Fresh /\ m.cmd \in Nat /\ m.cmd <= cmd'
                          /\ Announced(m.cmd, name[m.id])'
      BY <3>1
    <3>4. lost' = 0 => \A m \in made' : m.cmd = cmd' => Known(m)'
      BY <3>1
    <3> QED
      BY <3>1, <3>2, <3>3, <3>4
  <2>10. CASE CreateFolder
    <3>1. PICK new \in SUBSET {x \in Fresh : drive[x] = Out /\ \A m \in made : m.id # x} :
            /\ new # {}
            /\ lost' = lost + Cardinality(new) - 1
            /\ name' = [i \in Ids |-> IF i \in new THEN Head(rest) ELSE name[i]]
            /\ made' = made \cup [cmd : {cmd}, id : new]
            /\ dest' \in new
      BY <2>10 DEF CreateFolder
    <3>2. /\ pc = "create" /\ pc' = "mkdir_done" /\ UNCHANGED <<cmd, created, rest>>
      BY <2>10 DEF CreateFolder, database, arguments
    <3>3. Cardinality(new) \in Nat \ {0} /\ (Cardinality(new) = 1 => new = {dest'})
      <4>1. IsFiniteSet(new)
        BY IdsAssumption, FS_Subset
      <4>2. Cardinality(new) \in Nat /\ Cardinality(new) # 0
        BY <3>1, <4>1, FS_CardinalityType, FS_EmptySet
      <4>3. Cardinality(new) = 1 => \E x : new = {x}
        BY <4>1, FS_Singleton
      <4> QED
        BY <3>1, <4>2, <4>3
    <3>4. lost' \in Nat /\ (lost' = 0 => lost = 0 /\ new = {dest'})
      BY <3>1, <3>3
    <3>5. /\ \A m \in made : name'[m.id] = name[m.id]
          /\ \A x \in new : name'[x] = Head(rest) /\ x \in Fresh
      BY <3>1 DEF Ids
    <3>6. \A m \in made' : m \in made \/ (m.cmd = cmd /\ m.id \in new)
      BY <3>1
    <3>7. \A m \in made' : m.id \in Fresh /\ m.cmd \in Nat /\ m.cmd <= cmd' /\ Announced(m.cmd, name[m.id])'
      BY <3>2, <3>5, <3>6
    <3>8. lost' = 0 => \A m \in made' : m.cmd = cmd =>
            Known(m)' \/ (m.id = dest' /\ name'[m.id] = Head(rest)')
      BY <3>2, <3>4, <3>5, <3>6
    <3> QED
      BY <3>2, <3>4, <3>7, <3>8
  <2>11. CASE AppendCreatedApplied
    <3> DEFINE h == [cmd |-> cmd, status |-> "applied", id |-> dest, name |-> Head(rest)]
    <3>1. created' = created \cup {h} /\ pc = "mkdir_applied" /\ pc' \in {"mkdir", "replan"}
          /\ UNCHANGED <<name, lost, cmd, made, dest>>
      BY <2>11 DEF AppendCreatedApplied, AppendCreated, remote, arguments, events
    <3>2. lost = 0 => \A m \in made : m.cmd = cmd => Known(m)'
      BY <3>1
    <3> QED
      BY <3>1, <3>2
  <2>12. CASE Replan
    <3>1. pc = "replan" /\ pc' \in {"load", "sync"}
      BY <2>12 DEF Replan, PlanRows
    <3> QED
      BY <2>12, <3>1, <2>e DEF Replan, remote, database, arguments, events
  <2>13. CASE Load \/ NextRow
    <3>1. pc \in {"load", "rows"} /\ pc' \in {"rows", "pending", "move"}
      BY <2>13 DEF Load, NextRow
    <3> QED
      BY <2>13, <3>1, <2>e DEF Load, NextRow, remote, database, arguments, events
  <2>14. CASE AuditMovePending \/ AuditMoveApplied
    BY <2>14, <2>s DEF AuditMovePending, AuditMoveApplied, AuditMove, remote, arguments, work, events
  <2>15. CASE AppendMovedPending \/ AppendMovedApplied
    <3>1. pc \in {"pending_row", "applied_row"} /\ pc' \in {"pending", "move", "applied", "rows"}
          /\ UNCHANGED <<name, lost, cmd, made, created>>
      BY <2>15 DEF AppendMovedPending, AppendMovedApplied, AppendMoved, remote, arguments, events
    <3> QED
      BY <3>1, <2>e
  <2>16. CASE MoveFile
    <3>1. pc = "move" /\ pc' \in {"applied", "rows"}
      BY <2>16 DEF MoveFile
    <3> QED
      BY <2>16, <3>1, <2>e DEF MoveFile, database, arguments
  <2>17. CASE RowsDone \/ FinalSync \/ Stop
    BY <2>17, <2>e DEF RowsDone, FinalSync, Stop, End, remote, database, arguments, work, events
  <2> QED
    BY <2>1, <2>2, <2>3, <2>4, <2>5, <2>6, <2>7, <2>8, <2>9, <2>10, <2>11, <2>12, <2>13,
       <2>14, <2>15, <2>16, <2>17 DEF Next
<1>3. FoldersTold => CreatedFoldersRecorded
  BY DEF FoldersTold, Announced, Known, CreatedFoldersRecorded
<1> QED
  BY <1>1, <1>2, <1>3, PTL DEF Spec

-----------------------------------------------------------------------------
(* Folder trees, and what becomes of them when one item changes its place. *)

LEMMA SubtreeHolds ==
  ASSUME NEW t, NEW v \in Ids
  PROVE  /\ v \in Subtree(t, v) /\ Subtree(t, v) \subseteq Ids
         /\ \A k \in Ids : t[k] \in Subtree(t, v) => k \in Subtree(t, v)
BY DEF Subtree

\* A set of items that holds v, and what is in its members, holds the subtree of v.
LEMMA SubtreeLeast ==
  ASSUME NEW t, NEW v \in Ids, NEW C \in SUBSET Ids, v \in C,
         \A k \in Ids : t[k] \in C => k \in C
  PROVE  Subtree(t, v) \subseteq C
BY DEF Subtree

LEMMA SubtreeTransitive ==
  ASSUME NEW t, NEW v \in Ids, NEW w \in Subtree(t, v)
  PROVE  Subtree(t, w) \subseteq Subtree(t, v)
BY SubtreeHolds DEF Subtree

\* Whatever is in a subtree, and is not its root, has its parent there.
LEMMA ParentInSubtree ==
  ASSUME NEW t, NEW v \in Ids, NEW j \in Subtree(t, v), j # v
  PROVE  t[j] \in Subtree(t, v)
<1> DEFINE C == {x \in Subtree(t, v) : x = v \/ t[x] \in Subtree(t, v)}
<1>1. C \in SUBSET Ids /\ v \in C /\ \A k \in Ids : t[k] \in C => k \in C
  BY SubtreeHolds
<1>2. j \in C
  <2> HIDE DEF C
  <2> QED
    BY <1>1, SubtreeLeast
<1> QED
  BY <1>2

\* An item taken to another place takes its subtree along, and nothing else.
LEMMA SubtreeAfterMove ==
  ASSUME NEW t, NEW u, NEW c \in Ids, NEW v \in Ids,
         \A k \in Ids \ {c} : u[k] = t[k], u[c] \notin Subtree(t, c)
  PROVE  /\ Subtree(u, v) \subseteq Subtree(t, v) \cup Subtree(t, c)
         /\ Subtree(u, c) \subseteq Subtree(t, c)
         /\ \A i \in Subtree(u, v) : i \in Subtree(t, v) \/ u[c] \in Subtree(u, v)
         /\ \A i \in Subtree(t, v) : i \in Subtree(u, v) \/ i \in Subtree(t, c)
<1>1. Subtree(u, v) \subseteq Subtree(t, v) \cup Subtree(t, c)
  <2> DEFINE C == Subtree(t, v) \cup Subtree(t, c)
  <2>1. C \in SUBSET Ids /\ v \in C /\ \A k \in Ids : u[k] \in C => k \in C
    BY SubtreeHolds
  <2> HIDE DEF C
  <2>2. Subtree(u, v) \subseteq C
    BY <2>1, SubtreeLeast
  <2> QED
    BY <2>2 DEF C
<1>2. Subtree(u, c) \subseteq Subtree(t, c)
  <2>1. \A k \in Ids : u[k] \in Subtree(t, c) => k \in Subtree(t, c)
    BY SubtreeHolds
  <2> QED
    BY <2>1, SubtreeHolds, SubtreeLeast
<1>3. ASSUME NEW i \in Subtree(u, v), u[c] \notin Subtree(u, v) PROVE i \in Subtree(t, v)
  <2>1. CASE c = v
    BY <2>1, <1>2
  <2>2. CASE c # v
    <3>1. c \notin Subtree(u, v)
      BY <1>3, <2>2, ParentInSubtree
    <3> DEFINE D == {k \in Subtree(u, v) : k \in Subtree(t, v)}
    <3>2. D \in SUBSET Ids /\ v \in D
      BY SubtreeHolds
    <3>3. ASSUME NEW k \in Ids, u[k] \in D PROVE k \in D
      <4>1. k \in Subtree(u, v)
        BY <3>3, SubtreeHolds
      <4>2. k # c
        BY <4>1, <3>1
      <4> QED
        BY <4>1, <4>2, <3>3, SubtreeHolds
    <3> HIDE DEF D
    <3>4. Subtree(u, v) \subseteq D
      BY <3>2, <3>3, SubtreeLeast
    <3> QED
      BY <3>4 DEF D
  <2> QED
    BY <2>1, <2>2
<1>4. ASSUME NEW i \in Subtree(t, v), i \notin Subtree(t, c) PROVE i \in Subtree(u, v)
  <2> DEFINE C == {k \in Subtree(t, v) : k \in Subtree(u, v) \/ k \in Subtree(t, c)}
  <2>1. C \in SUBSET Ids /\ v \in C
    BY SubtreeHolds
  <2>2. ASSUME NEW k \in Ids, t[k] \in C PROVE k \in C
    <3>1. k \in Subtree(t, v)
      BY <2>2, SubtreeHolds
    <3>2. CASE k = c
      BY <3>1, <3>2, SubtreeHolds
    <3>3. CASE k # c
      BY <3>1, <3>3, <2>2, SubtreeHolds
    <3> QED
      BY <3>2, <3>3
  <2> HIDE DEF C
  <2>3. Subtree(t, v) \subseteq C
    BY <2>1, <2>2, SubtreeLeast
  <2> QED
    BY <2>3, <1>4 DEF C
<1> QED
  BY <1>1, <1>2, <1>3, <1>4

\* What is new, in a place that is there, is in no item's subtree but as a new one.
LEMMA SubtreeAfterCreate ==
  ASSUME NEW t, NEW u, NEW new \in SUBSET Ids, NEW v \in Ids,
         \A k \in Ids \ new : u[k] = t[k],
         \A k \in Ids : t[k] \notin new
  PROVE  Subtree(u, v) \subseteq Subtree(t, v) \cup new
<1> DEFINE C == Subtree(t, v) \cup new
<1>1. C \in SUBSET Ids /\ v \in C
  BY SubtreeHolds
<1>2. ASSUME NEW k \in Ids, u[k] \in C PROVE k \in C
  BY <1>2, SubtreeHolds
<1> HIDE DEF C
<1>3. Subtree(u, v) \subseteq C
  BY <1>1, <1>2, SubtreeLeast
<1> QED
  BY <1>3 DEF C

-----------------------------------------------------------------------------
(* Where an item has been first.                                           *)

Moving == {"rows"} \cup InRow

ByCall(v) == \E n \in moved : n.via = v
ByOlder(v) == \E n \in moved : n.via = v /\ n.cmd < cmd
OlderTook(i) == \E n \in moved : n.item = i /\ n.cmd < cmd

\* A row is applied once by a command.
OnePerRow ==
  /\ cmd \in Nat /\ edits \in Nat
  /\ \A n \in moved : n.via \in Items /\ n.cmd \in Nat /\ n.cmd <= cmd
  /\ pc \in Running \ (Moving \cup {"sync"}) => \A n \in moved : n.cmd # cmd
  /\ pc \in Moving => \A n \in moved : n.cmd = cmd => n.via \notin todo
  /\ pc \in {"pending", "pending_row", "move"} =>
       current \notin todo /\ \A n \in moved : n.cmd = cmd => n.via # current

\* While nobody else edits: an item that no call was made for is where the snapshots have
\* it, and is in no new folder; what is in an item a call was made for was moved too, by an
\* older command if the call was, unless what the command moves now ends up there.
Traced ==
  /\ \A k \in Ids : drive[k] \in Ids => drive[k] \in FolderIds /\ drive[drive[k]] # Out
  /\ \A w \in Items : drive[w] \in Fresh => ByCall(w)
  /\ synced => \A i \in Items : ByCall(i) \/ mirror[i] = drive[i]
  /\ pc \in Moving => \A i \in Items : ByCall(i) \/ view[i] = drive[i]
  /\ \A n \in moved : \A i \in Items \cap Subtree(drive, n.via) : \E m \in moved : m.item = i
  /\ pc \in Moving => \A n \in moved : n.cmd = cmd => drive[n.via] = Drives(dest)
  /\ pc \in Moving => \A v \in Items : ByOlder(v) =>
       \A i \in Items \cap Subtree(drive, v) : OlderTook(i) \/ Drives(dest) \in Subtree(drive, v)

OriginInv == OnePerRow /\ (edits = 0 => Traced /\ OriginRecorded)

\* What a call takes along has its pending row, unless an older command has moved it.
LEMMA TakenIsInSnapshot ==
  ASSUME Whole, OnePerRow, Traced, pc = "move", edits = 0,
         Drives(dest) \notin Subtree(drive, current),
         NEW i \in Items, i \in Subtree(drive, current), i # current, ~ OlderTook(i)
  PROVE  i \in Entries(current) /\ view[i] = drive[i] /\ drive[i] \in Ids
<1> DEFINE S == Subtree(drive, current)
           Below(v) == v \in S /\ v # current /\ ByCall(v)
           Same(k) == k \in Items /\ k \in Subtree(view, current) /\ view[k] = drive[k]
           C == {k \in S : k = current \/ k \in Fresh \/ Same(k)
                           \/ \E v \in Items : Below(v) /\ k \in Subtree(drive, v)}
<1>0. pc \in Moving /\ current \in Items /\ current \in Ids /\ S \subseteq Ids
  BY SubtreeHolds DEF Whole, Moving, InRow, Ids
<1>1. ASSUME NEW v \in Items, Below(v), i \in Subtree(drive, v) PROVE FALSE
  <2>1. PICK n \in moved : n.via = v /\ n.cmd \in Nat /\ n.cmd <= cmd
    BY <1>1 DEF ByCall, OnePerRow
  <2>2. CASE n.cmd = cmd
    <3>1. drive[v] = Drives(dest)
      BY <2>1, <2>2, <1>0 DEF Traced
    <3>2. drive[v] \in S
      BY <1>0, <1>1, ParentInSubtree
    <3> QED
      BY <3>1, <3>2
  <2>3. CASE n.cmd < cmd
    <3>1. ByOlder(v)
      BY <2>1, <2>3 DEF ByOlder
    <3>2. Drives(dest) \in Subtree(drive, v)
      BY <3>1, <1>0, <1>1 DEF Traced
    <3> QED
      BY <3>2, <1>0, <1>1, SubtreeTransitive
  <2> QED
    BY <2>1, <2>2, <2>3 DEF OnePerRow
<1>2. C \in SUBSET Ids /\ current \in C
  BY <1>0, SubtreeHolds
<1>3. ASSUME NEW k \in Ids, drive[k] \in C PROVE k \in C
  <2>1. k \in S
    BY <1>0, <1>3, SubtreeHolds
  <2>2. CASE k = current \/ k \in Fresh
    BY <2>1, <2>2
  <2>3. CASE k # current /\ k \in Items /\ ByCall(k)
    BY <2>1, <2>3, SubtreeHolds DEF Ids
  <2>4. CASE k \in Items /\ ~ ByCall(k)
    <3>1. view[k] = drive[k] /\ drive[k] \notin Fresh
      BY <2>4, <1>0 DEF Traced
    <3>2. CASE drive[k] = current \/ Same(drive[k])
      <4>1. drive[k] \in Subtree(view, current)
        BY <3>2, <1>0, SubtreeHolds
      <4> QED
        BY <4>1, <3>1, <2>1, <2>4, <1>0, SubtreeHolds
    <3>3. CASE \E v \in Items : Below(v) /\ drive[k] \in Subtree(drive, v)
      BY <3>3, <2>1, SubtreeHolds DEF Ids
    <3> QED
      BY <3>1, <3>2, <3>3, <1>3
  <2> QED
    BY <2>2, <2>3, <2>4 DEF Ids
<1>4. i \in C
  <2> HIDE DEF C
  <2>1. S \subseteq C
    BY <1>0, <1>2, <1>3, SubtreeLeast
  <2> QED
    BY <2>1
<1>5. Same(i)
  BY <1>4, <1>1, IdsAssumption
<1>6. drive[i] \in Ids
  BY <1>0, ParentInSubtree
<1>7. current \in FolderIds
  <2> SUFFICES ASSUME current \notin FolderIds PROVE FALSE
    OBVIOUS
  <2> DEFINE D == {current}
  <2>1. D \in SUBSET Ids /\ \A k \in Ids : drive[k] \in D => k \in D
    BY <1>0 DEF Traced
  <2> HIDE DEF D
  <2>2. S \subseteq D
    BY <2>1, <1>0, SubtreeLeast DEF D
  <2> QED
    BY <2>2 DEF D
<1>8. i \in Present(view)
  BY <1>0 DEF Present, Whole, Moving, Ids
<1> QED
  BY <1>5, <1>6, <1>7, <1>8 DEF Entries

\* The calls made, the place each item is in, and the place items go.
Scene == <<drive, moved, cmd, edits, top>>

\* A step that makes no call and edits nothing, outside the rows.
LEMMA TracedOutside ==
  ASSUME OriginInv, UNCHANGED Scene, history \subseteq history',
         UNCHANGED <<mirror, synced>> \/ mirror' = drive,
         pc' \notin Moving,
         pc' \in Running \ {"sync"} => pc \in Running \ (Moving \cup {"sync"})
  PROVE  OriginInv'
<1> USE DEF OriginInv, Scene
<1>1. OnePerRow'
  BY DEF OnePerRow, Moving, InRow
<1>2. ASSUME Traced PROVE Traced'
  BY <1>2 DEF Traced, ByCall
<1>3. ASSUME OriginRecorded, edits = 0 PROVE OriginRecorded'
  BY <1>3 DEF OriginRecorded, Drives
<1> QED
  BY <1>1, <1>2, <1>3

\* The same, between the rows or within one.
LEMMA TracedInside ==
  ASSUME OriginInv, UNCHANGED Scene, history \subseteq history',
         UNCHANGED <<mirror, synced>> \/ mirror' = drive,
         UNCHANGED <<view, dest>>, pc \in Moving, pc' \in Moving,
         \/ UNCHANGED <<todo, current>>
            /\ (pc' \in {"pending", "pending_row", "move"} =>
                  pc \in {"pending", "pending_row", "move"})
         \/ current' \in todo /\ todo' = todo \ {current'}
  PROVE  OriginInv'
<1> USE DEF OriginInv, Scene
<1>1. OnePerRow'
  BY DEF OnePerRow, Moving, InRow, Running
<1>2. ASSUME Traced PROVE Traced'
  <2>1. Drives(dest)' = Drives(dest) /\ \A v : Subtree(drive, v)' = Subtree(drive, v)
    BY DEF Drives
  <2>2. \A v : (ByCall(v)' <=> ByCall(v)) /\ (ByOlder(v)' <=> ByOlder(v))
               /\ (OlderTook(v)' <=> OlderTook(v))
    BY DEF ByCall, ByOlder, OlderTook
  <2> QED
    BY <1>2, <2>1, <2>2 DEF Traced
<1>3. ASSUME OriginRecorded, edits = 0 PROVE OriginRecorded'
  BY <1>3 DEF OriginRecorded, Drives
<1> QED
  BY <1>1, <1>2, <1>3

LEMMA OriginInvInit == Init => OriginInv
<1> SUFFICES ASSUME Init PROVE OriginInv
  OBVIOUS
<1>1. OnePerRow
  BY DEF Init, OnePerRow, Moving, InRow, Running
<1>2. Traced
  <2>1. \A k \in Ids : drive[k] \in Ids => drive[k] \in FolderIds /\ drive[drive[k]] # Out
    BY IdsAssumption DEF Init, IsTree, Present, Ids
  <2>2. \A w \in Items : drive[w] \notin Fresh
    BY <2>1, IdsAssumption DEF Init, Present, Ids
  <2> QED
    BY <2>1, <2>2 DEF Init, Traced, Moving, InRow
<1> QED
  BY <1>1, <1>2 DEF OriginInv, OriginRecorded, Init

LEMMA OriginInvMove ==
  ASSUME Whole, Whole', RowInWork, OriginInv, MoveFile
  PROVE  OriginInv'
<1> DEFINE to == Drives(dest)
           S == Subtree(drive, current)
           new == {[cmd |-> cmd, via |-> current, item |-> i, from |-> drive[i]] :
                     i \in S \cap Present(drive)}
<1> USE DEF OriginInv
<1>1. /\ pc = "move" /\ current \in Items /\ current \in Ids
      /\ to \notin S
      /\ drive[current] \in {from[current], Drives(Effective(from[current]))} \ {Out}
      /\ to = top \/ (to \in FolderIds /\ drive[to] # Out)
      /\ drive' = [drive EXCEPT ![current] = to] /\ drive \in Trees
      /\ moved' = moved \cup new
      /\ pc' \in {"applied", "rows"} /\ top \in {Root, MyDrive}
      /\ UNCHANGED <<top, cmd, edits, todo, current, dest, view, mirror, synced, history>>
  BY DEF MoveFile, database, arguments, Whole, InRow, Ids
<1>2. /\ drive'[current] = to /\ \A k \in Ids \ {current} : drive'[k] = drive[k]
      /\ Drives(dest)' = to
  BY <1>1 DEF Trees, Drives
<1>3. \A n \in new : n.cmd = cmd /\ n.via = current
  OBVIOUS
<1>4. ASSUME edits = 0, NEW i \in Items, i \in S PROVE \E n \in new : n.item = i
  <2> DEFINE n == [cmd |-> cmd, via |-> current, item |-> i, from |-> drive[i]]
  <2>1. i \in S \cap Present(drive)
    BY <1>4 DEF Whole, Present, Ids
  <2>2. n \in new /\ n.item = i
    BY <2>1
  <2> QED
    BY <2>2
<1>5. \A n \in new : n.item \in S /\ n.from = drive[n.item]
  OBVIOUS
<1>6. current \in S
  BY <1>1, InItself
<1> HIDE DEF new
<1>7. OnePerRow'
  BY <1>1, <1>3 DEF OnePerRow, Moving, InRow, Running
<1>8. ASSUME edits = 0 PROVE Traced'
  <2>0. Traced
    BY <1>8
  <2> HIDE DEF to
  <2>1. ByCall(current)' /\ \A v : ByCall(v) => ByCall(v)'
    BY <1>1, <1>3, <1>4, <1>6, <1>8 DEF ByCall
  <2>2. \A v : (ByOlder(v)' <=> ByOlder(v)) /\ (OlderTook(v)' <=> OlderTook(v))
    BY <1>1, <1>3 DEF ByOlder, OlderTook, OnePerRow
  <2>3. ASSUME NEW k \in Ids, drive'[k] \in Ids
        PROVE  drive'[k] \in FolderIds /\ drive'[drive'[k]] # Out
    <3>1. to \in Ids => to \in FolderIds /\ drive[to] # Out
      BY <1>1, IdsAssumption DEF Ids
    <3>2. to # current
      BY <1>1, <1>6
    <3>3. drive'[k] \in FolderIds /\ drive[drive'[k]] # Out
      BY <2>3, <2>0, <1>2, <3>1 DEF Traced
    <3>4. to # Out
      BY <1>1, IdsAssumption DEF FolderIds, Ids
    <3> QED
      BY <3>3, <3>4, <2>3, <1>2
  <2>4. ASSUME NEW w \in Items, drive'[w] \in Fresh PROVE ByCall(w)'
    <3>1. CASE w = current
      BY <3>1, <2>1, <1>1
    <3>2. CASE w # current
      BY <3>2, <2>4, <2>0, <2>1, <1>2 DEF Traced, Ids
    <3> QED
      BY <3>1, <3>2
  <2>5. \A i \in Items : (ByCall(i) \/ mirror[i] = drive[i]) => (ByCall(i) \/ mirror[i] = drive[i])'
    BY <2>1, <1>1, <1>2 DEF Ids
  <2>6. \A i \in Items : (ByCall(i) \/ view[i] = drive[i]) => (ByCall(i) \/ view[i] = drive[i])'
    BY <2>1, <1>1, <1>2 DEF Ids
  <2>7. ASSUME NEW v \in Ids
        PROVE  /\ Subtree(drive', v) \subseteq Subtree(drive, v) \cup S
               /\ Subtree(drive', current) \subseteq S
               /\ \A i \in Subtree(drive', v) : i \in Subtree(drive, v) \/ to \in Subtree(drive', v)
               /\ \A i \in Subtree(drive, v) : i \in Subtree(drive', v) \/ i \in S
    <3>1. drive'[current] \notin Subtree(drive, current) /\ drive'[current] = to
      BY <1>1, <1>2
    <3> QED
      <4> HIDE DEF S
      <4>1. current \in Ids /\ S = Subtree(drive, current)
        BY <1>1 DEF S
      <4> QED
        BY <4>1, <1>2, <3>1, SubtreeAfterMove
  <2>8. ASSUME NEW n \in moved', NEW i \in Items, i \in Subtree(drive', n.via)
        PROVE  \E m \in moved' : m.item = i
    <3>1. CASE n \in new
      BY <3>1, <2>7, <2>8, <1>1, <1>3, <1>4, <1>8
    <3>2. CASE n \in moved
      <4>1. n.via \in Ids
        BY <3>2 DEF OnePerRow, Ids
      <4>2. i \in Subtree(drive, n.via) \/ i \in S
        BY <4>1, <2>7, <2>8
      <4> QED
        BY <4>2, <3>2, <2>0, <1>1, <1>4, <1>8 DEF Traced
    <3> QED
      BY <3>1, <3>2, <1>1
  <2>9. ASSUME NEW n \in moved', n.cmd = cmd PROVE drive'[n.via] = to
    <3>1. CASE n \in new
      BY <3>1, <1>2, <1>3
    <3>2. CASE n \in moved
      <4>1. n.via # current /\ n.via \in Ids
        BY <3>2, <2>9, <1>1 DEF OnePerRow, Ids
      <4>2. drive[n.via] = to
        BY <3>2, <2>9, <2>0, <1>1 DEF Traced, Moving, InRow, to
      <4> QED
        BY <4>1, <4>2, <1>2
    <3> QED
      BY <3>1, <3>2, <1>1
  <2>10. ASSUME NEW v \in Items, ByOlder(v), NEW i \in Items, i \in Subtree(drive', v)
         PROVE  OlderTook(i) \/ to \in Subtree(drive', v)
    <3>1. v \in Ids
      BY DEF Ids
    <3>2. SUFFICES ASSUME to \notin Subtree(drive', v), ~ OlderTook(i) PROVE FALSE
      OBVIOUS
    <3>3. i \in Subtree(drive, v)
      BY <3>1, <3>2, <2>7, <2>10
    <3>4. to \in Subtree(drive, v)
      BY <3>2, <3>3, <2>10, <2>0, <1>1 DEF Traced, Moving, InRow, to
    <3> QED
      BY <3>1, <3>2, <3>4, <2>7, <1>1
  <2>11. \A v : Subtree(drive, v)' = Subtree(drive', v)
    BY DEF Subtree
  <2> QED
    BY <2>0, <2>1, <2>2, <2>3, <2>4, <2>5, <2>6, <2>8, <2>9, <2>10, <2>11, <1>1, <1>2
       DEF Traced, Moving, InRow
<1>9. ASSUME edits = 0, NEW m \in moved', m.item \in Items
      PROVE  \/ \E n \in moved' : n.item = m.item /\ n.cmd < m.cmd
             \/ \E h \in history : h.status = "pending" /\ h.cmd = m.cmd /\ h.item = m.item
                                   /\ Drives(h.from) = Drives(Effective(m.from))
  <2> DEFINE i == m.item
  <2>1. CASE m \in moved
    BY <2>1, <1>1, <1>9 DEF OriginRecorded
  <2>2. CASE m \in new /\ ~ OlderTook(i)
    <3>1. m.cmd = cmd /\ i \in S /\ m.from = drive[i]
      BY <2>2, <1>3, <1>5
    <3>2. i \in Entries(current)
          /\ Drives(Row("pending", i).from) = Drives(Effective(drive[i]))
      <4>1. CASE i = current
        <5>1. Row("pending", i).from = Effective(from[i])
          BY <4>1 DEF Row
        <5>2. i \in Entries(current)
          BY <4>1, <1>1, <1>9, CurrentIsEntry DEF InRow, Whole
        <5>3. \A p : Drives(Effective(Drives(Effective(p)))) = Drives(Effective(p))
          BY <1>1, IdsAssumption DEF Drives, Effective
        <5>4. drive[current] = from[current] \/ drive[current] = Drives(Effective(from[current]))
          BY <1>1
        <5> QED
          BY <5>1, <5>2, <5>3, <5>4, <4>1
      <4>2. CASE i # current
        <5>1. i \in Entries(current) /\ view[i] = drive[i] /\ drive[i] \in Ids
          BY <4>2, <3>1, <2>2, <1>1, <1>9, TakenIsInSnapshot
        <5>2. Row("pending", i).from = Effective(view[i])
          BY <4>2 DEF Row
        <5> QED
          BY <5>1, <5>2
      <4> QED
        BY <4>1, <4>2
    <3>3. Row("pending", i) \in history
      BY <3>2, <1>1 DEF RowInWork
    <3>4. Row("pending", i).status = "pending" /\ Row("pending", i).cmd = cmd
          /\ Row("pending", i).item = i
      BY DEF Row
    <3> QED
      BY <3>1, <3>2, <3>3, <3>4
  <2>3. CASE m \in new /\ OlderTook(i)
    BY <2>3, <1>1, <1>3 DEF OlderTook
  <2> QED
    BY <2>1, <2>2, <2>3, <1>1
<1>10. edits = 0 => OriginRecorded'
  <2>1. \A p : Drives(p)' = Drives(p)
    BY <1>1 DEF Drives
  <2> QED
    BY <1>9, <1>1, <2>1 DEF OriginRecorded
<1> QED
  BY <1>1, <1>7, <1>8, <1>10

\* The folders a command makes were nowhere, so nothing is in them.
LEMMA OriginInvCreate ==
  ASSUME Whole, OriginInv, CreateFolder
  PROVE  OriginInv'
<1> USE DEF OriginInv
<1>1. PICK new \in SUBSET {x \in Fresh : drive[x] = Out} :
        drive' = [i \in Ids |-> IF i \in new THEN Drives(dest) ELSE drive[i]]
  BY DEF CreateFolder
<1>2. /\ Drives(dest) = top \/ (dest \in FolderIds /\ drive[dest] # Out)
      /\ pc = "create" /\ pc' = "mkdir_done" /\ top \in {Root, MyDrive}
      /\ UNCHANGED <<top, cmd, edits, mirror, synced, history, moved>>
  BY DEF CreateFolder, database, arguments, Whole
<1>3. OnePerRow'
  BY <1>2 DEF OnePerRow, Moving, InRow, Running
<1>4. ASSUME edits = 0 PROVE Traced'
  <2>0. Traced
    BY <1>4
  <2> DEFINE to == Drives(dest)
  <2>1. \/ to \notin Ids
        \/ to \in FolderIds /\ drive[to] # Out /\ to \notin new
    BY <1>1, <1>2, IdsAssumption DEF Drives, Ids, FolderIds
  <2>2. to # Out
    BY <1>2, IdsAssumption DEF Drives, Ids, FolderIds
  <2> HIDE DEF to
  <2>3. /\ \A k \in new : drive'[k] = to /\ k \in Ids /\ k \notin Items /\ drive[k] = Out
        /\ \A k \in Ids \ new : drive'[k] = drive[k]
    BY <1>1, IdsAssumption DEF Ids, to
  <2>4. \A k \in Ids : drive[k] \notin new
    BY <2>0, <2>3 DEF Traced
  <2>5. ASSUME NEW k \in Ids, drive'[k] \in Ids
        PROVE  drive'[k] \in FolderIds /\ drive'[drive'[k]] # Out
    <3>1. drive'[k] \in FolderIds /\ drive[drive'[k]] # Out
      <4>1. CASE k \in new
        BY <4>1, <2>1, <2>3, <2>5
      <4>2. CASE k \notin new
        BY <4>2, <2>0, <2>3, <2>5 DEF Traced
      <4> QED
        BY <4>1, <4>2
    <3> QED
      BY <3>1, <2>2, <2>3, <2>5
  <2>6. \A i \in Items : drive'[i] = drive[i]
    BY <2>3 DEF Ids
  <2>7. \A v : ByCall(v)' <=> ByCall(v)
    BY <1>2 DEF ByCall
  <2>8. ASSUME NEW n \in moved', NEW i \in Items, i \in Subtree(drive', n.via)
        PROVE  \E m \in moved' : m.item = i
    <3>1. n \in moved /\ n.via \in Ids /\ new \in SUBSET Ids
      BY <1>1, <1>2 DEF OnePerRow, Ids
    <3>2. i \in Subtree(drive, n.via) \cup new
      BY <3>1, <2>3, <2>4, <2>8, SubtreeAfterCreate
    <3>3. i \in Subtree(drive, n.via)
      BY <3>2, <2>3
    <3> QED
      BY <3>1, <3>3, <2>0, <1>2 DEF Traced
  <2>9. \A v : Subtree(drive, v)' = Subtree(drive', v)
    BY DEF Subtree
  <2> QED
    BY <2>0, <2>5, <2>6, <2>7, <2>8, <2>9, <1>2 DEF Traced, Moving, InRow
<1>5. ASSUME edits = 0 PROVE OriginRecorded'
  BY <1>2, <1>5 DEF OriginRecorded, Drives
<1> QED
  BY <1>2, <1>3, <1>4, <1>5

LEMMA OriginInvStep ==
  ASSUME Whole, Whole', RowInWork, OriginInv, [Next]_vars
  PROVE  OriginInv'
<1> USE DEF Scene
<1>1. CASE UNCHANGED vars
  <2>1. CASE pc \in Moving
    BY <1>1, <2>1, TracedInside DEF vars
  <2>2. CASE pc \notin Moving
    <3>1. pc' \notin Moving /\ (pc' \in Running \ {"sync"} => pc \in Running \ (Moving \cup {"sync"}))
      BY <1>1, <2>2 DEF vars
    <3> QED
      BY <1>1, <3>1, TracedOutside DEF vars
  <2> QED
    BY <2>1, <2>2
<1>2. CASE \E i \in Items : EditDrive(i) \/ TakeOff(i)
  <2>1. /\ edits' = edits + 1 /\ edits \in Nat
        /\ UNCHANGED <<moved, cmd, pc, todo, current>>
    BY <1>2 DEF EditDrive, TakeOff, arguments, work, events, OriginInv, OnePerRow
  <2>2. OnePerRow'
    BY <2>1 DEF OriginInv, OnePerRow
  <2> QED
    BY <2>1, <2>2 DEF OriginInv
<1>3. CASE SyncElsewhere
  <2>1. /\ UNCHANGED Scene /\ UNCHANGED <<history, view, dest, todo, current, pc>>
        /\ mirror' = drive
    BY <1>3 DEF SyncElsewhere, remote, arguments, work, events
  <2>2. CASE pc \in Moving
    BY <2>1, <2>2, TracedInside
  <2>3. CASE pc \notin Moving
    <3>1. pc' \notin Moving /\ (pc' \in Running \ {"sync"} => pc \in Running \ (Moving \cup {"sync"}))
      BY <2>1, <2>3
    <3> QED
      BY <2>1, <3>1, TracedOutside
  <2> QED
    BY <2>2, <2>3
<1>4. CASE \E a \in Asks : Preview(a)
  <2>1. /\ cmd' = cmd + 1 /\ pc' \in {"release", "plan", "stopped"}
        /\ UNCHANGED <<drive, top, edits, moved, mirror, synced, history>>
    BY <1>4 DEF Preview, remote, database, work, events
  <2>2. cmd \in Nat /\ edits \in Nat
        /\ \A n \in moved : n.via \in Items /\ n.cmd \in Nat /\ n.cmd <= cmd
    BY DEF OriginInv, OnePerRow
  <2>3. \A n \in moved : n.cmd <= cmd' /\ n.cmd # cmd'
    BY <2>1, <2>2
  <2>4. OnePerRow'
    BY <2>1, <2>2, <2>3 DEF OnePerRow, Moving, InRow
  <2>5. Traced => Traced'
    BY <2>1 DEF Traced, Moving, InRow, ByCall
  <2>6. OriginRecorded /\ edits = 0 => OriginRecorded'
    BY <2>1 DEF OriginRecorded, Drives
  <2> QED
    BY <2>1, <2>4, <2>5, <2>6 DEF OriginInv
<1>5. CASE Release \/ Plan \/ Replan
  <2>1. /\ pc \in {"release", "plan", "replan"}
        /\ pc' \in {"plan", "load", "sync", "mkdir"}
        /\ UNCHANGED Scene /\ UNCHANGED <<mirror, synced, history>>
    BY <1>5 DEF Release, Plan, Replan, PlanRows, remote, database, arguments, events
  <2> QED
    BY <2>1, TracedOutside DEF Moving, InRow, Running
<1>6. CASE AuditMkdirPending \/ AppendCreatedPending \/ FindFileInFolder \/ AuditMkdir
           \/ AppendCreatedApplied
  <2>1. /\ pc \in {"mkdir", "mkdir_row", "find", "mkdir_done", "mkdir_applied"}
        /\ pc' \in {"mkdir_row", "find", "create", "mkdir_done", "mkdir_applied", "mkdir",
                    "replan"}
        /\ UNCHANGED Scene /\ UNCHANGED <<mirror, synced, history>>
    BY <1>6 DEF AuditMkdirPending, AppendCreatedPending, FindFileInFolder, AuditMkdir,
                AppendCreatedApplied, remote, database, arguments, events
  <2> QED
    BY <2>1, TracedOutside DEF Moving, InRow, Running
<1>7. CASE CreateFolder
  BY <1>7, OriginInvCreate
<1>8. CASE Load
  <2>1. /\ pc = "load" /\ pc' = "rows" /\ view' = mirror /\ synced
        /\ UNCHANGED Scene /\ UNCHANGED <<mirror, synced, history, dest>>
    BY <1>8 DEF Load, remote, database, arguments, events, Whole, AfterPlan, Running
  <2>2. \A n \in moved : n.cmd # cmd /\ n.cmd \in Nat /\ n.cmd <= cmd
    BY <2>1 DEF OriginInv, OnePerRow, Moving, InRow, Running
  <2>3. OnePerRow'
    BY <2>1, <2>2 DEF OriginInv, OnePerRow, Moving, InRow, Running
  <2>4. \A n \in moved : n.cmd < cmd
    BY <2>2 DEF OriginInv, OnePerRow
  <2>5. ASSUME Traced PROVE Traced'
    <3>1. /\ \A v : (ByCall(v)' <=> ByCall(v)) /\ (ByOlder(v)' <=> ByOlder(v))
                    /\ (OlderTook(v)' <=> OlderTook(v))
          /\ \A v : Subtree(drive, v)' = Subtree(drive, v)
      BY <2>1 DEF ByCall, ByOlder, OlderTook
    <3>2. \A v \in Items : ByOlder(v) => \A i \in Items \cap Subtree(drive, v) : OlderTook(i)
      BY <2>4, <2>5 DEF Traced, ByOlder, OlderTook
    <3> QED
      BY <2>1, <2>2, <2>5, <3>1, <3>2 DEF Traced
  <2>6. OriginRecorded /\ edits = 0 => OriginRecorded'
    BY <2>1 DEF OriginRecorded, Drives
  <2> QED
    BY <2>1, <2>3, <2>5, <2>6 DEF OriginInv
<1>9. CASE NextRow
  <2>1. /\ pc = "rows" /\ pc' \in {"pending", "move"}
        /\ \E i \in todo : todo' = todo \ {i} /\ current' = i
        /\ UNCHANGED Scene /\ UNCHANGED <<mirror, synced, history, view, dest>>
    BY <1>9 DEF NextRow, remote, database, arguments, events
  <2> QED
    BY <2>1, TracedInside DEF Moving, InRow
<1>10. CASE AuditMovePending \/ AuditMoveApplied
  <2>1. /\ \/ pc = "pending" /\ pc' = "pending_row"
           \/ pc = "applied" /\ pc' = "applied_row"
        /\ UNCHANGED Scene
        /\ UNCHANGED <<mirror, synced, history, view, dest, todo, current>>
    BY <1>10 DEF AuditMovePending, AuditMoveApplied, AuditMove, remote, arguments, work, events
  <2> QED
    BY <2>1, TracedInside DEF Moving, InRow
<1>11. CASE AppendMovedPending \/ AppendMovedApplied
  <2>1. /\ \/ pc = "pending_row" /\ pc' \in {"pending", "move"}
           \/ pc = "applied_row" /\ pc' \in {"applied", "rows"}
        /\ UNCHANGED Scene /\ history \subseteq history'
        /\ UNCHANGED <<mirror, synced, view, dest, todo, current>>
    BY <1>11 DEF AppendMovedPending, AppendMovedApplied, AppendMoved, remote, arguments, events
  <2> QED
    BY <2>1, TracedInside DEF Moving, InRow
<1>12. CASE MoveFile
  BY <1>12, OriginInvMove
<1>13. CASE RowsDone \/ FinalSync \/ Stop
  <2>1. /\ pc' \in {"sync", "done", "stopped"}
        /\ UNCHANGED Scene /\ UNCHANGED history
        /\ UNCHANGED <<mirror, synced>> \/ mirror' = drive
    BY <1>13 DEF RowsDone, FinalSync, Stop, End, remote, database, arguments, events
  <2> QED
    BY <2>1, TracedOutside DEF Moving, InRow, Running
<1> QED
  BY <1>1, <1>2, <1>3, <1>4, <1>5, <1>6, <1>7, <1>8, <1>9, <1>10, <1>11, <1>12, <1>13 DEF Next

\* Wherever commands are cut off, and however far the mirror is behind: while nobody else
\* edits Drive, whatever a call takes along has the place it comes from in the history, or
\* was moved by an older command.
THEOREM OriginsRecorded == Spec => []OriginRecorded
<1>1. OriginInv => OriginRecorded
  BY DEF OriginInv, OriginRecorded
<1>2. Spec => []OriginInv
  BY OriginInvInit, OriginInvStep, WholeAlways, BracketsAlways, PTL DEF Spec
<1> QED
  BY <1>1, <1>2, PTL

-----------------------------------------------------------------------------
(* Twins: the folders commands make stay where they are made.              *)

MadeIds == {k.id : k \in made}
Twins(p, n) == {x \in MadeIds : drive[x] = p /\ name[x] = n}

\* What a command is about to make, none has made there before.
MakesTheFirst ==
  /\ lost \in Nat /\ drive \in Trees
  /\ \A m \in made : m.id \in Fresh
  /\ \A m \in made : drive[m.id] # Out =>
       Cardinality(Twins(drive[m.id], name[m.id])) <= 1 + lost
  /\ pc = "create" /\ Drives(dest) # Out => Twins(Drives(dest), Head(rest)) = {}

LEMMA MakesTheFirstFrame ==
  ASSUME MakesTheFirst, UNCHANGED <<made, name, lost, top>>, drive' \in Trees,
         \A x \in Fresh : drive'[x] = drive[x] \/ drive'[x] = Out,
         pc' = "create" => pc = "create" /\ UNCHANGED <<dest, rest>>
  PROVE  MakesTheFirst'
<1>1. MadeIds' = MadeIds /\ MadeIds \subseteq Fresh
  BY DEF MadeIds, MakesTheFirst
<1>2. \A p, n : p # Out => Twins(p, n)' \subseteq Twins(p, n)
  BY <1>1 DEF Twins
<1>4. ASSUME NEW m \in made', drive'[m.id] # Out
      PROVE  Cardinality(Twins(drive[m.id], name[m.id])') <= 1 + lost'
  <2>1. m \in made /\ m.id \in Fresh /\ drive'[m.id] = drive[m.id] /\ drive[m.id] # Out
    BY <1>4 DEF MakesTheFirst
  <2>2. PICK p, n : p = drive[m.id] /\ n = name[m.id]
    OBVIOUS
  <2>3. Twins(p, n)' \subseteq Twins(p, n)
    BY <2>1, <2>2, <1>2
  <2>4. Twins(drive[m.id], name[m.id])' = Twins(p, n)'
    BY <2>1, <2>2 DEF Twins
  <2>5. IsFiniteSet(Twins(p, n))
    <3>1. Twins(p, n) \subseteq Fresh
      BY <1>1 DEF Twins
    <3> QED
      BY <3>1, IdsAssumption, FS_Subset
  <2>6. Cardinality(Twins(p, n)') <= Cardinality(Twins(p, n)) /\ Cardinality(Twins(p, n)) \in Nat
        /\ Cardinality(Twins(p, n)') \in Nat
    BY <2>3, <2>5, FS_Subset, FS_CardinalityType
  <2>7. Cardinality(Twins(p, n)) <= 1 + lost /\ lost \in Nat
    BY <2>1, <2>2 DEF MakesTheFirst
  <2> QED
    BY <2>4, <2>6, <2>7
<1>5. pc' = "create" /\ Drives(dest)' # Out => Twins(Drives(dest), Head(rest))' = {}
  <2> SUFFICES ASSUME pc' = "create", Drives(dest)' # Out
               PROVE  Twins(Drives(dest), Head(rest))' = {}
    OBVIOUS
  <2>1. PICK p, n : p = Drives(dest) /\ n = Head(rest)
    OBVIOUS
  <2>2. Twins(p, n) = {} /\ p # Out
    BY <2>1 DEF MakesTheFirst, Drives
  <2>3. Twins(Drives(dest), Head(rest))' = Twins(p, n)'
    BY <2>1 DEF Twins, Drives
  <2> QED
    BY <2>2, <2>3, <1>2
<1> QED
  BY <1>4, <1>5 DEF MakesTheFirst

\* Each answer that is lost leaves one folder more than wanted, and nothing else does.
LEMMA MakesTheFirstCreate ==
  ASSUME Whole, MakesTheFirst, drive' \in Trees, CreateFolder
  PROVE  MakesTheFirst'
<1>1. PICK new \in SUBSET {x \in Fresh : drive[x] = Out /\ \A m \in made : m.id # x} :
        /\ new # {}
        /\ lost' = lost + Cardinality(new) - 1
        /\ drive' = [i \in Ids |-> IF i \in new THEN Drives(dest) ELSE drive[i]]
        /\ name' = [i \in Ids |-> IF i \in new THEN Head(rest) ELSE name[i]]
        /\ made' = made \cup [cmd : {cmd}, id : new]
  BY DEF CreateFolder
<1> DEFINE p == Drives(dest)
           n == Head(rest)
<1>2. pc = "create" /\ pc' = "mkdir_done" /\ p # Out
  BY IdsAssumption DEF CreateFolder, FolderIds, Ids, Drives, Whole
<1> HIDE DEF p, n
<1>3. Cardinality(new) \in Nat \ {0} /\ lost' \in Nat /\ lost <= lost'
      /\ Cardinality(new) <= 1 + lost'
  <2>1. IsFiniteSet(new)
    BY IdsAssumption, FS_Subset
  <2>2. Cardinality(new) \in Nat /\ Cardinality(new) # 0
    BY <1>1, <2>1, FS_CardinalityType, FS_EmptySet
  <2> QED
    BY <1>1, <2>2 DEF MakesTheFirst
<1>4. MadeIds' = MadeIds \cup new /\ MadeIds \subseteq Fresh /\ MadeIds \cap new = {}
  <2>1. \A x \in MadeIds' : x \in MadeIds \cup new
    BY <1>1 DEF MadeIds
  <2>2. \A x \in new : x \in MadeIds'
    <3> SUFFICES ASSUME NEW x \in new PROVE x \in MadeIds'
      OBVIOUS
    <3>1. [cmd |-> cmd, id |-> x] \in made' /\ [cmd |-> cmd, id |-> x].id = x
      BY <1>1
    <3> QED
      BY <3>1 DEF MadeIds
  <2>3. MadeIds \subseteq MadeIds'
    BY <1>1 DEF MadeIds
  <2>4. MadeIds \subseteq Fresh /\ MadeIds \cap new = {}
    BY DEF MadeIds, MakesTheFirst
  <2> QED
    BY <2>1, <2>2, <2>3, <2>4
<1>5. /\ \A x \in new : drive'[x] = p /\ name'[x] = n
      /\ \A x \in MadeIds : drive'[x] = drive[x] /\ name'[x] = name[x]
  BY <1>1, <1>4 DEF Ids, p, n
<1>6. \A x \in MadeIds : ~ (drive[x] = p /\ name[x] = n)
  BY <1>2 DEF MakesTheFirst, Twins, p, n
<1>7. ASSUME NEW m \in made'
      PROVE  /\ m.id \in Fresh
             /\ drive'[m.id] # Out => Cardinality(Twins(drive[m.id], name[m.id])') <= 1 + lost'
  <2>1. CASE m.id \in new
    <3>1. Twins(drive[m.id], name[m.id])' = new
      BY <2>1, <1>4, <1>5, <1>6 DEF Twins
    <3> QED
      BY <2>1, <3>1, <1>3
  <2>2. CASE m.id \notin new
    <3>1. m \in made /\ m.id \in MadeIds
      BY <1>1, <2>2 DEF MadeIds
    <3>2. Twins(drive[m.id], name[m.id])' = Twins(drive[m.id], name[m.id])
      BY <3>1, <1>4, <1>5, <1>6 DEF Twins
    <3>3. IsFiniteSet(Twins(drive[m.id], name[m.id]))
      BY <1>4, IdsAssumption, FS_Subset DEF Twins
    <3>4. Cardinality(Twins(drive[m.id], name[m.id])) \in Nat
      BY <3>3, FS_CardinalityType
    <3>5. drive'[m.id] = drive[m.id]
      BY <3>1, <1>5
    <3> QED
      BY <3>1, <3>2, <3>4, <3>5, <1>3, <1>4 DEF MakesTheFirst
  <2> QED
    BY <2>1, <2>2
<1> QED
  BY <1>2, <1>3, <1>7 DEF MakesTheFirst

\* Whatever is edited, and wherever commands are cut off: a folder of a --to-path is made
\* once, but for the answers that got lost inside the gateway.
THEOREM FoldersMadeOnce == Spec => []NoTwinFolders
<1>1. Init => MakesTheFirst
  BY DEF Init, MakesTheFirst
<1>2. Whole /\ Whole' /\ MakesTheFirst /\ [Next]_vars => MakesTheFirst'
  <2> SUFFICES ASSUME Whole, Whole', MakesTheFirst, [Next]_vars PROVE MakesTheFirst'
    OBVIOUS
  <2>0. drive' \in Trees /\ drive \in Trees
    BY DEF Whole
  <2>1. CASE UNCHANGED vars
    BY <2>0, <2>1, MakesTheFirstFrame DEF vars
  <2>2. CASE \E i \in Items : EditDrive(i)
    <3>1. PICK i \in Items : EditDrive(i)
      BY <2>2
    <3>2. PICK place : drive' = [drive EXCEPT ![i] = place]
      BY <3>1 DEF EditDrive
    <3>3. \A x \in Fresh : drive'[x] = drive[x]
      BY <3>2, IdsAssumption
    <3> QED
      BY <2>0, <3>1, <3>3, MakesTheFirstFrame DEF EditDrive, work, events
  <2>9. CASE \E i \in Items : TakeOff(i)
    <3>1. PICK i \in Items : TakeOff(i)
      BY <2>9
    <3>2. \A x \in Fresh : drive'[x] = drive[x] \/ drive'[x] = Out
      BY <3>1 DEF TakeOff, Ids
    <3> QED
      BY <2>0, <3>1, <3>2, MakesTheFirstFrame DEF TakeOff, work, events
  <2>3. CASE SyncElsewhere \/ AuditMkdirPending \/ AppendCreatedPending \/ AuditMkdir
    <3>1. UNCHANGED <<drive, made, name, lost, top, dest, rest>>
          /\ (pc' = "create" => pc = "create")
      BY <2>3 DEF SyncElsewhere, AuditMkdirPending, AppendCreatedPending, AuditMkdir,
                  remote, work, events
    <3> QED
      BY <2>0, <3>1, MakesTheFirstFrame
  <2>4. CASE \/ \E a \in Asks : Preview(a)
             \/ Release \/ Plan \/ AppendCreatedApplied \/ Replan \/ Load \/ NextRow
             \/ RowsDone \/ FinalSync \/ Stop
    <3>1. UNCHANGED <<drive, made, name, lost, top>> /\ pc' # "create"
      BY <2>4 DEF Preview, Release, Plan, AppendCreatedApplied, Replan, PlanRows, Load, NextRow,
                  RowsDone, FinalSync, Stop, End, remote, work, events
    <3> QED
      BY <2>0, <3>1, MakesTheFirstFrame
  <2>5. CASE AuditMovePending \/ AuditMoveApplied \/ AppendMovedPending \/ AppendMovedApplied
    <3>1. UNCHANGED <<drive, made, name, lost, top>> /\ pc' # "create"
      BY <2>5 DEF AuditMovePending, AuditMoveApplied, AuditMove, AppendMovedPending,
                  AppendMovedApplied, AppendMoved, remote, work, events
    <3> QED
      BY <2>0, <3>1, MakesTheFirstFrame
  <2>6. CASE FindFileInFolder
    <3>1. UNCHANGED <<drive, made, name, lost, top, rest>>
      BY <2>6 DEF FindFileInFolder, remote, events
    <3>2. CASE pc' # "create"
      BY <2>0, <3>1, <3>2, MakesTheFirstFrame
    <3>3. CASE pc' = "create"
      <4>1. /\ UNCHANGED dest
            /\ \A i \in Ids : ~ (drive[i] = Drives(dest) /\ name[i] = Head(rest))
        BY <2>6, <3>3 DEF FindFileInFolder
      <4>2. MadeIds \subseteq Ids
        BY DEF MadeIds, MakesTheFirst, Ids
      <4>3. Twins(Drives(dest), Head(rest)) = {}
        BY <4>1, <4>2 DEF Twins
      <4>4. Twins(Drives(dest), Head(rest))' = Twins(Drives(dest), Head(rest))
        BY <3>1, <4>1 DEF Twins, MadeIds, Drives
      <4>5. \A m \in made : Twins(drive[m.id], name[m.id])' = Twins(drive[m.id], name[m.id])
        BY <3>1 DEF Twins, MadeIds
      <4> QED
        BY <3>1, <4>3, <4>4, <4>5 DEF MakesTheFirst
    <3> QED
      BY <3>2, <3>3
  <2>7. CASE CreateFolder
    BY <2>0, <2>7, MakesTheFirstCreate
  <2>8. CASE MoveFile
    <3>1. drive' = [drive EXCEPT ![current] = Drives(dest)] /\ current \notin Fresh
          /\ UNCHANGED <<made, name, lost, top>> /\ pc' # "create"
      BY <2>8, IdsAssumption DEF MoveFile, Whole, InRow
    <3> QED
      BY <2>0, <3>1, MakesTheFirstFrame
  <2> QED
    BY <2>1, <2>2, <2>3, <2>4, <2>5, <2>6, <2>7, <2>8, <2>9 DEF Next
<1>3. MakesTheFirst => NoTwinFolders
  BY DEF MakesTheFirst, NoTwinFolders, Twins, MadeIds
<1> QED
  BY <1>1, <1>2, <1>3, WholeAlways, PTL DEF Spec

-----------------------------------------------------------------------------
(* Where a path leads.                                                     *)

\* A set of natural numbers that has a member has a least one.
LEMMA LeastNumber ==
  ASSUME NEW S, S \subseteq Nat, S # {}
  PROVE  \E m \in S : \A k \in S : m <= k
<1> DEFINE R == {ss \in Nat \X Nat : ss[1] < ss[2]}
<1>1. IsWellFoundedOn(R, Nat)
  BY NatLessThanWellFounded DEF OpToRel
<1>2. PICK x \in S : \A y \in S : <<y, x>> \notin R
  <2> HIDE DEF R
  <2> QED
    BY <1>1, WFMin, Zenon
<1>3. \A y \in S : ~ (y < x)
  <2>1. SUFFICES ASSUME NEW y \in S, y < x PROVE <<y, x>> \in R
    BY <1>2
  <2>2. y \in Nat /\ x \in Nat
    OBVIOUS
  <2> QED
    BY <2>1, <2>2
<1> QED
  BY <1>3

\* Reach, with the names as a parameter.
ReachBy(names, tree, start, path) ==
  LET reach[k \in 0 .. Len(path)] ==
        IF k = 0 THEN {start}
        ELSE UNION {{i \in FolderIds : tree[i] = p /\ names[i] = path[k]} : p \in reach[k - 1]}
  IN reach

\* Reach takes the names the items have, in a state as in the next.
LEMMA ReachNow ==
  /\ Reach(drive, Drives(ask.at), ask.path) = ReachBy(name, drive, Drives(ask.at), ask.path)
  /\ Reach(drive, Drives(ask.at), ask.path)' = ReachBy(name', drive', Drives(ask.at)', ask.path')
  /\ Reach(Seen(mirror), ask.at, ask.path) = ReachBy(name, Seen(mirror), ask.at, ask.path)
BY DEF Reach, ReachBy, FolderChildren

\* It is the function its recursion describes: there is one for every number of
\* segments, since the least number without one could be reached from the one before.
LEMMA ReachSteps ==
  ASSUME NEW names, NEW tree, NEW start, NEW path, Len(path) \in Nat
  PROVE  /\ ReachBy(names, tree, start, path)[0] = {start}
         /\ \A k \in 1 .. Len(path) :
              ReachBy(names, tree, start, path)[k] =
                UNION {{i \in FolderIds : tree[i] = p /\ names[i] = path[k]} :
                         p \in ReachBy(names, tree, start, path)[k - 1]}
<1> DEFINE Step(S, k) == UNION {{i \in FolderIds : tree[i] = p /\ names[i] = path[k]} : p \in S}
           Describes(g, n) == g = [k \in 0 .. n |-> IF k = 0 THEN {start} ELSE Step(g[k - 1], k)]
<1>1. \A n \in Nat : \E g : Describes(g, n)
  <2> HIDE DEF Step
  <2> DEFINE Without == {n \in Nat : ~ \E g : Describes(g, n)}
  <2>1. SUFFICES ASSUME Without # {} PROVE FALSE
    OBVIOUS
  <2>2. Without \subseteq Nat
    OBVIOUS
  <2>3. PICK m \in Without : \A k \in Without : m <= k
    <3> HIDE DEF Without
    <3> QED
      BY <2>1, <2>2, LeastNumber
  <2>4. m \in Nat /\ ~ \E g : Describes(g, m)
    BY <2>3
  <2>5. CASE m = 0
    <3> DEFINE g == [k \in 0 .. 0 |-> {start}]
    <3>1. g = [k \in 0 .. 0 |-> IF k = 0 THEN {start} ELSE Step(g[k - 1], k)]
      OBVIOUS
    <3> QED
      BY <2>4, <2>5, <3>1
  <2>6. CASE m # 0
    <3>1. \E g : Describes(g, m - 1)
      <4>1. m - 1 \in Nat /\ ~ (m <= m - 1)
        BY <2>4, <2>6
      <4>2. m - 1 \notin Without
        <5> HIDE DEF Without
        <5> QED
          BY <2>3, <4>1
      <4> HIDE DEF Describes
      <4> QED
        BY <4>1, <4>2
    <3>2. PICK g : g = [k \in 0 .. (m - 1) |-> IF k = 0 THEN {start} ELSE Step(g[k - 1], k)]
      BY <3>1
    <3> DEFINE h == [k \in 0 .. m |-> IF k = m THEN Step(g[m - 1], m) ELSE g[k]]
    <3>3. \A k \in 0 .. m : h[k] = IF k = 0 THEN {start} ELSE Step(h[k - 1], k)
      <4>1. SUFFICES ASSUME NEW k \in 0 .. m
                     PROVE  h[k] = IF k = 0 THEN {start} ELSE Step(h[k - 1], k)
        OBVIOUS
      <4>2. CASE k = m
        <5>1. h[k] = Step(g[m - 1], m) /\ h[m - 1] = g[m - 1]
          BY <2>4, <2>6, <4>2
        <5> QED
          BY <2>6, <4>2, <5>1
      <4>3. CASE k # m
        <5>1. k \in 0 .. (m - 1) /\ h[k] = g[k]
          BY <2>4, <4>3
        <5>2. g[k] = IF k = 0 THEN {start} ELSE Step(g[k - 1], k)
          BY <3>2, <5>1
        <5>3. k # 0 => k - 1 \in 0 .. m /\ k - 1 # m /\ h[k - 1] = g[k - 1]
          BY <2>4, <5>1
        <5> QED
          BY <5>1, <5>2, <5>3
      <4> QED
        BY <4>2, <4>3
    <3>4. h = [k \in 0 .. m |-> h[k]]
      OBVIOUS
    <3> HIDE DEF h
    <3>5. h = [k \in 0 .. m |-> IF k = 0 THEN {start} ELSE Step(h[k - 1], k)]
      BY <3>3, <3>4
    <3> QED
      BY <2>4, <3>5
  <2> QED
    BY <2>5, <2>6
<1>2. Describes(ReachBy(names, tree, start, path), Len(path))
  <2>1. ReachBy(names, tree, start, path) = CHOOSE g : Describes(g, Len(path))
    BY DEF ReachBy
  <2>2. \E g : Describes(g, Len(path))
    BY <1>1
  <2> HIDE DEF Describes
  <2> QED
    BY <2>1, <2>2
<1> DEFINE reach == ReachBy(names, tree, start, path)
<1>3. \A k \in 0 .. Len(path) : reach[k] = IF k = 0 THEN {start} ELSE Step(reach[k - 1], k)
  <2> HIDE DEF reach, Step
  <2>1. reach = [k \in 0 .. Len(path) |-> IF k = 0 THEN {start} ELSE Step(reach[k - 1], k)]
    BY <1>2 DEF reach
  <2> QED
    BY <2>1
<1>4. \A k \in 1 .. Len(path) : k \in 0 .. Len(path) /\ k # 0
  OBVIOUS
<1>5. 0 \in 0 .. Len(path)
  OBVIOUS
<1> HIDE DEF reach
<1>6. reach[0] = {start} /\ \A k \in 1 .. Len(path) : reach[k] = Step(reach[k - 1], k)
  <2> HIDE DEF Step
  <2> QED
    BY <1>3, <1>4, <1>5
<1> QED
  BY <1>6 DEF reach

\* One segment more leads to the folders of its name in the places reached before.
LEMMA ReachMember ==
  ASSUME NEW names, NEW tree, NEW start, NEW path, Len(path) \in Nat
  PROVE  /\ \A q : q \in ReachBy(names, tree, start, path)[0] <=> q = start
         /\ \A k \in 1 .. Len(path) : \A q :
              q \in ReachBy(names, tree, start, path)[k] <=>
                /\ q \in FolderIds /\ names[q] = path[k]
                /\ tree[q] \in ReachBy(names, tree, start, path)[k - 1]
<1> DEFINE reach == ReachBy(names, tree, start, path)
<1>1. /\ reach[0] = {start}
      /\ \A k \in 1 .. Len(path) :
           reach[k] = UNION {{i \in FolderIds : tree[i] = p /\ names[i] = path[k]} : p \in reach[k - 1]}
  BY ReachSteps
<1> HIDE DEF reach
<1>2. \A q : q \in reach[0] <=> q = start
  BY <1>1
<1>3. ASSUME NEW k \in 1 .. Len(path), NEW q
      PROVE  q \in reach[k] <=> q \in FolderIds /\ names[q] = path[k] /\ tree[q] \in reach[k - 1]
  BY <1>1, <1>3
<1> QED
  BY <1>2, <1>3 DEF reach

\* What a path leads to outside a set it still leads to when the folders it leads through
\* out there keep their places and names.
LEMMA ReachKeptAlong ==
  ASSUME NEW names, NEW tree, NEW names2, NEW tree2, NEW start, NEW path, Len(path) \in Nat,
         NEW S,
         \A k \in 1 .. Len(path) : \A q \in ReachBy(names, tree, start, path)[k] \ S :
           tree[q] \notin S /\ tree2[q] = tree[q] /\ names2[q] = names[q]
  PROVE  \A k \in 0 .. Len(path) : \A q \in ReachBy(names, tree, start, path)[k] \ S :
           q \in ReachBy(names2, tree2, start, path)[k]
<1> DEFINE reach == ReachBy(names, tree, start, path)
           reach2 == ReachBy(names2, tree2, start, path)
           Bad == {k \in 0 .. Len(path) : \E q \in reach[k] \ S : q \notin reach2[k]}
<1>1. /\ \A q : q \in reach[0] <=> q = start
      /\ \A k \in 1 .. Len(path) : \A q :
           q \in reach[k] <=> q \in FolderIds /\ names[q] = path[k] /\ tree[q] \in reach[k - 1]
  BY ReachMember
<1>2. /\ \A q : q \in reach2[0] <=> q = start
      /\ \A k \in 1 .. Len(path) : \A q :
           q \in reach2[k] <=> q \in FolderIds /\ names2[q] = path[k] /\ tree2[q] \in reach2[k - 1]
  BY ReachMember
<1>k. \A k \in 1 .. Len(path) : \A q \in reach[k] \ S :
        tree[q] \notin S /\ tree2[q] = tree[q] /\ names2[q] = names[q]
  OBVIOUS
<1> HIDE DEF reach, reach2
<1>3. SUFFICES ASSUME Bad # {} PROVE FALSE
  BY DEF reach, reach2
<1>4. Bad \subseteq Nat
  OBVIOUS
<1>5. PICK m \in Bad : \A k \in Bad : m <= k
  <2> HIDE DEF Bad
  <2> QED
    BY <1>3, <1>4, LeastNumber
<1>6. m \in 0 .. Len(path)
  BY <1>5
<1>7. PICK q \in reach[m] \ S : q \notin reach2[m]
  BY <1>5
<1>8. m # 0
  BY <1>1, <1>2, <1>7
<1>9. m \in 1 .. Len(path) /\ m - 1 \in 0 .. Len(path) /\ ~ (m <= m - 1)
  BY <1>6, <1>8
<1>10. m - 1 \notin Bad
  <2> HIDE DEF Bad
  <2> QED
    BY <1>5, <1>9
<1>11. q \in FolderIds /\ names[q] = path[m] /\ tree[q] \in reach[m - 1]
  BY <1>1, <1>7, <1>9
<1>13. tree[q] \notin S /\ tree2[q] = tree[q] /\ names2[q] = names[q]
  BY <1>7, <1>9, <1>k
<1>14. tree[q] \in reach2[m - 1]
  BY <1>9, <1>10, <1>11, <1>13
<1>15. q \in reach2[m]
  BY <1>2, <1>9, <1>11, <1>13, <1>14
<1> QED
  BY <1>7, <1>15

\* So it does when only what is in the set, or in no folder, has changed its place or name.
LEMMA ReachKept ==
  ASSUME NEW names, NEW tree, NEW names2, NEW tree2, NEW start, NEW path, Len(path) \in Nat,
         NEW S,
         \A q \in FolderIds \ S : tree[q] \in {start} \cup FolderIds =>
           tree[q] \notin S /\ tree2[q] = tree[q] /\ names2[q] = names[q]
  PROVE  \A k \in 0 .. Len(path) : \A q \in ReachBy(names, tree, start, path)[k] \ S :
           q \in ReachBy(names2, tree2, start, path)[k]
<1> DEFINE reach == ReachBy(names, tree, start, path)
<1>1. /\ \A q : q \in reach[0] <=> q = start
      /\ \A k \in 1 .. Len(path) : \A q :
           q \in reach[k] <=> q \in FolderIds /\ names[q] = path[k] /\ tree[q] \in reach[k - 1]
  BY ReachMember
<1>2. ASSUME NEW k \in 1 .. Len(path), NEW q \in reach[k] \ S
      PROVE  tree[q] \notin S /\ tree2[q] = tree[q] /\ names2[q] = names[q]
  <2> HIDE DEF reach
  <2>1. q \in FolderIds \ S /\ tree[q] \in reach[k - 1]
    BY <1>1, <1>2
  <2>2. tree[q] \in {start} \cup FolderIds
    <3>1. CASE k - 1 = 0
      BY <1>1, <2>1, <3>1
    <3>2. CASE k - 1 # 0
      <4>1. k - 1 \in 1 .. Len(path)
        BY <3>2
      <4> QED
        BY <1>1, <2>1, <4>1
    <3> QED
      BY <3>1, <3>2
  <2> QED
    BY <2>1, <2>2
<1> QED
  BY <1>2, ReachKeptAlong

\* From a place that holds no folder a path leads nowhere.
LEMMA ReachFromNowhere ==
  ASSUME NEW names, NEW tree, NEW start, NEW path, Len(path) \in Nat,
         \A q \in FolderIds : tree[q] # start
  PROVE  \A k \in 1 .. Len(path) : ReachBy(names, tree, start, path)[k] = {}
<1> DEFINE reach == ReachBy(names, tree, start, path)
           Bad == {k \in 1 .. Len(path) : reach[k] # {}}
<1>1. /\ \A q : q \in reach[0] <=> q = start
      /\ \A k \in 1 .. Len(path) : \A q :
           q \in reach[k] <=> q \in FolderIds /\ names[q] = path[k] /\ tree[q] \in reach[k - 1]
  BY ReachMember
<1> HIDE DEF reach
<1>2. SUFFICES ASSUME Bad # {} PROVE FALSE
  BY DEF reach
<1>3. PICK m \in Bad : \A k \in Bad : m <= k
  <2>1. Bad \subseteq Nat
    OBVIOUS
  <2> HIDE DEF Bad
  <2> QED
    BY <1>2, <2>1, LeastNumber
<1>4. m \in 1 .. Len(path) /\ \E q : q \in reach[m]
  BY <1>3
<1>5. PICK q : q \in reach[m]
  BY <1>4
<1>6. q \in FolderIds /\ tree[q] \in reach[m - 1]
  BY <1>1, <1>4, <1>5
<1>7. m - 1 # 0
  BY <1>1, <1>6
<1>8. m - 1 \in 1 .. Len(path) /\ ~ (m <= m - 1)
  BY <1>4, <1>7
<1>9. m - 1 \in Bad
  BY <1>6, <1>8
<1> QED
  <2> HIDE DEF Bad
  <2> QED
    BY <1>3, <1>8, <1>9

-----------------------------------------------------------------------------
(* Where a first command that nobody disturbs puts what it moves.          *)

Provisioning == {"mkdir", "mkdir_row", "find", "create", "mkdir_done", "mkdir_applied"}

\* What is on Drive is in My Drive or in a folder, or is shared by others.
Shaped == \A i \in Ids : \/ drive[i] \in {top, Out} \cup FolderIds
                         \/ i \in Items /\ drive[i] = Shared

\* No folder shared by others has the name the path begins with.
Clear == ask.path # <<>> => Parentless(ask.path[1]) = {}

\* What can be moved into.
Holds(place) == Drives(place) = top \/ place \in FolderIds

\* How far on its path the destination is: to the segments that are still to make, or one on.
Level == Len(ask.path) - Len(rest) + (IF pc \in {"mkdir_done", "mkdir_applied"} THEN 1 ELSE 0)

\* Rows of the plan that are not moved yet.
Unmoved == todo \cup (IF pc \in {"pending", "pending_row", "move"} THEN {current} ELSE {})

\* Before it moves anything, the mirror shows the items where Drive has them.
Undisturbed ==
  /\ moved = {} => \A i \in Items : drive[i] \notin Fresh /\ (synced => mirror[i] = drive[i])
  /\ moved = {} /\ made = {} /\ synced => mirror = drive
  /\ cmd = 0 => pc = "idle"
  /\ cmd = 0 \/ pc \in {"release", "plan"} => moved = {} /\ made = {}
  /\ pc \in Provisioning \cup {"replan", "load"} => moved = {}

\* The destination is on the path, with the missing segments still to come.
OnPath ==
  pc \in AfterPlan =>
    /\ rest \in Seq(Names) /\ Len(rest) <= Len(ask.path)
    /\ \A k \in 1 .. Len(rest) : rest[k] = ask.path[Len(ask.path) - Len(rest) + k]
    /\ (rest # <<>>) <=> pc \in Provisioning
    /\ dest \notin {Shared, Out}
    /\ Holds(dest) => Drives(dest) \in Reach(drive, Drives(ask.at), ask.path)[Level]

\* What was moved is at the destination; what a folder holds is where it was, and its
\* rows are of items that no other row takes along.
Landed ==
  /\ pc \in {"load"} \cup Moving =>
       /\ \A i \in Items : from[i] \notin Fresh /\ drive[i] \in {from[i], Drives(dest)}
       /\ \A i, v \in Unmoved : i # v /\ v \in FolderIds => i \notin Subtree(from, v)
  /\ pc \in Moving \cup {"sync"} =>
       \A m \in moved : IF m.item = m.via THEN drive[m.item] = Drives(dest)
                        ELSE drive[m.item] = m.from /\ m.item \notin Unmoved
  /\ pc \in Moving \cup {"sync"} /\ moved # {} => Holds(dest)

FirstLands == Undisturbed /\ OnPath /\ Landed /\ LandsAtPath

LandInv ==
  /\ cmd \in Nat /\ edits \in Nat
  /\ edits = 0 /\ cmd <= 1 /\ (cmd = 0 \/ Clear) => Shaped /\ FirstLands

\* The steps that change neither Drive nor the plan.
Onward == {<<"release", "plan">>, <<"mkdir", "mkdir_row">>, <<"mkdir_row", "find">>,
           <<"mkdir_done", "mkdir_applied">>, <<"load", "rows">>,
           <<"pending", "pending_row">>, <<"pending_row", "pending">>,
           <<"pending_row", "move">>, <<"applied", "applied_row">>,
           <<"applied_row", "applied">>, <<"applied_row", "rows">>}

LEMMA FirstLandsFrame ==
  ASSUME FirstLands,
         UNCHANGED <<drive, top, name, edits, ask, cmd, dest, rest, from, todo, current,
                     moved, made>>,
         UNCHANGED <<mirror, synced>> \/ mirror' = drive,
         pc' = pc \/ <<pc, pc'>> \in Onward
  PROVE  FirstLands'
<1> USE DEF FirstLands, Onward, Provisioning, AfterPlan, Moving, InRow, Running
<1>1. Undisturbed'
  BY DEF Undisturbed
<1>2. Holds(dest)' <=> Holds(dest)
  BY DEF Holds, Drives
<1>3. Drives(dest)' = Drives(dest) /\ Level' = Level
      /\ Reach(drive, Drives(ask.at), ask.path)' = Reach(drive, Drives(ask.at), ask.path)
  <2>1. Drives(dest)' = Drives(dest) /\ Drives(ask.at)' = Drives(ask.at)
    BY DEF Drives
  <2>2. Level' = Level
    BY DEF Level
  <2> QED
    BY <2>1, <2>2, ReachNow
<1>4. OnPath'
  <2>1. SUFFICES ASSUME pc' \in AfterPlan PROVE OnPath'
    BY DEF OnPath
  <2>2. pc \in AfterPlan /\ (pc' \in Provisioning <=> pc \in Provisioning)
    BY <2>1
  <2> QED
    BY <1>2, <1>3, <2>2 DEF OnPath
<1>5. Landed'
  <2>1. Unmoved' \subseteq Unmoved
    BY DEF Unmoved
  <2>2. Subtree(from, current)' = Subtree(from, current)
    BY DEF Subtree
  <2>3. pc' \in {"load"} \cup Moving => pc \in {"load"} \cup Moving
    OBVIOUS
  <2>4. pc' \in Moving \cup {"sync"} => pc \in Moving \cup {"sync"} \/ moved = {}
    BY DEF Undisturbed
  <2>5. pc' \in {"load"} \cup Moving =>
          /\ \A i \in Items : from'[i] \notin Fresh /\ drive'[i] \in {from'[i], Drives(dest)'}
          /\ \A i, v \in Unmoved' : i # v /\ v \in FolderIds => i \notin Subtree(from, v)
    BY <1>3, <2>1, <2>3 DEF Landed
  <2>6. pc' \in Moving \cup {"sync"} =>
          \A m \in moved' : IF m.item = m.via THEN drive'[m.item] = Drives(dest)'
                            ELSE drive'[m.item] = m.from /\ m.item \notin Unmoved'
    BY <1>3, <2>1, <2>4 DEF Landed
  <2>7. \A v : Subtree(from, v)' = Subtree(from, v)
    BY DEF Subtree
  <2>8. pc' \in Moving \cup {"sync"} /\ moved' # {} => Holds(dest)'
    BY <1>2, <2>4 DEF Landed
  <2> QED
    BY <2>5, <2>6, <2>7, <2>8 DEF Landed
<1>6. LandsAtPath'
  <2>1. Ends(drive, ask)' = Ends(drive, ask)
    BY <1>3 DEF Ends
  <2>2. pc' = "done" => pc = "done"
    OBVIOUS
  <2>3. Parentless(ask.path[1])' = Parentless(ask.path[1])
    BY DEF Parentless
  <2> QED
    BY <2>1, <2>2, <2>3 DEF LandsAtPath
<1> QED
  BY <1>1, <1>4, <1>5, <1>6

\* A path is a sequence of names, from My Drive; what is not in My Drive has no path.
LEMMA AskedPath ==
  ASSUME Whole
  PROVE  /\ ask.path \in Seq(Names) /\ Len(ask.path) \in Nat
         /\ ask.at \in {Root} \cup Items /\ (ask.path # <<>> => ask.at = Root)
         /\ Drives(ask.at) # Out /\ ask.at \notin {Shared, Out}
<1>1. ask.path \in Paths /\ ask.at \in {Root} \cup Items /\ (ask.path # <<>> => ask.at = Root)
  BY DEF Whole, Arguments
<1>2. PICK n \in 0 .. Depth : ask.path \in [1 .. n -> Names]
  BY <1>1 DEF Paths
<1>3. n \in Nat
  BY <1>2, BoundsAssumption
<1>4. ask.path \in Seq(Names)
  BY <1>2, <1>3
<1>5. Len(ask.path) \in Nat
  BY <1>4
<1>6. Drives(ask.at) # Out /\ ask.at \notin {Shared, Out}
  BY <1>1, IdsAssumption DEF Whole, Drives
<1> QED
  BY <1>1, <1>4, <1>5, <1>6

LEMMA LastSegments ==
  ASSUME NEW s \in Seq(Names), NEW k \in 0 .. Len(s)
  PROVE  /\ SubSeq(s, k + 1, Len(s)) \in Seq(Names)
         /\ Len(SubSeq(s, k + 1, Len(s))) = Len(s) - k
         /\ \A j \in 1 .. (Len(s) - k) : SubSeq(s, k + 1, Len(s))[j] = s[k + j]
<1>1. Len(s) \in Nat /\ \A i \in 1 .. Len(s) : s[i] \in Names
  OBVIOUS
<1>2. k + 1 \in Int /\ Len(s) \in Int /\ \A i \in (k + 1) .. Len(s) : s[i] \in Names
  BY <1>1
<1>3. /\ SubSeq(s, k + 1, Len(s)) \in Seq(Names)
      /\ Len(SubSeq(s, k + 1, Len(s))) = IF k + 1 <= Len(s) THEN Len(s) - (k + 1) + 1 ELSE 0
      /\ \A j \in 1 .. (Len(s) - (k + 1) + 1) : SubSeq(s, k + 1, Len(s))[j] = s[k + 1 + j - 1]
  BY <1>2, SubSeqProperties
<1> QED
  BY <1>1, <1>3

\* What the tool finds on a path, by a mirror that is the tree of Drive, is on it, unless a
\* folder without a visible parent has the first name.
LEMMA SeenOnPath ==
  ASSUME Whole, Shaped, Clear, mirror = drive, NEW k \in 0 .. Len(ask.path),
         NEW p \in ReachBy(name, Seen(mirror), ask.at, ask.path)[k]
  PROVE  p \in ReachBy(name, drive, ask.at, ask.path)[k]
<1> DEFINE path == ask.path
           seen == Seen(mirror)
           reach == ReachBy(name, seen, ask.at, path)
<1>1. Len(path) \in Nat /\ (path # <<>> => ask.at = Root)
  BY AskedPath
<1>2. /\ \A q : q \in reach[0] <=> q = ask.at
      /\ \A j \in 1 .. Len(path) : \A q :
           q \in reach[j] <=> q \in FolderIds /\ name[q] = path[j] /\ seen[q] \in reach[j - 1]
  BY <1>1, ReachMember
<1>3. /\ \A q \in Ids : seen[q] = (IF drive[q] = Shared THEN Root ELSE drive[q])
      /\ FolderIds \subseteq Ids /\ Root \notin Ids
  BY IdsAssumption DEF Seen, Effective, FolderIds, Ids
<1> HIDE DEF reach, seen
<1>4. ASSUME NEW j \in 1 .. Len(path), NEW q \in reach[j] PROVE drive[q] = seen[q]
  <2>1. q \in FolderIds /\ name[q] = path[j] /\ seen[q] \in reach[j - 1]
    BY <1>2, <1>4
  <2>2. SUFFICES ASSUME drive[q] = Shared PROVE FALSE
    BY <1>3, <2>1
  <2>3. seen[q] = Root
    BY <1>3, <2>1, <2>2
  <2>4. CASE j = 1
    <3>1. q \in Folders
      BY <2>1, <2>2, IdsAssumption DEF Shaped, FolderIds, Ids, Whole
    <3>2. q \in Parentless(path[1])
      BY <2>1, <2>2, <2>4, <3>1 DEF Parentless
    <3>3. path # <<>>
      BY <1>1
    <3> QED
      BY <3>2, <3>3 DEF Clear
  <2>5. CASE j # 1
    <3>1. j - 1 \in 1 .. Len(path)
      BY <2>5
    <3>2. seen[q] \in FolderIds
      BY <1>2, <2>1, <3>1
    <3> QED
      BY <1>3, <2>3, <3>2
  <2> QED
    BY <2>4, <2>5
<1>5. \A j \in 1 .. Len(path) : \A q \in reach[j] \ {} :
        seen[q] \notin {} /\ drive[q] = seen[q] /\ name[q] = name[q]
  BY <1>4
<1>6. \A j \in 0 .. Len(path) : \A q \in reach[j] \ {} : q \in ReachBy(name, drive, ask.at, path)[j]
  BY <1>1, <1>5, ReachKeptAlong DEF reach
<1> QED
  BY <1>6 DEF reach, seen

\* The end of what exists of a path, by a mirror that is the tree of Drive, is on it.
LEMMA ResolvedOnPath ==
  ASSUME Whole, Shaped, Clear, mirror = drive, NEW r \in Resolved(mirror, ask)
  PROVE  /\ r.rest \in Seq(Names) /\ Len(r.rest) <= Len(ask.path)
         /\ \A k \in 1 .. Len(r.rest) : r.rest[k] = ask.path[Len(ask.path) - Len(r.rest) + k]
         /\ r.at \notin {Shared, Out}
         /\ Drives(r.at) \in Reach(drive, Drives(ask.at), ask.path)[Len(ask.path) - Len(r.rest)]
<1> DEFINE path == ask.path
           reach == ReachBy(name, drive, ask.at, path)
<1>1. PICK k \in 0 .. Len(path) : \E p \in reach[k] : r = [at |-> p, rest |-> SubSeq(path, k + 1, Len(path))]
  <2>1. PICK k \in 0 .. Len(path) : \E p \in ReachBy(name, Seen(mirror), ask.at, path)[k] :
          r = [at |-> p, rest |-> SubSeq(path, k + 1, Len(path))]
    BY ReachNow DEF Resolved
  <2>2. PICK p \in ReachBy(name, Seen(mirror), ask.at, path)[k] :
          r = [at |-> p, rest |-> SubSeq(path, k + 1, Len(path))]
    BY <2>1
  <2>3. p \in reach[k]
    BY <2>2, SeenOnPath
  <2> QED
    BY <2>2, <2>3
<1>2. PICK p \in reach[k] : r = [at |-> p, rest |-> SubSeq(path, k + 1, Len(path))]
  BY <1>1
<1>3. path \in Seq(Names) /\ Len(path) \in Nat /\ (path # <<>> => ask.at = Root)
      /\ ask.at \in {Root} \cup Items /\ ask.at \notin {Shared, Out}
  BY AskedPath
<1>4. r.at = p /\ r.rest = SubSeq(path, k + 1, Len(path))
  BY <1>2
<1>5. /\ r.rest \in Seq(Names) /\ Len(r.rest) = Len(path) - k
      /\ \A j \in 1 .. Len(r.rest) : r.rest[j] = path[k + j]
  BY <1>1, <1>3, <1>4, LastSegments
<1>6. Len(path) - Len(r.rest) = k
  BY <1>1, <1>3, <1>5
<1>7. /\ \A q : q \in reach[0] <=> q = ask.at
      /\ \A j \in 1 .. Len(path) : \A q :
           q \in reach[j] <=> q \in FolderIds /\ name[q] = path[j] /\ drive[q] \in reach[j - 1]
  BY <1>3, ReachMember
<1>8. p \notin {Shared, Out} /\ Drives(p) \in ReachBy(name, drive, Drives(ask.at), path)[k]
  <2>1. CASE k = 0
    <3>1. p = ask.at
      BY <1>7, <2>1
    <3>2. Drives(ask.at) \in ReachBy(name, drive, Drives(ask.at), path)[0]
      BY <1>3, ReachMember
    <3> QED
      BY <1>3, <2>1, <3>1, <3>2
  <2>2. CASE k # 0
    <3>1. k \in 1 .. Len(path) /\ path # <<>>
      BY <1>1, <1>3, <2>2
    <3>2. ask.at = Root
      BY <1>3, <3>1
    <3>3. p \in FolderIds
      BY <1>7, <3>1
    <3>4. p \notin {Shared, Out} /\ Drives(p) = p
      BY <3>3, IdsAssumption DEF FolderIds, Drives
    <3>5. top = Root
      <4>1. SUFFICES ASSUME top # Root PROVE FALSE
        OBVIOUS
      <4>2. \A q \in FolderIds : drive[q] # Root
        BY <4>1, IdsAssumption DEF Shaped, FolderIds, Ids, Whole
      <4>3. reach[k] = {}
        BY <1>3, <3>1, <3>2, <4>2, ReachFromNowhere
      <4> QED
        BY <4>3
    <3>6. Drives(ask.at) = ask.at
      BY <3>2, <3>5 DEF Drives
    <3> QED
      BY <3>4, <3>6
  <2> QED
    BY <2>1, <2>2
<1>9. Drives(r.at) \in Reach(drive, Drives(ask.at), ask.path)[Len(ask.path) - Len(r.rest)]
  BY <1>4, <1>6, <1>8, ReachNow
<1>10. \A j \in 1 .. Len(r.rest) : r.rest[j] = ask.path[Len(ask.path) - Len(r.rest) + j]
  BY <1>5, <1>6
<1>11. Len(r.rest) <= Len(ask.path)
  BY <1>1, <1>3, <1>5
<1> QED
  BY <1>4, <1>5, <1>8, <1>9, <1>10, <1>11

\* No row of a plan is of something that another row takes along.
LEMMA RowsApart ==
  ASSUME NEW tree, NEW want, NEW to, NEW new, NEW i \in Actionable(tree, want, to, new),
         NEW v \in Actionable(tree, want, to, new), i # v, v \in FolderIds
  PROVE  i \notin Subtree(tree, v)
BY DEF Actionable, Suppressed

LEMMA FirstLandsPlan ==
  ASSUME Whole, Shaped, Clear, FirstLands, Plan
  PROVE  FirstLands'
<1> USE DEF FirstLands, Provisioning, AfterPlan, Moving, InRow, Running
<1>1. /\ pc = "plan" /\ synced /\ moved = {} /\ made = {} /\ mirror = drive
      /\ UNCHANGED <<drive, top, name, ask, cmd, mirror, synced, moved, made>> /\ from' = mirror
  BY DEF Plan, remote, database, arguments, events, Undisturbed
<1>2. PICK r \in Resolved(mirror, ask) :
        /\ dest' = r.at /\ rest' = r.rest
        /\ IF r.rest = <<>> THEN PlanRows(Actionable(mirror, ask.want, r.at, FALSE))
           ELSE todo' = {} /\ pc' = "mkdir"
  BY DEF Plan
<1>3. pc' \in {"mkdir", "load", "sync"} /\ (pc' = "mkdir" <=> rest' # <<>>)
  BY <1>2 DEF PlanRows
<1>4. Undisturbed'
  BY <1>1, <1>3 DEF Undisturbed
<1>5. OnPath'
  <2>1. /\ rest' \in Seq(Names) /\ Len(rest') <= Len(ask.path)
        /\ \A k \in 1 .. Len(rest') : rest'[k] = ask.path[Len(ask.path) - Len(rest') + k]
        /\ dest' \notin {Shared, Out}
        /\ Drives(dest') \in Reach(drive, Drives(ask.at), ask.path)[Len(ask.path) - Len(rest')]
    BY <1>1, <1>2, ResolvedOnPath
  <2>2. Level' = Len(ask.path) - Len(rest')
    <3>1. Len(ask.path) \in Nat /\ Len(rest') \in Nat
      BY <2>1, AskedPath
    <3>2. pc' \notin {"mkdir_done", "mkdir_applied"} /\ ask' = ask
      BY <1>1, <1>3
    <3>3. Level' = Len(ask.path) - Len(rest') + 0
      BY <3>2 DEF Level
    <3> QED
      BY <3>1, <3>3
  <2>3. Drives(dest)' = Drives(dest')
    BY <1>1 DEF Drives
  <2>4. Reach(drive, Drives(ask.at), ask.path)' = Reach(drive, Drives(ask.at), ask.path)
    <3>1. Drives(ask.at)' = Drives(ask.at)
      BY <1>1 DEF Drives
    <3> QED
      BY <1>1, <3>1, ReachNow
  <2> QED
    BY <1>1, <1>3, <2>1, <2>2, <2>3, <2>4 DEF OnPath
<1>6. Landed'
  <2>1. SUFFICES ASSUME pc' = "load" PROVE Landed'
    BY <1>1, <1>3 DEF Landed
  <2>2. \A i \in Items : from'[i] \notin Fresh /\ drive'[i] = from'[i]
    BY <1>1 DEF Undisturbed
  <2>3. Unmoved' = Actionable(mirror, ask.want, r.at, FALSE)
    BY <1>2, <2>1 DEF Unmoved, PlanRows
  <2>4. \A i, v \in Unmoved' : i # v /\ v \in FolderIds => i \notin Subtree(mirror, v)
    BY <2>3, RowsApart
  <2>5. \A v : Subtree(from, v)' = Subtree(mirror, v)
    BY <1>1 DEF Subtree
  <2> QED
    BY <2>1, <2>2, <2>4, <2>5 DEF Landed
<1>7. LandsAtPath'
  BY <1>3 DEF LandsAtPath
<1> QED
  BY <1>4, <1>5, <1>6, <1>7

LEMMA FirstLandsReplan ==
  ASSUME Whole, Shaped, FirstLands, Replan
  PROVE  FirstLands'
<1> USE DEF FirstLands, Provisioning, AfterPlan, Moving, InRow, Running
<1>1. /\ pc = "replan" /\ synced /\ moved = {}
      /\ UNCHANGED <<drive, top, name, ask, cmd, mirror, synced, moved, made, dest, rest>>
      /\ from' = mirror /\ todo' = Actionable(mirror, ask.want, dest, TRUE)
      /\ pc' \in {"load", "sync"}
  BY DEF Replan, PlanRows, remote, database, arguments, events, Undisturbed, Whole
<1>2. Undisturbed'
  BY <1>1 DEF Undisturbed
<1>3. OnPath'
  <2>1. Drives(dest)' = Drives(dest) /\ Drives(ask.at)' = Drives(ask.at)
        /\ (Holds(dest)' <=> Holds(dest))
    BY <1>1 DEF Drives, Holds
  <2>2. Level' = Level
    BY <1>1 DEF Level
  <2>3. Reach(drive, Drives(ask.at), ask.path)' = Reach(drive, Drives(ask.at), ask.path)
    BY <1>1, <2>1, ReachNow
  <2> QED
    BY <1>1, <2>1, <2>2, <2>3 DEF OnPath
<1>4. Landed'
  <2>1. SUFFICES ASSUME pc' = "load" PROVE Landed'
    BY <1>1 DEF Landed
  <2>2. \A i \in Items : from'[i] \notin Fresh /\ drive'[i] = from'[i]
    BY <1>1 DEF Undisturbed
  <2>3. Unmoved' = Actionable(mirror, ask.want, dest, TRUE)
    BY <1>1, <2>1 DEF Unmoved
  <2>4. \A i, v \in Unmoved' : i # v /\ v \in FolderIds => i \notin Subtree(mirror, v)
    BY <2>3, RowsApart
  <2>5. \A v : Subtree(from, v)' = Subtree(mirror, v)
    BY <1>1 DEF Subtree
  <2> QED
    BY <2>1, <2>2, <2>4, <2>5 DEF Landed
<1>5. LandsAtPath'
  BY <1>1 DEF LandsAtPath
<1> QED
  BY <1>2, <1>3, <1>4, <1>5

\* The folder that has the name of the next segment, in the destination so far, is one
\* segment further on the path.
LEMMA FirstLandsFind ==
  ASSUME Whole, Shaped, FirstLands, FindFileInFolder
  PROVE  FirstLands'
<1> USE DEF FirstLands, Provisioning, AfterPlan, Moving, InRow, Running
<1>1. /\ pc = "find" /\ moved = {} /\ cmd # 0
      /\ UNCHANGED <<drive, top, name, ask, cmd, mirror, synced, moved, made, rest>>
      /\ pc' \in {"mkdir_done", "create"}
  BY DEF FindFileInFolder, remote, database, arguments, events, Undisturbed
<1>2. Undisturbed'
  BY <1>1 DEF Undisturbed
<1>3. Landed'
  BY <1>1 DEF Landed
<1>4. LandsAtPath'
  BY <1>1 DEF LandsAtPath
<1>5. /\ rest \in Seq(Names) /\ rest # <<>> /\ Len(rest) <= Len(ask.path)
      /\ dest \notin {Shared, Out}
      /\ \A k \in 1 .. Len(rest) : rest[k] = ask.path[Len(ask.path) - Len(rest) + k]
      /\ Holds(dest) => Drives(dest) \in Reach(drive, Drives(ask.at), ask.path)[Level]
      /\ Len(ask.path) \in Nat
  BY <1>1, AskedPath DEF OnPath
<1>6. Level = Len(ask.path) - Len(rest)
  BY <1>1, <1>5 DEF Level
<1>7. Reach(drive, Drives(ask.at), ask.path)' = Reach(drive, Drives(ask.at), ask.path)
  <2>1. Drives(ask.at)' = Drives(ask.at)
    BY <1>1 DEF Drives
  <2> QED
    BY <1>1, <2>1, ReachNow
<1>8. CASE pc' = "create"
  <2>1. UNCHANGED dest
    BY <1>8 DEF FindFileInFolder
  <2>2. Drives(dest)' = Drives(dest) /\ (Holds(dest)' <=> Holds(dest)) /\ Level' = Level
    BY <1>1, <1>8, <2>1 DEF Drives, Holds, Level
  <2> QED
    BY <1>1, <1>2, <1>3, <1>4, <1>5, <1>7, <1>8, <2>1, <2>2 DEF OnPath
<1>9. CASE pc' = "mkdir_done"
  <2>1. PICK i \in Ids : dest' = i /\ drive[i] = Drives(dest) /\ name[i] = Head(rest)
    BY <1>9 DEF FindFileInFolder
  <2>2. i \notin {Shared, Out} /\ i # top /\ Drives(dest') = i
    BY <2>1, IdsAssumption DEF Ids, Drives, Whole
  <2>3. Drives(dest)' = i /\ (Holds(dest)' => i \in FolderIds)
    BY <1>1, <2>1, <2>2 DEF Drives, Holds
  <2>4. Level' = Level + 1 /\ Level + 1 \in 1 .. Len(ask.path) /\ Level + 1 - 1 = Level
        /\ name[i] = ask.path[Level + 1]
    <3>1. Len(rest) \in Nat \ {0} /\ Head(rest) = rest[1]
      BY <1>5
    <3>2. Level' = Len(ask.path) - Len(rest) + 1
      BY <1>1, <1>5, <1>9 DEF Level
    <3> QED
      BY <1>5, <1>6, <2>1, <3>1, <3>2
  <2>5. Holds(dest)
    <3>1. drive[i] \in {top, Shared, Out} \cup FolderIds
      BY DEF Shaped
    <3>2. top \notin FolderIds /\ Out \notin FolderIds /\ top \notin {Shared, Out}
      BY IdsAssumption DEF FolderIds, Whole
    <3>3. Drives(dest) \in {top, dest} /\ Drives(dest) \notin {Shared, Out}
      BY <1>5, <3>2 DEF Drives
    <3> QED
      BY <2>1, <3>1, <3>2, <3>3 DEF Holds
  <2>6. i \in FolderIds => i \in Reach(drive, Drives(ask.at), ask.path)[Level + 1]
    <3> DEFINE reach == ReachBy(name, drive, Drives(ask.at), ask.path)
    <3>1. drive[i] \in reach[Level]
      BY <1>5, <2>1, <2>5, ReachNow
    <3>2. \A k \in 1 .. Len(ask.path) : \A q :
            q \in reach[k] <=> q \in FolderIds /\ name[q] = ask.path[k] /\ drive[q] \in reach[k - 1]
      BY <1>5, ReachMember
    <3> HIDE DEF reach
    <3>3. i \in FolderIds => i \in reach[Level + 1]
      <4>1. PICK k \in 1 .. Len(ask.path) : k = Level + 1
        BY <2>4
      <4>2. k - 1 = Level /\ name[i] = ask.path[k]
        <5>1. Level \in Int
          <6>1. Len(rest) \in Nat
            BY <1>5
          <6> QED
            BY <1>5, <1>6, <6>1
        <5>2. k - 1 = Level
          BY <4>1, <5>1
        <5> QED
          BY <2>4, <4>1, <5>2
      <4>3. i \in reach[k] <=> i \in FolderIds /\ name[i] = ask.path[k] /\ drive[i] \in reach[k - 1]
        BY <3>2
      <4>4. drive[i] \in reach[k - 1]
        BY <3>1, <4>2
      <4> QED
        BY <4>1, <4>2, <4>3, <4>4
    <3> QED
      BY <3>3, ReachNow DEF reach
  <2>7. OnPath'
    BY <1>1, <1>5, <1>7, <1>9, <2>1, <2>2, <2>3, <2>4, <2>6 DEF OnPath
  <2> QED
    BY <1>2, <1>3, <1>4, <2>7
<1> QED
  BY <1>1, <1>8, <1>9

\* A new folder is one segment further on the path, and what was on it still is.
LEMMA FirstLandsCreate ==
  ASSUME Whole, Shaped, FirstLands, CreateFolder
  PROVE  Shaped' /\ FirstLands'
<1> USE DEF FirstLands, Provisioning, AfterPlan, Moving, InRow, Running
<1>1. /\ pc = "create" /\ pc' = "mkdir_done" /\ moved = {} /\ cmd # 0
      /\ UNCHANGED <<top, ask, cmd, mirror, synced, moved, rest>>
      /\ Drives(dest) = top \/ dest \in FolderIds
  BY DEF CreateFolder, database, arguments, Undisturbed
<1>2. PICK new \in SUBSET {x \in Fresh : drive[x] = Out} :
        /\ new # {}
        /\ drive' = [i \in Ids |-> IF i \in new THEN Drives(dest) ELSE drive[i]]
        /\ name' = [i \in Ids |-> IF i \in new THEN Head(rest) ELSE name[i]]
        /\ made' = made \cup [cmd : {cmd}, id : new]
        /\ dest' \in new
  BY DEF CreateFolder
<1>3. /\ FolderIds \subseteq Ids /\ new \subseteq FolderIds /\ new \cap Items = {} /\ Items \subseteq Ids
      /\ Root \notin Ids /\ Out \notin Ids /\ Shared \notin Ids /\ top \notin Ids /\ top # Out
  BY <1>2, IdsAssumption DEF FolderIds, Ids, Whole
<1>4. Holds(dest) /\ Drives(dest) \in {top} \cup FolderIds
  BY <1>1, <1>3 DEF Holds, Drives
<1>5. Shaped'
  BY <1>1, <1>2, <1>3, <1>4 DEF Shaped
<1>6. made' # {}
  <2>1. [cmd |-> cmd, id |-> dest'] \in [cmd : {cmd}, id : new]
    BY <1>2
  <2> QED
    BY <1>2, <2>1
<1>7. Undisturbed'
  <2>1. \A i \in Items : drive'[i] = drive[i]
    BY <1>2, <1>3
  <2> QED
    BY <1>1, <1>6, <2>1 DEF Undisturbed
<1>8. Landed' /\ LandsAtPath'
  BY <1>1 DEF Landed, LandsAtPath
<1>9. /\ rest \in Seq(Names) /\ rest # <<>> /\ Len(rest) <= Len(ask.path)
      /\ \A k \in 1 .. Len(rest) : rest[k] = ask.path[Len(ask.path) - Len(rest) + k]
      /\ Drives(dest) \in Reach(drive, Drives(ask.at), ask.path)[Level]
      /\ Len(ask.path) \in Nat /\ Drives(ask.at) # Out
  BY <1>1, <1>4, AskedPath DEF OnPath
<1>10. /\ Level = Len(ask.path) - Len(rest) /\ Level' = Len(ask.path) - Len(rest) + 1
       /\ Len(rest) \in Nat \ {0} /\ Head(rest) = rest[1]
  <2>1. Len(rest) \in Nat \ {0} /\ Head(rest) = rest[1]
    BY <1>9
  <2>2. Level = Len(ask.path) - Len(rest) + 0
    BY <1>1 DEF Level
  <2>3. Level' = Len(ask.path) - Len(rest) + 1
    BY <1>1 DEF Level
  <2> QED
    BY <1>9, <2>1, <2>2, <2>3
<1>11. PICK k \in 1 .. Len(ask.path) : k = Level' /\ k - 1 = Level /\ Head(rest) = ask.path[k]
  <2>1. Len(ask.path) - Len(rest) + 1 \in 1 .. Len(ask.path)
        /\ Len(ask.path) - Len(rest) + 1 - 1 = Len(ask.path) - Len(rest)
    BY <1>9, <1>10
  <2>2. Head(rest) = ask.path[Len(ask.path) - Len(rest) + 1]
    BY <1>9, <1>10
  <2> QED
    BY <1>10, <2>1, <2>2
<1> DEFINE reach == ReachBy(name, drive, Drives(ask.at), ask.path)
           reach2 == ReachBy(name', drive', Drives(ask.at), ask.path)
<1>12. Drives(dest) \in reach2[k - 1]
  <2>1. \A q \in FolderIds \ {} : drive[q] \in {Drives(ask.at)} \cup FolderIds =>
           drive[q] \notin {} /\ drive'[q] = drive[q] /\ name'[q] = name[q]
    BY <1>2, <1>3, <1>9
  <2>2. \A j \in 0 .. Len(ask.path) : \A q \in reach[j] \ {} : q \in reach2[j]
    BY <1>9, <2>1, ReachKept
  <2>3. Drives(dest) \in reach[k - 1]
    BY <1>9, <1>11, ReachNow
  <2>4. k - 1 \in 0 .. Len(ask.path)
    BY <1>9
  <2> QED
    BY <2>2, <2>3, <2>4
<1>13. dest' \in reach2[k]
  <2>1. dest' \in FolderIds /\ drive'[dest'] = Drives(dest) /\ name'[dest'] = ask.path[k]
    BY <1>2, <1>3, <1>11
  <2>2. \A j \in 1 .. Len(ask.path) : \A q :
          q \in reach2[j] <=> q \in FolderIds /\ name'[q] = ask.path[j] /\ drive'[q] \in reach2[j - 1]
    BY <1>9, ReachMember
  <2> QED
    BY <1>12, <2>1, <2>2
<1>14. Drives(dest)' = dest' /\ dest' \notin {Shared, Out}
  BY <1>2, <1>3 DEF Drives
<1>15. Drives(dest)' \in Reach(drive, Drives(ask.at), ask.path)'[Level']
  <2>1. Reach(drive, Drives(ask.at), ask.path)' = reach2
    <3>1. Drives(ask.at)' = Drives(ask.at)
      BY <1>1 DEF Drives
    <3> QED
      BY <1>1, <3>1, ReachNow
  <2> QED
    BY <1>11, <1>13, <1>14, <2>1
<1>16. OnPath'
  <2> HIDE DEF reach2
  <2> QED
    BY <1>1, <1>9, <1>14, <1>15 DEF OnPath
<1> QED
  BY <1>5, <1>7, <1>8, <1>16

LEMMA FirstLandsRowMade ==
  ASSUME Whole, FirstLands, AppendCreatedApplied
  PROVE  FirstLands'
<1> USE DEF FirstLands, Provisioning, AfterPlan, Moving, InRow, Running
<1>1. /\ pc = "mkdir_applied" /\ pc' = (IF Len(rest) > 1 THEN "mkdir" ELSE "replan")
      /\ moved = {} /\ cmd # 0 /\ rest' = Tail(rest)
      /\ UNCHANGED <<drive, top, name, ask, cmd, mirror, synced, moved, made, dest>>
  BY DEF AppendCreatedApplied, remote, arguments, events, Undisturbed
<1>2. Undisturbed' /\ Landed' /\ LandsAtPath'
  BY <1>1 DEF Undisturbed, Landed, LandsAtPath
<1>3. /\ rest \in Seq(Names) /\ rest # <<>> /\ Len(rest) <= Len(ask.path)
      /\ dest \notin {Shared, Out}
      /\ \A k \in 1 .. Len(rest) : rest[k] = ask.path[Len(ask.path) - Len(rest) + k]
      /\ Holds(dest) => Drives(dest) \in Reach(drive, Drives(ask.at), ask.path)[Level]
      /\ Len(ask.path) \in Nat
  BY <1>1, AskedPath DEF OnPath
<1>4. /\ Len(rest) \in Nat \ {0} /\ rest' \in Seq(Names) /\ Len(rest') = Len(rest) - 1
      /\ \A k \in 1 .. Len(rest') : rest'[k] = rest[k + 1]
      /\ (rest' # <<>> <=> Len(rest) > 1)
  BY <1>1, <1>3
<1>5. Level' = Level
  <2>1. Level = Len(ask.path) - Len(rest) + 1
    BY <1>1 DEF Level
  <2>2. Level' = Len(ask.path) - Len(rest') + 0
    BY <1>1 DEF Level
  <2> QED
    BY <1>3, <1>4, <2>1, <2>2
<1>6. Drives(dest)' = Drives(dest) /\ (Holds(dest)' <=> Holds(dest))
      /\ Drives(ask.at)' = Drives(ask.at)
  BY <1>1 DEF Drives, Holds
<1>7. Reach(drive, Drives(ask.at), ask.path)' = Reach(drive, Drives(ask.at), ask.path)
  BY <1>1, <1>6, ReachNow
<1>8. \A k \in 1 .. Len(rest') : rest'[k] = ask.path[Len(ask.path) - Len(rest') + k]
  <2>1. SUFFICES ASSUME NEW k \in 1 .. Len(rest')
                 PROVE  rest'[k] = ask.path[Len(ask.path) - Len(rest') + k]
    OBVIOUS
  <2>2. PICK n \in 1 .. Len(rest) : n = k + 1 /\ rest'[k] = rest[n]
    BY <1>4
  <2>3. Len(ask.path) - Len(rest) + n = Len(ask.path) - Len(rest') + k
    <3>1. /\ Len(ask.path) \in Int /\ Len(rest) \in Int /\ Len(rest') = Len(rest) - 1
          /\ k \in Int /\ n \in Int /\ n = k + 1
      BY <1>3, <1>4, <2>2
    <3>2. PICK p \in Int, r \in Int : p = Len(ask.path) /\ r = Len(rest)
      BY <3>1
    <3>3. p - r + n = p - (r - 1) + k
      BY <3>1
    <3> QED
      BY <3>1, <3>2, <3>3, Zenon
  <2>4. rest[n] = ask.path[Len(ask.path) - Len(rest) + n]
    BY <1>3
  <2> QED
    BY <2>2, <2>3, <2>4, Zenon
<1>9. OnPath'
  BY <1>1, <1>3, <1>4, <1>5, <1>6, <1>7, <1>8 DEF OnPath
<1> QED
  BY <1>2, <1>9

LEMMA FirstLandsNextRow ==
  ASSUME FirstLands, NextRow
  PROVE  FirstLands'
<1> USE DEF FirstLands, Provisioning, AfterPlan, Moving, InRow, Running
<1>1. /\ pc = "rows" /\ pc' \in {"pending", "move"}
      /\ UNCHANGED <<drive, top, name, ask, cmd, mirror, synced, moved, made, dest, rest, from>>
      /\ todo' \cup {current'} = todo
  BY DEF NextRow, remote, database, arguments, events
<1>2. Undisturbed' /\ LandsAtPath'
  BY <1>1 DEF Undisturbed, LandsAtPath
<1>3. Drives(dest)' = Drives(dest) /\ (Holds(dest)' <=> Holds(dest))
      /\ Drives(ask.at)' = Drives(ask.at) /\ Level' = Level
  BY <1>1 DEF Drives, Holds, Level
<1>4. Reach(drive, Drives(ask.at), ask.path)' = Reach(drive, Drives(ask.at), ask.path)
  BY <1>1, <1>3, ReachNow
<1>5. OnPath'
  BY <1>1, <1>3, <1>4 DEF OnPath
<1>6. Unmoved' = Unmoved /\ \A v : Subtree(from, v)' = Subtree(from, v)
  BY <1>1 DEF Unmoved, Subtree
<1>7. Landed'
  BY <1>1, <1>3, <1>6 DEF Landed
<1> QED
  BY <1>2, <1>5, <1>7

\* What a folder takes along has no row of its own, now or later: before the call, the tree
\* below the folder is that of the plan, but for what is new.
LEMMA NoRowWithin ==
  ASSUME Whole, Shaped, Landed, pc = "move", Drives(dest) \notin Subtree(drive, current),
         NEW i \in Subtree(drive, current), i # current
  PROVE  i \notin todo
<1>1. current \in Items /\ current \in Ids /\ todo \subseteq Items
  BY DEF Whole, InRow, Ids
<1>2. SUFFICES ASSUME i \in todo PROVE FALSE
  OBVIOUS
<1>3. current \in FolderIds
  <2>1. SUFFICES ASSUME current \notin FolderIds PROVE FALSE
    OBVIOUS
  <2>2. \A k \in Ids : drive[k] # current
    BY <1>1, <2>1, IdsAssumption DEF Shaped, Whole, Ids
  <2>3. Subtree(drive, current) \subseteq {current}
    <3> DEFINE C == {current}
    <3>1. C \in SUBSET Ids /\ current \in C /\ \A k \in Ids : drive[k] \in C => k \in C
      BY <1>1, <2>2
    <3> HIDE DEF C
    <3>2. Subtree(drive, current) \subseteq C
      BY <1>1, <3>1, SubtreeLeast
    <3> QED
      BY <3>2 DEF C
  <2> QED
    BY <2>3
<1>4. /\ \A j \in Items : from[j] \notin Fresh /\ drive[j] \in {from[j], Drives(dest)}
      /\ i \notin Subtree(from, current)
  <2>1. i \in Unmoved /\ current \in Unmoved
    BY <1>2 DEF Unmoved
  <2> QED
    BY <1>3, <2>1 DEF Landed, Moving, InRow
<1> DEFINE C == {x \in Subtree(drive, current) : x \in Fresh \/ x \in Subtree(from, current)}
<1>5. C \in SUBSET Ids /\ current \in C
  BY <1>1, SubtreeHolds
<1>6. ASSUME NEW k \in Ids, drive[k] \in C PROVE k \in C
  <2>1. k \in Subtree(drive, current)
    BY <1>1, <1>6, SubtreeHolds
  <2>2. CASE k \in Fresh
    BY <2>1, <2>2
  <2>3. CASE k \notin Fresh
    <3>1. k \in Items
      BY <2>3 DEF Ids
    <3>2. drive[k] = from[k] /\ from[k] \notin Fresh
      BY <1>4, <1>6, <3>1
    <3>3. from[k] \in Subtree(from, current)
      BY <1>6, <3>2
    <3>4. k \in Subtree(from, current)
      BY <1>1, <3>3, SubtreeHolds
    <3> QED
      BY <2>1, <3>4
  <2> QED
    BY <2>2, <2>3
<1>7. i \in C
  <2> HIDE DEF C
  <2>1. Subtree(drive, current) \subseteq C
    BY <1>1, <1>5, <1>6, SubtreeLeast
  <2> QED
    BY <2>1
<1>8. i \notin Fresh
  BY <1>1, <1>2, IdsAssumption
<1> QED
  BY <1>4, <1>7, <1>8

\* A call puts the item where the path leads to; the path does not lead through the item.
LEMMA FirstLandsMove ==
  ASSUME Whole, Shaped, FirstLands, MoveFile
  PROVE  Shaped' /\ FirstLands'
<1> USE DEF FirstLands, Provisioning, AfterPlan, Moving, InRow, Running
<1> DEFINE gone == Subtree(drive, current) \cap Present(drive)
           new == {[cmd |-> cmd, via |-> current, item |-> i, from |-> drive[i]] : i \in gone}
<1>1. /\ pc = "move" /\ pc' \in {"applied", "rows"} /\ cmd # 0
      /\ drive[current] # Out
      /\ Drives(dest) = top \/ (Drives(dest) \in FolderIds /\ drive[Drives(dest)] # Out)
      /\ Drives(dest) \notin Subtree(drive, current)
      /\ drive' = [drive EXCEPT ![current] = Drives(dest)]
      /\ moved' = moved \cup new
      /\ UNCHANGED <<top, name, ask, cmd, mirror, synced, made, dest, rest, from, todo, current>>
  BY DEF MoveFile, database, arguments, Undisturbed
<1>2. current \in Items /\ current \in Ids /\ drive \in Trees /\ todo \subseteq Items
  BY <1>1 DEF Whole, Ids
<1>3. /\ \A k \in Ids : drive'[k] = IF k = current THEN Drives(dest) ELSE drive[k]
      /\ Items \subseteq Ids /\ FolderIds \subseteq Ids /\ top \notin Ids /\ Root \notin Ids
  BY <1>1, <1>2, IdsAssumption DEF Trees, FolderIds, Ids, Whole
<1>4. Holds(dest)
  <2>1. Drives(dest) \in {top, dest}
    BY DEF Drives
  <2> QED
    BY <1>1, <2>1 DEF Holds
<1>5. Shaped'
  BY <1>1, <1>3 DEF Shaped
<1>6. Undisturbed' /\ LandsAtPath'
  <2>1. [cmd |-> cmd, via |-> current, item |-> current, from |-> drive[current]] \in new
    BY <1>1, <1>2, InItself DEF Present
  <2>2. moved' # {}
    BY <1>1, <2>1
  <2> QED
    BY <1>1, <2>2 DEF Undisturbed, LandsAtPath
<1>7. Drives(dest)' = Drives(dest) /\ (Holds(dest)' <=> Holds(dest))
      /\ Drives(ask.at)' = Drives(ask.at) /\ Level' = Level
  BY <1>1 DEF Drives, Holds, Level
<1>8. OnPath'
  <2> DEFINE start == Drives(ask.at)
  <2>1. /\ Drives(dest) \in ReachBy(name, drive, start, ask.path)[Level]
        /\ Level = Len(ask.path) /\ Len(ask.path) \in Nat
    <3>1. Drives(dest) \in Reach(drive, start, ask.path)[Level] /\ rest = <<>>
      BY <1>1, <1>4 DEF OnPath
    <3>2. Level = Len(ask.path) - Len(rest) + 0
      BY <1>1 DEF Level
    <3> QED
      BY <3>1, <3>2, AskedPath, ReachNow
  <2>2. \A q \in FolderIds \ Subtree(drive, current) : drive[q] \in {start} \cup FolderIds =>
          drive[q] \notin Subtree(drive, current) /\ drive'[q] = drive[q] /\ name[q] = name[q]
    BY <1>2, <1>3, SubtreeHolds
  <2>3. Drives(dest) \in ReachBy(name, drive', start, ask.path)[Level]
    <3>1. \A k \in 0 .. Len(ask.path) :
            \A q \in ReachBy(name, drive, start, ask.path)[k] \ Subtree(drive, current) :
              q \in ReachBy(name, drive', start, ask.path)[k]
      BY <2>1, <2>2, ReachKept
    <3>2. Level \in 0 .. Len(ask.path)
      BY <2>1
    <3> QED
      BY <1>1, <2>1, <3>1, <3>2
  <2>4. Drives(dest)' \in Reach(drive, Drives(ask.at), ask.path)'[Level']
    BY <1>1, <1>7, <2>3, ReachNow
  <2> HIDE DEF new
  <2> QED
    BY <1>1, <1>7, <2>4 DEF OnPath
<1>9. \A m \in moved' : IF m.item = m.via THEN drive'[m.item] = Drives(dest)
                        ELSE drive'[m.item] = m.from /\ m.item \notin todo
  <2>1. SUFFICES ASSUME NEW m \in moved'
                 PROVE  IF m.item = m.via THEN drive'[m.item] = Drives(dest)
                        ELSE drive'[m.item] = m.from /\ m.item \notin todo
    OBVIOUS
  <2>2. CASE m \in moved
    <3>1. IF m.item = m.via THEN drive[m.item] = Drives(dest)
          ELSE drive[m.item] = m.from /\ m.item \notin Unmoved
      BY <1>1, <2>2 DEF Landed
    <3>2. Unmoved = todo \cup {current}
      BY <1>1 DEF Unmoved
    <3>3. m.item # current => drive'[m.item] = drive[m.item]
      BY <1>1
    <3>4. m.item = current => drive'[m.item] = Drives(dest)
      BY <1>2, <1>3
    <3> QED
      BY <3>1, <3>2, <3>3, <3>4
  <2>3. CASE m \in new
    <3>1. PICK i \in gone : m = [cmd |-> cmd, via |-> current, item |-> i, from |-> drive[i]]
      BY <2>3
    <3>2. m.item = i /\ m.via = current /\ m.from = drive[i] /\ i \in Ids
      BY <1>2, <3>1, SubtreeHolds
    <3>3. CASE i = current
      BY <1>2, <1>3, <3>2, <3>3
    <3>4. CASE i # current
      <4>1. drive'[i] = drive[i]
        BY <1>3, <3>2, <3>4
      <4>2. i \notin todo
        BY <1>1, <3>1, <3>4, NoRowWithin
      <4> QED
        BY <3>2, <3>4, <4>1, <4>2
    <3> QED
      BY <3>3, <3>4
  <2> QED
    BY <1>1, <2>1, <2>2, <2>3
<1>10. Landed'
  <2>1. Unmoved' = todo /\ todo \subseteq Unmoved
    BY <1>1 DEF Unmoved
  <2>2. \A v : Subtree(from, v)' = Subtree(from, v)
    BY <1>1 DEF Subtree
  <2>3. /\ \A i \in Items : from[i] \notin Fresh /\ drive[i] \in {from[i], Drives(dest)}
        /\ \A i, v \in todo : i # v /\ v \in FolderIds => i \notin Subtree(from, v)
    BY <1>1, <2>1 DEF Landed
  <2>4. \A i \in Items : from'[i] \notin Fresh /\ drive'[i] \in {from'[i], Drives(dest)'}
    BY <1>1, <1>3, <1>7, <2>3
  <2> HIDE DEF new
  <2> QED
    BY <1>1, <1>4, <1>7, <1>9, <2>1, <2>2, <2>3, <2>4 DEF Landed
<1> QED
  BY <1>5, <1>6, <1>8, <1>10

LEMMA FirstLandsEnd ==
  ASSUME Whole, FirstLands, RowsDone \/ FinalSync \/ Stop
  PROVE  FirstLands'
<1> USE DEF FirstLands, Provisioning, AfterPlan, Moving, InRow, Running
<1>1. CASE RowsDone
  <2>1. /\ pc = "rows" /\ pc' = "sync" /\ todo = {}
        /\ UNCHANGED <<drive, top, name, ask, cmd, mirror, synced, moved, made, dest, rest,
                       from, todo, current>>
    BY <1>1 DEF RowsDone, remote, database, arguments, work, events
  <2>2. Undisturbed' /\ LandsAtPath'
    BY <2>1 DEF Undisturbed, LandsAtPath
  <2>3. Drives(dest)' = Drives(dest) /\ (Holds(dest)' <=> Holds(dest))
        /\ Drives(ask.at)' = Drives(ask.at) /\ Level' = Level
    BY <2>1 DEF Drives, Holds, Level
  <2>4. Reach(drive, Drives(ask.at), ask.path)' = Reach(drive, Drives(ask.at), ask.path)
    BY <2>1, <2>3, ReachNow
  <2>5. OnPath'
    BY <2>1, <2>3, <2>4 DEF OnPath
  <2>6. Landed'
    BY <2>1, <2>3 DEF Landed, Unmoved
  <2> QED
    BY <2>2, <2>5, <2>6
<1>2. CASE FinalSync
  <2>1. /\ pc = "sync" /\ pc' = "done" /\ cmd # 0 /\ mirror' = drive
        /\ UNCHANGED <<drive, top, name, edits, ask, cmd, moved, made>>
    BY <1>2 DEF FinalSync, End, remote, arguments, events, Undisturbed
  <2>2. Undisturbed' /\ OnPath' /\ Landed'
    BY <2>1 DEF Undisturbed, OnPath, Landed
  <2>3. moved # {} => Drives(dest) \in Ends(drive, ask)
    <3>1. SUFFICES ASSUME moved # {} PROVE Drives(dest) \in Ends(drive, ask)
      OBVIOUS
    <3>2. Holds(dest)
      BY <2>1, <3>1 DEF Landed
    <3>3. Drives(dest) \in Reach(drive, Drives(ask.at), ask.path)[Level] /\ rest = <<>>
      BY <2>1, <3>2 DEF OnPath
    <3>4. Level = Len(ask.path) - Len(rest) + 0
      BY <2>1 DEF Level
    <3>5. Level = Len(ask.path)
      BY <3>3, <3>4, AskedPath
    <3> QED
      BY <3>3, <3>5 DEF Ends
  <2>4. \A m \in moved : IF m.item = m.via THEN drive[m.item] = Drives(dest)
                         ELSE drive[m.item] = m.from
    BY <2>1 DEF Landed
  <2>5. \A m \in moved : IF m.item = m.via THEN drive[m.item] \in Ends(drive, ask)
                         ELSE drive[m.item] = m.from
    BY <2>3, <2>4
  <2>6. Ends(drive, ask)' = Ends(drive, ask)
    <3>1. Drives(ask.at)' = Drives(ask.at)
      BY <2>1 DEF Drives
    <3> QED
      BY <2>1, <3>1, ReachNow DEF Ends
  <2>7. LandsAtPath'
    BY <2>1, <2>5, <2>6 DEF LandsAtPath
  <2> QED
    BY <2>2, <2>7
<1>3. CASE Stop
  <2>1. /\ pc \in Running /\ pc' = "stopped" /\ cmd # 0
        /\ UNCHANGED <<drive, top, name, ask, cmd, mirror, synced, moved, made>>
    BY <1>3 DEF Stop, End, remote, database, arguments, events, Undisturbed
  <2> QED
    BY <2>1 DEF Undisturbed, OnPath, Landed, LandsAtPath
<1> QED
  BY <1>1, <1>2, <1>3

LEMMA LandInvInit == Init => LandInv
<1> SUFFICES ASSUME Init PROVE LandInv
  OBVIOUS
<1> USE DEF Provisioning, AfterPlan, Moving, InRow, Running
<1>1. /\ cmd = 0 /\ edits = 0 /\ pc = "idle" /\ moved = {} /\ made = {} /\ synced = FALSE
      /\ \A i \in Ids : drive[i] \in {top, Shared, Out} \cup (FolderIds \cap Present(drive))
      /\ Present(drive) = Items /\ top \in {Root, MyDrive}
  BY DEF Init, IsTree
<1>2. Shaped
  BY <1>1, IdsAssumption DEF Shaped, Present
<1>3. \A i \in Items : drive[i] \notin Fresh
  BY <1>1, IdsAssumption DEF Ids
<1>4. Undisturbed /\ OnPath /\ Landed /\ LandsAtPath
  BY <1>1, <1>3 DEF Undisturbed, OnPath, Landed, LandsAtPath
<1> QED
  BY <1>1, <1>2, <1>4 DEF LandInv, FirstLands

\* A folder whose parent does not show, or did not, is one of those it was or did not show of.
LEMMA ClearBefore ==
  ASSUME UNCHANGED ask, moved \subseteq moved',
         \A i \in Folders : name'[i] = name[i] /\
           (drive'[i] = drive[i] \/ \E m \in moved' : m.item = i /\ m.from = drive[i])
  PROVE  Clear' => Clear
<1>1. SUFFICES ASSUME Clear', ask.path # <<>>, NEW i \in Parentless(ask.path[1]) PROVE FALSE
  BY DEF Clear
<1>2. i \in Folders /\ name[i] = ask.path[1]
      /\ (drive[i] = Shared \/ \E m \in moved : m.item = i /\ m.from = Shared)
  BY <1>1 DEF Parentless
<1>3. drive'[i] = Shared \/ \E m \in moved' : m.item = i /\ m.from = Shared
  BY <1>2
<1>4. i \in Parentless(ask.path[1])'
  BY <1>2, <1>3 DEF Parentless
<1> QED
  BY <1>1, <1>4 DEF Clear

LEMMA LandInvStep ==
  ASSUME Whole, LandInv, [Next]_vars
  PROVE  LandInv'
<1>1. CASE UNCHANGED vars
  <2>1. FirstLands => FirstLands'
    BY <1>1, FirstLandsFrame DEF vars
  <2>2. (Shaped' <=> Shaped) /\ (Clear' => Clear)
    BY <1>1, ClearBefore DEF vars, Shaped
  <2> QED
    BY <1>1, <2>1, <2>2 DEF LandInv, vars
<1>2. CASE \E i \in Items : EditDrive(i) \/ TakeOff(i)
  <2>1. edits' = edits + 1 /\ cmd' = cmd
    BY <1>2 DEF EditDrive, TakeOff, arguments
  <2> QED
    BY <2>1 DEF LandInv
<1>3. CASE \E a \in Asks : Preview(a)
  <2>1. /\ cmd' = cmd + 1 /\ pc' \in {"release", "plan", "stopped"}
        /\ UNCHANGED <<drive, top, edits, mirror, synced, moved, made>>
    BY <1>3 DEF Preview, remote, database, events
  <2>2. Shaped' <=> Shaped
    BY <2>1 DEF Shaped
  <2>3. FirstLands /\ cmd = 0 => FirstLands'
    BY <2>1 DEF FirstLands, Undisturbed, OnPath, Landed, LandsAtPath, Provisioning,
                AfterPlan, Moving, InRow, Running
  <2>4. cmd' \in Nat /\ (cmd' <= 1 => cmd = 0)
    BY <2>1 DEF LandInv
  <2> QED
    BY <2>1, <2>2, <2>3, <2>4 DEF LandInv
<1>s. ASSUME UNCHANGED <<cmd, edits>>, Clear' => Clear, Shaped => Shaped',
             Shaped /\ FirstLands /\ (cmd = 0 \/ Clear) => FirstLands'
      PROVE  LandInv'
  BY <1>s DEF LandInv
<1>4. CASE SyncElsewhere \/ Release \/ AuditMkdirPending \/ AppendCreatedPending \/ AuditMkdir
           \/ Load \/ AuditMovePending \/ AppendMovedPending \/ AuditMoveApplied
           \/ AppendMovedApplied
  <2>1. /\ UNCHANGED <<drive, top, name, edits, ask, cmd, dest, rest, from, todo, current,
                       moved, made>>
        /\ UNCHANGED <<mirror, synced>> \/ mirror' = drive
        /\ pc' = pc \/ <<pc, pc'>> \in Onward
    <3>1. CASE SyncElsewhere \/ Release
      BY <3>1 DEF SyncElsewhere, Release, remote, database, arguments, work, events, Onward
    <3>2. CASE AuditMkdirPending \/ AppendCreatedPending \/ AuditMkdir \/ Load
      BY <3>2 DEF AuditMkdirPending, AppendCreatedPending, AuditMkdir, Load, remote, database,
                  arguments, work, events, Onward
    <3>3. CASE AuditMovePending \/ AuditMoveApplied
      BY <3>3 DEF AuditMovePending, AuditMoveApplied, AuditMove, remote, arguments, work,
                  events, Onward
    <3>4. CASE AppendMovedPending \/ AppendMovedApplied
      BY <3>4 DEF AppendMovedPending, AppendMovedApplied, AppendMoved, remote, arguments,
                  events, Onward
    <3> QED
      BY <1>4, <3>1, <3>2, <3>3, <3>4
  <2>2. FirstLands => FirstLands'
    BY <2>1, FirstLandsFrame
  <2>3. (Shaped => Shaped') /\ (Clear' => Clear)
    BY <2>1, ClearBefore DEF Shaped
  <2> QED
    BY <1>s, <2>1, <2>2, <2>3
<1>5. CASE Plan \/ Replan \/ FindFileInFolder \/ AppendCreatedApplied \/ NextRow
  <2>1. UNCHANGED <<drive, top, name, edits, cmd, ask, moved>> /\ (Plan => pc = "plan")
    BY <1>5 DEF Plan, Replan, FindFileInFolder, AppendCreatedApplied, NextRow, remote, arguments,
                events
  <2>2. (Shaped => Shaped') /\ (Clear' => Clear)
    BY <2>1, ClearBefore DEF Shaped
  <2>3. Shaped /\ FirstLands /\ (cmd = 0 \/ Clear) => FirstLands'
    <3>1. FirstLands /\ pc = "plan" => cmd # 0
      BY DEF FirstLands, Undisturbed
    <3> QED
      BY <1>5, <2>1, <3>1, FirstLandsPlan, FirstLandsReplan, FirstLandsFind, FirstLandsRowMade,
         FirstLandsNextRow
  <2> QED
    BY <1>s, <2>1, <2>2, <2>3
<1>6. CASE CreateFolder \/ MoveFile
  <2>1. UNCHANGED <<edits, cmd, ask>>
    BY <1>6 DEF CreateFolder, MoveFile, arguments
  <2>2. Shaped /\ FirstLands => Shaped' /\ FirstLands'
    BY <1>6, FirstLandsCreate, FirstLandsMove
  <2>3. Clear' => Clear
    <3>1. CASE CreateFolder
      <4>1. PICK new \in SUBSET Fresh :
              /\ drive' = [i \in Ids |-> IF i \in new THEN Drives(dest) ELSE drive[i]]
              /\ name' = [i \in Ids |-> IF i \in new THEN Head(rest) ELSE name[i]]
        BY <3>1 DEF CreateFolder
      <4>2. \A i \in Folders : name'[i] = name[i] /\ drive'[i] = drive[i]
        BY <4>1, IdsAssumption DEF Ids
      <4>3. UNCHANGED moved
        BY <3>1 DEF CreateFolder
      <4> QED
        BY <2>1, <4>2, <4>3, ClearBefore
    <3>2. CASE MoveFile
      <4> DEFINE new == {[cmd |-> cmd, via |-> current, item |-> i, from |-> drive[i]] :
                           i \in Subtree(drive, current) \cap Present(drive)}
      <4>1. /\ current \in Ids /\ drive[current] # Out /\ moved' = moved \cup new
            /\ drive' = [drive EXCEPT ![current] = Drives(dest)] /\ UNCHANGED name
        BY <3>2 DEF MoveFile, Whole, InRow, Ids
      <4>2. \E m \in new : m.item = current /\ m.from = drive[current]
        <5>1. [cmd |-> cmd, via |-> current, item |-> current, from |-> drive[current]] \in new
          BY <4>1, InItself DEF Present
        <5> QED
          BY <5>1
      <4> HIDE DEF new
      <4>3. \A i \in Folders : drive'[i] = drive[i] \/ i = current
        BY <4>1
      <4> QED
        BY <2>1, <4>1, <4>2, <4>3, ClearBefore
    <3> QED
      BY <1>6, <3>1, <3>2
  <2> QED
    BY <2>1, <2>2, <2>3 DEF LandInv
<1>7. CASE RowsDone \/ FinalSync \/ Stop
  <2>1. UNCHANGED <<drive, top, name, edits, cmd, ask, moved>>
    BY <1>7 DEF RowsDone, FinalSync, Stop, remote, arguments, events
  <2>2. (Shaped => Shaped') /\ (Clear' => Clear)
    BY <2>1, ClearBefore DEF Shaped
  <2> QED
    BY <1>7, <1>s, <2>1, <2>2, FirstLandsEnd
<1> QED
  BY <1>1, <1>2, <1>3, <1>4, <1>5, <1>6, <1>7 DEF Next

\* A first command that nobody's edit disturbs, whatever is synced meanwhile and however
\* many answers get lost: when it is done, each item it was to move is in a folder the path
\* leads to on Drive, unless a folder shared by others has the name the path begins with,
\* and what a folder holds is still in it.
THEOREM MovesLand == Spec => []LandsAtPath
<1>1. LandInv => LandsAtPath
  BY DEF LandInv, FirstLands, LandsAtPath, Clear
<1> QED
  BY <1>1, LandInvInit, LandInvStep, WholeAlways, PTL DEF Spec

-----------------------------------------------------------------------------
(* Types.                                                                  *)

LEMMA PathsAreSequences == Paths = {s \in Seq(Names) : Len(s) <= Depth}
<1>1. ASSUME NEW s \in Paths PROVE s \in Seq(Names) /\ Len(s) <= Depth
  <2>1. PICK n \in 0 .. Depth : s \in [1 .. n -> Names]
    BY DEF Paths
  <2>2. n \in Nat /\ n <= Depth
    BY <2>1, BoundsAssumption
  <2> QED
    BY <2>1, <2>2
<1>2. ASSUME NEW s \in Seq(Names), Len(s) <= Depth PROVE s \in Paths
  <2>1. Len(s) \in 0 .. Depth /\ s \in [1 .. Len(s) -> Names]
    BY <1>2, BoundsAssumption
  <2> QED
    BY <2>1 DEF Paths
<1> QED
  BY <1>1, <1>2

LEMMA ResolvedTyped ==
  ASSUME Whole, NEW r \in Resolved(mirror, ask)
  PROVE  r.at \in Places /\ r.rest \in Paths
<1> DEFINE path == ask.path
           reach == ReachBy(name, Seen(mirror), ask.at, path)
<1>1. PICK k \in 0 .. Len(path) :
        \E p \in reach[k] : r = [at |-> p, rest |-> SubSeq(path, k + 1, Len(path))]
  BY ReachNow DEF Resolved
<1>2. PICK p \in reach[k] : r = [at |-> p, rest |-> SubSeq(path, k + 1, Len(path))]
  BY <1>1
<1>3. path \in Seq(Names) /\ Len(path) \in Nat /\ Len(path) <= Depth /\ ask.at \in {Root} \cup Items
  <2>1. path \in Paths
    BY DEF Whole, Arguments
  <2> QED
    BY <2>1, AskedPath, PathsAreSequences
<1>4. r.rest \in Paths
  <2>1. r.rest \in Seq(Names) /\ Len(r.rest) = Len(path) - k
    BY <1>2, <1>3, LastSegments
  <2>2. Len(r.rest) <= Depth
    BY <1>3, <2>1, BoundsAssumption
  <2> QED
    BY <2>1, <2>2, PathsAreSequences
<1>5. p = ask.at \/ p \in FolderIds
  <2>1. /\ \A q : q \in reach[0] <=> q = ask.at
        /\ \A j \in 1 .. Len(path) : \A q : q \in reach[j] => q \in FolderIds
    BY <1>3, ReachMember
  <2>2. CASE k = 0
    BY <2>1, <2>2
  <2>3. CASE k # 0
    <3>1. k \in 1 .. Len(path)
      BY <1>3, <2>3
    <3> QED
      BY <2>1, <3>1
  <2> QED
    BY <2>2, <2>3
<1>6. r.at \in Places
  BY <1>2, <1>3, <1>5, IdsAssumption DEF Places, Ids, FolderIds
<1> QED
  BY <1>4, <1>6

\* What is missing of the path while it is made, and the number of a command that runs.
Counted ==
  /\ pc \in {"mkdir", "mkdir_row", "find", "create", "mkdir_done", "mkdir_applied"} =>
       rest # <<>>
  /\ pc \in Running => cmd \in Cmds

\* The parts of TypeOK that are about a command's memory, and those about all else.
Memory ==
  /\ from \in Trees /\ view \in Trees /\ dest \in Places /\ rest \in Paths
  /\ current \in Ids \cup {Out} /\ todo \subseteq Ids /\ left \subseteq Ids
Tables ==
  /\ audit \subseteq [cmd : Cmds, action : {"mkdir_pending", "mkdir", "move_pending", "move"},
                      item : Places, name : Names \cup {Out}]
  /\ history \subseteq [cmd : Cmds, status : {"pending", "applied"}, item : Ids,
                        via : Ids, from : Places, to : Places]
  /\ created \subseteq [cmd : Cmds, status : {"pending", "applied"}, id : Places,
                        name : Names]
Happened ==
  /\ made \subseteq [cmd : Cmds, id : Fresh]
  /\ moved \subseteq [cmd : Cmds, via : Ids, item : Ids, from : Places]
World ==
  /\ name \in [Ids -> Names] /\ manageable \subseteq Ids
  /\ edits \in 0 .. MaxEdits /\ lost \in 0 .. MaxLost /\ synced \in BOOLEAN
Command ==
  /\ cmd \in 0 .. MaxCommands /\ pc \in Running \cup {"idle", "done", "stopped"}

TypeInv == Memory /\ Tables /\ Happened /\ World /\ Command /\ Counted

LEMMA TypesOfParts == Whole /\ TypeInv => TypeOK
<1> SUFFICES ASSUME Whole, TypeInv PROVE TypeOK
  OBVIOUS
<1>1. /\ ask.want \subseteq Items /\ ask.at \in Places /\ ask.path \in Paths
      /\ ask.provision \in BOOLEAN
  BY DEF Whole, Arguments, Places, Ids
<1> QED
  BY <1>1 DEF TypeInv, TypeOK, Whole, Memory, Tables, Happened, World, Command

LEMMA TypeInvInit == Init => TypeInv
<1> SUFFICES ASSUME Init PROVE TypeInv
  OBVIOUS
<1>1. <<>> \in Paths
  BY BoundsAssumption, PathsAreSequences
<1>2. Nothing \in Trees /\ Root \in Places
  BY DEF Nothing, Trees, Places
<1>3. name \in [Ids -> Names] /\ manageable \subseteq Ids
  <2>1. PICK s \in Starts : name = s.name /\ manageable = s.manageable
    BY DEF Init
  <2>2. s.name \in [Ids -> Names] /\ \E S \in SUBSET Items : s.manageable = Fresh \cup S
    BY StartsAssumption
  <2> QED
    BY <2>1, <2>2 DEF Ids
<1>4. Memory
  BY <1>1, <1>2 DEF Init, Memory
<1>5. Tables /\ Happened
  BY DEF Init, Tables, Happened
<1>6. World
  <2>1. edits \in 0 .. MaxEdits /\ lost \in 0 .. MaxLost
    BY BoundsAssumption DEF Init
  <2>2. synced \in BOOLEAN
    BY DEF Init
  <2> QED
    BY <1>3, <2>1, <2>2 DEF World
<1>7. Command /\ Counted
  <2>1. cmd = 0 /\ pc = "idle"
    BY DEF Init
  <2>2. cmd \in 0 .. MaxCommands
    BY <2>1, BoundsAssumption
  <2> QED
    BY <2>1, <2>2 DEF Command, Counted, Running
<1> QED
  BY <1>4, <1>5, <1>6, <1>7 DEF TypeInv

LEMMA TypeInvStep ==
  ASSUME Whole, Whole', TypeInv, [Next]_vars
  PROVE  TypeInv'
<1> USE BoundsAssumption DEF TypeInv, Running, Counted
<1>0. Ids \subseteq Places /\ Out \in Places /\ Items \subseteq Ids /\ FolderIds \subseteq Ids
      /\ Fresh \subseteq Ids
  BY IdsAssumption DEF Places, Ids, FolderIds
<1>r. rest # <<>> /\ rest \in Paths =>
        Head(rest) \in Names /\ Tail(rest) \in Paths /\ (Len(rest) > 1 <=> Tail(rest) # <<>>)
  <2> SUFFICES ASSUME rest # <<>>, rest \in Paths
               PROVE  Head(rest) \in Names /\ Tail(rest) \in Paths
                      /\ (Len(rest) > 1 <=> Tail(rest) # <<>>)
    OBVIOUS
  <2>1. rest \in Seq(Names) /\ Len(rest) <= Depth
    BY PathsAreSequences
  <2>2. Head(rest) \in Names /\ Tail(rest) \in Seq(Names) /\ Len(Tail(rest)) = Len(rest) - 1
    BY <2>1, HeadTailProperties
  <2>4. Len(rest) > 1 <=> Tail(rest) # <<>>
    <3>1. PICK t \in Seq(Names) : t = Tail(rest)
      BY <2>2
    <3>2. Len(rest) \in Nat /\ (t # <<>> <=> Len(t) # 0) /\ Len(t) \in Nat
      BY <2>1
    <3> QED
      BY <2>2, <3>1, <3>2
  <2>3. Len(Tail(rest)) <= Depth
    BY <2>1, <2>2
  <2> QED
    BY <2>2, <2>3, <2>4, PathsAreSequences
<1>u. ASSUME UNCHANGED <<from, view, dest, rest, current, todo, left>> PROVE Memory'
  BY <1>u DEF Memory
<1>t. ASSUME UNCHANGED <<audit, history, created>> PROVE Tables'
  BY <1>t DEF Tables
<1>h. ASSUME UNCHANGED <<made, moved>> PROVE Happened'
  BY <1>h DEF Happened
<1>w. ASSUME UNCHANGED <<name, manageable, edits, lost, synced>> PROVE World'
  BY <1>w DEF World
<1>c. ASSUME UNCHANGED cmd, pc \in Running, pc' \in Running \cup {"idle", "done", "stopped"}
      PROVE  Command' /\ (pc' \in Running => cmd' \in Cmds)
  BY <1>c DEF Command
<1>1. CASE UNCHANGED vars
  BY <1>1 DEF vars, Memory, Tables, Happened, World, Command
<1>2. CASE \E i \in Items : EditDrive(i) \/ TakeOff(i)
  <2>1. edits' \in 0 .. MaxEdits
    BY <1>2 DEF EditDrive, TakeOff, World
  <2>2. UNCHANGED <<name, manageable, lost, cmd, pc>> /\ UNCHANGED synced
        /\ UNCHANGED work /\ UNCHANGED database /\ UNCHANGED events
    BY <1>2 DEF EditDrive, TakeOff, arguments, database
  <2> QED
    BY <2>1, <2>2, <1>u, <1>t, <1>h DEF World, Command, work, database, events
<1>3. CASE SyncElsewhere
  BY <1>3, <1>u, <1>t, <1>h DEF SyncElsewhere, World, Command, remote, arguments, work, events
<1>4. CASE \E a \in Asks : Preview(a)
  <2>1. /\ cmd' = cmd + 1 /\ cmd < MaxCommands /\ pc' \in {"release", "plan", "stopped"}
        /\ UNCHANGED remote /\ UNCHANGED database /\ UNCHANGED work /\ UNCHANGED events
    BY <1>4 DEF Preview
  <2>2. cmd' \in Cmds /\ Command'
    BY <2>1 DEF Command, Cmds
  <2> QED
    BY <2>1, <2>2, <1>u, <1>t, <1>h, <1>w DEF remote, database, work, events
<1>5. CASE Release \/ RowsDone
  <2>1. /\ pc \in {"release", "rows"} /\ pc' \in {"plan", "sync"} /\ UNCHANGED cmd
        /\ UNCHANGED remote /\ UNCHANGED database /\ UNCHANGED work /\ UNCHANGED events
    BY <1>5 DEF Release, RowsDone, arguments
  <2> QED
    BY <2>1, <1>c, <1>u, <1>t, <1>h, <1>w DEF remote, database, work, events
<1>6. CASE Plan
  <2>1. PICK r \in Resolved(mirror, ask) :
          /\ dest' = r.at /\ rest' = r.rest
          /\ IF r.rest = <<>> THEN PlanRows(Actionable(mirror, ask.want, r.at, FALSE))
             ELSE todo' = {} /\ pc' = "mkdir"
    BY <1>6 DEF Plan
  <2>2. /\ pc = "plan" /\ UNCHANGED <<cmd, view, current, left>> /\ from' = mirror
        /\ UNCHANGED remote /\ UNCHANGED database /\ UNCHANGED events
    BY <1>6 DEF Plan, arguments
  <2>3. pc' \in {"mkdir", "load", "sync"} /\ (pc' = "mkdir" => rest' # <<>>)
    BY <2>1 DEF PlanRows
  <2>4. Memory'
    BY <2>1, <2>2, <1>0, ResolvedTyped DEF Memory, Whole
  <2> QED
    BY <2>2, <2>3, <2>4, <1>c, <1>t, <1>h, <1>w DEF remote, database, events
<1>7. CASE Replan
  <2>1. /\ pc = "replan" /\ pc' \in {"load", "sync"} /\ UNCHANGED <<cmd, dest, rest, view, current, left>>
        /\ from' = mirror /\ UNCHANGED remote /\ UNCHANGED database /\ UNCHANGED events
    BY <1>7 DEF Replan, PlanRows, arguments
  <2>2. Memory'
    BY <2>1, <1>0 DEF Memory, Whole
  <2> QED
    BY <2>1, <2>2, <1>c, <1>t, <1>h, <1>w DEF remote, database, events
<1>a. ASSUME NEW action, NEW item, NEW n, Audit(action, item, n), pc \in Running,
             action \in {"mkdir_pending", "mkdir", "move_pending", "move"},
             item \in Places, n \in Names \cup {Out}, UNCHANGED <<history, created>>
      PROVE  Tables'
  <2>1. cmd \in Cmds
    BY <1>a
  <2> QED
    BY <1>a, <2>1 DEF Audit, Tables
<1>8. CASE AuditMkdirPending \/ AuditMkdir
  <2>1. /\ pc \in {"mkdir", "mkdir_done"} /\ pc' \in {"mkdir_row", "mkdir_applied"} /\ UNCHANGED cmd
        /\ UNCHANGED <<history, created, synced>> /\ UNCHANGED remote /\ UNCHANGED work
        /\ UNCHANGED events
        /\ Audit("mkdir_pending", dest, Head(rest)) \/ Audit("mkdir", dest, Out)
    BY <1>8 DEF AuditMkdirPending, AuditMkdir, arguments
  <2>2. dest \in Places /\ Head(rest) \in Names
    BY <2>1, <1>r DEF Memory
  <2>3. Tables'
    BY <2>1, <2>2, <1>a
  <2> QED
    BY <2>1, <2>3, <1>c, <1>u, <1>h, <1>w DEF remote, work, events
<1>9. CASE AppendCreatedPending
  <2>1. /\ pc = "mkdir_row" /\ pc' = "find" /\ UNCHANGED cmd
        /\ created' = created \cup {[cmd |-> cmd, status |-> "pending", id |-> Out, name |-> Head(rest)]}
        /\ UNCHANGED <<audit, history, synced>> /\ UNCHANGED remote /\ UNCHANGED work
        /\ UNCHANGED events
    BY <1>9 DEF AppendCreatedPending, AppendCreated, arguments
  <2>2. cmd \in Cmds /\ Head(rest) \in Names
    BY <2>1, <1>r DEF Memory
  <2>3. Tables'
    BY <2>1, <2>2, <1>0 DEF Tables
  <2> QED
    BY <2>1, <2>3, <1>c, <1>u, <1>h, <1>w DEF remote, work, events
<1>10. CASE FindFileInFolder
  <2>1. /\ pc = "find" /\ pc' \in {"mkdir_done", "create"} /\ UNCHANGED cmd
        /\ UNCHANGED <<rest, from, view, todo, current, left>> /\ UNCHANGED remote
        /\ UNCHANGED database /\ UNCHANGED events /\ (dest' \in Ids \/ dest' = dest)
    BY <1>10 DEF FindFileInFolder, arguments
  <2>2. Memory'
    BY <2>1, <1>0 DEF Memory
  <2> QED
    BY <2>1, <2>2, <1>c, <1>t, <1>h, <1>w DEF remote, database, events
<1>11. CASE CreateFolder
  <2>1. PICK new \in SUBSET {x \in Fresh : drive[x] = Out} :
          /\ new # {} /\ lost + Cardinality(new) - 1 <= MaxLost
          /\ lost' = lost + Cardinality(new) - 1
          /\ name' = [i \in Ids |-> IF i \in new THEN Head(rest) ELSE name[i]]
          /\ made' = made \cup [cmd : {cmd}, id : new]
          /\ dest' \in new
    BY <1>11 DEF CreateFolder
  <2>2. /\ pc = "create" /\ pc' = "mkdir_done" /\ UNCHANGED cmd
        /\ UNCHANGED <<manageable, edits, rest, from, view, todo, current, left, moved>>
        /\ UNCHANGED database
    BY <1>11 DEF CreateFolder, arguments
  <2>3. cmd \in Cmds /\ Head(rest) \in Names
    BY <2>2, <1>r DEF Memory
  <2>4. Cardinality(new) \in Nat \ {0}
    <3>1. IsFiniteSet(new)
      BY IdsAssumption, FS_Subset
    <3> QED
      BY <2>1, <3>1, FS_CardinalityType, FS_EmptySet
  <2>5. World'
    <3>1. lost' \in 0 .. MaxLost
      BY <2>1, <2>4 DEF World
    <3>2. name' \in [Ids -> Names]
      BY <2>1, <2>3 DEF World
    <3> QED
      BY <2>2, <3>1, <3>2 DEF World, database
  <2>6. Memory' /\ Happened'
    BY <2>1, <2>2, <2>3, <1>0 DEF Memory, Happened
  <2> QED
    BY <2>2, <2>5, <2>6, <1>c, <1>t DEF database
<1>12. CASE AppendCreatedApplied
  <2>1. /\ pc = "mkdir_applied" /\ pc' = (IF Len(rest) > 1 THEN "mkdir" ELSE "replan") /\ UNCHANGED cmd
        /\ created' = created \cup {[cmd |-> cmd, status |-> "applied", id |-> dest, name |-> Head(rest)]}
        /\ rest' = Tail(rest)
        /\ UNCHANGED <<audit, history, synced, dest, from, view, todo, current, left>>
        /\ UNCHANGED remote /\ UNCHANGED events
    BY <1>12 DEF AppendCreatedApplied, AppendCreated, arguments
  <2>2. /\ cmd \in Cmds /\ Head(rest) \in Names /\ Tail(rest) \in Paths
        /\ (Len(rest) > 1 <=> Tail(rest) # <<>>)
    BY <2>1, <1>r DEF Memory
  <2>3. Tables' /\ Memory'
    BY <2>1, <2>2, <1>0 DEF Tables, Memory
  <2> QED
    BY <2>1, <2>2, <2>3, <1>c, <1>h, <1>w DEF remote, events
<1>13. CASE Load
  <2>1. /\ pc = "load" /\ pc' = "rows" /\ UNCHANGED cmd /\ view' = mirror
        /\ UNCHANGED <<dest, rest, from, todo, current, left>> /\ UNCHANGED remote
        /\ UNCHANGED database /\ UNCHANGED events
    BY <1>13 DEF Load, arguments
  <2>2. Memory'
    BY <2>1 DEF Memory, Whole
  <2> QED
    BY <2>1, <2>2, <1>c, <1>t, <1>h, <1>w DEF remote, database, events
<1>e. \A i \in Ids : Entries(i) \subseteq Ids
  BY DEF Entries, Present
<1>14. CASE NextRow
  <2>1. PICK i \in todo :
          /\ todo' = todo \ {i} /\ current' = i /\ left' = Entries(i)
          /\ pc' \in {"pending", "move"}
    BY <1>14 DEF NextRow
  <2>2. /\ pc = "rows" /\ UNCHANGED <<cmd, dest, rest, from, view>> /\ UNCHANGED remote
        /\ UNCHANGED database /\ UNCHANGED events
    BY <1>14 DEF NextRow, arguments
  <2>3. Memory'
    BY <2>1, <2>2, <1>e DEF Memory
  <2> QED
    BY <2>1, <2>2, <2>3, <1>c, <1>t, <1>h, <1>w DEF remote, database, events
<1>15. CASE AuditMovePending \/ AuditMoveApplied
  <2>1. /\ pc \in {"pending", "applied"} /\ pc' \in {"pending_row", "applied_row"} /\ UNCHANGED cmd
        /\ UNCHANGED <<history, created, synced>> /\ UNCHANGED remote /\ UNCHANGED work
        /\ UNCHANGED events
        /\ \E i \in left : Audit("move_pending", i, Out) \/ Audit("move", i, Out)
    BY <1>15 DEF AuditMovePending, AuditMoveApplied, AuditMove, arguments
  <2>2. Tables'
    BY <2>1, <1>a, <1>0 DEF Memory
  <2> QED
    BY <2>1, <2>2, <1>c, <1>u, <1>h, <1>w DEF remote, work, events
<1>16. CASE AppendMovedPending \/ AppendMovedApplied
  <2>1. PICK i \in left, status \in {"pending", "applied"} :
          history' = history \cup {Row(status, i)} /\ left' = left \ {i}
    BY <1>16 DEF AppendMovedPending, AppendMovedApplied, AppendMoved
  <2>2. /\ pc \in {"pending_row", "applied_row"} /\ pc' \in {"pending", "move", "applied", "rows"}
        /\ UNCHANGED <<cmd, audit, created, synced, dest, rest, from, view, todo, current>>
        /\ UNCHANGED remote /\ UNCHANGED events
    BY <1>16 DEF AppendMovedPending, AppendMovedApplied, AppendMoved, arguments
  <2>3. Row(status, i) \in [cmd : Cmds, status : {"pending", "applied"}, item : Ids,
                            via : Ids, from : Places, to : Places]
    <3>1. /\ cmd \in Cmds /\ i \in Ids /\ current \in Ids /\ dest \in Places
          /\ from[i] \in Places /\ view[i] \in Places
      BY <2>2, <1>0 DEF Whole, InRow, Memory, Trees
    <3>2. \A place \in Places : Effective(place) \in Places
      BY DEF Effective, Places
    <3> QED
      BY <3>1, <3>2 DEF Row
  <2>4. Tables' /\ Memory'
    BY <2>1, <2>2, <2>3 DEF Tables, Memory
  <2> QED
    BY <2>2, <2>4, <1>c, <1>h, <1>w DEF remote, events
<1>17. CASE MoveFile
  <2> DEFINE new == {[cmd |-> cmd, via |-> current, item |-> i, from |-> drive[i]] :
                       i \in Subtree(drive, current) \cap Present(drive)}
  <2>1. /\ pc = "move" /\ pc' \in {"applied", "rows"} /\ left' = Entries(current)
        /\ moved' = moved \cup new
        /\ UNCHANGED <<cmd, name, manageable, edits, lost, dest, rest, from, view, todo, current, made>>
        /\ UNCHANGED database
    BY <1>17 DEF MoveFile, arguments
  <2>2. cmd \in Cmds /\ current \in Ids /\ drive \in Trees
    BY <2>1, <1>0 DEF Whole, InRow
  <2>3. new \subseteq [cmd : Cmds, via : Ids, item : Ids, from : Places]
    BY <2>2 DEF Present, Trees
  <2> HIDE DEF new
  <2>4. Happened' /\ Memory'
    BY <2>1, <2>2, <2>3, <1>e DEF Happened, Memory
  <2> QED
    BY <2>1, <2>4, <1>c, <1>t, <1>w DEF database
<1>18. CASE FinalSync \/ Stop
  <2>1. /\ pc \in Running /\ pc' \in {"done", "stopped"} /\ UNCHANGED cmd
        /\ dest' = Root /\ rest' = <<>> /\ from' = Nothing /\ view' = Nothing
        /\ todo' = {} /\ current' = Out /\ left' = {} /\ (synced' = TRUE \/ synced' = synced)
        /\ UNCHANGED remote /\ UNCHANGED <<audit, history, created>> /\ UNCHANGED events
    BY <1>18 DEF FinalSync, Stop, End, database, arguments
  <2>2. Memory'
    <3>1. <<>> \in Paths
      BY PathsAreSequences
    <3> QED
      BY <2>1, <3>1 DEF Memory, Nothing, Trees, Places
  <2>3. World'
    BY <2>1 DEF World, remote
  <2> QED
    BY <2>1, <2>2, <2>3, <1>c, <1>t, <1>h DEF events
<1> QED
  BY <1>1, <1>2, <1>3, <1>4, <1>5, <1>6, <1>7, <1>8, <1>9, <1>10, <1>11, <1>12, <1>13, <1>14,
     <1>15, <1>16, <1>17, <1>18 DEF Next

\* Every variable has its type; in particular no command number, edit or lost answer is past
\* its bound, and the paths of the provisioning stay paths.
THEOREM TypeCorrect == Spec => []TypeOK
BY TypeInvInit, TypeInvStep, TypesOfParts, WholeAlways, PTL DEF Spec
=============================================================================
