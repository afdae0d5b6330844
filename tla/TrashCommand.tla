----------------------------- MODULE TrashCommand -----------------------------
(***************************************************************************)
(* `drive-warden trash --apply`: a preview the operator confirms, the      *)
(* release of the database that must exist before Drive is touched, the    *)
(* plan made a second time by apply_trash, and per row the audit entry,    *)
(* the call that moves the item to Drive's trash, the second audit entry   *)
(* and the history rows.  Each command is a process of its own that reads  *)
(* the local mirror three times; other processes sync, other people edit.  *)
(*                                                                         *)
(* A snapshot of the folder tree gives each item its parent, or Out.       *)
(***************************************************************************)
EXTENDS Integers, FiniteSets

CONSTANTS
  Items,      \* the Drive file ids
  Folders,    \* the items that are folders
  Root,       \* the My Drive root
  Out,        \* the place of an item that is in the trash, or not there at all
  Commands,   \* the trash commands ever started
  MaxEdits    \* bound: edits others make on Drive

ASSUME ItemsAssumption ==
  IsFiniteSet(Items) /\ Folders \subseteq Items /\ Root \notin Items /\ Out \notin Items /\ Root # Out
ASSUME BoundsAssumption == MaxEdits \in Nat

VARIABLES
  drive,      \* Drive's folder tree
  owned,      \* the items the operator owns
  manageable, \* the items whose sharing the operator can manage
  edits,      \* edits made by others so far
  mirror,     \* the files table
  synced,     \* whether sync_state holds a committed sync
  audit,      \* audit_log
  history,    \* trashed_file_history
  pc,         \* [Commands -> what the command does next]
  wanted,     \* [Commands -> the items its filters match]
  recursive,  \* [Commands -> its --recursive flag]
  plan,       \* [Commands -> the rows of its plan]
  view,       \* [Commands -> the snapshot it read last]
  todo,       \* [Commands -> actionable rows still to apply]
  current,    \* [Commands -> the row being applied, or Out]
  left,       \* [Commands -> history rows of that row still to append]
  \* what happened, for the properties only
  released,   \* commands whose release was created
  calls,      \* trash_file calls answered: [cmd, item]
  trashed,    \* items a command's calls put in the trash: [cmd, item]
  crossed     \* whether another process used the database while a command ran

remote == <<drive, owned, manageable, edits>>
database == <<mirror, synced, audit, history>>
local == <<wanted, recursive, plan, view, todo, current, left>>
events == <<released, calls, trashed, crossed>>
vars == <<drive, owned, manageable, edits, mirror, synced, audit, history, pc,
          wanted, recursive, plan, view, todo, current, left,
          released, calls, trashed, crossed>>

Places == Items \cup {Root, Out}
Trees == [Items -> Places]
Nothing == [i \in Items |-> Out]
Running == {"release", "plan", "reload", "rows", "trash", "audit", "history", "sync"}
Phases == Running \cup {"new", "done", "stopped"}
Actions == {"trash_file_pending", "trash_file"}

TypeOK ==
  /\ drive \in Trees /\ mirror \in Trees
  /\ owned \subseteq Items /\ manageable \subseteq Items
  /\ edits \in 0 .. MaxEdits /\ synced \in BOOLEAN
  /\ audit \subseteq [cmd : Commands, action : Actions, item : Items]
  /\ history \subseteq [cmd : Commands, item : Items, via : Items]
  /\ pc \in [Commands -> Phases]
  /\ wanted \in [Commands -> SUBSET Items]
  /\ recursive \in [Commands -> BOOLEAN]
  /\ plan \in [Commands -> SUBSET Items]
  /\ view \in [Commands -> Trees]
  /\ todo \in [Commands -> SUBSET Items]
  /\ current \in [Commands -> Items \cup {Out}]
  /\ left \in [Commands -> SUBSET Items]
  /\ released \subseteq Commands
  /\ calls \subseteq [cmd : Commands, item : Items]
  /\ trashed \subseteq [cmd : Commands, item : Items]
  /\ crossed \in BOOLEAN

-----------------------------------------------------------------------------
(* Folder trees.                                                           *)

Present(tree) == {i \in Items : tree[i] # Out}

\* collect_subtree_ids: the smallest set with i that is closed under children.
Subtree(tree, i) ==
  {j \in Items : \A C \in SUBSET Items :
     i \in C /\ (\A k \in Items : tree[k] \in C => k \in C) => j \in C}

Without(tree, gone) == [i \in Items |-> IF i \in gone THEN Out ELSE tree[i]]

\* Parents are folders that are there, and no folder is inside itself.
IsTree(tree) ==
  \A i \in Items : tree[i] \in Items =>
    /\ tree[i] \in Folders /\ tree[tree[i]] # Out
    /\ tree[i] \notin Subtree(tree, i)

Init ==
  /\ drive \in {tree \in Trees : IsTree(tree)}
  /\ owned \in SUBSET Items
  /\ manageable \in SUBSET Items
  /\ edits = 0
  /\ mirror = Nothing /\ synced = FALSE
  /\ audit = {} /\ history = {}
  /\ pc = [c \in Commands |-> "new"]
  /\ wanted = [c \in Commands |-> {}]
  /\ recursive = [c \in Commands |-> FALSE]
  /\ plan = [c \in Commands |-> {}]
  /\ view = [c \in Commands |-> Nothing]
  /\ todo = [c \in Commands |-> {}]
  /\ current = [c \in Commands |-> Out]
  /\ left = [c \in Commands |-> {}]
  /\ released = {} /\ calls = {} /\ trashed = {} /\ crossed = FALSE

-----------------------------------------------------------------------------
(* Others.                                                                 *)

Edit(tree) ==
  /\ edits < MaxEdits
  /\ edits' = edits + 1
  /\ drive' = tree
  /\ UNCHANGED <<owned, manageable, database, pc, local, events>>

\* An item is added, restored or moved to a folder, or removed with its subtree.
EditDrive(i) ==
  \/ \E place \in {Root} \cup (Folders \cap Present(drive)) :
       /\ place \notin Subtree(drive, i)
       /\ Edit([drive EXCEPT ![i] = place])
  \/ /\ drive[i] # Out
     /\ Edit(Without(drive, Subtree(drive, i)))

Busy == \E c \in Commands : pc[c] \in Running

\* A sync of another process commits (SyncEngine has the detail).
SyncElsewhere ==
  /\ mirror' = drive
  /\ synced' = TRUE
  /\ crossed' = (crossed \/ Busy)
  /\ UNCHANGED <<remote, audit, history, pc, local, released, calls, trashed>>

-----------------------------------------------------------------------------
(* The plan.                                                               *)

\* Variant with a bug: nothing is suppressed.
SuppressedNone(tree, selected, rec) == {}

\* With --recursive, the selected descendants of a selected folder are left to it.
Suppressed(tree, selected, rec) ==
  IF ~rec THEN {}
  ELSE {i \in selected : \E d \in selected \cap manageable \cap Folders :
          i # d /\ i \in Subtree(tree, d)}

Rows(tree, want, rec) ==
  LET selected == want \cap Present(tree)
  IN selected \ Suppressed(tree, selected, rec)

\* classify_trash_reason.
Actionable(rows, rec) ==
  {i \in rows : i \in owned /\ i \in manageable /\ (i \in Folders => rec)}

-----------------------------------------------------------------------------
(* A command.                                                              *)

Goto(c, phase) == pc' = [pc EXCEPT ![c] = phase]

PreviewNeeding(c, want, rec, actionable) ==
  /\ pc[c] = "new"
  /\ crossed' = (crossed \/ Busy)
  /\ \/ /\ Goto(c, IF actionable # {} THEN "release" ELSE "plan")
        /\ wanted' = [wanted EXCEPT ![c] = want]
        /\ recursive' = [recursive EXCEPT ![c] = rec]
     \/ /\ Goto(c, "stopped")
        /\ UNCHANGED <<wanted, recursive>>
  /\ UNCHANGED <<remote, database, plan, view, todo, current, left, released, calls, trashed>>

\* Variant with a bug: the preview counts actionable files only.
PreviewCountingFiles(c, want, rec) ==
  PreviewNeeding(c, want, rec, Actionable(Rows(mirror, want, rec), FALSE))

\* The preview; the operator confirms, or the command ends there.  A release is
\* made if there is an actionable row, but apply_trash follows in any case.
Preview(c, want, rec) ==
  PreviewNeeding(c, want, rec, Actionable(Rows(mirror, want, rec), rec))

\* create_pre_mutation_release: identity checked, endpoint private, uploads done.
Release(c) ==
  /\ pc[c] = "release"
  /\ released' = released \cup {c}
  /\ Goto(c, "plan")
  /\ UNCHANGED <<remote, database, local, calls, trashed, crossed>>

\* apply_trash: a committed sync is required and the plan is made again.  With
\* nothing actionable the final sync is all that is left.
ApplyTrash(c) ==
  LET rows == Rows(mirror, wanted[c], recursive[c])
      actionable == Actionable(rows, recursive[c])
  IN /\ pc[c] = "plan"
     /\ synced
     /\ plan' = [plan EXCEPT ![c] = rows]
     /\ todo' = [todo EXCEPT ![c] = actionable]
     /\ view' = [view EXCEPT ![c] = mirror]
     /\ Goto(c, IF actionable # {} THEN "reload" ELSE "sync")
     /\ UNCHANGED <<remote, database, wanted, recursive, current, left, events>>

\* The items the history rows are built from are loaded once more.
Reload(c) ==
  /\ pc[c] = "reload"
  /\ view' = [view EXCEPT ![c] = mirror]
  /\ Goto(c, "rows")
  /\ UNCHANGED <<remote, database, wanted, recursive, plan, todo, current, left, events>>

\* Variant with a bug: Drive is called before anything is written down.
AuditAfterwards(c) ==
  /\ pc[c] = "rows"
  /\ \E i \in todo[c] :
       /\ todo' = [todo EXCEPT ![c] = @ \ {i}]
       /\ current' = [current EXCEPT ![c] = i]
  /\ Goto(c, "trash")
  /\ UNCHANGED <<remote, database, wanted, recursive, plan, view, left, events>>

\* The next row: its intention is written to the audit log.
AuditPending(c) ==
  /\ pc[c] = "rows"
  /\ \E i \in todo[c] :
       /\ todo' = [todo EXCEPT ![c] = @ \ {i}]
       /\ current' = [current EXCEPT ![c] = i]
       /\ audit' = audit \cup {[cmd |-> c, action |-> "trash_file_pending", item |-> i]}
  /\ Goto(c, "trash")
  /\ UNCHANGED <<remote, mirror, synced, history, wanted, recursive, plan, view, left, events>>

\* trash_file: Drive takes the item with everything that is in it by now.
TrashFile(c) ==
  LET gone == Subtree(drive, current[c])
  IN /\ pc[c] = "trash"
     /\ drive' = Without(drive, gone)
     /\ calls' = calls \cup {[cmd |-> c, item |-> current[c]]}
     /\ trashed' = trashed \cup [cmd : {c}, item : gone \cap Present(drive)]
     /\ Goto(c, "audit")
     /\ UNCHANGED <<owned, manageable, edits, database, local, released, crossed>>

\* build_trashed_file_entries, from the snapshot of Reload.
TrashedEntries(c) ==
  (IF current[c] \in Folders THEN Subtree(view[c], current[c]) ELSE {current[c]})
    \cap Present(view[c])

AuditEntry(c, action) ==
  /\ pc[c] = "audit"
  /\ audit' = audit \cup {[cmd |-> c, action |-> action, item |-> current[c]]}
  /\ left' = [left EXCEPT ![c] = TrashedEntries(c)]
  /\ Goto(c, IF TrashedEntries(c) # {} THEN "history" ELSE "rows")
  /\ UNCHANGED <<remote, mirror, synced, history, wanted, recursive, plan, view, todo,
                 current, events>>

\* Variant with a bug: an entry of a kind the log does not know.
AuditUnknown(c) == AuditEntry(c, "trashed")

\* The second audit entry.
AuditDone(c) == AuditEntry(c, "trash_file")

\* Variant with a bug: the loop ends with the explicitly requested item.
AppendRequestedOnly(c) ==
  /\ pc[c] = "history"
  /\ history' = history \cup {[cmd |-> c, item |-> current[c], via |-> current[c]]}
  /\ left' = [left EXCEPT ![c] = {}]
  /\ Goto(c, "rows")
  /\ UNCHANGED <<remote, mirror, synced, audit, wanted, recursive, plan, view, todo,
                 current, events>>

\* append_trashed_file, one row.
AppendTrashedFile(c) ==
  /\ pc[c] = "history"
  /\ \E i \in left[c] :
       /\ history' = history \cup {[cmd |-> c, item |-> i, via |-> current[c]]}
       /\ left' = [left EXCEPT ![c] = @ \ {i}]
       /\ Goto(c, IF left[c] = {i} THEN "rows" ELSE "history")
  /\ UNCHANGED <<remote, mirror, synced, audit, wanted, recursive, plan, view, todo,
                 current, events>>

RowsDone(c) ==
  /\ pc[c] = "rows"
  /\ todo[c] = {}
  /\ Goto(c, "sync")
  /\ UNCHANGED <<remote, database, local, events>>

\* The process is gone, and its memory with it.
Exit(c, phase) ==
  /\ Goto(c, phase)
  /\ wanted' = [wanted EXCEPT ![c] = {}] /\ recursive' = [recursive EXCEPT ![c] = FALSE]
  /\ plan' = [plan EXCEPT ![c] = {}] /\ view' = [view EXCEPT ![c] = Nothing]
  /\ todo' = [todo EXCEPT ![c] = {}] /\ current' = [current EXCEPT ![c] = Out]
  /\ left' = [left EXCEPT ![c] = {}]

\* The full sync that ends the command.
FinalSync(c) ==
  /\ pc[c] = "sync"
  /\ mirror' = drive
  /\ synced' = TRUE
  /\ Exit(c, "done")
  /\ UNCHANGED <<remote, audit, history, events>>

\* A call fails or the process is killed: whatever it is, the rest is not done.
Stop(c) ==
  /\ pc[c] \in Running
  /\ Exit(c, "stopped")
  /\ UNCHANGED <<remote, database, events>>

-----------------------------------------------------------------------------
Command(c) ==
  \/ \E want \in SUBSET Items, rec \in BOOLEAN : Preview(c, want, rec)
  \/ Release(c)
  \/ ApplyTrash(c)
  \/ Reload(c)
  \/ AuditPending(c)
  \/ TrashFile(c)
  \/ AuditDone(c)
  \/ AppendTrashedFile(c)
  \/ RowsDone(c)
  \/ FinalSync(c)
  \/ Stop(c)

Next ==
  \/ \E i \in Items : EditDrive(i)
  \/ SyncElsewhere
  \/ \E c \in Commands : Command(c)

Spec == Init /\ [][Next]_vars

-----------------------------------------------------------------------------
(* Properties.                                                             *)

\* Audit log and history tell a crash from a success: no call to Drive without
\* its pending entry, no trash_file entry without the call, and no history row
\* before that entry.
AuditBracketsCall ==
  /\ \A x \in calls :
       [cmd |-> x.cmd, action |-> "trash_file_pending", item |-> x.item] \in audit
  /\ \A a \in audit :
       a.action = "trash_file" => [cmd |-> a.cmd, item |-> a.item] \in calls
  /\ \A h \in history :
       [cmd |-> h.cmd, action |-> "trash_file", item |-> h.via] \in audit

\* A command records no item twice: what it trashes with a folder is not also a
\* row of its own, however the operator's filters overlap; unless another process used
\* the database beside a command.
HistoryOnce ==
  ~crossed => \A g, h \in history : g.cmd = h.cmd /\ g.item = h.item => g = h

\* As long as nobody else edits Drive, a completed command has recorded all it put
\* in the trash, even when it worked after a crash, or beside other commands.
UneditedTrashRecorded ==
  edits = 0 =>
    \A x \in trashed : pc[x.cmd] = "done" =>
      \E h \in history : h.cmd = x.cmd /\ h.item = x.item

\* No command touches Drive before its release of the database exists.
ReleasedFirst == \A x \in calls : x.cmd \in released

\* ... although the plan that asks for a release and the plan that is applied are made
\* separately, unless another process used the database beside a command.
ReleaseBeforeTrash == ~crossed => ReleasedFirst

\* An item the operator's filters match is a row of the plan, so that it is trashed
\* or shown as skipped, or goes to the trash inside a folder that is trashed.
EverySelectedItemIsPlanned ==
  \A c \in Commands : pc[c] = "reload" =>
    \A i \in wanted[c] \cap Present(view[c]) :
      \/ i \in plan[c]
      \/ \E d \in todo[c] : i \in Subtree(view[c], d)

=============================================================================
