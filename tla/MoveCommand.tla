------------------------------ MODULE MoveCommand ------------------------------
(***************************************************************************)
(* `drive-warden move --apply`: the preview, the release, the plan made    *)
(* again by apply_move_orchestration, the folders of `--to-path` that are  *)
(* missing (--provision-missing), the plan for the folder they end in,     *)
(* and per row the pending entries, the call and the applied entries.      *)
(* Commands run one after the other, syncs and edits at any time.          *)
(*                                                                         *)
(* A snapshot of the folder tree gives each item its parent, or Out.  On   *)
(* Drive the parent of a root-level item is not the literal "root" by      *)
(* which requests name My Drive but the id of that folder; the fixtures of *)
(* the mock gateway use "root" itself.  Both are covered: top is the one.  *)
(* An item shared with the account may show no parent at all: its place is *)
(* Shared, and the tool takes it for a root-level item.                    *)
(***************************************************************************)
EXTENDS Integers, Sequences, FiniteSets

CONSTANTS
  Items,       \* the Drive file ids there are to move
  Folders,     \* the items that are folders
  Fresh,       \* the ids Drive gives to new folders
  Root,        \* the literal "root"
  MyDrive,     \* the id of the folder My Drive
  Shared,      \* the place of an item that has no visible parent
  Out,         \* the place of an item that is not on Drive
  Names,       \* file names
  Depth,       \* bound: segments of a --to-path
  Asks,        \* bound: the arguments commands are started with
  Starts,      \* bound: names, manageable and parentless items to begin with
  MaxCommands, \* bound: commands ever started
  MaxEdits,    \* bound: edits others make on Drive
  MaxLost      \* bound: answers to create_folder that get lost

ASSUME IdsAssumption ==
  /\ IsFiniteSet(Items) /\ IsFiniteSet(Fresh)
  /\ Folders \subseteq Items /\ Items \cap Fresh = {}
  /\ {Root, MyDrive, Shared, Out} \cap (Items \cup Fresh) = {}
  /\ Root # MyDrive /\ Shared \notin {Root, MyDrive} /\ Out \notin {Root, MyDrive, Shared}

Ids == Items \cup Fresh
FolderIds == Folders \cup Fresh
Places == Ids \cup {Root, MyDrive, Shared, Out}
Paths == UNION {[1 .. n -> Names] : n \in 0 .. Depth}

\* What a command can be asked: items to move; --to-root or --to-folder, or a path
\* below the root, which alone may be provisioned.
Arguments ==
  {a \in [want : SUBSET Items, at : {Root} \cup Items, path : Paths, provision : BOOLEAN] :
     /\ a.path # <<>> => a.at = Root
     /\ a.provision => a.path # <<>>}

ASSUME AsksAssumption == Asks \subseteq Arguments
ASSUME StartsAssumption ==
  Starts \subseteq [name : [Ids -> Names], manageable : {Fresh \cup S : S \in SUBSET Items},
                   shared : SUBSET Items]
ASSUME BoundsAssumption ==
  Depth \in Nat /\ MaxCommands \in Nat /\ MaxEdits \in Nat /\ MaxLost \in Nat

VARIABLES
  drive,      \* Drive's folder tree
  top,        \* the parent Drive gives to root-level items
  name,       \* the name of each item
  manageable, \* the items the operator can manage
  edits,      \* edits made by others so far
  lost,       \* answers to create_folder that got lost so far
  mirror,     \* the files table
  synced,     \* whether sync_state holds a committed sync
  audit,      \* audit_log
  history,    \* moved_file_history
  created,    \* created_folder_history
  cmd,        \* the command that runs, or ran last
  pc,         \* what it does next
  ask,        \* its arguments: what to move, where to, --provision-missing
  dest,       \* the folder resolved or made so far
  rest,       \* the segments of the path still to be made
  from,       \* the snapshot its plan was made from
  view,       \* the snapshot its entries are built from
  todo,       \* actionable rows still to apply
  current,    \* the row being applied, or Out
  left,       \* history rows of that row still to append
  \* what happened, for the properties only
  removed,    \* items others have ever taken off Drive
  made,       \* folders made: [cmd, id]
  moved       \* items a call moved, alone or within a folder: [cmd, via, item, from]

remote == <<drive, top, name, manageable, edits, lost, removed>>
database == <<mirror, synced, audit, history, created>>
arguments == <<cmd, ask>>
work == <<dest, rest, from, view, todo, current, left>>
events == <<made, moved>>
vars == <<drive, top, name, manageable, edits, lost, removed, mirror, synced, audit,
          history, created, cmd, pc, ask, dest, rest, from, view, todo, current, left,
          made, moved>>

Trees == [Ids -> Places]
Nothing == [i \in Ids |-> Out]
Running == {"release", "plan", "mkdir", "mkdir_row", "find", "create", "mkdir_done",
            "mkdir_applied", "replan", "load", "rows", "pending", "pending_row",
            "move", "applied", "applied_row", "sync"}
Cmds == 1 .. MaxCommands

TypeOK ==
  /\ drive \in Trees /\ mirror \in Trees /\ from \in Trees /\ view \in Trees
  /\ top \in {Root, MyDrive} /\ name \in [Ids -> Names] /\ manageable \subseteq Ids
  /\ edits \in 0 .. MaxEdits /\ lost \in 0 .. MaxLost /\ removed \subseteq Ids
  /\ synced \in BOOLEAN
  /\ audit \subseteq [cmd : Cmds, action : {"mkdir_pending", "mkdir", "move_pending", "move"},
                      item : Places, name : Names \cup {Out}]
  /\ history \subseteq [cmd : Cmds, status : {"pending", "applied"}, item : Ids,
                        via : Ids, from : Places, to : Places]
  /\ created \subseteq [cmd : Cmds, status : {"pending", "applied"}, id : Places,
                        name : Names]
  /\ cmd \in 0 .. MaxCommands /\ pc \in Running \cup {"idle", "done", "stopped"}
  /\ ask.want \subseteq Items /\ ask.at \in Places /\ ask.path \in Paths
  /\ ask.provision \in BOOLEAN
  /\ dest \in Places /\ rest \in Paths /\ current \in Ids \cup {Out}
  /\ todo \subseteq Ids /\ left \subseteq Ids
  /\ made \subseteq [cmd : Cmds, id : Fresh]
  /\ moved \subseteq [cmd : Cmds, via : Ids, item : Ids, from : Places]

-----------------------------------------------------------------------------
(* Folder trees.                                                           *)

Present(tree) == {i \in Ids : tree[i] # Out}

\* collect_subtree_ids: the smallest set with i that is closed under children.
Subtree(tree, i) ==
  {j \in Ids : \A C \in SUBSET Ids :
     i \in C /\ (\A k \in Ids : tree[k] \in C => k \in C) => j \in C}

\* Root-level items have the parent top, others a folder or none that shows, and no
\* folder is inside itself.
IsTree(tree) ==
  \A i \in Ids :
    /\ tree[i] \in {top, Shared, Out} \cup (FolderIds \cap Present(tree))
    /\ tree[i] \in Ids => tree[i] \notin Subtree(tree, i)

\* Drive takes "root" for My Drive.
Drives(place) == IF place = Root THEN top ELSE place

\* effective_parent_ids: what shows no parent counts as an item of the root.
Effective(place) == IF place = Shared THEN Root ELSE place
Seen(tree) == [i \in Ids |-> Effective(tree[i])]

Init ==
  /\ top \in {Root, MyDrive}
  /\ drive \in {tree \in Trees : IsTree(tree) /\ Present(tree) = Items}
  /\ \E s \in Starts : /\ name = s.name /\ manageable = s.manageable
                       /\ \A i \in Items : drive[i] = Shared <=> i \in s.shared
  /\ edits = 0 /\ lost = 0 /\ removed = {}
  /\ mirror = Nothing /\ synced = FALSE
  /\ audit = {} /\ history = {} /\ created = {}
  /\ cmd = 0 /\ pc = "idle"
  /\ ask = [want |-> {}, at |-> Root, path |-> <<>>, provision |-> FALSE]
  /\ dest = Root /\ rest = <<>> /\ from = Nothing /\ view = Nothing
  /\ todo = {} /\ current = Out /\ left = {}
  /\ made = {} /\ moved = {}

-----------------------------------------------------------------------------
(* Others.  They get their turn at the steps of a command that touch Drive *)
(* or the mirror; between two steps that write the log it makes no         *)
(* difference when they do.                                                *)

Touching == {"idle", "plan", "find", "create", "replan", "load", "move", "sync",
             "done", "stopped"}

\* An item is moved, added or restored by somebody else: to a folder, to the root, or
\* to where its parent does not show.
EditDrive(i) ==
  /\ edits < MaxEdits /\ pc \in Touching
  /\ edits' = edits + 1
  /\ \E place \in {top, Shared} \cup (FolderIds \cap Present(drive)) :
       /\ place \notin Subtree(drive, i)
       /\ drive' = [drive EXCEPT ![i] = place]
  /\ UNCHANGED <<top, name, manageable, lost, removed, database, arguments, pc, work, events>>

\* An item is put into the trash or no longer shared, with all that is in it.
TakeOff(i) ==
  /\ edits < MaxEdits /\ pc \in Touching
  /\ drive[i] # Out
  /\ edits' = edits + 1
  /\ drive' = [j \in Ids |-> IF j \in Subtree(drive, i) THEN Out ELSE drive[j]]
  /\ removed' = removed \cup Subtree(drive, i)
  /\ UNCHANGED <<top, name, manageable, lost, database, arguments, pc, work, events>>

\* A sync of another process commits (SyncEngine has what a sync can miss).
SyncElsewhere ==
  /\ pc \in Touching
  /\ mirror' = drive
  /\ synced' = TRUE
  /\ UNCHANGED <<remote, audit, history, created, arguments, pc, work, events>>

-----------------------------------------------------------------------------
(* The destination and the plan.                                           *)

\* find_folder_child_in_inventory.
FolderChildren(tree, place, n) == {i \in FolderIds : tree[i] = place /\ name[i] = n}

\* The folders that the first k segments of a path lead to from a start, for each k.
Reach(tree, start, path) ==
  LET reach[k \in 0 .. Len(path)] ==
        IF k = 0 THEN {start}
        ELSE UNION {FolderChildren(tree, p, path[k]) : p \in reach[k - 1]}
  IN reach

\* plan_destination_provisioning: where the existing part of the path may end, and
\* what is missing from there.  Of folders with one name the first is taken.
Resolved(tree, a) ==
  LET reach == Reach(Seen(tree), a.at, a.path)
      ends(k) == {p \in reach[k] :
                    k < Len(a.path) => FolderChildren(Seen(tree), p, a.path[k + 1]) = {}}
  IN UNION {{[at |-> p, rest |-> SubSeq(a.path, k + 1, Len(a.path))] : p \in ends(k)} :
            k \in 0 .. Len(a.path)}

\* --to-folder names an item of the snapshot; missing segments need the flag.
Resolvable(tree, a, r) ==
  /\ a.at \in {Root} \cup Present(tree)
  /\ r.rest = <<>> \/ a.provision

\* Variant with a bug: a selected item inside a selected folder keeps its row.
SuppressedNone(tree, selected) == {}

Suppressed(tree, selected) ==
  {i \in selected : \E d \in selected \cap FolderIds : i # d /\ i \in Subtree(tree, d)}

\* build_move_plan and classify_move_reason, for a destination of the snapshot or
\* for a new one (`new`), of which only the id is known.
Actionable(tree, want, to, new) ==
  LET selected == want \cap Present(tree)
      goodTo == new \/ to = Root \/ to \in FolderIds \cap manageable
  IN {i \in selected \ Suppressed(tree, selected) :
        /\ goodTo
        /\ i \in manageable
        /\ Seen(tree)[i] # to
        /\ i # to
        /\ i \in FolderIds => to \notin Subtree(tree, i)}

-----------------------------------------------------------------------------
(* A command: from the preview to the plan.                                *)

\* The arguments; the preview resolves and plans, and the operator confirms.  An
\* error of either ends the command, and so does a no.
Preview(a) ==
  /\ pc \in {"idle", "done", "stopped"} /\ cmd < MaxCommands
  /\ cmd' = cmd + 1
  /\ ask' = a
  /\ \/ \E r \in Resolved(mirror, a) :
          /\ Resolvable(mirror, a, r)
          /\ LET rows == IF r.rest = <<>> THEN Actionable(mirror, a.want, r.at, FALSE)
                         ELSE Actionable(mirror, a.want, Out, TRUE)
             IN pc' = IF rows # {} \/ r.rest # <<>> THEN "release" ELSE "plan"
     \/ pc' = "stopped"
  /\ UNCHANGED <<remote, database, work, events>>

\* create_pre_mutation_release.
Release ==
  /\ pc = "release"
  /\ pc' = "plan"
  /\ UNCHANGED <<remote, database, arguments, work, events>>

PlanRows(rows) ==
  /\ todo' = rows
  /\ pc' = IF rows # {} THEN "load" ELSE "sync"

\* apply_move_orchestration: a committed sync is required, and all is planned anew.
Plan ==
  /\ pc = "plan"
  /\ synced
  /\ \E r \in Resolved(mirror, ask) :
       /\ Resolvable(mirror, ask, r)
       /\ dest' = r.at /\ rest' = r.rest
       /\ IF r.rest = <<>> THEN PlanRows(Actionable(mirror, ask.want, r.at, FALSE))
          ELSE todo' = {} /\ pc' = "mkdir"
  /\ from' = mirror
  /\ UNCHANGED <<remote, database, arguments, view, current, left, events>>

-----------------------------------------------------------------------------
(* apply_destination_provisioning, one missing folder after the other.     *)

Audit(action, item, n) ==
  audit' = audit \cup {[cmd |-> cmd, action |-> action, item |-> item, name |-> n]}

AuditMkdirPending ==
  /\ pc = "mkdir"
  /\ Audit("mkdir_pending", dest, Head(rest))
  /\ pc' = "mkdir_row"
  /\ UNCHANGED <<remote, mirror, synced, history, created, arguments, work, events>>

AppendCreated(status, id) ==
  created' = created \cup {[cmd |-> cmd, status |-> status, id |-> id, name |-> Head(rest)]}

AppendCreatedPending ==
  /\ pc = "mkdir_row"
  /\ AppendCreated("pending", Out)
  /\ pc' = "find"
  /\ UNCHANGED <<remote, mirror, synced, audit, history, arguments, work, events>>

\* Variant with a bug: a folder is made without a look at what Drive has.
FindNothing ==
  /\ pc = "find"
  /\ pc' = "create"
  /\ UNCHANGED <<remote, database, arguments, work, events>>

\* find_file_in_folder asks Drive for any item of that name, and takes the first.
FindFileInFolder ==
  LET hits == {i \in Ids : drive[i] = Drives(dest) /\ name[i] = Head(rest)}
  IN /\ pc = "find"
     /\ \/ \E i \in hits : dest' = i /\ pc' = "mkdir_done"
        \/ hits = {} /\ pc' = "create" /\ UNCHANGED dest
     /\ UNCHANGED <<remote, database, arguments, rest, from, view, todo, current,
                    left, events>>

\* create_folder.  When the answer is lost the gateway asks again: Drive has made
\* one folder more than the command will know of.
CreateFolder ==
  /\ pc = "create"
  /\ Drives(dest) = top \/ (dest \in FolderIds /\ drive[dest] # Out)
  /\ \E new \in SUBSET {x \in Fresh : drive[x] = Out /\ \A m \in made : m.id # x} :
       /\ new # {} /\ lost + Cardinality(new) - 1 <= MaxLost
       /\ lost' = lost + Cardinality(new) - 1
       /\ drive' = [i \in Ids |-> IF i \in new THEN Drives(dest) ELSE drive[i]]
       /\ name' = [i \in Ids |-> IF i \in new THEN Head(rest) ELSE name[i]]
       /\ made' = made \cup [cmd : {cmd}, id : new]
       /\ dest' \in new
  /\ pc' = "mkdir_done"
  /\ UNCHANGED <<top, manageable, edits, removed, database, arguments, rest, from, view,
                 todo, current, left, moved>>

AuditMkdir ==
  /\ pc = "mkdir_done"
  /\ Audit("mkdir", dest, Out)
  /\ pc' = "mkdir_applied"
  /\ UNCHANGED <<remote, mirror, synced, history, created, arguments, work, events>>

\* Variant with a bug: every entry of a path is kept under the last segment's name.
AppendCreatedLast ==
  /\ pc = "mkdir_applied"
  /\ created' = created \cup {[cmd |-> cmd, status |-> "applied", id |-> dest,
                               name |-> rest[Len(rest)]]}
  /\ rest' = Tail(rest)
  /\ pc' = IF Len(rest) > 1 THEN "mkdir" ELSE "replan"
  /\ UNCHANGED <<remote, mirror, synced, audit, history, arguments, dest, from, view,
                 todo, current, left, events>>

AppendCreatedApplied ==
  /\ pc = "mkdir_applied"
  /\ AppendCreated("applied", dest)
  /\ rest' = Tail(rest)
  /\ pc' = IF Len(rest) > 1 THEN "mkdir" ELSE "replan"
  /\ UNCHANGED <<remote, mirror, synced, audit, history, arguments, dest, from, view,
                 todo, current, left, events>>

\* The rows are planned once more, for the folder that was made or found.
Replan ==
  /\ pc = "replan"
  /\ PlanRows(Actionable(mirror, ask.want, dest, TRUE))
  /\ from' = mirror
  /\ UNCHANGED <<remote, database, arguments, dest, rest, view, current, left, events>>

-----------------------------------------------------------------------------
(* apply_move_from_plan.                                                   *)

\* The items the entries are built from are loaded once more.
Load ==
  /\ pc = "load"
  /\ view' = mirror
  /\ pc' = "rows"
  /\ UNCHANGED <<remote, database, arguments, dest, rest, from, todo, current, left, events>>

\* Variant with a bug: descendants move silently.
EntriesRequestedOnly(i) == {i} \cap Present(view)

\* build_moved_file_entries: the item and, of a folder, all the snapshot has in it.
Entries(i) == (IF i \in FolderIds THEN Subtree(view, i) ELSE {i}) \cap Present(view)

\* Variant with a bug: Drive is called first.
NextRowCalling ==
  /\ pc = "rows"
  /\ \E i \in todo : todo' = todo \ {i} /\ current' = i /\ left' = {}
  /\ pc' = "move"
  /\ UNCHANGED <<remote, database, arguments, dest, rest, from, view, events>>

\* Folders come before files.
NextRow ==
  /\ pc = "rows"
  /\ \E i \in todo :
       /\ todo \cap FolderIds # {} => i \in FolderIds
       /\ todo' = todo \ {i}
       /\ current' = i
       /\ left' = Entries(i)
       /\ pc' = IF Entries(i) # {} THEN "pending" ELSE "move"
  /\ UNCHANGED <<remote, database, arguments, dest, rest, from, view, events>>

\* One entry is in the audit log, its row comes next.
AuditMove(phase, action) ==
  /\ pc = phase
  /\ \E i \in left : Audit(action, i, Out)
  /\ UNCHANGED <<remote, mirror, synced, history, created, arguments, work, events>>

Row(status, i) ==
  [cmd |-> cmd, status |-> status, item |-> i, via |-> current,
   from |-> Effective(IF i = current THEN from[i] ELSE view[i]), to |-> dest]

AuditMovePending ==
  /\ AuditMove("pending", "move_pending")
  /\ pc' = "pending_row"

\* append_moved_file, for an entry that is in the audit log.
AppendMoved(action, status, again, after) ==
  \E i \in left :
    /\ [cmd |-> cmd, action |-> action, item |-> i, name |-> Out] \in audit
    /\ history' = history \cup {Row(status, i)}
    /\ left' = left \ {i}
    /\ pc' = IF left = {i} THEN after ELSE again
    /\ UNCHANGED <<remote, mirror, synced, audit, created, arguments, dest, rest, from,
                   view, todo, current, events>>

AppendMovedPending ==
  /\ pc = "pending_row"
  /\ AppendMoved("move_pending", "pending", "pending", "move")

\* move_file.  Drive wants the item where the plan has seen it, a folder to put it
\* in, and no folder inside itself; all else is an error, and Stop is what follows.
MoveFile ==
  LET to == Drives(dest)
      gone == Subtree(drive, current) \cap Present(drive)
  IN /\ pc = "move"
     /\ drive[current] \in {from[current], Drives(Effective(from[current]))} \ {Out}
     /\ to = top \/ (to \in FolderIds /\ drive[to] # Out)
     /\ to \notin Subtree(drive, current)
     /\ drive' = [drive EXCEPT ![current] = to]
     /\ moved' = moved \cup {[cmd |-> cmd, via |-> current, item |-> i, from |-> drive[i]] :
                               i \in gone}
     /\ left' = Entries(current)
     /\ pc' = IF Entries(current) # {} THEN "applied" ELSE "rows"
     /\ UNCHANGED <<top, name, manageable, edits, lost, removed, database, arguments, dest,
                    rest, from, view, todo, current, made>>

AuditMoveApplied ==
  /\ AuditMove("applied", "move")
  /\ pc' = "applied_row"

AppendMovedApplied ==
  /\ pc = "applied_row"
  /\ AppendMoved("move", "applied", "applied", "rows")

RowsDone ==
  /\ pc = "rows"
  /\ todo = {}
  /\ pc' = "sync"
  /\ UNCHANGED <<remote, database, arguments, work, events>>

\* With the process its memory goes.
End(how) ==
  /\ pc' = how
  /\ dest' = Root /\ rest' = <<>> /\ from' = Nothing /\ view' = Nothing
  /\ todo' = {} /\ current' = Out /\ left' = {}

\* The full sync that ends the command.
FinalSync ==
  /\ pc = "sync"
  /\ mirror' = drive
  /\ synced' = TRUE
  /\ End("done")
  /\ UNCHANGED <<remote, audit, history, created, arguments, events>>

\* A call fails or the process is killed: whatever it is, the rest is not done.
Stop ==
  /\ pc \in Running
  /\ End("stopped")
  /\ UNCHANGED <<remote, database, arguments, events>>

-----------------------------------------------------------------------------
Next ==
  \/ \E i \in Items : EditDrive(i) \/ TakeOff(i)
  \/ SyncElsewhere
  \/ \E a \in Asks : Preview(a)
  \/ Release \/ Plan
  \/ AuditMkdirPending \/ AppendCreatedPending \/ FindFileInFolder \/ CreateFolder
  \/ AuditMkdir \/ AppendCreatedApplied \/ Replan
  \/ Load \/ NextRow \/ AuditMovePending \/ AppendMovedPending \/ MoveFile
  \/ AuditMoveApplied \/ AppendMovedApplied \/ RowsDone \/ FinalSync
  \/ Stop

Spec == Init /\ [][Next]_vars

-----------------------------------------------------------------------------
(* Properties.                                                             *)

\* Variant with a bug: one applied row, however old, settles all pending ones.
OnlyPendingIgnoringTime ==
  {h \in history : h.status = "pending" /\
     ~ \E g \in history : g.status = "applied" /\ g.item = h.item}

\* What `move-history --only-pending` shows.
OnlyPending ==
  {h \in history : h.status = "pending" /\
     ~ \E g \in history : g.status = "applied" /\ g.item = h.item /\ g.cmd >= h.cmd}

\* What moves has its pending row.
MovesAnnounced ==
  \A m \in moved : \E h \in history : h.status = "pending" /\ h.cmd = m.cmd /\ h.item = m.via

\* The history brackets the call: what moves has its pending row, unless others ever had
\* it off Drive; and an applied row has a call, and a pending row that says the same,
\* before it.
HistoryBracketsCall ==
  /\ \A m \in moved : m.via \notin removed =>
       \E h \in history : h.status = "pending" /\ h.cmd = m.cmd /\ h.item = m.via
  /\ \A h \in history : h.status = "applied" =>
       /\ [h EXCEPT !.status = "pending"] \in history
       /\ \E m \in moved : m.cmd = h.cmd /\ m.via = h.via

\* While nobody else edits Drive, the place an item had before any command moved it
\* is in the history, even after crashes that leave the mirror behind Drive.  Of an item
\* whose parent does not show it says the root.
OriginRecorded ==
  edits = 0 =>
    \A m \in moved : m.item \in Items =>
      \/ \E n \in moved : n.item = m.item /\ n.cmd < m.cmd
      \/ \E h \in history : h.status = "pending" /\ h.cmd = m.cmd /\ h.item = m.item
                            /\ Drives(h.from) = Drives(Effective(m.from))

\* A move a crash cut off before its applied row is shown by --only-pending, until a
\* later command has moved the item and said so, unless others ever had it off Drive.
InterruptedShown ==
  \A m \in moved : m.item = m.via /\ m.item \notin removed
                   /\ (m.cmd < cmd \/ pc \in {"done", "stopped"}) =>
    \/ \E h \in history : h.status = "applied" /\ h.item = m.item /\ h.cmd >= m.cmd
    \/ \E h \in OnlyPending : h.item = m.item /\ h.cmd = m.cmd

\* A retry, of a command or after a crash, finds the folder an earlier one has made,
\* where it is still on Drive: only an answer lost inside the gateway leaves a twin.
NoTwinFolders ==
  \A m \in made : drive[m.id] # Out =>
    Cardinality({x \in {k.id : k \in made} : drive[x] = drive[m.id] /\ name[x] = name[m.id]})
      <= 1 + lost

\* Every folder made was announced under its own name first, and a command that is
\* done knows the ids of all its folders, but for answers lost.
CreatedFoldersRecorded ==
  \A m \in made :
    /\ \E h \in created : h.status = "pending" /\ h.cmd = m.cmd /\ h.name = name[m.id]
    /\ m.cmd = cmd /\ pc = "done" /\ lost = 0 =>
         [cmd |-> cmd, status |-> "applied", id |-> m.id, name |-> name[m.id]] \in created

\* The folders a path leads to, by a tree in which My Drive is top.
Ends(tree, a) == Reach(tree, Drives(a.at), a.path)[Len(a.path)]

\* Folders of a name whose parent does not show, or did not before they were moved.
Parentless(n) ==
  {i \in Folders : name[i] = n /\ (drive[i] = Shared \/
     \E m \in moved : m.item = i /\ m.from = Shared)}

\* All a command was asked to move is where it was asked to be, in the end: the path,
\* by Drive's own tree, leads to the folder it is in, if no folder shared by others has
\* the name the path begins with.  What a folder holds went along and is still in it.
LandsAtPath ==
  cmd = 1 /\ pc = "done" /\ edits = 0 /\ (ask.path # <<>> => Parentless(ask.path[1]) = {}) =>
    \A m \in moved : IF m.item = m.via THEN drive[m.item] \in Ends(drive, ask)
                     ELSE drive[m.item] = m.from

\* The same whatever folders are shared.
LandsInMyDrive ==
  cmd = 1 /\ pc = "done" /\ edits = 0 =>
    \A m \in moved : m.item = m.via => drive[m.item] \in Ends(drive, ask)

\* A --to-path to a folder the snapshot has is found in it.
ExistingPathFound ==
  \A p \in Paths : LET a == [at |-> Root, path |-> p] IN
    Ends(mirror, a) # {} => \E r \in Resolved(mirror, a) : r.rest = <<>>

=============================================================================
