----------------------------- MODULE UnshareCommand -----------------------------
(***************************************************************************)
(* `drive-warden unshare --apply [--retain-copy]`: the preview, the        *)
(* release, the plan made again by apply_unshare_with_options, the private *)
(* copies, and per row the audit entry, the call that deletes the          *)
(* permission, the second audit entry and the history row.  Commands run   *)
(* one after the other, syncs and edits by others at any time.             *)
(*                                                                         *)
(* A permission is its grantee: Drive gives it one id for each grantee.    *)
(* Who has access to a folder has access to all that is in it; Drive lists *)
(* the grantee there too, without saying that the access is inherited.     *)
(***************************************************************************)
EXTENDS Integers, FiniteSets

CONSTANTS
  Items,       \* the Drive file ids
  Folders,     \* the items that are folders
  Root,        \* the My Drive root
  Grantees,    \* people, domains, "anyone": whoever can be granted access
  Starts,      \* bound: the folder trees, grants, owners, managed items to begin with
  Asks,        \* bound: the arguments commands are started with
  MaxCommands, \* bound: commands ever started
  MaxEdits     \* bound: edits others make on Drive

Places == Items \cup {Root}
Trees == [Items -> Places]
Grants == SUBSET (Items \X Grantees)
Arguments == [want : SUBSET Items, who : SUBSET Grantees, retain : BOOLEAN]

ASSUME ItemsAssumption ==
  IsFiniteSet(Items) /\ Folders \subseteq Items /\ Root \notin Items /\ IsFiniteSet(Grantees)
ASSUME StartsAssumption ==
  Starts \subseteq [tree : Trees, direct : Grants, owner : [Items -> Grantees],
                    managed : SUBSET Items]
\* No folder of Drive is inside itself.
ASSUME TreesAssumption ==
  \A s \in Starts : \A C \in SUBSET Items : C # {} => \E i \in C : s.tree[i] \notin C
ASSUME AsksAssumption == Asks \subseteq Arguments
ASSUME BoundsAssumption == MaxCommands \in Nat /\ MaxEdits \in Nat

VARIABLES
  tree,     \* Drive's folder tree
  direct,   \* the grants made on an item itself: <<item, grantee>>
  owner,    \* the owner of each item
  managed,  \* the items whose sharing the operator can manage
  edits,    \* edits made by others so far
  mirror,   \* the files table: the tree, and the permissions listed on each item
  synced,   \* whether sync_state holds a committed sync
  audit,    \* audit_log
  history,  \* revoked_share_history
  cmd,      \* the command that runs, or ran last
  pc,       \* what it does next
  ask,      \* its arguments: items, grantees and --retain-copy
  todo,     \* actionable rows still to apply: [item, who, target]
  current,  \* the row being applied, as a set of at most one
  gone,     \* deleted_targets: the <<target, grantee>> it has deleted
  copy,     \* items still to copy
  \* what happened, for the properties only
  fresh,    \* whether the mirror was right when the plan was made
  copied,   \* copies on Drive: [cmd, item]
  deleted,  \* permissions deleted: [cmd, target, who]
  lost      \* access that went with a deletion: [cmd, item, who, via]

remote == <<tree, direct, owner, managed, edits>>
database == <<mirror, synced, audit, history>>
arguments == <<cmd, ask>>
work == <<todo, current, gone, copy>>
events == <<fresh, copied, deleted, lost>>
vars == <<tree, direct, owner, managed, edits, mirror, synced, audit, history, cmd, pc, ask,
          todo, current, gone, copy, fresh, copied, deleted, lost>>

Cmds == 1 .. MaxCommands
Rows == [item : Items, who : Grantees, target : Items]
Running == {"release", "plan", "folder", "folder_audit", "copy", "copy_audit", "rows",
            "delete", "audit", "history", "sync"}
Nothing == [tree |-> [i \in Items |-> Root], perms |-> {}]

TypeOK ==
  /\ tree \in Trees /\ direct \in Grants /\ owner \in [Items -> Grantees]
  /\ managed \subseteq Items /\ edits \in 0 .. MaxEdits
  /\ mirror \in [tree : Trees, perms : Grants] /\ synced \in BOOLEAN
  /\ audit \subseteq [cmd : Cmds, action : {"create_backup_folder", "copy_backup",
                        "delete_permission_pending", "delete_permission"},
                      item : Places, who : Grantees \cup {Root}]
  /\ history \subseteq [cmd : Cmds, item : Items, who : Grantees, target : Items]
  /\ cmd \in 0 .. MaxCommands /\ pc \in Running \cup {"idle", "done", "stopped"}
  /\ ask \in Arguments /\ todo \subseteq Rows /\ current \subseteq Rows
  /\ gone \in Grants /\ copy \subseteq Items /\ fresh \in BOOLEAN
  /\ copied \subseteq [cmd : Cmds, item : Items]
  /\ deleted \subseteq [cmd : Cmds, target : Items, who : Grantees]
  /\ lost \subseteq [cmd : Cmds, item : Items, who : Grantees, via : Items]

-----------------------------------------------------------------------------
(* Folder trees and permissions.                                           *)

\* collect_subtree_ids: the smallest set with i that is closed under children.
Subtree(t, i) ==
  {j \in Items : \A C \in SUBSET Items :
     i \in C /\ (\A k \in Items : t[k] \in C => k \in C) => j \in C}

\* Whom Drive lists on which item: owners and grantees, of it or of a folder above.
Listed(t, grants) ==
  {p \in Items \X Grantees : \E a \in Items :
     p[1] \in Subtree(t, a) /\ (owner[a] = p[2] \/ <<a, p[2]>> \in grants)}

Snapshot == [tree |-> tree, perms |-> Listed(tree, direct)]

Init ==
  /\ \E s \in Starts :
       tree = s.tree /\ direct = s.direct /\ owner = s.owner /\ managed = s.managed
  /\ edits = 0
  /\ mirror = Nothing /\ synced = FALSE
  /\ audit = {} /\ history = {}
  /\ cmd = 0 /\ pc = "idle"
  /\ ask = [want |-> {}, who |-> {}, retain |-> FALSE]
  /\ todo = {} /\ current = {} /\ gone = {} /\ copy = {}
  /\ fresh = FALSE /\ copied = {} /\ deleted = {} /\ lost = {}

-----------------------------------------------------------------------------
(* Others.  They get their turn at the steps of a command that touch Drive *)
(* or the mirror; between two steps that write the log it makes no         *)
(* difference when they do.                                                *)

Touching == {"idle", "plan", "copy", "delete", "sync", "done", "stopped"}

Edit ==
  /\ edits < MaxEdits /\ pc \in Touching
  /\ edits' = edits + 1
  /\ UNCHANGED <<owner, managed, database, arguments, pc, work, events>>

\* Somebody shares an item, or moves it to a folder.
EditDrive(i) ==
  /\ Edit
  /\ \/ \E g \in Grantees : direct' = direct \cup {<<i, g>>} /\ UNCHANGED tree
     \/ \E place \in {Root} \cup (Folders \ Subtree(tree, i)) :
          tree' = [tree EXCEPT ![i] = place] /\ UNCHANGED direct

\* A sync of another process commits (SyncEngine has the detail).
SyncElsewhere ==
  /\ pc \in Touching
  /\ mirror' = Snapshot
  /\ synced' = TRUE
  /\ UNCHANGED <<remote, audit, history, arguments, pc, work, events>>

-----------------------------------------------------------------------------
(* The plan.                                                               *)

\* build_sharing_findings, over the selected items.
Findings(m, a) == {p \in m.perms : p[1] \in a.want /\ p[2] \in a.who}

\* Variant with a bug: the nearest folder that lists the grantee is taken.
ShareSourceNearest(m, p) ==
  IF <<m.tree[p[1]], p[2]>> \in m.perms THEN m.tree[p[1]] ELSE p[1]

\* resolve_share_source: up from folder to folder as long as the grantee is listed.
ShareSource(m, p) ==
  CHOOSE a \in Items :
    /\ p[1] \in Subtree(m.tree, a)
    /\ \A b \in Items : b \in Subtree(m.tree, a) /\ p[1] \in Subtree(m.tree, b)
                          => <<b, p[2]>> \in m.perms
    /\ <<m.tree[a], p[2]>> \notin m.perms

\* Variant with a bug: a folder is taken that the query did not select.
ActionableUnselected(found, p, source) ==
  /\ source \in managed
  /\ source = p[1] => owner[p[1]] # p[2]

\* classify_unshare_finding.  Of a grant found on the item itself the permission must
\* not be the owner's; of one found on a folder the code does not ask.
Actionable(found, p, source) ==
  /\ source \in managed
  /\ source = p[1] => owner[p[1]] # p[2]
  /\ source # p[1] => \E q \in found : q[1] = source

PlannedRows(m, a) ==
  LET found == Findings(m, a)
  IN {r \in Rows : /\ <<r.item, r.who>> \in found
                   /\ r.target = ShareSource(m, <<r.item, r.who>>)
                   /\ Actionable(found, <<r.item, r.who>>, r.target)}

\* Variant with a bug: only the items of the rows are copied, not what is in them.
CopyItemsOnly(m, rows) == {r.item : r \in rows}

\* build_retain_copy_plan: the items of the actionable rows, with all that is in them.
CopyItems(m, rows) == UNION {Subtree(m.tree, r.item) : r \in rows}

-----------------------------------------------------------------------------
(* A command.                                                              *)

\* The preview; the operator confirms, or the command ends there.
Preview(a) ==
  /\ pc \in {"idle", "done", "stopped"} /\ cmd < MaxCommands
  /\ cmd' = cmd + 1
  /\ ask' = a
  /\ pc' \in {IF PlannedRows(mirror, a) # {} THEN "release" ELSE "plan", "stopped"}
  /\ UNCHANGED <<remote, database, work, events>>

\* create_pre_mutation_release.
Release ==
  /\ pc = "release"
  /\ pc' = "plan"
  /\ UNCHANGED <<remote, database, arguments, work, events>>

\* apply_unshare_with_options: a committed sync is required, and all is planned anew.
Plan ==
  LET rows == PlannedRows(mirror, ask)
  IN /\ pc = "plan"
     /\ synced
     /\ todo' = rows
     /\ fresh' = (mirror = Snapshot)
     /\ pc' = IF rows = {} THEN "sync" ELSE IF ask.retain THEN "folder" ELSE "rows"
     /\ UNCHANGED <<remote, database, arguments, current, gone, copy, copied, deleted, lost>>

Audit(action, item, who) ==
  audit' = audit \cup {[cmd |-> cmd, action |-> action, item |-> item, who |-> who]}

-----------------------------------------------------------------------------
(* apply_retain_copy_plan: each copy is made first and then logged.        *)

\* The folder for the copies; the items are loaded once more before.
CreateBackupFolder ==
  /\ pc = "folder"
  /\ copy' = CopyItems(mirror, todo)
  /\ pc' = "folder_audit"
  /\ UNCHANGED <<remote, database, arguments, todo, current, gone, events>>

AuditBackupFolder ==
  /\ pc = "folder_audit"
  /\ Audit("create_backup_folder", Root, Root)
  /\ pc' = "copy"
  /\ UNCHANGED <<remote, mirror, synced, history, arguments, work, events>>

\* copy_file or, for a folder, create_folder: a folder before what is in it.
CopyItem ==
  /\ pc = "copy"
  /\ \E i \in copy :
       /\ \A j \in copy : i \in Subtree(mirror.tree, j) => j = i
       /\ copied' = copied \cup {[cmd |-> cmd, item |-> i]}
       /\ copy' = copy \ {i}
  /\ pc' = "copy_audit"
  /\ UNCHANGED <<remote, database, arguments, todo, current, gone, fresh, deleted, lost>>

AuditCopy ==
  /\ pc = "copy_audit"
  /\ \E x \in copied :
       /\ x.cmd = cmd
       /\ [cmd |-> cmd, action |-> "copy_backup", item |-> x.item, who |-> Root] \notin audit
       /\ Audit("copy_backup", x.item, Root)
  /\ pc' = IF copy = {} THEN "rows" ELSE "copy"
  /\ UNCHANGED <<remote, mirror, synced, history, arguments, work, events>>

-----------------------------------------------------------------------------
(* The revocations.                                                        *)

\* Variant with a bug: every row deletes its permission.
NextRowAlways(r) ==
  /\ pc' = "delete"
  /\ Audit("delete_permission_pending", r.item, r.who)

\* The pending entry is written if the permission of the row is not deleted already.
NextRow(r) ==
  IF <<r.target, r.who>> \in gone THEN pc' = "audit" /\ UNCHANGED audit
  ELSE pc' = "delete" /\ Audit("delete_permission_pending", r.item, r.who)

AuditPending ==
  /\ pc = "rows"
  /\ \E r \in todo : todo' = todo \ {r} /\ current' = {r} /\ NextRow(r)
  /\ UNCHANGED <<remote, mirror, synced, history, arguments, gone, copy, events>>

\* Drive deletes what was granted on the item itself, and never the owner's access.
Deletable(target, g) == <<target, g>> \in direct /\ owner[target] # g

\* Variant with a bug: one failed row is skipped, and recorded like the others.
SkipFailed ==
  /\ pc = "delete"
  /\ pc' = "audit"
  /\ UNCHANGED <<remote, database, arguments, work, events>>

\* delete_permission; where Drive refuses, Stop is what follows.
DeletePermission ==
  /\ pc = "delete"
  /\ \E r \in current :
       LET after == direct \ {<<r.target, r.who>>}
       IN /\ Deletable(r.target, r.who)
          /\ direct' = after
          /\ gone' = gone \cup {<<r.target, r.who>>}
          /\ deleted' = deleted \cup {[cmd |-> cmd, target |-> r.target, who |-> r.who]}
          /\ lost' = lost \cup
               {[cmd |-> cmd, item |-> p[1], who |-> p[2], via |-> r.target] :
                  p \in Listed(tree, direct) \ Listed(tree, after)}
  /\ pc' = "audit"
  /\ UNCHANGED <<tree, owner, managed, edits, database, arguments, todo, current, copy,
                 fresh, copied>>

AuditDone ==
  /\ pc = "audit"
  /\ \E r \in current : Audit("delete_permission", r.item, r.who)
  /\ pc' = "history"
  /\ UNCHANGED <<remote, mirror, synced, history, arguments, work, events>>

\* append_revoked_share, a row for every item whether it needed a call or not.
AppendRevokedShare ==
  /\ pc = "history"
  /\ \E r \in current :
       history' = history \cup {[cmd |-> cmd, item |-> r.item, who |-> r.who,
                                 target |-> r.target]}
  /\ pc' = "rows"
  /\ UNCHANGED <<remote, mirror, synced, audit, arguments, work, events>>

RowsDone ==
  /\ pc = "rows"
  /\ todo = {}
  /\ pc' = "sync"
  /\ UNCHANGED <<remote, database, arguments, work, events>>

\* With the process its memory goes.
End(how) ==
  /\ pc' = how
  /\ todo' = {} /\ current' = {} /\ gone' = {} /\ copy' = {}
  /\ UNCHANGED <<arguments, events>>

\* The full sync that ends the command.
FinalSync ==
  /\ pc = "sync"
  /\ mirror' = Snapshot
  /\ synced' = TRUE
  /\ End("done")
  /\ UNCHANGED <<remote, audit, history>>

\* A call fails or the process is killed: whatever it is, the rest is not done.
Stop ==
  /\ pc \in Running
  /\ End("stopped")
  /\ UNCHANGED <<remote, database>>

-----------------------------------------------------------------------------
Next ==
  \/ \E i \in Items : EditDrive(i)
  \/ SyncElsewhere
  \/ \E a \in Asks : Preview(a)
  \/ Release \/ Plan
  \/ CreateBackupFolder \/ AuditBackupFolder \/ CopyItem \/ AuditCopy
  \/ AuditPending \/ DeletePermission \/ AuditDone \/ AppendRevokedShare
  \/ RowsDone \/ FinalSync \/ Stop

Spec == Init /\ [][Next]_vars

-----------------------------------------------------------------------------
(* Properties.                                                             *)

\* The log brackets the call, for rows that share one call too: no deletion without a
\* pending entry of a row of its grantee, no entry or history row without the deletion.
LogBracketsCall ==
  /\ \A x \in deleted : \E a \in audit :
       a.cmd = x.cmd /\ a.action = "delete_permission_pending" /\ a.who = x.who
  /\ \A h \in history :
       /\ [cmd |-> h.cmd, target |-> h.target, who |-> h.who] \in deleted
       /\ [cmd |-> h.cmd, action |-> "delete_permission", item |-> h.item,
           who |-> h.who] \in audit

\* A row of the history means what it says: while others change nothing, its grantee
\* has no grant left on the folder it names, nor on any folder above; what access is
\* left was granted below that folder.
RevokedIsGone ==
  edits = 0 =>
    \A h \in history : \A a \in Items :
      h.target \in Subtree(tree, a) => <<a, h.who>> \notin direct

\* Nobody loses access but the grantees asked for, to selected items or to what is in
\* a selected folder, even if the mirror is not up to date.
NobodyElseRevoked ==
  \A x \in lost : x.cmd = cmd => x.via \in ask.want /\ x.who \in ask.who

\* A command whose mirror was right is never refused, except over the access of owners:
\* it deletes each grant once, where it was made.
CallsAccepted ==
  pc = "delete" /\ fresh /\ edits = 0 =>
    \A r \in current : owner[r.target] # r.who => Deletable(r.target, r.who)

\* With --retain-copy, and nobody editing, all that is in an item has its private copy,
\* and the copy is in the audit log, before the first permission is deleted.
CopiedBeforeRevoked ==
  ask.retain /\ edits = 0 =>
    \A x \in deleted : x.cmd = cmd =>
      \A r \in {h \in history : h.cmd = cmd} \cup todo \cup current :
        \A i \in Subtree(tree, r.item) :
          /\ [cmd |-> cmd, item |-> i] \in copied
          /\ [cmd |-> cmd, action |-> "copy_backup", item |-> i, who |-> Root] \in audit

\* No command asks Drive to take an item from its owner.
OwnersKept == pc = "delete" => \A r \in current : owner[r.target] # r.who

=============================================================================
