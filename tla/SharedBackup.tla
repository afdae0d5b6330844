------------------------------ MODULE SharedBackup ------------------------------
(***************************************************************************)
(* `drive-warden backup shared-with-me` and `shared declutter --apply`:    *)
(* every file others share with the operator is fetched, written to a      *)
(* local file and entered in manifest.jsonl; declutter takes out of My     *)
(* Drive what the manifest records.  The two may run at the same time, and *)
(* either may be killed at any step.                                       *)
(*                                                                         *)
(* Where an item is written is a constant: the sanitised path with the     *)
(* extension of the format that was got.  Two items may have one, and one  *)
(* may have the name under which another is written before it is renamed.  *)
(* A copy is of a version of its item; others go on editing theirs.        *)
(***************************************************************************)
EXTENDS Integers, Sequences, FiniteSets, SequencesExt

CONSTANTS
  Items,       \* items others share with the operator
  Folders,     \* the items that are folders
  Earth,       \* the Google Earth projects
  Paths,       \* local paths
  Targets,     \* where an item is written: a path for each format that is tried
  Part,        \* the path of the file <name>.part beside each of these
  Reuse,       \* per item ReuseFiles.find matches a file to: where that is, and goes to
  BackupRank,  \* the place of an item in the order of depth, path and name
  CleanupRank, \* and in that of path, name and id
  NoFile,      \* a path without a file
  Partial,     \* a file written in part
  Foreign,     \* a file the backup did not fetch, of whatever content
  Starts,      \* bound: items shared, and items in My Drive, to begin with
  MaxBackups,  \* bound: backups ever started
  MaxCleanups, \* bound: declutters ever started
  MaxEdits     \* bound: items shared, withdrawn, added to My Drive or edited

Reusable == DOMAIN Reuse

ASSUME ItemsAssumption ==
  /\ IsFiniteSet(Items) /\ Folders \subseteq Items /\ Earth \subseteq Items
  /\ Reuse \in [Reusable -> [from : Paths, to : Paths]]
  /\ Reusable \subseteq Items \ Folders
ASSUME TargetsAssumption ==
  /\ Targets \in [Items -> Seq(Paths)]
  /\ Part \in [UNION {Range(Targets[i]) : i \in Items} -> Paths]
  /\ \A p \in DOMAIN Part : Part[p] # p
ASSUME StartsAssumption == Starts \subseteq [shared : SUBSET Items, held : SUBSET Items]
ASSUME RankAssumption ==
  /\ BackupRank \in [Items -> Nat] /\ CleanupRank \in [Items -> Nat]
  /\ \A i, j \in Items : CleanupRank[i] = CleanupRank[j] => i = j
ASSUME BoundsAssumption == {MaxBackups, MaxCleanups, MaxEdits} \subseteq Nat

\* A copy of an item as it was at one of its versions.
Copies == [of : Items, ver : Nat]

ASSUME FilesAssumption ==
  /\ {NoFile, Partial, Foreign} \cap Copies = {}
  /\ NoFile # Partial /\ NoFile # Foreign /\ Partial # Foreign

VARIABLES
  shared,    \* items others share with the operator
  held,      \* those of them that are in My Drive
  ver,       \* the version of each item
  edits,     \* how often others, or the operator, have changed these
  mirror,    \* the files table: items that are shared, not owned, not trashed
  disk,      \* what is at each local path
  manifest,  \* the lines of manifest.jsonl, each the records written on it
  ended,     \* whether its last line has a newline
  backups,   \* backups started
  bpc,       \* what the backup does next
  reuse,     \* items it has found a file for
  todo,      \* items it has still to look at
  completed, \* items it takes for backed up
  current,   \* the item in work, as a set of at most one
  format,    \* the number of the format that is tried
  bytes,     \* what it has got
  status,    \* the status its record gets
  cleanups,  \* declutters started
  dpc,       \* what declutter does next
  plan,      \* actionable entries it has still to remove
  \* what happened, for the properties only
  whole,     \* whether the manifest ended in a newline when the backup loaded it
  released   \* items declutter took out of My Drive

drive == <<shared, held, ver, edits, mirror>>
files == <<disk, manifest, ended>>
work == <<reuse, todo, completed, current, format, bytes, status>>
backup == <<backups, bpc, work, whole>>
declutter == <<cleanups, dpc, plan, released>>
vars == <<shared, held, ver, edits, mirror, disk, manifest, ended, backups, bpc, reuse, todo,
          completed, current, format, bytes, status, cleanups, dpc, plan, whole, released>>

Success == {"folder", "copied", "downloaded"}
Statuses == Success \cup {"error", "skipped", "torn"}
Records == [item : Items, status : Statuses]
Ended == {"idle", "done", "stopped"}
Backing == {"next", "fetch", "open", "write", "rename", "copy", "copied", "append", "newline"}
Cleaning == {"release", "apply", "sync"}
Formats(i) == 1 .. Len(Targets[i])

TypeOK ==
  /\ shared \subseteq Items /\ held \subseteq Items /\ mirror \subseteq Items
  /\ ver \in [Items -> 0 .. MaxEdits] /\ edits \in 0 .. MaxEdits
  /\ disk \in [Paths -> Copies \cup {NoFile, Partial, Foreign}] /\ bytes \in Copies \cup {NoFile}
  /\ \A l \in Range(manifest) : Range(l) \subseteq Records
  /\ ended \in BOOLEAN /\ backups \in 0 .. MaxBackups
  /\ bpc \in Backing \cup Ended \cup {"hung"}
  /\ reuse \subseteq Reusable /\ todo \subseteq Items /\ completed \subseteq Items /\ current \subseteq Items
  /\ bpc \in {"fetch", "open", "write", "rename"} =>
       \A i \in current : format \in Formats(i)
  /\ status \in Statuses /\ cleanups \in 0 .. MaxCleanups
  /\ dpc \in Cleaning \cup Ended \cup {"hung"}
  /\ plan \subseteq Items /\ whole \in BOOLEAN /\ released \subseteq Items

Init ==
  /\ \E s \in Starts : shared = s.shared /\ held = s.held
  /\ edits = 0 /\ ver = [i \in Items |-> 0] /\ mirror = shared
  /\ disk \in [Paths -> {NoFile, Foreign}]
  /\ \A p \in Paths : disk[p] = Foreign => \E i \in Reusable : p = Reuse[i].from
  /\ manifest = << >> /\ ended = TRUE
  /\ backups = 0 /\ bpc = "idle" /\ reuse = {} /\ todo = {} /\ completed = {} /\ current = {}
  /\ format = 1 /\ bytes = NoFile /\ status = "error" /\ whole = TRUE
  /\ cleanups = 0 /\ dpc = "idle" /\ plan = {} /\ released = {}

-----------------------------------------------------------------------------
(* Others.                                                                 *)

\* Somebody shares an item, or withdraws it.
Share(i) ==
  /\ \/ i \notin shared /\ shared' = shared \cup {i} /\ UNCHANGED held
     \/ i \in shared /\ shared' = shared \ {i} /\ held' = held \ {i}
  /\ UNCHANGED ver

\* The operator adds a shared item to My Drive.
AddToMyDrive(i) ==
  /\ i \in shared \ held
  /\ held' = held \cup {i}
  /\ UNCHANGED <<shared, ver>>

\* Somebody edits an item.
Revise(i) ==
  /\ ver' = [ver EXCEPT ![i] = @ + 1]
  /\ UNCHANGED <<shared, held>>

EditDrive(i) ==
  /\ edits < MaxEdits
  /\ edits' = edits + 1
  /\ Share(i) \/ AddToMyDrive(i) \/ Revise(i)
  /\ UNCHANGED <<mirror, files, backup, declutter>>

\* A sync of another process commits (SyncEngine has the detail).
SyncElsewhere ==
  /\ mirror' = shared
  /\ UNCHANGED <<shared, held, ver, edits, files, backup, declutter>>

-----------------------------------------------------------------------------
(* The orders of the two commands, and --limit: what comes first in them   *)
(* of the shared items.  What a sort leaves equal is in any order.         *)

First(rank, s, i) == i \in s /\ \A j \in s : rank[i] <= rank[j]
Limited(rank) ==
  {s \in SUBSET mirror : \A i \in s, j \in mirror : rank[j] < rank[i] => j \in s}

-----------------------------------------------------------------------------
(* The manifest.                                                           *)

\* load_all_records: a line is one record or it is passed over.
Loaded == {l[1] : l \in {k \in Range(manifest) : Len(k) = 1 /\ k[1].status # "torn"}}

\* Variant with a bug: records of every status count.
CompletedAny == {r.item : r \in Loaded}

\* load_completed_records.
Completed == {r.item : r \in {x \in Loaded : x.status \in Success}}

\* The first of the two writes of writeln: the record, where the file ends.
Write(r) ==
  /\ manifest' = IF ended THEN Append(manifest, <<r>>)
                 ELSE Front(manifest) \o <<Append(Last(manifest), r)>>
  /\ ended' = FALSE

-----------------------------------------------------------------------------
(* The backup.                                                             *)

\* backup_shared_with_me, up to the first item.
BackupStart ==
  /\ bpc \in Ended /\ backups < MaxBackups
  /\ backups' = backups + 1
  /\ completed' = Completed
  /\ reuse' = {i \in Reusable : disk[Reuse[i].from] # NoFile}
  /\ \E taken \in Limited(BackupRank) : todo' = taken \ Completed
  /\ whole' = ended
  /\ bpc' = "next"
  /\ UNCHANGED <<drive, files, current, format, bytes, status, declutter>>

\* The branches of backup_item: folder, file to reuse, unknown Google type, the rest.
BackupItem(i) ==
  /\ bpc = "next" /\ First(BackupRank, todo, i)
  /\ todo' = todo \ {i}
  /\ current' = {i}
  /\ \/ i \in Folders /\ bpc' = "append" /\ status' = "folder"
     \/ i \in reuse /\ bpc' = "copy" /\ UNCHANGED status
     \/ /\ i \notin Folders \cup reuse
        /\ IF Targets[i] = << >> THEN bpc' = "append" /\ status' = "skipped"
           ELSE bpc' = "fetch" /\ UNCHANGED status
  /\ UNCHANGED <<drive, files, backups, reuse, completed, format, bytes, whole, declutter>>

\* Variant with a bug: after the last format comes the first.
NextFormatAgain(i) ==
  /\ bpc' = "fetch" /\ format' = 1 + (format % Len(Targets[i]))
  /\ UNCHANGED <<bytes, status>>

\* The next of export_attempts, or the error is what is recorded.
NextFormat(i) ==
  /\ IF format < Len(Targets[i]) THEN bpc' = "fetch" /\ format' = format + 1 /\ UNCHANGED status
     ELSE bpc' = "append" /\ status' = "error" /\ UNCHANGED format
  /\ UNCHANGED bytes

\* Variant with a bug: the record is written before the file.
FetchedRecordFirst(i) ==
  bpc' = "append" /\ status' = "downloaded" /\ UNCHANGED <<format, bytes>>

Fetched(i) ==
  /\ i \in shared
  /\ bytes' = [of |-> i, ver |-> ver[i]]
  /\ bpc' = "open" /\ UNCHANGED <<format, status>>

\* download_file, export_file or download_url: the bytes, or an error.
Fetch ==
  /\ bpc = "fetch"
  /\ \E i \in current : Fetched(i) \/ NextFormat(i)
  /\ UNCHANGED <<drive, files, backups, reuse, todo, completed, current, whole, declutter>>

\* Neither ever comes: the body of an answer is read without a timeout, and before the
\* first request of a scope the operator is waited for in the browser.
FetchHangs ==
  /\ bpc = "fetch"
  /\ bpc' = "hung"
  /\ UNCHANGED <<drive, files, backups, work, whole, declutter>>

Target(i) == Targets[i][format]

\* write_bytes.  fs::write empties <name>.part ...
OpenPart ==
  /\ bpc = "open"
  /\ \E i \in current : disk' = [disk EXCEPT ![Part[Target(i)]] = Partial]
  /\ bpc' = "write"
  /\ UNCHANGED <<drive, manifest, ended, backups, work, whole, declutter>>

\* ... and fills it;
WritePart ==
  /\ bpc = "write"
  /\ \E i \in current : disk' = [disk EXCEPT ![Part[Target(i)]] = bytes]
  /\ bpc' = "rename"
  /\ UNCHANGED <<drive, manifest, ended, backups, work, whole, declutter>>

\* then it gets the name.
Rename ==
  /\ bpc = "rename"
  /\ \E i \in current : disk' = [disk EXCEPT ![Target(i)] = disk[Part[Target(i)]],
                                             ![Part[Target(i)]] = NoFile]
  /\ bpc' = "append"
  /\ status' = "downloaded"
  /\ UNCHANGED <<drive, manifest, ended, backups, reuse, todo, completed, current, format,
                 bytes, whole, declutter>>

\* The backup ends with an error or the process is killed, and its memory is gone.
Stopped ==
  /\ bpc' = "stopped"
  /\ reuse' = {} /\ todo' = {} /\ completed' = {} /\ current' = {}
  /\ format' = 1 /\ bytes' = NoFile /\ status' = "error"

\* fs::copy of the file that was matched empties the path itself, or finds no file.
CopyStart ==
  /\ bpc = "copy"
  /\ \E i \in current :
       \/ /\ disk[Reuse[i].from] # NoFile
          /\ disk' = [disk EXCEPT ![Reuse[i].to] = Partial]
          /\ bpc' = "copied"
          /\ UNCHANGED work
       \/ disk[Reuse[i].from] = NoFile /\ Stopped /\ UNCHANGED disk
  /\ UNCHANGED <<drive, manifest, ended, backups, whole, declutter>>

\* What it then has to copy is what the file has: nothing, if it is the same.
CopyReused ==
  /\ bpc = "copied"
  /\ \E i \in current : disk' = [disk EXCEPT ![Reuse[i].to] = disk[Reuse[i].from]]
  /\ bpc' = "append"
  /\ status' = "copied"
  /\ UNCHANGED <<drive, manifest, ended, backups, reuse, todo, completed, current, format,
                 bytes, whole, declutter>>

\* append_manifest_record.
AppendRecord ==
  /\ bpc = "append"
  /\ \E i \in current : Write([item |-> i, status |-> status])
  /\ bpc' = "newline"
  /\ UNCHANGED <<drive, disk, backups, work, whole, declutter>>

\* Variant with a bug: write! instead of writeln!.
EndLineNever == UNCHANGED ended

EndLine == ended' = TRUE

\* ... the second write; a success is not looked at again.
AppendNewline ==
  /\ bpc = "newline"
  /\ EndLine
  /\ completed' = completed \cup (IF status \in Success THEN current ELSE {})
  /\ current' = {} /\ format' = 1 /\ bytes' = NoFile /\ status' = "error"
  /\ bpc' = "next"
  /\ UNCHANGED <<drive, disk, manifest, backups, reuse, todo, whole, declutter>>

\* build_summary.
BackupDone ==
  /\ bpc = "next" /\ todo = {}
  /\ bpc' = "done"
  /\ UNCHANGED <<drive, files, backups, work, whole, declutter>>

\* A write fails or the process is killed; of a record a part may have been written.
BackupStops ==
  /\ bpc \in Backing \cup {"hung"}
  /\ Stopped
  /\ \/ UNCHANGED <<manifest, ended>>
     \/ /\ bpc = "append"
        /\ \E i \in current : Write([item |-> i, status |-> "torn"])
  /\ UNCHANGED <<drive, disk, backups, whole, declutter>>

-----------------------------------------------------------------------------
(* Declutter.                                                              *)

\* classify_item, with the manifest: folders are placeholders, Earth needs a browser.
Actionable == (mirror \cap Completed) \ (Folders \cup Earth)

\* plan_shared_declutter, and the confirmation; nothing is planned again afterwards.
DeclutterPlan ==
  /\ dpc \in Ended /\ cleanups < MaxCleanups
  /\ cleanups' = cleanups + 1
  /\ \E taken \in Limited(CleanupRank) : plan' = Actionable \cap taken
  /\ dpc' \in {IF plan' # {} THEN "release" ELSE "apply", "stopped"}
  /\ UNCHANGED <<drive, files, backup, released>>

\* create_pre_mutation_release.
Release ==
  /\ dpc = "release"
  /\ dpc' = "apply"
  /\ UNCHANGED <<drive, files, backup, cleanups, plan, released>>

\* remove_my_drive_parent; a failure is noted and the next entry taken.  The item stays
\* shared, and in the files table.
RemoveParent(i) ==
  /\ dpc = "apply" /\ First(CleanupRank, plan, i)
  /\ plan' = plan \ {i}
  /\ \/ i \in held /\ held' = held \ {i} /\ released' = released \cup {i}
     \/ UNCHANGED <<held, released>>
  /\ UNCHANGED <<shared, ver, edits, mirror, files, backup, cleanups, dpc>>

ApplyDone ==
  /\ dpc = "apply" /\ plan = {}
  /\ dpc' = "sync"
  /\ UNCHANGED <<drive, files, backup, cleanups, plan, released>>

\* The full sync that ends the command.
FinalSync ==
  /\ dpc = "sync"
  /\ mirror' = shared
  /\ dpc' = "done"
  /\ UNCHANGED <<shared, held, ver, edits, files, backup, cleanups, plan, released>>

\* The operator is waited for in the browser, or a body never ends.
DeclutterHangs ==
  /\ dpc \in Cleaning
  /\ dpc' = "hung"
  /\ UNCHANGED <<drive, files, backup, cleanups, plan, released>>

DeclutterStops ==
  /\ dpc \in Cleaning \cup {"hung"}
  /\ dpc' = "stopped"
  /\ plan' = {}
  /\ UNCHANGED <<drive, files, backup, cleanups, released>>

-----------------------------------------------------------------------------
BackupStep ==
  \/ \E i \in Items : BackupItem(i)
  \/ Fetch \/ OpenPart \/ WritePart \/ Rename \/ CopyStart \/ CopyReused
  \/ AppendRecord \/ AppendNewline \/ BackupDone

DeclutterStep ==
  Release \/ ApplyDone \/ FinalSync \/ \E i \in Items : RemoveParent(i)

Next ==
  \/ \E i \in Items : EditDrive(i)
  \/ SyncElsewhere
  \/ BackupStart \/ BackupStep \/ FetchHangs \/ BackupStops
  \/ DeclutterPlan \/ DeclutterStep \/ DeclutterHangs \/ DeclutterStops

\* A command that was started goes on, but for what it may wait for without end.
Fairness == WF_vars(BackupStep) /\ WF_vars(DeclutterStep)

Spec == Init /\ [][Next]_vars
FairSpec == Spec /\ Fairness

-----------------------------------------------------------------------------
(* Properties.                                                             *)

Writes(i) ==
  Range(Targets[i]) \cup {Part[p] : p \in Range(Targets[i])}
    \cup (IF i \in Reusable THEN {Reuse[i].to} ELSE {})

\* Files that are fetched, at paths nothing else is written to, not even in passing.
Alone ==
  {i \in Items \ (Folders \cup Reusable) :
     /\ \A p, q \in Range(Targets[i]) : Part[p] # q
     /\ \A j \in Items \ (Folders \cup {i}) : Range(Targets[i]) \cap Writes(j) = {}}

\* The copies of an item that are whole.
CopiesOf(i) == {c \in {disk[Targets[i][k]] : k \in Formats(i)} : c \in Copies /\ c.of = i}

\* A success record is never ahead of its file: whatever step the process is killed at, a
\* file that is recorded as backed up is on the disk, and whole.
RecordedIsWhole == \A i \in Completed \cap Alone : CopiesOf(i) # {}

\* What a finished backup counts as completed is in the manifest for the next one to find,
\* provided that the line before its first was complete.
CompletedIsRecorded == bpc = "done" /\ whole => completed \subseteq Completed

\* Backup and declutter implement the promise of Custody, for the files that were fetched:
\* no order of the two, and no crash of either, lets go of a file without a copy of it, or
\* loses a copy but for a newer one.
C == INSTANCE Custody WITH
  Things <- Alone,
  now <- [i \in Alone |-> ver[i]],
  kept <- UNION {CopiesOf(i) : i \in Alone},
  released <- released \cap Alone
KeepsCustody == C!Spec

\* A backup comes to its end, however many formats fail, unless an answer never comes; and
\* so does declutter.
Finishes ==
  /\ bpc \in Backing ~> bpc \in Ended \cup {"hung"}
  /\ dpc \in Cleaning ~> dpc \in Ended \cup {"hung"}

\* What was taken out of My Drive has its copy, of whatever name it was.
ReleasedHasCopy == \A i \in released : CopiesOf(i) # {}

\* ... a copy of what it is when it is taken.
ReleasedIsCurrent ==
  [][\A i \in Items : RemoveParent(i) /\ held' # held =>
       [of |-> i, ver |-> ver[i]] \in CopiesOf(i)]_vars

=============================================================================
