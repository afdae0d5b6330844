------------------------------- MODULE RemoteDb -------------------------------
(***************************************************************************)
(* `drive-warden db remote push | pull | sync`: several machines, each     *)
(* with a local database, share a copy of it in a Drive folder: a database *)
(* file and a manifest that holds its checksum and a generation.  Drive    *)
(* has no transaction over the two files, allows two files of one name,    *)
(* and nothing keeps two commands, on one machine or on two, apart.        *)
(*                                                                         *)
(* The content of a database is the set of edits that were committed in    *)
(* it, with its remote_sync_state.  A snapshot's checksum is its number:   *)
(* each differs, because opening a database writes the time into it.       *)
(***************************************************************************)
EXTENDS Integers, FiniteSets

CONSTANTS
  Machines,   \* each with a local database
  Procs,      \* the processes that run a remote command
  Host,       \* [Procs -> Machines]
  Overlap,    \* whether commands on one machine may overlap
  MaxEdits,   \* bound: commits to any local database by other commands
  MaxSnaps,   \* bound: snapshots taken
  MaxFolders, \* bound: remote folders created
  MaxFiles,   \* bound: remote files created
  MaxLost     \* bound: answers of Drive that get lost

ASSUME HostAssumption == Host \in [Procs -> Machines] /\ Overlap \in BOOLEAN
ASSUME BoundsAssumption ==
  /\ MaxEdits \in Nat /\ MaxSnaps \in Nat /\ MaxFolders \in Nat /\ MaxFiles \in Nat
  /\ MaxLost \in Nat

VARIABLES
  \* Google Drive (external)
  folders,    \* number of folders that have the configured name
  files,      \* number of files created in them
  file,       \* [1 .. MaxFiles -> what the file is and holds]
  lost,       \* answers lost after Drive did what it was asked
  \* the machines
  edits,      \* edits committed so far
  made,       \* [Machines -> edits committed there]
  local,      \* [Machines -> the database]
  backup,     \* [Machines -> edits that some backup of it holds]
  scratch,    \* [Machines -> the file the snapshot is taken to]
  \* the snapshots ever taken, by number
  snaps, snap,
  \* the processes
  proc        \* [Procs -> the process' memory]

remote == <<folders, files, file, lost>>
taken == <<snaps, snap>>
vars == <<folders, files, file, lost, edits, made, local, backup, scratch, snaps, snap, proc>>

Torn == 0     \* checksum of a snapshot that was read before it was complete
None == 0     \* no such file
Edits == 1 .. MaxEdits
Snaps == 0 .. MaxSnaps
FileIds == 1 .. MaxFiles
Generations == 0 .. MaxSnaps

Content == [edits : SUBSET Edits, gen : Generations, last : Snaps]
NoContent == [edits |-> {}, gen |-> 0, last |-> 0]
RemoteFile ==
  [folder : 0 .. MaxFolders, name : {"db", "manifest"}, snap : Snaps, gen : Generations]
NoFile == [folder |-> 0, name |-> "db", snap |-> Torn, gen |-> 0]
Phases == {"idle", "folder", "create", "db", "manifest", "vacuum", "vacuuming", "read",
           "upload", "vouch", "download", "backup", "install", "record"}
Commands == {"push", "pull", "sync"}
Memory == [at : Phases, cmd : Commands, push : BOOLEAN, had : BOOLEAN,
           folder : 0 .. MaxFolders, db : 0 .. MaxFiles, man : 0 .. MaxFiles,
           snap : Snaps, gen : Generations]
Idle == [at |-> "idle", cmd |-> "push", push |-> FALSE, had |-> FALSE,
         folder |-> 0, db |-> None, man |-> None, snap |-> Torn, gen |-> 0]

TypeOK ==
  /\ folders \in 0 .. MaxFolders
  /\ files \in 0 .. MaxFiles
  /\ file \in [FileIds -> RemoteFile]
  /\ lost \in 0 .. MaxLost
  /\ edits \in 0 .. MaxEdits
  /\ made \in [Machines -> SUBSET Edits]
  /\ local \in [Machines -> [there : BOOLEAN, db : Content]]
  /\ backup \in [Machines -> SUBSET Edits]
  /\ scratch \in [Machines -> [snap : Snaps, whole : BOOLEAN]]
  /\ snaps \in Snaps
  /\ snap \in [Snaps -> Content]
  /\ proc \in [Procs -> Memory]

Init ==
  /\ folders = 0 /\ files = 0 /\ file = [i \in FileIds |-> NoFile] /\ lost = 0
  /\ edits = 0
  /\ made = [m \in Machines |-> {}]
  /\ local \in [Machines -> [there : BOOLEAN, db : {NoContent}]]
  /\ backup = [m \in Machines |-> {}]
  /\ scratch = [m \in Machines |-> [snap |-> 0, whole |-> FALSE]]
  /\ snaps = 0 /\ snap = [s \in Snaps |-> NoContent]
  /\ proc = [p \in Procs |-> Idle]

-----------------------------------------------------------------------------
Busy(m) == \E p \in Procs : Host[p] = m /\ proc[p].at # "idle"

Goto(p, phase) == proc' = [proc EXCEPT ![p].at = phase]

\* The command ends, its memory is gone.
Exit(p) == proc' = [proc EXCEPT ![p] = Idle]

\* execute_google_request, of a call that Drive has carried out: p goes on with the
\* answer, or the answer is lost or late and p, where it was, asks again.  When that
\* was its last attempt it stops.
Answered(p, memory) ==
  \/ proc' = [proc EXCEPT ![p] = memory] /\ UNCHANGED lost
  \/ lost < MaxLost /\ lost' = lost + 1 /\ UNCHANGED proc

\* Another command, a sync or an --apply, commits to the local database.
EditLocal(m) ==
  /\ edits < MaxEdits
  /\ Overlap \/ ~Busy(m)
  /\ edits' = edits + 1
  /\ made' = [made EXCEPT ![m] = @ \cup {edits + 1}]
  /\ local' = [local EXCEPT ![m] =
       [there |-> TRUE, db |-> [local[m].db EXCEPT !.edits = @ \cup {edits + 1}]]]
  /\ UNCHANGED <<remote, backup, scratch, taken, proc>>

\* push needs a local database; pull and sync look whether there is one.
Start(p, cmd) ==
  LET m == Host[p]
  IN /\ proc[p].at = "idle"
     /\ Overlap \/ ~Busy(m)
     /\ cmd = "push" => local[m].there
     /\ proc' = [proc EXCEPT ![p] = [Idle EXCEPT !.at = "folder", !.cmd = cmd,
                   !.push = (cmd = "push"), !.had = local[m].there]]
     /\ UNCHANGED <<remote, edits, made, local, backup, scratch, taken>>

-----------------------------------------------------------------------------
(* load_remote_db_endpoint.                                                *)

\* decide_remote_db_sync.
Decision(localExists, remoteExists) ==
  CASE localExists /\ ~remoteExists -> "push"
    [] ~localExists /\ remoteExists -> "pull"
    [] OTHER -> "refuse"

\* What follows the status: a push looks up the endpoint anew, a pull goes on
\* with the one it has and insists on both files.
AfterStatus(p, db, man) ==
  LET me == proc[p]
      way == IF me.cmd = "pull" THEN "pull" ELSE Decision(me.had, db # None)
  IN CASE way = "push" -> [me EXCEPT !.at = "folder", !.push = TRUE]
       [] way = "pull" /\ db # None /\ man # None -> [me EXCEPT !.at = "download"]
       [] OTHER -> Idle

\* find_remote_db_folder: of several folders of that name, any.
FindFolder(p) ==
  /\ proc[p].at = "folder"
  /\ \/ \E f \in 1 .. folders :
          proc' = [proc EXCEPT ![p].folder = f, ![p].at = "db"]
     \/ folders = 0 /\ proc[p].push /\ Goto(p, "create")
     \/ folders = 0 /\ ~proc[p].push
          /\ proc' = [proc EXCEPT ![p] = AfterStatus(p, None, None)]
  /\ UNCHANGED <<remote, edits, made, local, backup, scratch, taken>>

\* create_folder, for a push only.
CreateFolder(p) ==
  /\ proc[p].at = "create"
  /\ folders < MaxFolders
  /\ folders' = folders + 1
  /\ Answered(p, [proc[p] EXCEPT !.folder = folders + 1, !.at = "db"])
  /\ UNCHANGED <<files, file, edits, made, local, backup, scratch, taken>>

\* find_file_in_folder: of several files of that name, any.
Found(f, name) ==
  LET there == {i \in 1 .. files : file[i].folder = f /\ file[i].name = name}
  IN IF there = {} THEN {None} ELSE there

FindDb(p) ==
  /\ proc[p].at = "db"
  /\ \E i \in Found(proc[p].folder, "db") :
       proc' = [proc EXCEPT ![p].db = i, ![p].at = "manifest"]
  /\ UNCHANGED <<remote, edits, made, local, backup, scratch, taken>>

\* The manifest is found and downloaded.
FindManifest(p) ==
  LET me == proc[p]
  IN /\ me.at = "manifest"
     /\ \E i \in Found(me.folder, "manifest") :
          proc' = [proc EXCEPT ![p] =
            IF me.push THEN [me EXCEPT !.man = i, !.at = "vacuum"]
            ELSE LET next == AfterStatus(p, me.db, i)
                 IN IF next.at = "download"
                    THEN [next EXCEPT !.man = i, !.snap = file[i].snap, !.gen = file[i].gen]
                    ELSE next]
     /\ UNCHANGED <<remote, edits, made, local, backup, scratch, taken>>

-----------------------------------------------------------------------------
(* push_remote_db.                                                         *)

VacuumNumbered(p, generation) ==
  LET m == Host[p]
  IN /\ proc[p].at = "vacuum"
     /\ local[m].there
     /\ snaps < MaxSnaps
     /\ snaps' = snaps + 1
     /\ snap' = [snap EXCEPT ![snaps + 1] = local[m].db]
     /\ scratch' = [scratch EXCEPT ![m] = [snap |-> snaps + 1, whole |-> FALSE]]
     /\ proc' = [proc EXCEPT ![p].snap = snaps + 1, ![p].gen = generation,
                             ![p].at = "vacuuming"]
     /\ UNCHANGED <<remote, edits, made, local, backup>>

\* Variant with a bug: the generation is counted twice.
VacuumCountingTwice(p) == VacuumNumbered(p, local[Host[p]].db.gen + 2)

\* snapshot_to: what the scratch path holds is removed, VACUUM INTO begins.  The
\* manifest will carry the generation after the local one.
VacuumStart(p) == VacuumNumbered(p, local[Host[p]].db.gen + 1)

\* VACUUM INTO is done; if the path was removed meanwhile, nobody sees it.
VacuumEnd(p) ==
  LET m == Host[p]
  IN /\ proc[p].at = "vacuuming"
     /\ scratch' = [scratch EXCEPT ![m].whole = @ \/ scratch[m].snap = proc[p].snap]
     /\ Goto(p, "read")
     /\ UNCHANGED <<remote, edits, made, local, backup, taken>>

\* What is at the scratch path is read, checksummed and removed.
ReadSnapshot(p) ==
  LET m == Host[p]
  IN /\ proc[p].at = "read"
     /\ scratch[m].snap # 0
     /\ proc' = [proc EXCEPT ![p].at = "upload",
          ![p].snap = IF scratch[m].whole THEN scratch[m].snap ELSE Torn]
     /\ scratch' = [scratch EXCEPT ![m] = [snap |-> 0, whole |-> FALSE]]
     /\ UNCHANGED <<remote, edits, made, local, backup, taken>>

PutAt(p, target, name, gen) ==
  /\ target = files + 1 => files < MaxFiles
  /\ files' = IF target = files + 1 THEN target ELSE files
  /\ file' = [file EXCEPT ![target] =
       [folder |-> proc[p].folder, name |-> name, snap |-> proc[p].snap, gen |-> gen]]

\* Variant with a bug: always a new file.
PutNew(p, i, name, gen) == PutAt(p, files + 1, name, gen)

\* upload_or_update_remote_file: an update of the file that was found, or a new file.
Put(p, i, name, gen) == PutAt(p, IF i = None THEN files + 1 ELSE i, name, gen)

UploadDb(p) ==
  /\ proc[p].at = "upload"
  /\ Put(p, proc[p].db, "db", 0)
  /\ Answered(p, [proc[p] EXCEPT !.db = IF @ = None THEN files + 1 ELSE @, !.at = "vouch"])
  /\ UNCHANGED <<folders, edits, made, local, backup, scratch, taken>>

\* Variant with a bug: a manifest that is there is kept.
UploadManifestOnce(p) ==
  /\ proc[p].at = "vouch"
  /\ IF proc[p].man = None THEN Put(p, None, "manifest", proc[p].gen)
     ELSE UNCHANGED <<files, file>>
  /\ Answered(p, [proc[p] EXCEPT !.man = IF @ = None THEN files + 1 ELSE @, !.at = "record"])
  /\ UNCHANGED <<folders, edits, made, local, backup, scratch, taken>>

UploadManifest(p) ==
  /\ proc[p].at = "vouch"
  /\ Put(p, proc[p].man, "manifest", proc[p].gen)
  /\ Answered(p, [proc[p] EXCEPT !.man = IF @ = None THEN files + 1 ELSE @, !.at = "record"])
  /\ UNCHANGED <<folders, edits, made, local, backup, scratch, taken>>

\* record_remote_sync, of a push as of a pull: generation and checksum of the
\* manifest.  The database a torn copy makes cannot be opened.
Record(p) ==
  LET m == Host[p]
  IN /\ proc[p].at = "record"
     /\ proc[p].push \/ proc[p].snap # Torn
     /\ local' = [local EXCEPT ![m].db.gen = proc[p].gen, ![m].db.last = proc[p].snap]
     /\ Exit(p)
     /\ UNCHANGED <<remote, edits, made, backup, scratch, taken>>

-----------------------------------------------------------------------------
(* pull_remote_db.                                                         *)

\* Variant with a bug: the download is not held against the manifest.
DownloadUnverified(p) ==
  /\ proc[p].at = "download"
  /\ proc' = [proc EXCEPT ![p].snap = file[proc[p].db].snap, ![p].at = "backup"]
  /\ UNCHANGED <<remote, edits, made, local, backup, scratch, taken>>

\* The database file as it is now must match the manifest read before.
Download(p) ==
  /\ proc[p].at = "download"
  /\ IF file[proc[p].db].snap = proc[p].snap THEN Goto(p, "backup") ELSE Exit(p)
  /\ UNCHANGED <<remote, edits, made, local, backup, scratch, taken>>

\* Variant with a bug: a database that was pushed or pulled before needs no backup.
BackupIfNeverSynced(p) ==
  LET m == Host[p]
  IN /\ proc[p].at = "backup"
     /\ backup' = [backup EXCEPT ![m] =
          IF local[m].db.last = 0 THEN @ \cup local[m].db.edits ELSE @]
     /\ Goto(p, "install")
     /\ UNCHANGED <<remote, edits, made, local, scratch, taken>>

\* The local database, if there is one, is copied beside itself.
Backup(p) ==
  LET m == Host[p]
  IN /\ proc[p].at = "backup"
     /\ backup' = [backup EXCEPT ![m] = @ \cup local[m].db.edits]
     /\ Goto(p, "install")
     /\ UNCHANGED <<remote, edits, made, local, scratch, taken>>

\* The download is written to a temporary file and renamed over the database.
Install(p) ==
  LET m == Host[p]
  IN /\ proc[p].at = "install"
     /\ local' = [local EXCEPT ![m] = [there |-> TRUE, db |-> snap[proc[p].snap]]]
     /\ Goto(p, "record")
     /\ UNCHANGED <<remote, edits, made, backup, scratch, taken>>

\* A call fails, the operator declines, or the process is killed.
Stop(p) ==
  /\ proc[p].at # "idle"
  /\ Exit(p)
  /\ UNCHANGED <<remote, edits, made, local, backup, scratch, taken>>

-----------------------------------------------------------------------------
Command(p) ==
  \/ \E cmd \in Commands : Start(p, cmd)
  \/ FindFolder(p) \/ CreateFolder(p) \/ FindDb(p) \/ FindManifest(p)
  \/ VacuumStart(p) \/ VacuumEnd(p) \/ ReadSnapshot(p)
  \/ UploadDb(p) \/ UploadManifest(p)
  \/ Download(p) \/ Backup(p) \/ Install(p)
  \/ Record(p)
  \/ Stop(p)

Next ==
  \/ \E m \in Machines : EditLocal(m)
  \/ \E p \in Procs : Command(p)

Spec == Init /\ [][Next]_vars

-----------------------------------------------------------------------------
(* Properties.                                                             *)

\* With one command at a time on a machine, whatever crashes and whatever other
\* machines do: no commit is lost by a pull, it is in the database or in a backup.
NoEditLost ==
  \A m \in Machines : made[m] \subseteq local[m].db.edits \cup backup[m]

\* With one command at a time on a machine: the checksum in remote_sync_state is
\* that of a snapshot the database descends from, and the generation beside it is
\* a later one, so that the ledger can be held against a manifest.
LedgerTellsTruth ==
  \A m \in Machines :
    LET db == local[m].db
    IN db.last # 0 => snap[db.last].edits \subseteq db.edits /\ snap[db.last].gen < db.gen

Pushing(p, phase) == proc[p].push /\ proc[p].at = phase

\* A push that reports success has left a pair that belongs together, unless another
\* push is between its two uploads; and if no answer was ever lost, that is the only
\* pair its folder has, so that a pull accepts it.
PushLeavesPair ==
  (\A q \in Procs : ~Pushing(q, "vouch")) =>
    \A p \in Procs : Pushing(p, "record") =>
      /\ file[proc[p].db].snap = file[proc[p].man].snap
      /\ lost = 0 => \A i \in Found(proc[p].folder, "db"), j \in Found(proc[p].folder, "manifest") :
                       file[i].snap = file[j].snap

\* The files that have the name of an earlier one in their folder.
Twins ==
  {i \in 1 .. files : \E j \in 1 .. (i - 1) :
     file[i].folder = file[j].folder /\ file[i].name = file[j].name}

\* One command at a time: a push that is tried again after a crash at any step finds
\* the folder and the files the last one left.  What there is twice was made by a
\* call whose answer got lost, one for each.
RetriesDuplicateNothing == folders + Cardinality(Twins) <= lost + 1

\* `db remote sync` fails safely when both copies exist: it never overwrites.
SyncNeverOverwrites ==
  \A p \in Procs : proc[p].cmd = "sync" /\ proc[p].at = "upload" => proc[p].db = None

\* What a manifest vouches for is a consistent snapshot.
VouchedIsWhole ==
  \A i \in 1 .. files : file[i].name = "manifest" => file[i].snap # Torn

=============================================================================
