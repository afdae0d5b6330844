---------------------------- MODULE RemoteDbProofs ----------------------------
(***************************************************************************)
(* Theorems of RemoteDb, for any machines, processes and bounds.           *)
(***************************************************************************)
EXTENDS RemoteDb, FiniteSetTheorems, TLAPS

-----------------------------------------------------------------------------
(* Types.                                                                  *)

\* A generation counts the snapshots at most: a push adds one to a generation that
\* some snapshot before it had.
GenBounded ==
  /\ \A m \in Machines : local[m].db.gen <= snaps
  /\ \A s \in Snaps : snap[s].gen <= snaps
  /\ \A i \in FileIds : file[i].gen <= snaps
  /\ \A p \in Procs : proc[p].gen <= snaps

LEMMA IdleIsMemory == Idle \in Memory
  BY BoundsAssumption DEF Idle, Memory, Phases, Commands, Snaps, Generations, None, Torn

\* What a lookup returns is a file of that name, or None.
LEMMA FoundIsFile ==
  ASSUME TypeOK, NEW f, NEW name, NEW i \in Found(f, name)
  PROVE  i \in 0 .. MaxFiles /\ (i # None => i \in FileIds /\ file[i].name = name)
<1> DEFINE there == {j \in 1 .. files : file[j].folder = f /\ file[j].name = name}
<1>1. files \in Nat /\ files <= MaxFiles /\ MaxFiles \in Nat
  BY BoundsAssumption DEF TypeOK
<1>2. there \subseteq FileIds
  BY <1>1 DEF FileIds
<1> QED
  BY <1>1, <1>2 DEF Found, None, FileIds

\* After the status, the memory differs from what it was in two fields at most, or
\* is gone.
LEMMA AfterStatusIs ==
  ASSUME NEW p \in Procs, NEW db, NEW man, TypeOK
  PROVE  /\ AfterStatus(p, db, man) \in
              {Idle, [proc[p] EXCEPT !.at = "folder", !.push = TRUE],
               [proc[p] EXCEPT !.at = "download"]}
         /\ AfterStatus(p, db, man).at = "download" => db # None /\ man # None
         /\ AfterStatus(p, db, man) \in Memory
         /\ AfterStatus(p, db, man).gen \in {0, proc[p].gen}
<1>1. proc[p] \in Memory
  BY DEF TypeOK
<1>2. /\ [proc[p] EXCEPT !.at = "folder", !.push = TRUE] \in Memory
      /\ [proc[p] EXCEPT !.at = "folder", !.push = TRUE].at = "folder"
      /\ [proc[p] EXCEPT !.at = "folder", !.push = TRUE].gen = proc[p].gen
      /\ [proc[p] EXCEPT !.at = "download"] \in Memory
      /\ [proc[p] EXCEPT !.at = "download"].gen = proc[p].gen
  BY <1>1 DEF Memory, Phases
<1>3. Idle \in Memory /\ Idle.at = "idle" /\ Idle.gen = 0
  BY IdleIsMemory DEF Idle
<1> QED
  BY <1>2, <1>3 DEF AfterStatus

\* Types and bounds are kept by every step of a command.
LEMMA CommandTypes ==
  ASSUME NEW p \in Procs, Command(p), TypeOK, GenBounded
  PROVE  TypeOK' /\ GenBounded'
<1> DEFINE m == Host[p]
<1> USE BoundsAssumption DEF Snaps, Generations, FileIds
<1>1. m \in Machines
  BY HostAssumption
<1>2. proc[p] \in Memory /\ Idle \in Memory /\ Idle.gen = 0
  BY IdleIsMemory DEF TypeOK, Idle
<1>0. /\ snaps \in 0 .. MaxSnaps /\ MaxSnaps \in Nat /\ snaps \in Nat /\ 0 <= snaps
      /\ proc[p].gen \in Nat /\ proc[p].gen <= snaps
  BY <1>2 DEF TypeOK, GenBounded, Memory
<1>3. ASSUME UNCHANGED <<remote, edits, made, local, backup, scratch, taken>>,
             NEW memory \in Memory, memory.gen <= snaps,
             proc' = [proc EXCEPT ![p] = memory]
      PROVE  TypeOK' /\ GenBounded'
  BY <1>3 DEF TypeOK, GenBounded, remote, taken
<1>20. ASSUME NEW memory \in Memory, memory.gen <= snaps, Answered(p, memory)
       PROVE  /\ proc' \in [Procs -> Memory] /\ \A q \in Procs : proc'[q].gen <= snaps
              /\ lost' \in 0 .. MaxLost
  <2>1. CASE proc' = [proc EXCEPT ![p] = memory] /\ UNCHANGED lost
    BY <1>20, <2>1 DEF TypeOK, GenBounded
  <2>2. CASE lost < MaxLost /\ lost' = lost + 1 /\ UNCHANGED proc
    BY <2>2 DEF TypeOK, GenBounded
  <2> QED
    BY <1>20, <2>1, <2>2 DEF Answered
<1>4. ASSUME NEW cmd \in Commands, Start(p, cmd)
      PROVE  TypeOK' /\ GenBounded'
  <2> DEFINE memory == [Idle EXCEPT !.at = "folder", !.cmd = cmd, !.push = (cmd = "push"),
                                    !.had = local[m].there]
  <2>1. memory \in Memory /\ memory.gen = 0
    BY <1>1, <1>2 DEF TypeOK, Memory, Phases, Idle
  <2>2. proc' = [proc EXCEPT ![p] = memory]
    BY <1>4 DEF Start
  <2> HIDE DEF memory
  <2> QED
    BY <1>0, <1>3, <1>4, <2>1, <2>2 DEF Start
<1>5. CASE FindFolder(p)
  <2>1. UNCHANGED <<remote, edits, made, local, backup, scratch, taken>>
    BY <1>5 DEF FindFolder
  <2>2. CASE \E f \in 1 .. folders : proc' = [proc EXCEPT ![p].folder = f, ![p].at = "db"]
    <3>1. PICK f \in 1 .. folders : proc' = [proc EXCEPT ![p].folder = f, ![p].at = "db"]
      BY <2>2
    <3> DEFINE memory == [proc[p] EXCEPT !.folder = f, !.at = "db"]
    <3>2. memory \in Memory /\ memory.gen = proc[p].gen
      <4>1. f \in 0 .. MaxFolders
        BY DEF TypeOK
      <4> QED
        BY <1>2, <4>1 DEF Memory, Phases
    <3>3. proc' = [proc EXCEPT ![p] = memory]
      BY <3>1
    <3> HIDE DEF memory
    <3> QED
      BY <1>3, <2>1, <3>2, <3>3 DEF GenBounded
  <2>3. CASE Goto(p, "create")
    <3> DEFINE memory == [proc[p] EXCEPT !.at = "create"]
    <3>1. memory \in Memory /\ memory.gen = proc[p].gen
      BY <1>2 DEF Memory, Phases
    <3>2. proc' = [proc EXCEPT ![p] = memory]
      BY <2>3 DEF Goto
    <3> HIDE DEF memory
    <3> QED
      BY <1>3, <2>1, <3>1, <3>2 DEF GenBounded
  <2>4. CASE proc' = [proc EXCEPT ![p] = AfterStatus(p, None, None)]
    <3> DEFINE memory == AfterStatus(p, None, None)
    <3>1. memory \in Memory /\ memory.gen \in {0, proc[p].gen}
      BY AfterStatusIs
    <3> HIDE DEF memory
    <3>2. memory.gen <= snaps
      BY <1>0, <3>1
    <3>3. proc' = [proc EXCEPT ![p] = memory]
      BY <2>4 DEF memory
    <3> QED
      BY <1>3, <2>1, <3>1, <3>2, <3>3
  <2> QED
    BY <1>5, <2>2, <2>3, <2>4 DEF FindFolder
<1>6. CASE CreateFolder(p)
  <2> DEFINE memory == [proc[p] EXCEPT !.folder = folders + 1, !.at = "db"]
  <2>1. memory \in Memory /\ memory.gen = proc[p].gen
    <3>1. folders + 1 \in 0 .. MaxFolders
      BY <1>6 DEF CreateFolder, TypeOK
    <3> QED
      BY <1>2, <3>1 DEF Memory, Phases
  <2>2. Answered(p, memory)
    BY <1>6 DEF CreateFolder
  <2> HIDE DEF memory
  <2>3. folders' \in 0 .. MaxFolders
    BY <1>6 DEF CreateFolder, TypeOK
  <2>4. /\ proc' \in [Procs -> Memory] /\ \A q \in Procs : proc'[q].gen <= snaps
        /\ lost' \in 0 .. MaxLost
    BY <1>0, <1>20, <2>1, <2>2
  <2>5. UNCHANGED <<files, file, edits, made, local, backup, scratch, snaps, snap>>
    BY <1>6 DEF CreateFolder, taken
  <2> QED
    BY <2>3, <2>4, <2>5 DEF TypeOK, GenBounded
<1>7. CASE FindDb(p)
  <2>1. PICK i \in Found(proc[p].folder, "db") :
          proc' = [proc EXCEPT ![p].db = i, ![p].at = "manifest"]
    BY <1>7 DEF FindDb
  <2> DEFINE memory == [proc[p] EXCEPT !.db = i, !.at = "manifest"]
  <2>2. memory \in Memory /\ memory.gen = proc[p].gen
    BY <1>2, FoundIsFile DEF Memory, Phases
  <2>3. proc' = [proc EXCEPT ![p] = memory]
    BY <2>1
  <2> HIDE DEF memory
  <2> QED
    BY <1>3, <1>7, <2>2, <2>3 DEF FindDb, GenBounded
<1>8. CASE FindManifest(p)
  <2> DEFINE next(i) == AfterStatus(p, proc[p].db, i)
             memory(i) ==
               IF proc[p].push THEN [proc[p] EXCEPT !.man = i, !.at = "vacuum"]
               ELSE IF next(i).at = "download"
                    THEN [next(i) EXCEPT !.man = i, !.snap = file[i].snap, !.gen = file[i].gen]
                    ELSE next(i)
  <2>1. PICK i \in Found(proc[p].folder, "manifest") : proc' = [proc EXCEPT ![p] = memory(i)]
    BY <1>8 DEF FindManifest
  <2>2. i \in 0 .. MaxFiles /\ (i # None => i \in FileIds)
    BY FoundIsFile
  <2>3. /\ [proc[p] EXCEPT !.man = i, !.at = "vacuum"] \in Memory
        /\ [proc[p] EXCEPT !.man = i, !.at = "vacuum"].gen = proc[p].gen
    BY <1>2, <2>2 DEF Memory, Phases
  <2>4. next(i) \in Memory /\ next(i).gen \in {0, proc[p].gen}
    BY AfterStatusIs
  <2>5. ASSUME next(i).at = "download"
        PROVE  /\ [next(i) EXCEPT !.man = i, !.snap = file[i].snap, !.gen = file[i].gen] \in Memory
               /\ [next(i) EXCEPT !.man = i, !.snap = file[i].snap, !.gen = file[i].gen].gen = file[i].gen
               /\ file[i].gen <= snaps
    <3>1. i \in FileIds
      BY <2>2, <2>5, AfterStatusIs
    <3>2. file[i] \in RemoteFile /\ file[i].gen <= snaps
      BY <3>1 DEF TypeOK, GenBounded
    <3> HIDE DEF next
    <3> QED
      BY <2>2, <2>4, <3>2 DEF Memory, RemoteFile
  <2>6. memory(i) \in Memory /\ memory(i).gen <= snaps
    <3>1. proc[p].gen <= snaps /\ 0 <= snaps
      BY DEF GenBounded, TypeOK
    <3> HIDE DEF next
    <3> QED
      BY <2>3, <2>4, <2>5, <3>1
  <2> HIDE DEF memory
  <2> QED
    BY <1>3, <1>8, <2>1, <2>6 DEF FindManifest
<1>9. CASE VacuumStart(p)
  <2> DEFINE memory == [proc[p] EXCEPT !.snap = snaps + 1, !.gen = local[m].db.gen + 1,
                                       !.at = "vacuuming"]
  <2>1. local[m].db \in Content /\ local[m].db.gen <= snaps /\ local[m].db.gen \in Nat
    <3>1. local[m] \in [there : BOOLEAN, db : Content] /\ local[m].db.gen <= snaps
      BY <1>1 DEF TypeOK, GenBounded
    <3>2. local[m].db \in Content
      BY <3>1
    <3> QED
      BY <1>0, <3>1, <3>2 DEF Content
  <2>2. snaps + 1 \in 1 .. MaxSnaps
    BY <1>9 DEF VacuumStart, VacuumNumbered, TypeOK
  <2>3. memory \in Memory /\ memory.gen = local[m].db.gen + 1
    <3>1. local[m].db.gen + 1 \in 0 .. MaxSnaps /\ snaps + 1 \in 0 .. MaxSnaps
      BY <1>0, <2>1, <2>2
    <3> QED
      BY <1>2, <3>1 DEF Memory, Phases
  <2>4. /\ proc' = [proc EXCEPT ![p] = memory]
        /\ snaps' = snaps + 1
        /\ snap' = [snap EXCEPT ![snaps + 1] = local[m].db]
        /\ scratch' = [scratch EXCEPT ![m] = [snap |-> snaps + 1, whole |-> FALSE]]
        /\ UNCHANGED <<folders, files, file, lost, edits, made, local, backup>>
    BY <1>9 DEF VacuumStart, VacuumNumbered, remote
  <2> HIDE DEF memory
  <2>5. TypeOK'
    <3>1. snaps' \in Snaps /\ snaps + 1 \in Snaps
      BY <1>0, <2>2, <2>4
    <3>2. snap' \in [Snaps -> Content]
      BY <2>1, <2>4, <3>1 DEF TypeOK
    <3>3. scratch' \in [Machines -> [snap : Snaps, whole : BOOLEAN]]
      BY <1>1, <2>4, <3>1 DEF TypeOK
    <3>4. proc' \in [Procs -> Memory]
      BY <2>3, <2>4 DEF TypeOK
    <3> QED
      BY <2>4, <3>1, <3>2, <3>3, <3>4 DEF TypeOK
  <2>6. GenBounded'
    <3>1. \A a \in Snaps : snap[a].gen \in Nat /\ snap[a].gen <= snaps
      BY DEF TypeOK, GenBounded, Content
    <3>2. \A a \in Snaps : snap'[a].gen <= snaps'
      BY <2>1, <2>2, <2>4, <3>1 DEF TypeOK
    <3>3. \A q \in Procs : proc[q].gen \in Nat /\ proc[q].gen <= snaps
      BY DEF TypeOK, GenBounded, Memory
    <3>4. \A q \in Procs : proc'[q].gen <= snaps'
      BY <2>1, <2>2, <2>3, <2>4, <3>3 DEF TypeOK
    <3>5. \A i \in FileIds : file[i].gen \in Nat /\ file[i].gen <= snaps
      BY DEF TypeOK, GenBounded, RemoteFile
    <3>6. \A n \in Machines : local[n].db.gen \in Nat /\ local[n].db.gen <= snaps
      <4>1. \A n \in Machines : local[n] \in [there : BOOLEAN, db : Content]
        BY DEF TypeOK
      <4>2. \A n \in Machines : local[n].db \in Content
        BY <4>1
      <4> QED
        BY <4>2 DEF GenBounded, Content
    <3>7. (\A i \in FileIds : file'[i].gen <= snaps') /\ \A n \in Machines : local'[n].db.gen <= snaps'
      BY <1>0, <2>4, <3>5, <3>6
    <3> QED
      BY <3>2, <3>4, <3>7 DEF GenBounded
  <2> QED
    BY <2>5, <2>6
<1>10. CASE VacuumEnd(p)
  <2> DEFINE memory == [proc[p] EXCEPT !.at = "read"]
  <2>1. memory \in Memory /\ memory.gen = proc[p].gen
    BY <1>2 DEF Memory, Phases
  <2>2. proc' = [proc EXCEPT ![p] = memory]
    BY <1>10 DEF VacuumEnd, Goto
  <2> HIDE DEF memory
  <2>3. scratch' \in [Machines -> [snap : Snaps, whole : BOOLEAN]]
    BY <1>1, <1>10 DEF VacuumEnd, TypeOK
  <2> QED
    BY <1>10, <2>1, <2>2, <2>3 DEF VacuumEnd, TypeOK, GenBounded, remote, taken
<1>11. CASE ReadSnapshot(p)
  <2> DEFINE memory == [proc[p] EXCEPT !.at = "upload",
               !.snap = IF scratch[m].whole THEN scratch[m].snap ELSE Torn]
  <2>1. memory \in Memory /\ memory.gen = proc[p].gen
    BY <1>1, <1>2 DEF TypeOK, Memory, Phases, Torn
  <2>2. proc' = [proc EXCEPT ![p] = memory]
    BY <1>11 DEF ReadSnapshot
  <2> HIDE DEF memory
  <2> QED
    <3>1. proc' \in [Procs -> Memory] /\ \A q \in Procs : proc'[q].gen <= snaps
      BY <1>0, <2>1, <2>2 DEF TypeOK, GenBounded
    <3>2. scratch' \in [Machines -> [snap : Snaps, whole : BOOLEAN]]
      BY <1>0, <1>1, <1>11 DEF ReadSnapshot, TypeOK
    <3>3. UNCHANGED <<folders, files, file, lost, edits, made, local, backup, snaps, snap>>
      BY <1>11 DEF ReadSnapshot, remote, taken
    <3> QED
      BY <3>1, <3>2, <3>3 DEF TypeOK, GenBounded
<1>12. ASSUME NEW i \in 0 .. MaxFiles, NEW name \in {"db", "manifest"},
              NEW gen \in Generations, gen <= snaps, Put(p, i, name, gen)
       PROVE  /\ files' \in 0 .. MaxFiles /\ file' \in [FileIds -> RemoteFile]
              /\ \A j \in FileIds : file'[j].gen <= snaps
              /\ (IF i = None THEN files + 1 ELSE i) \in FileIds
  <2> DEFINE target == IF i = None THEN files + 1 ELSE i
             new == [folder |-> proc[p].folder, name |-> name, snap |-> proc[p].snap, gen |-> gen]
  <2>1. new \in RemoteFile /\ new.gen <= snaps
    BY <1>2, <1>12 DEF Memory, RemoteFile
  <2>2. /\ target = files + 1 => files < MaxFiles
        /\ files' = IF target = files + 1 THEN target ELSE files
        /\ file' = [file EXCEPT ![target] = new]
    BY <1>12 DEF Put, PutAt
  <2>3. target \in FileIds
    BY <2>2 DEF TypeOK, None
  <2> HIDE DEF new, target
  <2>4. files' \in 0 .. MaxFiles
    BY <2>2, <2>3 DEF TypeOK
  <2>5. file' \in [FileIds -> RemoteFile] /\ \A j \in FileIds : file'[j].gen <= snaps
    BY <2>1, <2>2, <2>3 DEF TypeOK, GenBounded
  <2> QED
    BY <2>3, <2>4, <2>5 DEF target
<1>13. CASE UploadDb(p)
  <2> DEFINE memory == [proc[p] EXCEPT !.db = IF proc[p].db = None THEN files + 1 ELSE proc[p].db,
                                       !.at = "vouch"]
  <2>1. /\ files' \in 0 .. MaxFiles /\ file' \in [FileIds -> RemoteFile]
        /\ \A j \in FileIds : file'[j].gen <= snaps
        /\ (IF proc[p].db = None THEN files + 1 ELSE proc[p].db) \in FileIds
    <3>1. proc[p].db \in 0 .. MaxFiles /\ 0 \in Generations /\ 0 <= snaps
      BY <1>0, <1>2 DEF Memory
    <3>2. Put(p, proc[p].db, "db", 0)
      BY <1>13 DEF UploadDb
    <3> QED
      BY <1>12, <3>1, <3>2
  <2>2. memory \in Memory /\ memory.gen = proc[p].gen
    <3> DEFINE i == IF proc[p].db = None THEN files + 1 ELSE proc[p].db
    <3>1. i \in 0 .. MaxFiles
      BY <2>1
    <3> HIDE DEF i
    <3>2. [proc[p] EXCEPT !.db = i, !.at = "vouch"] \in Memory
      BY <1>2, <3>1 DEF Memory, Phases
    <3>3. [proc[p] EXCEPT !.db = i, !.at = "vouch"].gen = proc[p].gen
      BY <1>2 DEF Memory
    <3> QED
      BY <3>2, <3>3 DEF i
  <2>3. Answered(p, memory)
    BY <1>13 DEF UploadDb
  <2> HIDE DEF memory
  <2>4. /\ proc' \in [Procs -> Memory] /\ \A q \in Procs : proc'[q].gen <= snaps
        /\ lost' \in 0 .. MaxLost
    BY <1>0, <1>20, <2>2, <2>3
  <2> QED
    BY <1>13, <2>1, <2>4 DEF UploadDb, TypeOK, GenBounded, taken
<1>14. CASE UploadManifest(p)
  <2> DEFINE memory == [proc[p] EXCEPT !.man = IF proc[p].man = None THEN files + 1 ELSE proc[p].man,
                                       !.at = "record"]
  <2>1. /\ files' \in 0 .. MaxFiles /\ file' \in [FileIds -> RemoteFile]
        /\ \A j \in FileIds : file'[j].gen <= snaps
        /\ (IF proc[p].man = None THEN files + 1 ELSE proc[p].man) \in FileIds
    <3>1. proc[p].man \in 0 .. MaxFiles /\ proc[p].gen \in Generations
      BY <1>2 DEF Memory
    <3>2. Put(p, proc[p].man, "manifest", proc[p].gen)
      BY <1>14 DEF UploadManifest
    <3> QED
      BY <1>0, <1>12, <3>1, <3>2
  <2>2. memory \in Memory /\ memory.gen = proc[p].gen
    <3> DEFINE i == IF proc[p].man = None THEN files + 1 ELSE proc[p].man
    <3>1. i \in 0 .. MaxFiles
      BY <2>1
    <3> HIDE DEF i
    <3>2. [proc[p] EXCEPT !.man = i, !.at = "record"] \in Memory
      BY <1>2, <3>1 DEF Memory, Phases
    <3>3. [proc[p] EXCEPT !.man = i, !.at = "record"].gen = proc[p].gen
      BY <1>2 DEF Memory
    <3> QED
      BY <3>2, <3>3 DEF i
  <2>3. Answered(p, memory)
    BY <1>14 DEF UploadManifest
  <2> HIDE DEF memory
  <2>4. /\ proc' \in [Procs -> Memory] /\ \A q \in Procs : proc'[q].gen <= snaps
        /\ lost' \in 0 .. MaxLost
    BY <1>0, <1>20, <2>2, <2>3
  <2> QED
    BY <1>14, <2>1, <2>4 DEF UploadManifest, TypeOK, GenBounded, taken
<1>15. CASE Download(p)
  <2> DEFINE memory == [proc[p] EXCEPT !.at = "backup"]
  <2>1. memory \in Memory /\ memory.gen = proc[p].gen
    BY <1>2 DEF Memory, Phases
  <2>2. proc' = [proc EXCEPT ![p] = memory] \/ proc' = [proc EXCEPT ![p] = Idle]
    BY <1>15 DEF Download, Goto, Exit
  <2> HIDE DEF memory
  <2> QED
    BY <1>2, <1>3, <1>15, <2>1, <2>2 DEF Download, GenBounded, TypeOK
<1>16. CASE Backup(p)
  <2> DEFINE memory == [proc[p] EXCEPT !.at = "install"]
  <2>1. memory \in Memory /\ memory.gen = proc[p].gen
    BY <1>2 DEF Memory, Phases
  <2>2. proc' = [proc EXCEPT ![p] = memory]
    BY <1>16 DEF Backup, Goto
  <2> HIDE DEF memory
  <2>3. backup' \in [Machines -> SUBSET Edits]
    BY <1>1, <1>16 DEF Backup, TypeOK, Content
  <2> QED
    BY <1>16, <2>1, <2>2, <2>3 DEF Backup, TypeOK, GenBounded, remote, taken
<1>17. CASE Install(p)
  <2> DEFINE memory == [proc[p] EXCEPT !.at = "record"]
  <2>1. memory \in Memory /\ memory.gen = proc[p].gen
    BY <1>2 DEF Memory, Phases
  <2>2. proc' = [proc EXCEPT ![p] = memory]
    BY <1>17 DEF Install, Goto
  <2> HIDE DEF memory
  <2>3. proc[p].snap \in Snaps
    BY <1>2 DEF Memory
  <2>4. snap[proc[p].snap] \in Content /\ snap[proc[p].snap].gen <= snaps
    BY <2>3 DEF TypeOK, GenBounded
  <2> QED
    BY <1>1, <1>17, <2>1, <2>2, <2>4 DEF Install, TypeOK, GenBounded, remote, taken
<1>18. CASE Record(p)
  <2> DEFINE db == [local[m].db EXCEPT !.gen = proc[p].gen, !.last = proc[p].snap]
             new == [local[m] EXCEPT !.db = db]
  <2>1. local[m] \in [there : BOOLEAN, db : Content]
    BY <1>1 DEF TypeOK
  <2>2. db \in Content /\ db.gen = proc[p].gen
    BY <1>2, <2>1 DEF Content, Memory
  <2>3. new \in [there : BOOLEAN, db : Content] /\ new.db.gen <= snaps
    BY <2>1, <2>2 DEF GenBounded
  <2>4. local' = [local EXCEPT ![m] = new] /\ proc' = [proc EXCEPT ![p] = Idle]
    BY <1>18, <2>1 DEF Record, Exit, Content
  <2> HIDE DEF new
  <2> QED
    BY <1>1, <1>2, <1>18, <2>3, <2>4 DEF Record, TypeOK, GenBounded, remote, taken
<1>19. CASE Stop(p)
  BY <1>0, <1>2, <1>3, <1>19 DEF Stop, Exit
<1> QED
  BY <1>4, <1>5, <1>6, <1>7, <1>8, <1>9, <1>10, <1>11, <1>13, <1>14, <1>15, <1>16,
     <1>17, <1>18, <1>19 DEF Command

\* Every variable keeps its type, however many commands overlap, and no generation
\* outruns the snapshots.
THEOREM TypeCorrect == Spec => [](TypeOK /\ GenBounded)
<1>1. Init => TypeOK /\ GenBounded
  BY IdleIsMemory, BoundsAssumption
     DEF Init, TypeOK, GenBounded, Content, NoContent, RemoteFile, NoFile, Idle, Snaps,
         Generations, FileIds, Torn
<1>2. TypeOK /\ GenBounded /\ [Next]_vars => TypeOK' /\ GenBounded'
  <2> SUFFICES ASSUME TypeOK, GenBounded, [Next]_vars PROVE TypeOK' /\ GenBounded'
    OBVIOUS
  <2>1. ASSUME NEW m \in Machines, EditLocal(m) PROVE TypeOK' /\ GenBounded'
    <3> DEFINE db == [local[m].db EXCEPT !.edits = @ \cup {edits + 1}]
               new == [there |-> TRUE, db |-> db]
    <3>1. local[m] \in [there : BOOLEAN, db : Content] /\ edits + 1 \in Edits
      BY <2>1, BoundsAssumption DEF EditLocal, TypeOK, Edits
    <3>2. db \in Content /\ db.gen = local[m].db.gen
      BY <3>1 DEF Content
    <3>3. local' = [local EXCEPT ![m] = new] /\ new \in [there : BOOLEAN, db : Content]
      BY <2>1, <3>2 DEF EditLocal
    <3>4. new.db.gen <= snaps
      BY <3>2 DEF GenBounded
    <3> HIDE DEF new
    <3>5. edits' \in 0 .. MaxEdits /\ made' \in [Machines -> SUBSET Edits]
      BY <2>1, <3>1, BoundsAssumption DEF EditLocal, TypeOK, Edits
    <3> QED
      BY <2>1, <3>3, <3>4, <3>5 DEF EditLocal, TypeOK, GenBounded, remote, taken
  <2>2. ASSUME NEW p \in Procs, Command(p) PROVE TypeOK' /\ GenBounded'
    BY <2>2, CommandTypes
  <2>3. CASE UNCHANGED vars
    BY <2>3 DEF vars, TypeOK, GenBounded
  <2> QED
    BY <2>1, <2>2, <2>3 DEF Next
<1> QED
  BY <1>1, <1>2, PTL DEF Spec

-----------------------------------------------------------------------------
(* One command at a time on a machine.                                     *)

\* What a manifest says of a snapshot: its number and the generation it was pushed as.
Carries(s, gen) == s \in 1 .. snaps /\ gen = snap[s].gen + 1

\* LedgerTellsTruth, of any content.
Truthful(db) ==
  db.last # 0 =>
    /\ db.last \in 1 .. snaps
    /\ snap[db.last].edits \subseteq db.edits
    /\ snap[db.last].gen < db.gen

\* What a process knows, phase by phase: a push holds the snapshot it took itself,
\* of which the local database still has all edits; a pull holds what a manifest
\* vouches for, and has the backup when it installs.
ProcInv(p) ==
  LET me == proc[p]
      m == Host[p]
  IN /\ me.push => me.at \notin {"download", "backup", "install"}
     /\ me.at \in {"vacuum", "vacuuming", "read", "upload", "vouch"} => me.push
     /\ me.at \in {"vacuuming", "read"} => scratch[m].snap = me.snap
     /\ me.at = "read" => scratch[m].whole
     /\ me.push /\ me.at \in {"vacuuming", "read", "upload", "vouch", "record"} =>
          Carries(me.snap, me.gen) /\ snap[me.snap].edits \subseteq local[m].db.edits
     /\ me.at \in {"download", "backup", "install", "record"} => Carries(me.snap, me.gen)
     /\ ~me.push /\ me.at = "record" => local[m].db = snap[me.snap]
     /\ me.at = "install" => local[m].db.edits \subseteq backup[m]

\* No two commands run on one machine.
Alone ==
  \A p, q \in Procs :
    Host[p] = Host[q] /\ proc[p].at # "idle" /\ proc[q].at # "idle" => p = q

RemoteInv ==
  /\ Alone
  /\ \A m \in Machines : Truthful(local[m].db)
  /\ \A s \in Snaps : Truthful(snap[s])
  /\ \A i \in FileIds : file[i].name = "manifest" => Carries(file[i].snap, file[i].gen)
  /\ \A p \in Procs : ProcInv(p)
  /\ NoEditLost

\* Snapshots never change, so what is said of them stays true.
LEMMA SnapshotsStay ==
  ASSUME snaps \in Nat, snaps' \in Nat, snaps <= snaps',
         \A s \in 1 .. snaps : snap'[s] = snap[s]
  PROVE  /\ \A s, gen : Carries(s, gen) => Carries(s, gen)'
         /\ \A db : Truthful(db) => Truthful(db)'
  BY DEF Carries, Truthful

\* A process keeps its invariant if it is idle or nothing on its machine changes.
LEMMA OthersStay ==
  ASSUME NEW q \in Procs, ProcInv(q), proc'[q] = proc[q],
         snaps \in Nat, snaps' \in Nat, snaps <= snaps',
         \A s \in 1 .. snaps : snap'[s] = snap[s],
         \/ proc[q].at = "idle"
         \/ /\ local'[Host[q]] = local[Host[q]]
            /\ scratch'[Host[q]] = scratch[Host[q]]
            /\ backup'[Host[q]] = backup[Host[q]]
  PROVE  ProcInv(q)'
<1> DEFINE me == proc[q]
<1>1. CASE proc[q].at = "idle"
  BY <1>1 DEF ProcInv
<1>2. CASE /\ local'[Host[q]] = local[Host[q]]
           /\ scratch'[Host[q]] = scratch[Host[q]]
           /\ backup'[Host[q]] = backup[Host[q]]
  <2>1. Carries(me.snap, me.gen) => Carries(me.snap, me.gen)' /\ snap'[me.snap] = snap[me.snap]
    BY DEF Carries
  <2> QED
    BY <1>2, <2>1 DEF ProcInv
<1> QED
  BY <1>1, <1>2

\* What a step of a command leaves alone.
LEMMA CommandFrame ==
  ASSUME NEW p \in Procs, Command(p), TypeOK
  PROVE  /\ \A q \in Procs \ {p} : proc'[q] = proc[q]
         /\ \A m \in Machines \ {Host[p]} :
              local'[m] = local[m] /\ scratch'[m] = scratch[m] /\ backup'[m] = backup[m]
         /\ snaps \in Nat /\ snaps' \in Nat /\ snaps <= snaps'
         /\ \A s \in 1 .. snaps : snap'[s] = snap[s]
         /\ made' = made
         /\ proc[p].at = "idle" => Overlap \/ ~Busy(Host[p])
<1> USE DEF TypeOK, Goto, Exit, Answered, remote, taken
<1>1. snaps \in Nat
  BY BoundsAssumption DEF Snaps
<1>2. CASE VacuumStart(p)
  BY <1>1, <1>2 DEF VacuumStart, VacuumNumbered
<1>3. CASE ~VacuumStart(p)
  <2>1. snaps' = snaps /\ snap' = snap /\ made' = made
    BY <1>3 DEF Command, Start, FindFolder, CreateFolder, FindDb, FindManifest, VacuumEnd,
                ReadSnapshot, UploadDb, UploadManifest, Download, Backup, Install, Record, Stop
  <2>2. \A q \in Procs \ {p} : proc'[q] = proc[q]
    BY <1>3 DEF Command, Start, FindFolder, CreateFolder, FindDb, FindManifest, VacuumEnd,
                ReadSnapshot, UploadDb, UploadManifest, Download, Backup, Install, Record, Stop
  <2>3. \A m \in Machines \ {Host[p]} :
          local'[m] = local[m] /\ scratch'[m] = scratch[m] /\ backup'[m] = backup[m]
    BY <1>3 DEF Command, Start, FindFolder, CreateFolder, FindDb, FindManifest, VacuumEnd,
                ReadSnapshot, UploadDb, UploadManifest, Download, Backup, Install, Record, Stop
  <2>4. proc[p].at = "idle" => Overlap \/ ~Busy(Host[p])
    BY <1>3 DEF Command, Start, FindFolder, CreateFolder, FindDb, FindManifest, VacuumEnd,
                ReadSnapshot, UploadDb, UploadManifest, Download, Backup, Install, Record, Stop
  <2> QED
    BY <1>1, <2>1, <2>2, <2>3, <2>4
<1> QED
  BY <1>2, <1>3

\* A step of a command keeps the invariant.
LEMMA CommandKeeps ==
  ASSUME NEW p \in Procs, Command(p), ~Overlap, TypeOK, TypeOK', RemoteInv
  PROVE  RemoteInv'
<1> DEFINE m == Host[p]
           me == proc[p]
           Same == UNCHANGED <<remote, edits, made, local, backup, scratch, taken>>
<1> USE DEF remote, taken, Torn, None
<1>1. /\ \A q \in Procs \ {p} : proc'[q] = proc[q]
      /\ \A n \in Machines \ {m} :
           local'[n] = local[n] /\ scratch'[n] = scratch[n] /\ backup'[n] = backup[n]
      /\ snaps \in Nat /\ snaps' \in Nat /\ snaps <= snaps'
      /\ \A s \in 1 .. snaps : snap'[s] = snap[s]
      /\ made' = made
      /\ me.at = "idle" => ~Busy(m)
  BY CommandFrame
<1>2. /\ \A s, gen : Carries(s, gen) => Carries(s, gen)'
      /\ \A db : Truthful(db) => Truthful(db)'
  BY <1>1, SnapshotsStay
<1>3. /\ m \in Machines /\ \A q \in Procs : Host[q] \in Machines
      /\ me \in Memory /\ ProcInv(p)
      /\ proc \in [Procs -> Memory]
      /\ Idle \in Memory /\ Idle.at = "idle" /\ ~Idle.push
  BY HostAssumption, IdleIsMemory DEF TypeOK, RemoteInv, Idle
<1>4. \A q \in Procs \ {p} : Host[q] = m => proc[q].at = "idle"
  BY <1>1 DEF RemoteInv, Alone, Busy
<1>5. Alone'
  BY <1>1, <1>4 DEF RemoteInv, Alone
<1>6. \A q \in Procs \ {p} : ProcInv(q)'
  <2> TAKE q \in Procs \ {p}
  <2>1. \/ proc[q].at = "idle"
        \/ /\ local'[Host[q]] = local[Host[q]]
           /\ scratch'[Host[q]] = scratch[Host[q]]
           /\ backup'[Host[q]] = backup[Host[q]]
    BY <1>1, <1>3, <1>4
  <2> QED
    BY <1>1, <2>1, OthersStay DEF RemoteInv
<1> DEFINE Kept ==
             /\ ProcInv(p)'
             /\ Truthful(local[m].db)'
             /\ \A s \in Snaps : Truthful(snap[s])'
             /\ \A i \in FileIds : file'[i].name = "manifest" =>
                  Carries(file[i].snap, file[i].gen)'
             /\ made[m] \subseteq local'[m].db.edits \cup backup'[m]
<1>7. SUFFICES Kept
  <2>1. \A n \in Machines \ {m} :
          Truthful(local[n].db)' /\ made[n] \subseteq local'[n].db.edits \cup backup'[n]
    BY <1>1, <1>2 DEF RemoteInv, NoEditLost
  <2> QED
    BY <1>1, <1>5, <1>6, <1>7, <2>1 DEF RemoteInv, NoEditLost
\* With nothing but the memory of p changed, the memory is all there is to check.
<1>8. ASSUME Same, ProcInv(p)'
      PROVE  Kept
  <2>1. \A s \in Snaps : Truthful(snap[s])'
    BY <1>2, <1>8 DEF RemoteInv
  <2> QED
    BY <1>2, <1>3, <1>7, <1>8, <2>1 DEF RemoteInv, NoEditLost
<1>9. ASSUME proc'[p] = Idle
      PROVE  ProcInv(p)'
  BY <1>3, <1>9 DEF ProcInv
\* After a lost answer p is where it was.
<1>27. ASSUME UNCHANGED <<proc, local, scratch, backup>>
       PROVE  ProcInv(p)'
  BY <1>1, <1>3, <1>27, OthersStay
<1>10. ASSUME NEW cmd \in Commands, Start(p, cmd)
       PROVE  Kept
  <2>1. proc'[p].at = "folder"
    BY <1>3, <1>10 DEF Start, Idle
  <2> QED
    BY <1>8, <1>10, <2>1 DEF Start, ProcInv
<1>11. ASSUME NEW db, NEW man, NEW next, next = AfterStatus(p, db, man), ~me.push
       PROVE  /\ next \in Memory
              /\ \/ next = Idle
                 \/ next.at = "folder"
                 \/ next.at = "download" /\ ~next.push /\ db # None /\ man # None
  <2>1. /\ [me EXCEPT !.at = "folder", !.push = TRUE].at = "folder"
        /\ [me EXCEPT !.at = "download"].at = "download"
        /\ [me EXCEPT !.at = "download"].push = me.push
    BY <1>3 DEF Memory
  <2>2. /\ AfterStatus(p, db, man) \in
             {Idle, [me EXCEPT !.at = "folder", !.push = TRUE], [me EXCEPT !.at = "download"]}
        /\ AfterStatus(p, db, man).at = "download" => db # None /\ man # None
        /\ AfterStatus(p, db, man) \in Memory
    BY AfterStatusIs
  <2>3. CASE next = [me EXCEPT !.at = "download"]
    BY <1>11, <2>1, <2>2, <2>3
  <2>4. CASE next = [me EXCEPT !.at = "folder", !.push = TRUE]
    BY <1>11, <2>1, <2>2, <2>4
  <2> QED
    BY <1>11, <2>2, <2>3, <2>4
<1>12. CASE FindFolder(p)
  <2>1. CASE \E f \in 1 .. folders : proc' = [proc EXCEPT ![p].folder = f, ![p].at = "db"]
    <3>1. proc'[p].at = "db"
      BY <1>3, <2>1 DEF Memory
    <3> QED
      BY <1>8, <1>12, <3>1 DEF FindFolder, ProcInv
  <2>2. CASE Goto(p, "create")
    <3>1. proc'[p].at = "create"
      BY <1>3, <2>2 DEF Goto, Memory
    <3> QED
      BY <1>8, <1>12, <3>1 DEF FindFolder, ProcInv
  <2>3. CASE ~me.push /\ proc' = [proc EXCEPT ![p] = AfterStatus(p, None, None)]
    <3>1. proc'[p] = AfterStatus(p, None, None)
      BY <1>3, <2>3
    <3>2. proc'[p] = Idle \/ proc'[p].at = "folder"
      BY <1>11, <1>12, <2>3, <3>1 DEF FindFolder
    <3>3. ProcInv(p)'
      BY <1>9, <3>2 DEF ProcInv
    <3> QED
      BY <1>8, <1>12, <3>3 DEF FindFolder
  <2> QED
    BY <1>12, <2>1, <2>2, <2>3 DEF FindFolder
<1>13. CASE CreateFolder(p)
  <2>1. proc'[p].at = "db" \/ UNCHANGED proc
    BY <1>3, <1>13 DEF CreateFolder, Answered, Memory
  <2>2. ProcInv(p)'
    BY <1>13, <1>27, <2>1 DEF CreateFolder, ProcInv
  <2>3. \A s \in Snaps : Truthful(snap[s])'
    BY <1>2, <1>13 DEF CreateFolder, RemoteInv
  <2> QED
    BY <1>2, <1>3, <1>7, <1>13, <2>2, <2>3 DEF CreateFolder, RemoteInv, NoEditLost
<1>14. CASE FindDb(p)
  <2>1. proc'[p].at = "manifest"
    BY <1>3, <1>14 DEF FindDb, Memory
  <2> QED
    BY <1>8, <1>14, <2>1 DEF FindDb, ProcInv
<1>15. CASE FindManifest(p)
  <2> DEFINE next(i) == AfterStatus(p, me.db, i)
             memory(i) ==
               IF me.push THEN [me EXCEPT !.man = i, !.at = "vacuum"]
               ELSE IF next(i).at = "download"
                    THEN [next(i) EXCEPT !.man = i, !.snap = file[i].snap, !.gen = file[i].gen]
                    ELSE next(i)
  <2>1. PICK i \in Found(me.folder, "manifest") : proc' = [proc EXCEPT ![p] = memory(i)]
    BY <1>15 DEF FindManifest
  <2>2. i # None => i \in FileIds /\ file[i].name = "manifest"
    BY FoundIsFile
  <2>3. proc'[p] = memory(i) /\ me.at = "manifest"
    BY <1>3, <1>15, <2>1 DEF FindManifest
  <2>4. ProcInv(p)'
    <3>1. CASE me.push
      <4>1. proc'[p].at = "vacuum" /\ proc'[p].push
        BY <1>3, <2>3, <3>1 DEF Memory
      <4> QED
        BY <4>1 DEF ProcInv
    <3>2. CASE ~me.push /\ next(i).at # "download"
      <4>1. proc'[p] = next(i)
        BY <2>3, <3>2
      <4>2. proc'[p] = Idle \/ proc'[p].at = "folder"
        BY <1>11, <2>3, <3>2, <4>1
      <4> QED
        BY <1>9, <4>2 DEF ProcInv
    <3>3. CASE ~me.push /\ next(i).at = "download"
      <4>1. next(i) \in Memory /\ ~next(i).push /\ i # None
        BY <1>3, <1>11, <2>3, <3>3
      <4>2. proc'[p] = [next(i) EXCEPT !.man = i, !.snap = file[i].snap, !.gen = file[i].gen]
        BY <2>3, <3>3
      <4> HIDE DEF next
      <4>3. /\ proc'[p].at = "download" /\ ~proc'[p].push
            /\ proc'[p].snap = file[i].snap /\ proc'[p].gen = file[i].gen
        BY <3>3, <4>1, <4>2 DEF Memory
      <4>4. Carries(file[i].snap, file[i].gen)'
        BY <1>2, <1>15, <2>2, <4>1 DEF RemoteInv, FindManifest
      <4>5. UNCHANGED <<file, snap, snaps>>
        BY <1>15 DEF FindManifest
      <4> QED
        BY <4>3, <4>4, <4>5 DEF ProcInv, Carries
    <3> QED
      BY <3>1, <3>2, <3>3
  <2> QED
    BY <1>8, <1>15, <2>4 DEF FindManifest
<1>16. CASE VacuumStart(p)
  <2>1. /\ snaps' = snaps + 1 /\ snaps + 1 \in Snaps
        /\ snap' = [snap EXCEPT ![snaps + 1] = local[m].db]
        /\ scratch' = [scratch EXCEPT ![m] = [snap |-> snaps + 1, whole |-> FALSE]]
        /\ UNCHANGED <<file, local, backup>>
        /\ me.at = "vacuum"
    BY <1>1, <1>16 DEF VacuumStart, VacuumNumbered, TypeOK, Snaps
  <2>2. /\ proc'[p].at = "vacuuming" /\ proc'[p].push
        /\ proc'[p].snap = snaps + 1 /\ proc'[p].gen = local[m].db.gen + 1
    BY <1>3, <1>16, <2>1 DEF VacuumStart, VacuumNumbered, ProcInv, Memory
  <2>3. snap'[snaps + 1] = local[m].db /\ \A s \in Snaps \ {snaps + 1} : snap'[s] = snap[s]
    BY <2>1 DEF TypeOK
  <2>4. ProcInv(p)'
    <3>1. snaps + 1 \in 1 .. snaps' /\ snap'[snaps + 1] = local[m].db /\ local' = local
      BY <1>1, <2>1, <2>3
    <3>2. scratch'[m].snap = snaps + 1
      BY <1>3, <2>1 DEF TypeOK
    <3> QED
      BY <2>1, <2>2, <2>3, <3>1, <3>2 DEF ProcInv, Carries
  <2>5. \A s \in Snaps : Truthful(snap[s])'
    <3>1. Truthful(local[m].db)'
      BY <1>2, <1>3, <2>1 DEF RemoteInv
    <3> QED
      BY <1>2, <2>1, <2>3, <3>1 DEF RemoteInv, Truthful
  <2> QED
    BY <1>2, <1>3, <1>7, <2>1, <2>4, <2>5 DEF RemoteInv, NoEditLost
<1>17. CASE VacuumEnd(p)
  <2>1. /\ proc'[p].at = "read" /\ proc'[p].push = me.push /\ proc'[p].snap = me.snap
        /\ proc'[p].gen = me.gen /\ me.at = "vacuuming"
    BY <1>3, <1>17 DEF VacuumEnd, Goto, Memory
  <2>2. scratch'[m].snap = scratch[m].snap /\ scratch'[m].whole
    BY <1>3, <1>17, <2>1 DEF VacuumEnd, TypeOK, ProcInv
  <2>3. ProcInv(p)'
    BY <1>2, <1>3, <1>17, <2>1, <2>2 DEF VacuumEnd, ProcInv
  <2>4. \A s \in Snaps : Truthful(snap[s])'
    BY <1>2, <1>17 DEF VacuumEnd, RemoteInv
  <2> QED
    BY <1>2, <1>3, <1>7, <1>17, <2>3, <2>4 DEF VacuumEnd, RemoteInv, NoEditLost
<1>18. CASE ReadSnapshot(p)
  <2>1. /\ proc'[p].at = "upload" /\ proc'[p].push = me.push /\ proc'[p].snap = me.snap
        /\ proc'[p].gen = me.gen /\ me.at = "read"
    BY <1>3, <1>18 DEF ReadSnapshot, ProcInv, Memory
  <2>2. ProcInv(p)'
    BY <1>2, <1>3, <1>18, <2>1 DEF ReadSnapshot, ProcInv
  <2>3. \A s \in Snaps : Truthful(snap[s])'
    BY <1>2, <1>18 DEF ReadSnapshot, RemoteInv
  <2> QED
    BY <1>2, <1>3, <1>7, <1>18, <2>2, <2>3 DEF ReadSnapshot, RemoteInv, NoEditLost
<1>19. ASSUME NEW i \in 0 .. MaxFiles, NEW name \in {"db", "manifest"}, NEW gen,
              Put(p, i, name, gen), name = "manifest" => Carries(me.snap, gen),
              UNCHANGED <<snaps, snap>>
       PROVE  \A j \in FileIds : file'[j].name = "manifest" =>
                Carries(file[j].snap, file[j].gen)'
  <2> DEFINE new == [folder |-> me.folder, name |-> name, snap |-> me.snap, gen |-> gen]
  <2>1. \A j \in FileIds : file'[j] = file[j] \/ file'[j] = new
    BY <1>19 DEF Put, PutAt, TypeOK
  <2> QED
    BY <1>2, <1>19, <2>1 DEF RemoteInv
<1>20. CASE UploadDb(p)
  <2>1. \/ /\ proc'[p].at = "vouch" /\ proc'[p].push = me.push /\ proc'[p].snap = me.snap
           /\ proc'[p].gen = me.gen
        \/ UNCHANGED proc
    <3> DEFINE memory == [me EXCEPT !.db = IF me.db = None THEN files + 1 ELSE me.db,
                                    !.at = "vouch"]
    <3>1. /\ memory.at = "vouch" /\ memory.push = me.push /\ memory.snap = me.snap
          /\ memory.gen = me.gen
      BY <1>3 DEF Memory
    <3>2. Answered(p, memory)
      BY <1>20 DEF UploadDb
    <3> HIDE DEF memory
    <3> QED
      BY <1>3, <3>1, <3>2 DEF Answered
  <2>2. ProcInv(p)'
    BY <1>2, <1>3, <1>20, <1>27, <2>1 DEF UploadDb, ProcInv
  <2>3. me.db \in 0 .. MaxFiles
    BY <1>3 DEF Memory
  <2>4. \A j \in FileIds : file'[j].name = "manifest" => Carries(file[j].snap, file[j].gen)'
    BY <1>19, <1>20, <2>3 DEF UploadDb
  <2>5. \A s \in Snaps : Truthful(snap[s])'
    BY <1>2, <1>20 DEF UploadDb, RemoteInv
  <2> QED
    BY <1>2, <1>3, <1>7, <1>20, <2>2, <2>4, <2>5 DEF UploadDb, RemoteInv, NoEditLost
<1>21. CASE UploadManifest(p)
  <2>1. \/ /\ proc'[p].at = "record" /\ proc'[p].push = me.push /\ proc'[p].snap = me.snap
           /\ proc'[p].gen = me.gen
        \/ UNCHANGED proc
    <3> DEFINE memory == [me EXCEPT !.man = IF me.man = None THEN files + 1 ELSE me.man,
                                    !.at = "record"]
    <3>1. /\ memory.at = "record" /\ memory.push = me.push /\ memory.snap = me.snap
          /\ memory.gen = me.gen
      BY <1>3 DEF Memory
    <3>2. Answered(p, memory)
      BY <1>21 DEF UploadManifest
    <3> HIDE DEF memory
    <3> QED
      BY <1>3, <3>1, <3>2 DEF Answered
  <2>2. ProcInv(p)'
    BY <1>2, <1>3, <1>21, <1>27, <2>1 DEF UploadManifest, ProcInv
  <2>3. me.man \in 0 .. MaxFiles /\ Carries(me.snap, me.gen)
    BY <1>3, <1>21 DEF UploadManifest, Memory, ProcInv
  <2>4. \A j \in FileIds : file'[j].name = "manifest" => Carries(file[j].snap, file[j].gen)'
    BY <1>19, <1>21, <2>3 DEF UploadManifest
  <2>5. \A s \in Snaps : Truthful(snap[s])'
    BY <1>2, <1>21 DEF UploadManifest, RemoteInv
  <2> QED
    BY <1>2, <1>3, <1>7, <1>21, <2>2, <2>4, <2>5 DEF UploadManifest, RemoteInv, NoEditLost
<1>22. CASE Download(p)
  <2>1. CASE Goto(p, "backup")
    <3>1. /\ proc'[p].at = "backup" /\ proc'[p].push = me.push /\ proc'[p].snap = me.snap
          /\ proc'[p].gen = me.gen /\ me.at = "download"
      BY <1>3, <1>22, <2>1 DEF Download, Goto, Memory
    <3>2. ProcInv(p)'
      BY <1>2, <1>3, <3>1 DEF ProcInv
    <3> QED
      BY <1>8, <1>22, <3>2 DEF Download
  <2>2. CASE Exit(p)
    BY <1>3, <1>8, <1>9, <1>22, <2>2 DEF Download, Exit
  <2> QED
    BY <1>22, <2>1, <2>2 DEF Download
<1>23. CASE Backup(p)
  <2>1. /\ proc'[p].at = "install" /\ proc'[p].push = me.push /\ proc'[p].snap = me.snap
        /\ proc'[p].gen = me.gen /\ me.at = "backup"
    BY <1>3, <1>23 DEF Backup, Goto, Memory
  <2>2. backup'[m] = backup[m] \cup local[m].db.edits /\ local' = local
    BY <1>3, <1>23 DEF Backup, TypeOK
  <2>3. ProcInv(p)'
    BY <1>2, <1>3, <2>1, <2>2 DEF ProcInv
  <2>4. \A s \in Snaps : Truthful(snap[s])'
    BY <1>2, <1>23 DEF Backup, RemoteInv
  <2> QED
    BY <1>2, <1>3, <1>7, <1>23, <2>2, <2>3, <2>4 DEF Backup, RemoteInv, NoEditLost
<1>24. CASE Install(p)
  <2>1. /\ proc'[p].at = "record" /\ proc'[p].push = me.push /\ proc'[p].snap = me.snap
        /\ proc'[p].gen = me.gen /\ me.at = "install"
    BY <1>3, <1>24 DEF Install, Goto, Memory
  <2>2. local'[m].db = snap[me.snap] /\ UNCHANGED <<backup, snaps, snap, file>>
    BY <1>3, <1>24 DEF Install, TypeOK
  <2>3. ProcInv(p)'
    BY <1>2, <1>3, <2>1, <2>2 DEF ProcInv
  <2>4. \A s \in Snaps : Truthful(snap[s])'
    BY <1>2, <2>2 DEF RemoteInv
  <2>5. Truthful(local[m].db)'
    <3>1. me.snap \in Snaps
      BY <1>3 DEF Memory
    <3> QED
      BY <2>2, <2>4, <3>1
  <2>6. made[m] \subseteq local'[m].db.edits \cup backup'[m]
    BY <1>3, <2>1, <2>2 DEF RemoteInv, NoEditLost, ProcInv
  <2> QED
    BY <1>2, <1>7, <2>2, <2>3, <2>4, <2>5, <2>6 DEF RemoteInv
<1>25. CASE Record(p)
  <2>1. me.at = "record" /\ proc'[p] = Idle /\ UNCHANGED <<backup, snaps, snap, file>>
    BY <1>3, <1>25 DEF Record, Exit
  <2>2. /\ local'[m].db.edits = local[m].db.edits
        /\ local'[m].db.gen = me.gen /\ local'[m].db.last = me.snap
    <3>1. local[m] \in [there : BOOLEAN, db : Content]
      BY <1>3 DEF TypeOK
    <3>2. local[m].db \in Content
      BY <3>1
    <3> QED
      BY <1>3, <1>25, <3>1, <3>2 DEF Record, TypeOK, Content
  <2>3. Carries(me.snap, me.gen) /\ snap[me.snap].edits \subseteq local[m].db.edits
    BY <1>3, <2>1 DEF ProcInv
  <2>4. \A s \in Snaps : Truthful(snap[s])'
    BY <1>2, <2>1 DEF RemoteInv
  <2>5. Truthful(local[m].db)'
    <3>1. me.snap \in Snaps
      BY <1>3 DEF Memory
    <3>2. snap[me.snap].gen \in Nat
      BY <3>1, BoundsAssumption DEF TypeOK, Content, Generations
    <3> QED
      BY <2>1, <2>2, <2>3, <3>2 DEF Truthful, Carries
  <2>6. made[m] \subseteq local'[m].db.edits \cup backup'[m]
    BY <1>3, <2>1, <2>2 DEF RemoteInv, NoEditLost
  <2> QED
    BY <1>2, <1>7, <1>9, <2>1, <2>4, <2>5, <2>6 DEF RemoteInv
<1>26. CASE Stop(p)
  BY <1>3, <1>8, <1>9, <1>26 DEF Stop, Exit
<1> QED
  BY <1>10, <1>12, <1>13, <1>14, <1>15, <1>16, <1>17, <1>18, <1>20, <1>21, <1>22, <1>23,
     <1>24, <1>25, <1>26 DEF Command

\* A commit of another command keeps the invariant: no remote command runs there.
LEMMA EditKeeps ==
  ASSUME NEW m \in Machines, EditLocal(m), ~Overlap, TypeOK, RemoteInv
  PROVE  RemoteInv'
<1>1. /\ ~Busy(m) /\ UNCHANGED <<file, snaps, snap, proc, scratch, backup>>
      /\ made' = [made EXCEPT ![m] = @ \cup {edits + 1}]
  BY DEF EditLocal, remote, taken
<1>2. snaps \in Nat
  BY BoundsAssumption DEF TypeOK, Snaps
<1>3. /\ local'[m].db.edits = local[m].db.edits \cup {edits + 1}
      /\ local'[m].db.gen = local[m].db.gen /\ local'[m].db.last = local[m].db.last
      /\ \A n \in Machines \ {m} : local'[n] = local[n]
  <2>1. local[m] \in [there : BOOLEAN, db : Content]
    BY DEF TypeOK
  <2>2. local[m].db \in Content
    BY <2>1
  <2> QED
    BY <2>2 DEF EditLocal, TypeOK, Content
<1>4. \A db : Truthful(db) => Truthful(db)'
  BY <1>1, <1>2, SnapshotsStay
<1>5. \A n \in Machines : Truthful(local[n].db)'
  BY <1>1, <1>3 DEF RemoteInv, Truthful
<1>6. \A s \in Snaps : Truthful(snap[s])'
  BY <1>1, <1>4 DEF RemoteInv
<1>7. \A q \in Procs : ProcInv(q)'
  <2> TAKE q \in Procs
  <2>1. proc[q].at = "idle" \/ local'[Host[q]] = local[Host[q]]
    BY <1>1, <1>3, HostAssumption DEF Busy
  <2> QED
    BY <1>1, <1>2, <2>1, OthersStay DEF RemoteInv
<1>8. NoEditLost'
  BY <1>1, <1>3 DEF RemoteInv, NoEditLost, TypeOK
<1> QED
  BY <1>1, <1>5, <1>6, <1>7, <1>8 DEF RemoteInv, Alone, Carries

\* The inductive invariant: of clients that never overlap, each has in memory and in its files
\* what the step it is at accounts for, whichever machine it is on.
THEOREM RemoteInvariant == ASSUME ~Overlap PROVE Spec => []RemoteInv
<1>1. Init => RemoteInv
  BY DEF Init, RemoteInv, Alone, Truthful, NoContent, NoFile, ProcInv, Idle, NoEditLost
<1>2. TypeOK /\ TypeOK' /\ RemoteInv /\ [Next]_vars => RemoteInv'
  <2> SUFFICES ASSUME TypeOK, TypeOK', RemoteInv, [Next]_vars PROVE RemoteInv'
    OBVIOUS
  <2>1. CASE UNCHANGED vars
    BY <2>1 DEF vars, RemoteInv, Alone, Truthful, Carries, ProcInv, NoEditLost
  <2> QED
    BY <2>1, CommandKeeps, EditKeeps DEF Next
<1> QED
  BY <1>1, <1>2, TypeCorrect, PTL DEF Spec

\* With one command at a time on a machine, and any number of machines that push,
\* pull and crash: the ledger of each database tells the truth.
THEOREM AloneLedgerTellsTruth == ASSUME ~Overlap PROVE Spec => []LedgerTellsTruth
<1>1. RemoteInv => LedgerTellsTruth
  BY DEF RemoteInv, Truthful, LedgerTellsTruth
<1> QED
  BY <1>1, RemoteInvariant, PTL

\* With one command at a time on a machine: no pull, crashed or complete, loses a
\* commit made on that machine.
THEOREM AloneLosesNoEdit == ASSUME ~Overlap PROVE Spec => []NoEditLost
<1>1. RemoteInv => NoEditLost
  BY DEF RemoteInv
<1> QED
  BY <1>1, RemoteInvariant, PTL

-----------------------------------------------------------------------------
(* One machine, one command at a time: retries.                            *)

Holds(p, phases) == proc[p].at \in phases

\* There may be one file or folder more than is accounted for: an answer was lost.
Slack == folders + Cardinality(Twins) <= lost

\* What p puts a file over: what there is to find, or, where its own call was not
\* answered, what it found before that.
Known(i, f, name) == i \in Found(f, name) \/ (i = None /\ Slack)

\* What a push has found stays what there is to find, until it puts a file there
\* itself; what it has put there is its own snapshot.
PushInv(p) ==
  LET me == proc[p]
  IN /\ Holds(p, {"download", "backup", "install"}) => ~me.push
     /\ Holds(p, {"create"}) => Slack
     /\ Holds(p, {"db", "manifest", "vacuum", "vacuuming", "read", "upload", "vouch"}) =>
          me.folder \in 1 .. folders
     /\ Holds(p, {"manifest", "vacuum", "vacuuming", "read"}) =>
          me.db \in Found(me.folder, "db")
     /\ Holds(p, {"upload"}) => Known(me.db, me.folder, "db")
     /\ Holds(p, {"vacuum", "vacuuming", "read", "upload"}) =>
          me.push /\ me.man \in Found(me.folder, "manifest")
     /\ Holds(p, {"vouch"}) =>
          /\ me.push /\ Known(me.man, me.folder, "manifest")
          /\ me.db \in 1 .. files
          /\ file[me.db] = [folder |-> me.folder, name |-> "db", snap |-> me.snap, gen |-> 0]
     /\ Holds(p, {"record"}) /\ me.push =>
          /\ me.folder \in 1 .. folders
          /\ me.db \in Found(me.folder, "db") \ {None}
          /\ me.man \in Found(me.folder, "manifest") \ {None}
          /\ file[me.db].snap = file[me.man].snap

FilesInv ==
  /\ RetriesDuplicateNothing
  /\ \A i \in 1 .. files : file[i].folder \in 1 .. folders

SoloInv ==
  /\ \A p, q \in Procs : proc[p].at # "idle" /\ proc[q].at # "idle" => p = q
  /\ FilesInv
  /\ \A p \in Procs : PushInv(p)

\* The files of a name are what they were, and where they were.
Untouched(f, name) ==
  /\ Found(f, name)' = Found(f, name)
  /\ \A j \in 1 .. files : file[j].name = name => j \in 1 .. files' /\ file'[j] = file[j]

LEMMA TwinsFinite ==
  ASSUME TypeOK
  PROVE  IsFiniteSet(Twins) /\ Cardinality(Twins) \in Nat
<1>1. files \in Nat
  BY BoundsAssumption DEF TypeOK
<1>2. IsFiniteSet(1 .. files) /\ Twins \in SUBSET (1 .. files)
  BY <1>1, FS_Interval DEF Twins
<1> QED
  BY <1>2, FS_Subset, FS_CardinalityType

\* A put replaces a file of that name in the folder, or adds the first, or a twin
\* where an answer was lost before.
LEMMA PutKeepsFiles ==
  ASSUME TypeOK, FilesInv, UNCHANGED folders,
         NEW p \in Procs, NEW f \in 1 .. folders, f = proc[p].folder,
         NEW name \in {"db", "manifest"}, NEW i, Known(i, f, name), NEW gen,
         Put(p, i, name, gen)
  PROVE  LET at == IF i = None THEN files + 1 ELSE i
         IN /\ lost' = lost => FilesInv'
            /\ lost' = lost + 1 => FilesInv' /\ Slack'
            /\ at \in 1 .. files'
            /\ file'[at] = [folder |-> f, name |-> name, snap |-> proc[p].snap, gen |-> gen]
            /\ \A other \in {"db", "manifest"} : other # name => Untouched(f, other)
<1> DEFINE at == IF i = None THEN files + 1 ELSE i
           new == [folder |-> f, name |-> name, snap |-> proc[p].snap, gen |-> gen]
<1>1. /\ files \in Nat /\ MaxFiles \in Nat /\ files <= MaxFiles /\ folders \in Nat /\ lost \in Nat
      /\ IsFiniteSet(Twins) /\ Cardinality(Twins) \in Nat
  BY BoundsAssumption, TwinsFinite DEF TypeOK
<1>2. /\ i = None /\ i \in Found(f, name) =>
           \A j \in 1 .. files : ~(file[j].folder = f /\ file[j].name = name)
      /\ i # None => i \in 1 .. files /\ file[i].folder = f /\ file[i].name = name
  BY <1>1 DEF Found, Known, None
<1>3. at \in 1 .. files + 1 /\ at \in FileIds /\ at # None
  <2>1. CASE i = None
    BY <1>1, <2>1 DEF Put, PutAt, FileIds, None
  <2>2. CASE i # None
    BY <1>1, <1>2, <2>2 DEF FileIds, None
  <2> QED
    BY <2>1, <2>2
<1>4. /\ files' = IF at = files + 1 THEN at ELSE files
      /\ file'[at] = new
      /\ \A j \in FileIds \ {at} : file'[j] = file[j]
  BY <1>3 DEF Put, PutAt, TypeOK
<1>13. /\ i = None <=> at = files + 1
       /\ i # None => at = i
  <2>1. i # None => i # files + 1
    BY <1>1, <1>2
  <2> QED
    BY <2>1
<1> HIDE DEF at, new
<1>5. files' \in Nat /\ files <= files' /\ at \in 1 .. files' /\ files' <= MaxFiles
      /\ \A j \in 1 .. files' : j = at \/ j \in 1 .. files
  BY <1>1, <1>3, <1>4 DEF FileIds
<1>6. \A j \in 1 .. files : j \in FileIds
  BY <1>1 DEF FileIds
<1>7. new.folder = f /\ new.name = name
  BY DEF new
\* Only a new file changes which name is in which folder.
<1>8. \A j \in 1 .. files : file'[j].folder = file[j].folder /\ file'[j].name = file[j].name
  <2> TAKE j \in 1 .. files
  <2>1. CASE j # at
    BY <1>4, <1>6, <2>1
  <2>2. CASE j = at
    <3>1. at = i /\ i # None
      BY <1>1, <1>13, <2>2
    <3> QED
      BY <1>2, <1>4, <1>7, <2>2, <3>1
  <2> QED
    BY <2>1, <2>2
<1>9. folders + Cardinality(Twins') <= lost + 1
  <2>1. \A j \in 1 .. files : j \in Twins' <=> j \in Twins
    BY <1>1, <1>5, <1>8 DEF Twins
  <2>2. Twins' \subseteq 1 .. files' /\ Twins \subseteq 1 .. files
    BY DEF Twins
  <2>3. CASE i # None
    <3>1. files' = files
      BY <1>4, <1>13, <2>3
    <3>2. Twins' = Twins
      BY <2>1, <2>2, <3>1
    <3> QED
      BY <3>2 DEF FilesInv, RetriesDuplicateNothing
  <2>4. CASE i = None /\ i \in Found(f, name)
    <3>1. files' = files + 1 /\ at = files + 1
      BY <1>4, <1>13, <2>4
    <3>2. files + 1 \notin Twins'
      <4> SUFFICES ASSUME files + 1 \in Twins' PROVE FALSE
        OBVIOUS
      <4>3. PICK n : n = files + 1
        OBVIOUS
      <4>1. PICK k \in 1 .. (n - 1) :
              file'[n].folder = file'[k].folder /\ file'[n].name = file'[k].name
        BY <4>3 DEF Twins
      <4>2. k \in 1 .. files
        BY <1>1, <4>1, <4>3
      <4> QED
        BY <1>2, <1>4, <1>7, <1>8, <2>4, <3>1, <4>1, <4>2, <4>3
    <3>4. \A j \in 1 .. files' : j \in 1 .. files \/ j = files + 1
      BY <1>1, <3>1
    <3>3. Twins' = Twins
      <4>1. Twins' \subseteq Twins
        BY <2>1, <2>2, <3>2, <3>4
      <4>2. Twins \subseteq Twins'
        BY <2>1, <2>2
      <4> QED
        BY <4>1, <4>2
    <3> QED
      BY <3>3 DEF FilesInv, RetriesDuplicateNothing
  <2>5. CASE i = None /\ Slack
    <3>1. files' = files + 1
      BY <1>4, <1>13, <2>5
    <3>2. Twins' \in SUBSET (Twins \cup {files + 1})
      <4>1. \A j \in 1 .. files' : j \in 1 .. files \/ j = files + 1
        BY <1>1, <3>1
      <4> QED
        BY <2>1, <2>2, <4>1
    <3>3. /\ IsFiniteSet(Twins \cup {files + 1})
          /\ Cardinality(Twins \cup {files + 1}) \in Nat
          /\ Cardinality(Twins \cup {files + 1}) <= Cardinality(Twins) + 1
      <4>1. /\ IsFiniteSet(Twins \cup {files + 1})
            /\ \/ Cardinality(Twins \cup {files + 1}) = Cardinality(Twins)
               \/ Cardinality(Twins \cup {files + 1}) = Cardinality(Twins) + 1
        BY <1>1, FS_AddElement
      <4> QED
        BY <1>1, <4>1
    <3>4. Cardinality(Twins') \in Nat /\ Cardinality(Twins') <= Cardinality(Twins) + 1
      <4>1. /\ IsFiniteSet(Twins')
            /\ Cardinality(Twins') <= Cardinality(Twins \cup {files + 1})
        BY <3>2, <3>3, FS_Subset
      <4>2. Cardinality(Twins') \in Nat
        BY <4>1, FS_CardinalityType
      <4> QED
        BY <1>1, <3>3, <4>1, <4>2
    <3> QED
      BY <1>1, <2>5, <3>4 DEF Slack
  <2> QED
    BY <2>3, <2>4, <2>5 DEF Known
<1>10. \A j \in 1 .. files' : file'[j].folder \in 1 .. folders
  BY <1>4, <1>5, <1>6, <1>7 DEF FilesInv
<1>12. ASSUME NEW other \in {"db", "manifest"}, other # name PROVE Untouched(f, other)
  <2>1. \A j \in 1 .. files : file[j].name = other => j # at
    BY <1>1, <1>2, <1>12, <1>13
  <2>2. \A j \in 1 .. files : file[j].name = other => j \in 1 .. files' /\ file'[j] = file[j]
    BY <1>1, <1>4, <1>5, <1>6, <2>1
  <2>3. \A j : j \in 1 .. files' /\ file'[j].folder = f /\ file'[j].name = other
           <=> j \in 1 .. files /\ file[j].folder = f /\ file[j].name = other
    BY <1>1, <1>4, <1>5, <1>6, <1>7, <1>12, <2>1
  <2>4. {j \in 1 .. files' : file'[j].folder = f /\ file'[j].name = other}
          = {j \in 1 .. files : file[j].folder = f /\ file[j].name = other}
    BY <2>3
  <2> QED
    BY <2>2, <2>4 DEF Found, Untouched
<1>11. Cardinality(Twins') \in Nat
  <2>1. IsFiniteSet(1 .. files') /\ Twins' \in SUBSET (1 .. files')
    BY <1>5, FS_Interval DEF Twins
  <2> QED
    BY <2>1, FS_Subset, FS_CardinalityType
<1>14. lost' = lost => FilesInv'
  BY <1>9, <1>10 DEF FilesInv, RetriesDuplicateNothing
<1>15. lost' = lost + 1 => FilesInv' /\ Slack'
  <2>1. ASSUME lost' = lost + 1 PROVE folders' + Cardinality(Twins') <= lost'
    BY <1>9, <2>1
  <2>2. ASSUME lost' = lost + 1 PROVE folders' + Cardinality(Twins') <= lost' + 1
    BY <1>1, <1>11, <2>1, <2>2
  <2> QED
    BY <1>10, <2>1, <2>2 DEF FilesInv, RetriesDuplicateNothing, Slack
<1> QED
  BY <1>4, <1>5, <1>12, <1>14, <1>15 DEF at, new

\* A step of the one command there is keeps the invariant.
LEMMA SoloKeeps ==
  ASSUME ~Overlap, \A p, q \in Procs : Host[p] = Host[q],
         NEW p \in Procs, Command(p), TypeOK, TypeOK', SoloInv
  PROVE  SoloInv'
<1> DEFINE me == proc[p]
           Same == UNCHANGED <<remote, edits, made, local, backup, scratch, taken>>
           Kept == FilesInv' /\ PushInv(p)'
<1>1. /\ \A q \in Procs \ {p} : proc'[q] = proc[q]
      /\ me.at = "idle" => ~Busy(Host[p])
      /\ me \in Memory /\ proc'[p] \in Memory /\ proc \in [Procs -> Memory]
      /\ FilesInv /\ PushInv(p)
      /\ folders \in Nat /\ files \in Nat
  BY CommandFrame, BoundsAssumption DEF TypeOK, SoloInv
<1>2. \A q \in Procs \ {p} : proc[q].at = "idle"
  BY <1>1 DEF SoloInv, Busy
<1>3. SUFFICES Kept
  <2>1. \A q \in Procs \ {p} : PushInv(q)'
    BY <1>1, <1>2 DEF PushInv, Holds
  <2> QED
    BY <1>1, <1>2, <1>3, <2>1 DEF SoloInv
<1>4. ASSUME UNCHANGED remote
      PROVE  /\ FilesInv' /\ (Slack => Slack')
             /\ \A f, name : Found(f, name)' = Found(f, name)
             /\ \A i, f, name : Known(i, f, name) => Known(i, f, name)'
  <2>1. Twins' = Twins /\ UNCHANGED <<folders, files, file, lost>>
    BY <1>4 DEF remote, Twins
  <2>2. FilesInv' /\ (Slack => Slack')
    BY <1>1, <2>1 DEF FilesInv, RetriesDuplicateNothing, Slack
  <2>3. \A f, name : Found(f, name)' = Found(f, name)
    BY <2>1 DEF Found
  <2> QED
    BY <2>2, <2>3 DEF Known
<1>5. ASSUME Same, Holds(p, {"idle", "folder"})' PROVE Kept
  BY <1>4, <1>5 DEF PushInv, Holds
<1>6. ASSUME Same, proc'[p] = Idle PROVE Kept
  <2>1. Idle.at = "idle"
    BY DEF Idle
  <2> QED
    BY <1>5, <1>6, <2>1 DEF Holds
<1>7. ASSUME NEW cmd \in Commands, Start(p, cmd) PROVE Kept
  <2>1. proc'[p].at = "folder"
    BY <1>1, <1>7 DEF Start, Idle
  <2> QED
    BY <1>5, <1>7, <2>1 DEF Start, Holds
\* After the status a pull goes on with both files, or the command ends.
<1>8. ASSUME NEW db, NEW man, NEW next, next = AfterStatus(p, db, man), ~me.push
      PROVE  \/ next = Idle
             \/ next.at = "folder"
             \/ next = [me EXCEPT !.at = "download"] /\ db # None
  BY <1>1, <1>8 DEF AfterStatus, Memory
<1>9. CASE FindFolder(p)
  <2>1. Same /\ me.at = "folder"
    BY <1>9 DEF FindFolder
  <2>2. CASE \E f \in 1 .. folders : proc' = [proc EXCEPT ![p].folder = f, ![p].at = "db"]
    <3>1. proc'[p].at = "db" /\ proc'[p].folder \in 1 .. folders
      BY <1>1, <2>2 DEF Memory
    <3> QED
      BY <1>4, <2>1, <3>1 DEF PushInv, Holds, remote
  <2>3. CASE folders = 0 /\ Goto(p, "create")
    <3>1. proc'[p].at = "create"
      BY <1>1, <2>3 DEF Goto, Memory
    <3>2. files = 0
      BY <1>1, <2>3 DEF FilesInv
    <3>3. Twins = {} /\ lost \in Nat
      BY <3>2, BoundsAssumption DEF Twins, TypeOK
    <3>4. Slack
      BY <2>3, <3>3, FS_EmptySet DEF Slack
    <3> QED
      BY <1>4, <2>1, <3>1, <3>4 DEF PushInv, Holds, remote
  <2>4. CASE ~me.push /\ proc' = [proc EXCEPT ![p] = AfterStatus(p, None, None)]
    <3>1. proc'[p] = AfterStatus(p, None, None)
      BY <1>1, <2>4
    <3>2. proc'[p] = Idle \/ proc'[p].at = "folder"
      BY <1>8, <2>4, <3>1
    <3> QED
      BY <1>5, <1>6, <2>1, <3>2 DEF Holds
  <2> QED
    BY <1>9, <2>2, <2>3, <2>4 DEF FindFolder
<1>10. CASE CreateFolder(p)
  <2> DEFINE memory == [me EXCEPT !.folder = folders + 1, !.at = "db"]
  <2>1. /\ Slack /\ folders' = folders + 1 /\ UNCHANGED <<files, file>>
        /\ Answered(p, memory) /\ me.at = "create"
    BY <1>1, <1>10 DEF CreateFolder, PushInv, Holds
  <2>2. memory.at = "db" /\ memory.folder = folders + 1
    BY <1>1 DEF Memory
  <2> HIDE DEF memory
  <2>3. Twins' = Twins /\ lost \in Nat /\ Cardinality(Twins) \in Nat
    BY <2>1, BoundsAssumption, TwinsFinite DEF Twins, TypeOK
  <2>4. \A j \in 1 .. files' : file'[j].folder \in 1 .. folders'
    BY <1>1, <2>1 DEF FilesInv
  <2>5. CASE proc' = [proc EXCEPT ![p] = memory] /\ UNCHANGED lost
    <3>1. folders' + Cardinality(Twins') <= lost' + 1
      BY <1>1, <2>1, <2>3, <2>5 DEF Slack
    <3>2. proc'[p].at = "db" /\ proc'[p].folder \in 1 .. folders'
      BY <1>1, <2>1, <2>2, <2>5
    <3> QED
      BY <2>4, <3>1, <3>2 DEF FilesInv, RetriesDuplicateNothing, PushInv, Holds
  <2>6. CASE lost' = lost + 1 /\ UNCHANGED proc
    <3>1. folders' + Cardinality(Twins') <= lost'
      BY <1>1, <2>1, <2>3, <2>6 DEF Slack
    <3>2. folders' + Cardinality(Twins') <= lost' + 1
      BY <1>1, <2>1, <2>3, <2>6 DEF Slack
    <3> QED
      BY <2>1, <2>4, <2>6, <3>1, <3>2 DEF FilesInv, RetriesDuplicateNothing, PushInv, Holds, Slack
  <2> QED
    BY <2>1, <2>5, <2>6 DEF Answered
<1>11. CASE FindDb(p)
  <2>1. Same /\ me.at = "db"
    BY <1>11 DEF FindDb
  <2>2. PICK i \in Found(me.folder, "db") :
          proc' = [proc EXCEPT ![p].db = i, ![p].at = "manifest"]
    BY <1>11 DEF FindDb
  <2>3. proc'[p].at = "manifest" /\ proc'[p].folder = me.folder /\ proc'[p].db = i
    BY <1>1, <2>2 DEF Memory
  <2> QED
    BY <1>1, <1>4, <2>1, <2>2, <2>3 DEF PushInv, Holds, remote
<1>12. CASE FindManifest(p)
  <2>1. Same /\ me.at = "manifest"
    BY <1>12 DEF FindManifest
  <2>2. PICK i \in Found(me.folder, "manifest") :
          proc'[p] = IF me.push THEN [me EXCEPT !.man = i, !.at = "vacuum"]
                     ELSE LET next == AfterStatus(p, me.db, i)
                          IN IF next.at = "download"
                             THEN [next EXCEPT !.man = i, !.snap = file[i].snap,
                                               !.gen = file[i].gen]
                             ELSE next
    BY <1>1, <1>12 DEF FindManifest
  <2>3. CASE me.push
    <3>1. /\ proc'[p].at = "vacuum" /\ proc'[p].folder = me.folder /\ proc'[p].push
          /\ proc'[p].db = me.db /\ proc'[p].man = i
      BY <1>1, <2>2, <2>3 DEF Memory
    <3> QED
      BY <1>1, <1>4, <2>1, <2>2, <3>1 DEF PushInv, Holds, remote
  <2>4. CASE ~me.push
    <3> DEFINE next == AfterStatus(p, me.db, i)
    <3>1. next = Idle \/ next.at = "folder" \/ next = [me EXCEPT !.at = "download"]
      BY <1>8, <2>4
    <3>2. CASE next = Idle
      BY <1>6, <2>1, <2>2, <2>4, <3>2 DEF Idle
    <3>3. CASE next.at = "folder"
      BY <1>5, <2>1, <2>2, <2>4, <3>3 DEF Holds
    <3>4. CASE next = [me EXCEPT !.at = "download"]
      <4>1. proc'[p].at = "download" /\ proc'[p].push = me.push
        BY <1>1, <2>2, <2>4, <3>4 DEF Memory
      <4> QED
        BY <1>4, <2>1, <2>4, <4>1 DEF PushInv, Holds
    <3> QED
      BY <3>1, <3>2, <3>3, <3>4
  <2> QED
    BY <2>3, <2>4
\* Between the two lookups and the upload nothing that Drive holds changes.
<1>13. ASSUME UNCHANGED remote, Holds(p, {"vacuum", "vacuuming", "read"}),
              Holds(p, {"vacuuming", "read", "upload"})',
              proc'[p].folder = me.folder, proc'[p].push = me.push,
              proc'[p].db = me.db, proc'[p].man = me.man
       PROVE  Kept
  <2>1. /\ FilesInv' /\ me.folder \in 1 .. folders /\ folders' = folders
        /\ me.push /\ me.db \in Found(me.folder, "db")' /\ me.man \in Found(me.folder, "manifest")'
    BY <1>1, <1>4, <1>13 DEF PushInv, Holds, remote
  <2> QED
    BY <1>13, <2>1 DEF PushInv, Holds, Known
<1>14. CASE VacuumStart(p)
  BY <1>1, <1>13, <1>14 DEF VacuumStart, VacuumNumbered, Memory, Holds
<1>15. CASE VacuumEnd(p)
  BY <1>1, <1>13, <1>15 DEF VacuumEnd, Goto, Memory, Holds
<1>16. CASE ReadSnapshot(p)
  BY <1>1, <1>13, <1>16 DEF ReadSnapshot, Memory, Holds
\* An upload to the file that is there, or to a new one: answered, it is known;
\* its answer lost, it is there to be made once more.
<1>23. ASSUME NEW f \in 1 .. folders, f = me.folder, NEW name \in {"db", "manifest"},
              NEW i, Known(i, f, name), NEW gen, Put(p, i, name, gen), UNCHANGED folders
       PROVE  /\ lost' = lost => FilesInv'
              /\ lost' = lost + 1 => FilesInv' /\ Known(i, f, name)'
              /\ LET at == IF i = None THEN files + 1 ELSE i
                 IN /\ at \in 1 .. files' /\ at \in Found(f, name)' \ {None}
                    /\ file'[at] = [folder |-> f, name |-> name, snap |-> me.snap, gen |-> gen]
              /\ \A other \in {"db", "manifest"} : other # name => Untouched(f, other)
  <2> DEFINE at == IF i = None THEN files + 1 ELSE i
  <2>1. /\ lost' = lost => FilesInv'
        /\ lost' = lost + 1 => FilesInv' /\ Slack'
        /\ at \in 1 .. files'
        /\ file'[at] = [folder |-> f, name |-> name, snap |-> me.snap, gen |-> gen]
        /\ \A other \in {"db", "manifest"} : other # name => Untouched(f, other)
    <3>1. FilesInv
      BY <1>1
    <3> QED
      BY <1>23, <3>1, PutKeepsFiles
  <2>2. at \in Found(f, name)' /\ at # None
    <3> HIDE DEF at
    <3> QED
      BY <2>1 DEF Found, None
  <2> QED
    BY <2>1, <2>2 DEF Known
<1>17. CASE UploadDb(p)
  <2>0. PICK f \in 1 .. folders : f = me.folder
    BY <1>1, <1>17 DEF UploadDb, PushInv, Holds
  <2>9. PICK i : i = me.db
    OBVIOUS
  <2> DEFINE at == IF i = None THEN files + 1 ELSE i
             memory == [me EXCEPT !.db = IF me.db = None THEN files + 1 ELSE me.db, !.at = "vouch"]
  <2>1. /\ Known(i, f, "db") /\ me.at = "upload"
        /\ me.push /\ me.man \in Found(f, "manifest")
        /\ Put(p, i, "db", 0) /\ UNCHANGED folders
        /\ Answered(p, memory)
    BY <1>1, <1>17, <2>0, <2>9 DEF UploadDb, PushInv, Holds
  <2>2. /\ memory.at = "vouch" /\ memory.db = at /\ memory.folder = f
        /\ memory.man = me.man /\ memory.push /\ memory.snap = me.snap
    BY <1>1, <2>0, <2>1, <2>9 DEF Memory
  <2>3. /\ at \in 1 .. files'
        /\ file'[at] = [folder |-> f, name |-> "db", snap |-> me.snap, gen |-> 0]
        /\ Found(f, "manifest")' = Found(f, "manifest")
    BY <1>23, <2>0, <2>1 DEF Untouched
  <2>4. /\ lost' = lost => FilesInv'
        /\ lost' = lost + 1 => FilesInv' /\ Known(i, f, "db")'
    BY <1>23, <2>0, <2>1
  <2> HIDE DEF at, memory
  <2>5. CASE proc' = [proc EXCEPT ![p] = memory] /\ UNCHANGED lost
    <3>1. proc'[p] = memory
      BY <1>1, <2>5
    <3> QED
      BY <2>0, <2>1, <2>2, <2>3, <2>4, <2>5, <3>1 DEF PushInv, Holds, Known
  <2>6. CASE lost' = lost + 1 /\ UNCHANGED proc
    BY <2>0, <2>1, <2>3, <2>4, <2>6, <2>9 DEF PushInv, Holds
  <2> QED
    BY <2>1, <2>5, <2>6 DEF Answered
<1>18. CASE UploadManifest(p)
  <2>0. PICK f \in 1 .. folders : f = me.folder
    BY <1>1, <1>18 DEF UploadManifest, PushInv, Holds
  <2>9. PICK i : i = me.man
    OBVIOUS
  <2> DEFINE at == IF i = None THEN files + 1 ELSE i
             memory == [me EXCEPT !.man = IF me.man = None THEN files + 1 ELSE me.man, !.at = "record"]
  <2>1. /\ Known(i, f, "manifest") /\ me.at = "vouch" /\ me.push
        /\ Put(p, i, "manifest", me.gen) /\ UNCHANGED folders
        /\ me.db \in 1 .. files
        /\ file[me.db] = [folder |-> f, name |-> "db", snap |-> me.snap, gen |-> 0]
        /\ Answered(p, memory)
    BY <1>1, <1>18, <2>0, <2>9 DEF UploadManifest, PushInv, Holds
  <2>2. memory.at = "record" /\ memory.db = me.db /\ memory.man = at /\ memory.folder = f
    BY <1>1, <2>0, <2>9 DEF Memory
  <2>3. /\ file'[at] = [folder |-> f, name |-> "manifest", snap |-> me.snap, gen |-> me.gen]
        /\ \A j \in 1 .. files : file[j].name = "db" => j \in 1 .. files' /\ file'[j] = file[j]
    BY <1>23, <2>0, <2>1 DEF Untouched
  <2>4. /\ lost' = lost => FilesInv'
        /\ lost' = lost + 1 => FilesInv' /\ Known(i, f, "manifest")'
        /\ at \in Found(f, "manifest")' \ {None}
    BY <1>23, <2>0, <2>1
  <2>5. me.db \in 1 .. files' /\ file'[me.db] = file[me.db]
    BY <2>1, <2>3
  <2>7. me.db \in Found(f, "db")' \ {None}
    BY <1>1, <2>1, <2>5 DEF Found, None
  <2> HIDE DEF at, memory
  <2>8. CASE proc' = [proc EXCEPT ![p] = memory] /\ UNCHANGED lost
    <3>1. proc'[p] = memory
      BY <1>1, <2>8
    <3>2. file'[me.db].snap = file'[at].snap
      BY <2>1, <2>3, <2>5
    <3> QED
      BY <2>0, <2>1, <2>2, <2>4, <2>7, <2>8, <3>1, <3>2 DEF PushInv, Holds
  <2>6. CASE lost' = lost + 1 /\ UNCHANGED proc
    BY <2>0, <2>1, <2>4, <2>5, <2>6, <2>9 DEF PushInv, Holds
  <2> QED
    BY <2>1, <2>6, <2>8 DEF Answered
\* A pull does not push, whatever it is at.
<1>19. ASSUME Same, ~me.push, Holds(p, {"backup", "install", "record"})',
              proc'[p].push = me.push
       PROVE  Kept
  BY <1>4, <1>19 DEF PushInv, Holds
<1>20. CASE Download(p)
  <2>1. Same /\ ~me.push
    BY <1>1, <1>20 DEF Download, PushInv, Holds
  <2>2. CASE Goto(p, "backup")
    <3>1. proc'[p].at = "backup" /\ proc'[p].push = me.push
      BY <1>1, <2>2 DEF Goto, Memory
    <3> QED
      BY <1>19, <2>1, <3>1 DEF Holds
  <2>3. CASE Exit(p)
    BY <1>1, <1>6, <2>1, <2>3 DEF Exit
  <2> QED
    BY <1>20, <2>2, <2>3 DEF Download
<1>21. ASSUME Backup(p) \/ Install(p) PROVE Kept
  <2>1. UNCHANGED remote /\ ~me.push
    BY <1>1, <1>21 DEF Backup, Install, PushInv, Holds
  <2>2. Holds(p, {"install", "record"})' /\ proc'[p].push = me.push
    BY <1>1, <1>21 DEF Backup, Install, Goto, Memory, Holds
  <2>3. FilesInv'
    BY <1>4, <2>1
  <2> QED
    BY <2>1, <2>2, <2>3 DEF PushInv, Holds
<1>22. ASSUME Record(p) \/ Stop(p) PROVE Kept
  <2>1. UNCHANGED remote /\ proc'[p].at = "idle"
    BY <1>1, <1>22 DEF Record, Stop, Exit, Idle
  <2>2. FilesInv'
    BY <1>4, <2>1
  <2> QED
    BY <2>1, <2>2 DEF PushInv, Holds
<1> QED
  BY <1>7, <1>9, <1>10, <1>11, <1>12, <1>14, <1>15, <1>16, <1>17, <1>18, <1>20, <1>21, <1>22
  DEF Command

\* On one machine the files of the pair and the object follow each other as well.
THEOREM SoloInvariant ==
  ASSUME ~Overlap, \A p, q \in Procs : Host[p] = Host[q] PROVE Spec => []SoloInv
<1>1. Init => SoloInv
  <2> SUFFICES ASSUME Init PROVE SoloInv
    OBVIOUS
  <2>1. Twins = {} /\ Cardinality(Twins) = 0
    <3>1. Twins = {}
      BY DEF Init, Twins
    <3> QED
      BY <3>1, FS_EmptySet
  <2> QED
    BY <2>1 DEF Init, SoloInv, FilesInv, RetriesDuplicateNothing, PushInv, Holds, Idle
<1>2. TypeOK /\ TypeOK' /\ SoloInv /\ [Next]_vars => SoloInv'
  <2> SUFFICES ASSUME TypeOK, TypeOK', SoloInv, [Next]_vars PROVE SoloInv'
    OBVIOUS
  <2>1. ASSUME UNCHANGED <<folders, files, file, lost, proc>> PROVE SoloInv'
    <3>1. (FilesInv' <=> FilesInv) /\ (Slack' <=> Slack)
      <4>1. Twins' = Twins
        BY <2>1 DEF Twins
      <4> QED
        BY <2>1, <4>1 DEF FilesInv, RetriesDuplicateNothing, Slack
    <3>2. /\ \A f, name : Found(f, name)' = Found(f, name)
          /\ \A i, f, name : Known(i, f, name)' <=> Known(i, f, name)
      BY <2>1, <3>1 DEF Found, Known
    <3>3. \A p \in Procs : PushInv(p)'
      BY <2>1, <3>1, <3>2 DEF SoloInv, PushInv, Holds
    <3> QED
      BY <2>1, <3>1, <3>3 DEF SoloInv
  <2>2. ASSUME NEW m \in Machines, EditLocal(m) PROVE SoloInv'
    BY <2>1, <2>2 DEF EditLocal, remote
  <2>3. CASE UNCHANGED vars
    BY <2>1, <2>3 DEF vars
  <2> QED
    BY <2>2, <2>3, SoloKeeps DEF Next
<1> QED
  BY <1>1, <1>2, TypeCorrect, PTL DEF Spec

\* With one command at a time, all on one machine: a push that is tried again after
\* a crash at any step makes no second folder and no second file; there is one too
\* many at most for each answer of Drive that got lost.
THEOREM SoloDuplicatesNothing ==
  ASSUME ~Overlap, \A p, q \in Procs : Host[p] = Host[q]
  PROVE  Spec => []RetriesDuplicateNothing
<1>1. SoloInv => RetriesDuplicateNothing
  BY DEF SoloInv, FilesInv
<1> QED
  BY <1>1, SoloInvariant, PTL

\* With one command at a time, all on one machine: when a push is about to record
\* its success, the manifest vouches for the very database file beside it, whatever
\* pushes crashed before it; and there is no other pair if no answer was lost.
THEOREM SoloLeavesPair ==
  ASSUME ~Overlap, \A p, q \in Procs : Host[p] = Host[q] PROVE Spec => []PushLeavesPair
<1>1. TypeOK /\ SoloInv => PushLeavesPair
  <2> SUFFICES ASSUME TypeOK, SoloInv, NEW p \in Procs, Pushing(p, "record")
               PROVE  /\ file[proc[p].db].snap = file[proc[p].man].snap
                      /\ lost = 0 => \A i \in Found(proc[p].folder, "db"),
                                       j \in Found(proc[p].folder, "manifest") :
                                         file[i].snap = file[j].snap
    BY DEF PushLeavesPair
  <2> DEFINE me == proc[p]
  <2>1. /\ me.folder \in 1 .. folders
        /\ me.db \in Found(me.folder, "db") \ {None}
        /\ me.man \in Found(me.folder, "manifest") \ {None}
        /\ file[me.db].snap = file[me.man].snap
    BY DEF SoloInv, PushInv, Holds, Pushing
  <2>2. ASSUME lost = 0 PROVE Twins = {}
    <3>1. folders \in Nat /\ folders >= 1
      BY <2>1, BoundsAssumption DEF TypeOK
    <3>2. folders + Cardinality(Twins) <= lost + 1
      BY DEF SoloInv, FilesInv, RetriesDuplicateNothing
    <3>3. IsFiniteSet(Twins) /\ Cardinality(Twins) = 0
      BY <2>2, <3>1, <3>2, TwinsFinite
    <3> QED
      BY <3>3, FS_EmptySet
  \* Without twins a name stands for one file.
  <2>3. ASSUME lost = 0, NEW name, NEW i \in Found(me.folder, name),
               NEW k \in Found(me.folder, name) \ {None}
        PROVE  i = k
    <3>1. files \in Nat
      BY BoundsAssumption DEF TypeOK
    <3>2. /\ k \in 1 .. files /\ file[k].folder = me.folder /\ file[k].name = name
          /\ i \in 1 .. files /\ file[i].folder = me.folder /\ file[i].name = name
      BY <2>3 DEF Found
    <3>3. i \notin Twins /\ k \notin Twins
      BY <2>2, <2>3
    <3>4. ~(k < i) /\ ~(i < k)
      BY <3>1, <3>2, <3>3 DEF Twins
    <3> QED
      BY <3>1, <3>2, <3>4
  <2> QED
    BY <2>1, <2>3
<1> QED
  BY <1>1, SoloInvariant, TypeCorrect, PTL

=============================================================================
