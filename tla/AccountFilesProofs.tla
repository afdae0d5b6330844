--------------------------- MODULE AccountFilesProofs ---------------------------
(***************************************************************************)
(* Theorems of AccountFiles, for any names and bounds.                     *)
(***************************************************************************)
EXTENDS AccountFiles, TLAPS

FileKinds == Sides \cup {"db", "wal", "toml"}
Memory == [at : Phases, place : Places, how : Hows, first : BOOLEAN,
           left : SUBSET FileKinds, next : 1 .. 4]

\* The files of one place are databases, WALs and the other kinds of the model.
FilesTyped ==
  /\ db \in [Places -> {NoFile} \cup SUBSET Commits]
  /\ wal \in [Places -> {NoFile} \cup Wal]
  /\ side \in [Places -> SUBSET Sides]

\* What a command finds in a database, or on the disk, are commits.
LEMMA VisibleCommits ==
  ASSUME FilesTyped, NEW pl \in Places
  PROVE  /\ Visible(pl) \in SUBSET Commits
         /\ OnDisk(pl) \in SUBSET Commits
         /\ Kinds(pl) \in SUBSET FileKinds
<1>1. db[pl] \in {NoFile} \cup SUBSET Commits
  BY DEF FilesTyped
<1>2. wal[pl] = NoFile \/ wal[pl] \in Wal
  BY DEF FilesTyped
<1>3. wal[pl] # NoFile => wal[pl].rows \in SUBSET Commits
  BY <1>2 DEF Wal
<1>4. Visible(pl) \in SUBSET Commits
  BY <1>1, <1>3 DEF Visible
<1>5. OnDisk(pl) \in SUBSET Commits
  BY <1>1, <1>3 DEF OnDisk
<1>6. Kinds(pl) \in SUBSET FileKinds
  <2>1. side[pl] \subseteq FileKinds
    BY DEF FilesTyped, FileKinds
  <2>2. {"db"} \subseteq FileKinds /\ {"wal"} \subseteq FileKinds
    BY DEF FileKinds
  <2> QED
    BY <2>1, <2>2 DEF Kinds
<1> QED
  BY <1>4, <1>5, <1>6

\* A rename keeps files what they are.
LEMMA MovedTyped ==
  ASSUME FilesTyped, NEW kind \in FileKinds, NEW n \in Names, Moved(kind, n)
  PROVE  FilesTyped'
<1> USE DEF FilesTyped, Places
<1>1. db' \in [Places -> {NoFile} \cup SUBSET Commits]
  BY DEF Moved
<1>2. wal' \in [Places -> {NoFile} \cup Wal]
  BY DEF Moved
<1>3. side' \in [Places -> SUBSET Sides]
  BY DEF Moved
<1> QED
  BY <1>1, <1>2, <1>3

-----------------------------------------------------------------------------
\* A command is at work on the directory of an account, or on a database that is there.
PlaceNamed ==
  /\ proc.at \in {"list", "siblings", "sides", "toml", "current", "remove"} => proc.place \in Names
  /\ proc.at = "open" => db[proc.place] # NoFile

\* The type invariant, and that adds and removes work on an account's directory.
THEOREM TypeCorrect == Spec => [](TypeOK /\ PlaceNamed)
<1> DEFINE Inv == TypeOK /\ PlaceNamed
<1>0. TypeOK <=>
        /\ FilesTyped
        /\ accounts \subseteq Names /\ current \in Names \cup {NoAccount}
        /\ proc \in Memory
        /\ commits \in 0 .. MaxCommits /\ adds \in 0 .. MaxAdds
        /\ removed \subseteq Commits
        /\ begun \in [Names -> [rows : SUBSET Commits, side : SUBSET Sides]]
        /\ interrupted \subseteq Names \X Hows /\ strayed \in BOOLEAN
  BY DEF TypeOK, FilesTyped, Memory, FileKinds
<1>idle. Idle \in Memory /\ Idle.at = "idle"
  BY DEF Idle, Memory, Phases, Hows, Places
<1>1. Init => Inv
  <2> SUFFICES ASSUME Init PROVE Inv
    OBVIOUS
  <2>1. FilesTyped
    <3>1. PICK old \in {NoFile, {}} : db = [pl \in Places |-> IF pl = Legacy THEN old ELSE NoFile]
      BY DEF Init
    <3>2. db \in [Places -> {NoFile} \cup SUBSET Commits]
      BY <3>1
    <3>3. PICK start \in Starts : side = [pl \in Places |-> IF pl = Legacy THEN start ELSE {}]
      BY DEF Init
    <3>4. side \in [Places -> SUBSET Sides]
      BY <3>3, StartsAssumption DEF Sides
    <3>5. wal \in [Places -> {NoFile} \cup Wal]
      BY DEF Init
    <3> QED
      BY <3>2, <3>4, <3>5 DEF FilesTyped
  <2>2. proc = Idle /\ PlaceNamed
    BY DEF Init, Idle, PlaceNamed
  <2>3. begun \in [Names -> [rows : SUBSET Commits, side : SUBSET Sides]]
    BY DEF Init, Nothing
  <2>4. commits \in 0 .. MaxCommits /\ adds \in 0 .. MaxAdds
    BY BoundsAssumption DEF Init
  <2>5. proc \in Memory
    BY <2>2, <1>idle
  <2>6. /\ accounts \subseteq Names /\ current \in Names \cup {NoAccount}
        /\ removed \subseteq Commits
        /\ interrupted \subseteq Names \X Hows /\ strayed \in BOOLEAN
    BY DEF Init
  <2> QED
    BY <2>1, <2>2, <2>3, <2>4, <2>5, <2>6, <1>0
<1>2. Inv /\ [Next]_vars => Inv'
  <2> SUFFICES ASSUME Inv, [Next]_vars PROVE Inv'
    OBVIOUS
  <2>0. /\ FilesTyped /\ accounts \subseteq Names /\ current \in Names \cup {NoAccount}
        /\ proc \in Memory /\ PlaceNamed
        /\ commits \in 0 .. MaxCommits /\ adds \in 0 .. MaxAdds
        /\ removed \subseteq Commits
        /\ begun \in [Names -> [rows : SUBSET Commits, side : SUBSET Sides]]
        /\ interrupted \subseteq Names \X Hows /\ strayed \in BOOLEAN
    BY <1>0
  <2>p. proc.place \in Places /\ proc.how \in Hows /\ proc.left \subseteq FileKinds
        /\ proc.at \in Phases /\ proc.first \in BOOLEAN /\ proc.next \in 1 .. 4
    BY <2>0 DEF Memory
  <2>q. SUFFICES /\ FilesTyped' /\ (accounts \subseteq Names)'
                 /\ (current \in Names \cup {NoAccount})'
                 /\ (proc \in Memory)' /\ PlaceNamed'
                 /\ (commits \in 0 .. MaxCommits)' /\ (adds \in 0 .. MaxAdds)'
                 /\ (removed \subseteq Commits)'
                 /\ (begun \in [Names -> [rows : SUBSET Commits, side : SUBSET Sides]])'
                 /\ (interrupted \subseteq Names \X Hows)' /\ (strayed \in BOOLEAN)'
    BY DEF TypeOK, FilesTyped, Memory, FileKinds
  <2> HIDE DEF Inv
  <2>1. CASE UNCHANGED vars
    BY <2>1, <2>0 DEF vars, FilesTyped, PlaceNamed
  <2>2. CASE Open
    <3>1. PICK flag \in Places \cup {NoAccount} :
            \E pl \in Resolved(flag) \cap (accounts \cup {Legacy}) :
              /\ proc' = [Idle EXCEPT !.at = "open", !.place = pl]
              /\ db' = [db EXCEPT ![pl] = IF @ = NoFile \/ (wal[pl] # NoFile /\ ~Belongs(pl))
                                          THEN {} ELSE @]
              /\ wal' = [wal EXCEPT ![pl] = IF Belongs(pl) THEN @ ELSE NoFile]
              /\ strayed' = (strayed \/ (pl = Legacy /\ interrupted # {}))
      BY <2>2 DEF Open
    <3>2. PICK pl \in accounts \cup {Legacy} :
              /\ proc' = [Idle EXCEPT !.at = "open", !.place = pl]
              /\ db' = [db EXCEPT ![pl] = IF @ = NoFile \/ (wal[pl] # NoFile /\ ~Belongs(pl))
                                          THEN {} ELSE @]
              /\ wal' = [wal EXCEPT ![pl] = IF Belongs(pl) THEN @ ELSE NoFile]
              /\ strayed' = (strayed \/ (pl = Legacy /\ interrupted # {}))
      BY <3>1
    <3>3. pl \in Places
      BY <2>0 DEF Places
    <3>4. db' \in [Places -> {NoFile} \cup SUBSET Commits]
      BY <3>2, <3>3, <2>0 DEF FilesTyped
    <3>5. wal' \in [Places -> {NoFile} \cup Wal]
      BY <3>2, <3>3, <2>0 DEF FilesTyped
    <3>6. proc' \in Memory /\ proc'.at = "open" /\ proc'.place = pl
      BY <3>2, <3>3, <1>idle DEF Memory, Phases, Idle
    <3>7. db'[pl] # NoFile
      BY <3>2, <3>3, <2>0, NoFileAssumption DEF FilesTyped
    <3>8. PlaceNamed'
      BY <3>6, <3>7 DEF PlaceNamed
    <3> QED
      BY <2>2, <3>2, <3>4, <3>5, <3>6, <3>8, <2>0 DEF Open, FilesTyped
  <2>3. CASE Commit
    <3> DEFINE pl == proc.place
               rows == (IF wal[pl] = NoFile THEN {} ELSE wal[pl].rows) \cup {commits + 1}
    <3>1. commits + 1 \in Commits /\ commits' \in 0 .. MaxCommits
      BY <2>3, <2>0, BoundsAssumption DEF Commit, Commits
    <3>2. wal[pl] = NoFile \/ wal[pl] \in Wal
      BY <2>0, <2>p DEF FilesTyped
    <3>3. db[pl] \in SUBSET Commits
      BY <2>3, <2>0, <2>p DEF FilesTyped, PlaceNamed, Commit
    <3>4. rows \in SUBSET Commits
      BY <3>1, <3>2 DEF Wal
    <3>5. [over |-> db[pl], rows |-> rows] \in Wal
      BY <3>3, <3>4 DEF Wal
    <3>6. wal' = [wal EXCEPT ![pl] = [over |-> db[pl], rows |-> rows]]
      BY <2>3 DEF Commit
    <3> HIDE DEF rows
    <3>7. FilesTyped'
      BY <2>3, <3>5, <3>6, <2>0 DEF Commit, FilesTyped
    <3> QED
      BY <2>3, <3>1, <3>7, <2>0 DEF Commit, ghosts, PlaceNamed
  <2>4. CASE Close
    <3>1. Visible(proc.place) \in SUBSET Commits
      BY <2>0, <2>p, VisibleCommits
    <3>2. FilesTyped'
      BY <2>4, <3>1, <2>0 DEF Close, FilesTyped
    <3>3. proc' = Idle
      BY <2>4 DEF Close
    <3> QED
      BY <2>4, <3>2, <3>3, <1>idle, <2>0 DEF Close, ghosts, PlaceNamed
  <2>5. CASE \E n \in Names, how \in Hows \ {"remove"} : AddStart(n, how)
    <3>0. PICK n \in Names, how \in Hows \ {"remove"} : AddStart(n, how)
      BY <2>5
    <3>1. Visible(Legacy) \in SUBSET Commits
      BY <2>0, VisibleCommits DEF Places
    <3>2. side[Legacy] \in SUBSET Sides
      BY <2>0 DEF FilesTyped, Places
    <3>3. begun' \in [Names -> [rows : SUBSET Commits, side : SUBSET Sides]]
      <4> DEFINE new == IF ~Adopts(how) THEN Nothing
                        ELSE [rows |-> Visible(Legacy),
                              side |-> side[Legacy] \ (IF how = "plain" THEN {} ELSE {"reports"})]
      <4>1. new \in [rows : SUBSET Commits, side : SUBSET Sides]
        BY <3>1, <3>2 DEF Nothing
      <4>2. begun' = IF Halved(n) THEN begun ELSE [begun EXCEPT ![n] = new]
        BY <3>0 DEF AddStart
      <4> HIDE DEF new
      <4> QED
        BY <4>1, <4>2, <2>0
    <3>4. proc' \in Memory /\ proc'.at \in {"list", "toml"} /\ proc'.place = n
      <4> DEFINE next == [Idle EXCEPT !.at = IF Adopts(how) THEN "list" ELSE "toml",
                            !.place = n, !.how = how, !.first = (accounts = {})]
      <4>1. next \in Memory
        BY <1>idle DEF Memory, Phases, Places
      <4>2. next.at \in {"list", "toml"} /\ next.place = n
        BY DEF Idle
      <4>3. proc' = next
        BY <3>0 DEF AddStart
      <4> HIDE DEF next
      <4> QED
        BY <4>1, <4>2, <4>3
    <3>5. adds' \in 0 .. MaxAdds /\ UNCHANGED <<accounts, current, commits, removed, interrupted>>
      BY <3>0, <2>0, BoundsAssumption DEF AddStart
    <3>8. PlaceNamed'
      BY <3>4 DEF PlaceNamed
    <3>6. strayed' \in BOOLEAN
      BY <3>0, <2>0 DEF AddStart
    <3>7. FilesTyped'
      BY <3>0, <2>0 DEF AddStart, files, FilesTyped
    <3> QED
      BY <3>3, <3>4, <3>5, <3>6, <3>7, <3>8, <2>0
  <2>6. CASE ListSiblings
    <3>1. Kinds(Legacy) \in SUBSET FileKinds
      BY <2>0, VisibleCommits DEF Places
    <3>2. proc' \in Memory /\ (proc'.at = "idle" \/ (proc'.at \in {"siblings", "sides"}
                                                     /\ proc'.place = proc.place))
      <4>1. CASE db[Legacy] # NoFile
        <5> DEFINE there == Kinds(Legacy) \cap {"db", "wal", "before"}
                   next == [proc EXCEPT !.at = "siblings", !.left = there]
        <5>1. there \in SUBSET FileKinds
          BY <3>1
        <5> HIDE DEF there
        <5>2. next \in Memory /\ next.at = "siblings" /\ next.place = proc.place
          BY <5>1, <2>0 DEF Memory, Phases
        <5>3. proc' = next
          BY <2>6, <4>1 DEF ListSiblings, there
        <5> QED
          BY <5>2, <5>3
      <4>2. CASE db[Legacy] = NoFile /\ db[proc.place] # NoFile
        BY <2>6, <4>2, <2>0 DEF ListSiblings, Memory, Phases
      <4>3. CASE db[Legacy] = NoFile /\ db[proc.place] = NoFile
        BY <2>6, <4>3, <1>idle DEF ListSiblings
      <4> QED
        BY <4>1, <4>2, <4>3
    <3>3. FilesTyped'
      BY <2>6, <2>0 DEF ListSiblings, files, FilesTyped
    <3> QED
      BY <2>6, <3>2, <3>3, <2>0 DEF ListSiblings, ghosts, PlaceNamed
  <2>7. CASE MoveSibling
    <3>1. PICK kind \in proc.left :
            /\ Moved(kind, proc.place)
            /\ proc' = [proc EXCEPT !.left = @ \ {kind},
                                    !.at = IF proc.left = {kind} THEN "sides" ELSE @]
      BY <2>7 DEF MoveSibling
    <3>2. proc.place \in Names /\ kind \in FileKinds /\ proc.at = "siblings"
      BY <2>7, <2>0, <2>p DEF MoveSibling, PlaceNamed
    <3>3. FilesTyped'
      BY <3>1, <3>2, <2>0, MovedTyped
    <3>4. proc' \in Memory /\ proc'.at \in {"siblings", "sides"} /\ proc'.place = proc.place
      BY <3>1, <3>2, <2>0 DEF Memory, Phases
    <3> QED
      BY <2>7, <3>2, <3>3, <3>4, <2>0 DEF MoveSibling, ghosts, PlaceNamed
  <2>8. CASE MoveSide
    <3>1. proc.place \in Names /\ proc.at = "sides" /\ proc.next \in 1 .. 3
      BY <2>8, <2>0 DEF MoveSide, PlaceNamed
    <3>2. InOrder[proc.next] \in FileKinds
      BY <3>1 DEF InOrder, FileKinds, Sides
    <3>3. FilesTyped'
      BY <2>8, <3>1, <3>2, <2>0, MovedTyped DEF MoveSide
    <3>4. proc' \in Memory /\ proc'.at = "sides" /\ proc'.place = proc.place
      BY <2>8, <3>1, <2>0 DEF MoveSide, Memory
    <3> QED
      BY <2>8, <3>1, <3>3, <3>4, <2>0 DEF MoveSide, ghosts, PlaceNamed
  <2>9. CASE SaveToml
    <3>1. proc.place \in Names /\ UNCHANGED <<current, commits, adds, removed, begun, interrupted, strayed>>
      BY <2>9, <2>0 DEF SaveToml, PlaceNamed, ghosts
    <3>4. accounts' \subseteq Names
      BY <2>9, <3>1, <2>0 DEF SaveToml
    <3>2. proc' \in Memory /\ (proc'.at = "idle" \/ (proc'.at = "current" /\ proc'.place = proc.place))
      <4>1. CASE proc.first
        BY <2>9, <4>1, <2>0 DEF SaveToml, Memory, Phases
      <4>2. CASE ~proc.first
        BY <2>9, <4>2, <1>idle DEF SaveToml
      <4> QED
        BY <4>1, <4>2
    <3>3. FilesTyped'
      BY <2>9, <2>0 DEF SaveToml, files, FilesTyped
    <3> QED
      BY <2>9, <3>1, <3>2, <3>3, <2>0 DEF SaveToml, ghosts, PlaceNamed
  <2>10. CASE SetFirst
    <3>1. proc.place \in Names /\ proc' = Idle
      BY <2>10, <2>0 DEF SetFirst, PlaceNamed
    <3>2. FilesTyped'
      BY <2>10, <2>0 DEF SetFirst, files, FilesTyped
    <3> QED
      BY <2>10, <3>1, <3>2, <1>idle, <2>0 DEF SetFirst, ghosts, PlaceNamed
  <2>11. CASE \E n \in Names : Use(n)
    <3>0. PICK n \in Names : Use(n)
      BY <2>11
    <3>1. FilesTyped' /\ PlaceNamed'
      BY <3>0, <2>0 DEF Use, files, FilesTyped, PlaceNamed
    <3> QED
      BY <3>0, <3>1, <2>0 DEF Use, ghosts
  <2>12. CASE \E n \in Names : RemoveStart(n)
    <3>0. PICK n \in Names : RemoveStart(n)
      BY <2>12
    <3>1. OnDisk(n) \in SUBSET Commits /\ Kinds(n) \in SUBSET FileKinds
      BY <2>0, VisibleCommits DEF Places
    <3>2. proc' \in Memory /\ proc'.at = "remove" /\ proc'.place = n
      <4> DEFINE next == [Idle EXCEPT !.at = "remove", !.place = n, !.how = "remove",
                            !.left = Kinds(n) \cup {"toml"}]
      <4>1. next \in Memory
        BY <3>1, <1>idle DEF Memory, Phases, Places, Hows, FileKinds
      <4>2. next.at = "remove" /\ next.place = n
        BY DEF Idle
      <4>3. proc' = next
        BY <3>0 DEF RemoveStart
      <4> HIDE DEF next
      <4> QED
        BY <4>1, <4>2, <4>3
    <3>3. begun' \in [Names -> [rows : SUBSET Commits, side : SUBSET Sides]]
      BY <3>0, <2>0 DEF RemoveStart, Nothing
    <3>4. adds' \in 0 .. MaxAdds
      BY <3>0, <2>0, BoundsAssumption DEF RemoveStart
    <3>5. FilesTyped'
      BY <3>0, <2>0 DEF RemoveStart, files, FilesTyped
    <3> QED
      BY <3>0, <3>1, <3>2, <3>3, <3>4, <3>5, <2>0 DEF RemoveStart, PlaceNamed
  <2>13. CASE RemoveFile
    <3> DEFINE n == proc.place
    <3>1. PICK kind \in proc.left :
            /\ db' = [db EXCEPT ![n] = IF kind = "db" THEN NoFile ELSE @]
            /\ wal' = [wal EXCEPT ![n] = IF kind = "wal" THEN NoFile ELSE @]
            /\ side' = [side EXCEPT ![n] = @ \ {kind}]
            /\ accounts' = IF kind = "toml" THEN accounts \ {n} ELSE accounts
            /\ proc' = IF proc.left = {kind} THEN Idle ELSE [proc EXCEPT !.left = @ \ {kind}]
            /\ interrupted' = interrupted \ (IF proc.left = {kind} THEN {<<n, "remove">>} ELSE {})
      BY <2>13 DEF RemoveFile
    <3>2. n \in Names /\ proc.at = "remove"
      BY <2>13, <2>0 DEF RemoveFile, PlaceNamed
    <3>3. FilesTyped'
      BY <3>1, <3>2, <2>0 DEF FilesTyped, Places
    <3>4. proc' \in Memory /\ (proc'.at = "idle" \/ (proc'.at = "remove" /\ proc'.place = n))
      <4>1. CASE proc.left = {kind}
        BY <3>1, <4>1, <1>idle
      <4>2. CASE proc.left # {kind}
        BY <3>1, <3>2, <4>2, <2>0 DEF Memory
      <4> QED
        BY <4>1, <4>2
    <3> QED
      BY <2>13, <3>1, <3>2, <3>3, <3>4, <2>0 DEF RemoveFile, PlaceNamed
  <2>14. CASE Stop
    <3>1. interrupted' \subseteq Names \X Hows
      BY <2>14, <2>0, <2>p DEF Stop, PlaceNamed
    <3>2. FilesTyped' /\ proc' = Idle
      BY <2>14, <2>0 DEF Stop, files, FilesTyped
    <3> QED
      BY <2>14, <3>1, <3>2, <1>idle, <2>0 DEF Stop, PlaceNamed
  <2> QED
    BY <2>1, <2>2, <2>3, <2>4, <2>5, <2>6, <2>7, <2>8, <2>9, <2>10, <2>11, <2>12, <2>13, <2>14
    DEF Next
<1> QED
  BY <1>1, <1>2, PTL DEF Spec

-----------------------------------------------------------------------------
(* The current pointer.                                                    *)

\* CurrentExists holds because a removal works on an account that is not the
\* current one, and account.toml is there before the pointer is written.
Pointed ==
  /\ CurrentExists
  /\ proc.at = "remove" => proc.place # current
  /\ proc.at = "current" => proc.place \in accounts

\* The current account exists, whatever is killed between account.toml, the
\* pointer and the files of a removal.
THEOREM CurrentAlwaysExists == Spec => []CurrentExists
<1> USE DEF Pointed, CurrentExists
<1>1. Init => Pointed
  BY DEF Init, Idle
<1>2. Pointed /\ TypeOK /\ [Next]_vars => Pointed'
  <2> SUFFICES ASSUME Pointed, TypeOK, [Next]_vars PROVE Pointed'
    OBVIOUS
  <2>idle. Idle.at = "idle"
    BY DEF Idle
  <2>1. CASE UNCHANGED vars
    BY <2>1 DEF vars
  <2>2. CASE Open
    <3>1. PICK pl \in Places : proc' = [Idle EXCEPT !.at = "open", !.place = pl]
      BY <2>2 DEF Open, Resolved, Places, TypeOK
    <3>2. proc'.at = "open"
      BY <3>1 DEF Idle
    <3> QED
      BY <2>2, <3>2 DEF Open
  <2>3. CASE Commit
    BY <2>3 DEF Commit, ghosts
  <2>4. CASE Close
    BY <2>4, <2>idle DEF Close, ghosts
  <2>5. CASE \E n \in Names, how \in Hows \ {"remove"} : AddStart(n, how)
    BY <2>5 DEF AddStart, Idle
  <2>6. CASE ListSiblings
    <3>1. proc'.at \in {"siblings", "sides", "idle"}
      BY <2>6, <2>idle DEF ListSiblings, TypeOK
    <3> QED
      BY <2>6, <3>1 DEF ListSiblings, ghosts
  <2>7. CASE MoveSibling
    <3>1. proc'.at \in {"siblings", "sides"}
      BY <2>7 DEF MoveSibling, TypeOK
    <3> QED
      BY <2>7, <3>1 DEF MoveSibling, ghosts
  <2>8. CASE MoveSide
    <3>1. proc'.at = "sides"
      BY <2>8 DEF MoveSide, TypeOK
    <3> QED
      BY <2>8, <3>1 DEF MoveSide, ghosts
  <2>9. CASE SaveToml
    BY <2>9, <2>idle DEF SaveToml, ghosts, TypeOK
  <2>10. CASE SetFirst
    BY <2>10, <2>idle DEF SetFirst, ghosts
  <2>11. CASE \E n \in Names : Use(n)
    BY <2>11 DEF Use, ghosts
  <2>12. CASE \E n \in Names : RemoveStart(n)
    BY <2>12 DEF RemoveStart, Idle
  <2>13. CASE RemoveFile
    <3>1. PICK kind \in proc.left :
            /\ accounts' = IF kind = "toml" THEN accounts \ {proc.place} ELSE accounts
            /\ proc' = IF proc.left = {kind} THEN Idle ELSE [proc EXCEPT !.left = @ \ {kind}]
      BY <2>13 DEF RemoveFile
    <3>2. proc'.at = "idle" \/ (proc'.at = "remove" /\ proc'.place = proc.place)
      BY <2>13, <3>1, <2>idle DEF RemoveFile, TypeOK
    <3> QED
      BY <2>13, <3>1, <3>2 DEF RemoveFile
  <2>14. CASE Stop
    BY <2>14, <2>idle DEF Stop
  <2> QED
    BY <2>1, <2>2, <2>3, <2>4, <2>5, <2>6, <2>7, <2>8, <2>9, <2>10, <2>11, <2>12, <2>13, <2>14
    DEF Next
<1> QED
  BY <1>1, <1>2, TypeCorrect, PTL DEF Spec

-----------------------------------------------------------------------------
(* Databases and WALs that belong together.                                *)

\* No database and no WAL there.
Clean(n) == db[n] = NoFile /\ wal[n] = NoFile

\* The WAL there, if any, is of the database there.
Paired(pl) == wal[pl] = NoFile \/ Belongs(pl)

\* The old install's database and WAL, each here or there, are of one another.
Split(n) ==
  /\ db[n] = NoFile \/ db[Legacy] = NoFile
  /\ wal[n] = NoFile \/ wal[Legacy] = NoFile
  /\ \A pl \in {n, Legacy} : wal[pl] # NoFile => wal[pl].over \in {db[n], db[Legacy]}

\* A WAL that belongs to its database has one, and adds its commits to it.
LEMMA PairedIsVisible ==
  ASSUME FilesTyped, NEW pl \in Places, Paired(pl)
  PROVE  /\ db[pl] = NoFile => wal[pl] = NoFile /\ OnDisk(pl) = {}
         /\ Visible(pl) = OnDisk(pl)
<1>1. wal[pl] = NoFile \/ (wal[pl] \in Wal /\ wal[pl].over = db[pl] /\ wal[pl].over \in SUBSET Commits)
  BY DEF Paired, Belongs, FilesTyped, Wal
<1>2. db[pl] = NoFile => wal[pl] = NoFile
  BY <1>1, NoFileAssumption DEF Commits
<1> QED
  BY <1>2 DEF Visible, OnDisk, Paired

\* What is said of a place is about its files alone.
LEMMA SameFiles ==
  \A pl : db'[pl] = db[pl] /\ wal'[pl] = wal[pl] =>
    /\ Paired(pl)' <=> Paired(pl)
    /\ Clean(pl)' <=> Clean(pl)
    /\ OnDisk(pl)' = OnDisk(pl) /\ Visible(pl)' = Visible(pl)
    /\ db'[Legacy] = db[Legacy] /\ wal'[Legacy] = wal[Legacy] => (Split(pl)' <=> Split(pl))
BY DEF Paired, Clean, OnDisk, Visible, Belongs, Split

\* A rename takes one file from here to there.
LEMMA MovedFiles ==
  ASSUME FilesTyped, NEW kind \in FileKinds \ {"toml"}, NEW n \in Names, Moved(kind, n)
  PROVE  /\ \A m \in Places \ {n, Legacy} :
              db'[m] = db[m] /\ wal'[m] = wal[m] /\ side'[m] = side[m]
         /\ kind = "db" => db'[n] = db[Legacy] /\ db'[Legacy] = NoFile /\ UNCHANGED wal
         /\ kind = "wal" => wal'[n] = wal[Legacy] /\ wal'[Legacy] = NoFile /\ UNCHANGED db
         /\ kind \in Sides => UNCHANGED <<db, wal>>
         /\ kind \in {"db", "wal"} => UNCHANGED side
         /\ side'[n] = side[n] \cup ({kind} \cap side[Legacy])
         /\ side'[Legacy] = side[Legacy] \ {kind}
<1>1. n \in Places /\ Legacy \in Places /\ n # Legacy
  BY NamesAssumption DEF Places
<1>2. side[Legacy] \subseteq Sides /\ "db" \notin Sides /\ "wal" \notin Sides
  BY <1>1 DEF FilesTyped, Sides
<1>3. kind \in Sides \/ kind \in {"db", "wal"}
  BY DEF FileKinds
<1>4. /\ \A m \in Places \ {n, Legacy} : db'[m] = db[m]
      /\ kind = "db" => db'[n] = db[Legacy] /\ db'[Legacy] = NoFile
      /\ kind # "db" => UNCHANGED db
  BY <1>1 DEF Moved, FilesTyped
<1>5. /\ \A m \in Places \ {n, Legacy} : wal'[m] = wal[m]
      /\ kind = "wal" => wal'[n] = wal[Legacy] /\ wal'[Legacy] = NoFile
      /\ kind # "wal" => UNCHANGED wal
  BY <1>1 DEF Moved, FilesTyped
<1>6. /\ \A m \in Places \ {n, Legacy} : side'[m] = side[m]
      /\ kind \in side[Legacy] => side'[n] = side[n] \cup {kind} /\ side'[Legacy] = side[Legacy] \ {kind}
      /\ kind \notin side[Legacy] => UNCHANGED side
  BY <1>1 DEF Moved, FilesTyped
<1> QED
  BY <1>2, <1>3, <1>4, <1>5, <1>6

\* A rename of what is there keeps database and WAL one another's, and every commit.
LEMMA MovedKeeps ==
  ASSUME FilesTyped, NEW kind \in FileKinds \ {"toml"}, NEW n \in Names, Moved(kind, n),
         kind \in {"db", "wal"} => kind \in Kinds(Legacy), Split(n)
  PROVE  /\ Split(n)'
         /\ OnDisk(n)' \cup OnDisk(Legacy)' = OnDisk(n) \cup OnDisk(Legacy)
<1>1. /\ kind = "db" => db[Legacy] # NoFile
      /\ kind = "wal" => wal[Legacy] # NoFile
  <2>1. side[Legacy] \subseteq Sides /\ "db" \notin Sides /\ "wal" \notin Sides
    BY DEF FilesTyped, Sides, Places
  <2> QED
    BY <2>1 DEF Kinds
<1>2. kind = "db" => db[n] = NoFile
  BY <1>1 DEF Split
<1>3. kind = "wal" => wal[n] = NoFile
  BY <1>1 DEF Split
<1>4. CASE kind = "db"
  BY <1>1, <1>2, <1>4, MovedFiles DEF Split, OnDisk
<1>5. CASE kind = "wal"
  BY <1>1, <1>3, <1>5, MovedFiles DEF Split, OnDisk
<1>6. CASE kind \in Sides
  <2>1. UNCHANGED <<db, wal>>
    BY <1>6, MovedFiles
  <2> QED
    BY <2>1 DEF Split, OnDisk
<1> QED
  BY <1>4, <1>5, <1>6 DEF FileKinds

LEMMA KindsHere ==
  ASSUME FilesTyped, NEW pl \in Places
  PROVE  /\ "db" \in Kinds(pl) <=> db[pl] # NoFile
         /\ "wal" \in Kinds(pl) <=> wal[pl] # NoFile
BY DEF FilesTyped, Sides, Kinds

Adding == {"list", "siblings", "sides", "toml"}

\* What a command at work has done itself, whoever else worked there before.
AtWork ==
  /\ proc.at = "open" => Paired(proc.place) /\ proc.place \in accounts \cup {Legacy}
  /\ proc.at \in Adding => proc.place \notin accounts /\ proc.how # "remove"
  /\ proc.at \in {"list", "siblings", "sides"} => proc.how # "empty"
  /\ \A n \in Names : <<n, "empty">> \notin interrupted
  /\ proc.at = "siblings" =>
       /\ "db" \in proc.left <=> db[Legacy] # NoFile
       /\ "wal" \in proc.left <=> wal[Legacy] # NoFile
       /\ "toml" \notin proc.left
  /\ proc.at = "sides" => db[Legacy] = NoFile
  /\ proc.at = "toml" => db[Legacy] = NoFile \/ proc.how = "empty"
  /\ proc.at = "remove" =>
       /\ proc.how = "remove"
       /\ db[proc.place] # NoFile => "db" \in proc.left
       /\ wal[proc.place] # NoFile => "wal" \in proc.left
       /\ proc.place \in accounts => "toml" \in proc.left

Known == TypeOK /\ PlaceNamed

LEMMA KnownParts ==
  ASSUME Known
  PROVE  /\ FilesTyped /\ proc \in Memory /\ proc.place \in Places
         /\ proc.left \subseteq FileKinds /\ proc.at \in Phases /\ proc.how \in Hows
         /\ interrupted \subseteq Names \X Hows
         /\ proc.at \in Adding \cup {"current", "remove"} => proc.place \in Names
         /\ proc.at = "open" => db[proc.place] # NoFile
         /\ accounts \subseteq Names /\ Legacy \notin Names /\ Legacy \in Places /\ Names \subseteq Places
         /\ commits \in Nat
BY NamesAssumption, BoundsAssumption
   DEF Known, TypeOK, FilesTyped, PlaceNamed, Memory, FileKinds, Adding, Places

\* A step that leaves the files, the accounts and what is interrupted alone, for a command
\* that is idle then.
LEMMA AtWorkIdle ==
  ASSUME AtWork, proc'.at \in {"idle", "current"},
         \A n \in Names : <<n, "empty">> \notin interrupted'
  PROVE  AtWork'
BY DEF AtWork, Adding

LEMMA AtWorkOpen ==
  ASSUME Known, Known', AtWork, Open
  PROVE  AtWork'
<1>1. PICK pl \in accounts \cup {Legacy} :
        /\ proc' = [Idle EXCEPT !.at = "open", !.place = pl]
        /\ db' = [db EXCEPT ![pl] = IF @ = NoFile \/ (wal[pl] # NoFile /\ ~Belongs(pl))
                                    THEN {} ELSE @]
        /\ wal' = [wal EXCEPT ![pl] = IF Belongs(pl) THEN @ ELSE NoFile]
  BY DEF Open
<1>2. pl \in Places /\ FilesTyped
  BY KnownParts
<1>3. Paired(pl)'
  <2>1. CASE Belongs(pl)
    <3>1. Paired(pl) /\ wal[pl] # NoFile
      BY <2>1 DEF Belongs, Paired
    <3>2. db[pl] # NoFile
      BY <1>2, <3>1, PairedIsVisible
    <3>3. db'[pl] = db[pl] /\ wal'[pl] = wal[pl]
      BY <1>1, <1>2, <2>1, <3>2 DEF FilesTyped
    <3> QED
      BY <3>1, <3>3, SameFiles
  <2>2. CASE ~ Belongs(pl)
    BY <1>1, <1>2, <2>2 DEF Paired, FilesTyped
  <2> QED
    BY <2>1, <2>2
<1>4. proc'.at = "open" /\ proc'.place = pl
  BY <1>1 DEF Idle
<1>5. Paired(proc.place)'
  BY <1>3, <1>4 DEF Paired, Belongs
<1> QED
  BY <1>1, <1>4, <1>5 DEF Open, AtWork, Adding

LEMMA AtWorkAdd ==
  ASSUME Known, Known', AtWork,
         NEW n \in Names, NEW how \in Hows \ {"remove"}, AddStart(n, how)
  PROVE  AtWork'
<1>1. /\ proc'.at = (IF Adopts(how) THEN "list" ELSE "toml") /\ proc'.place = n /\ proc'.how = how
      /\ n \notin accounts /\ UNCHANGED <<db, wal, accounts, interrupted>>
  BY DEF AddStart, Idle, files
<1>2. Adopts(how) => how # "empty"
  BY DEF Adopts
<1>3. ~ Adopts(how) => db[Legacy] = NoFile \/ how = "empty"
  BY DEF Adopts, Hows
<1> QED
  BY <1>1, <1>2, <1>3 DEF AtWork, Adding

LEMMA AtWorkMove ==
  ASSUME Known, Known', AtWork, ListSiblings \/ MoveSibling \/ MoveSide \/ SaveToml
  PROVE  AtWork'
<1>0. /\ FilesTyped /\ proc \in Memory /\ Legacy \in Places /\ Legacy \notin Names
      /\ proc.at \in Adding => proc.place \in Names
      /\ proc.left \subseteq FileKinds
  BY KnownParts
<1>1. CASE ListSiblings
  <2> DEFINE there == Kinds(Legacy) \cap {"db", "wal", "before"}
  <2>1. proc.at = "list" /\ UNCHANGED <<db, wal, accounts, interrupted>>
    BY <1>1 DEF ListSiblings, files, ghosts
  <2>2. CASE db[Legacy] # NoFile
    <3>1. proc' = [proc EXCEPT !.at = "siblings", !.left = there]
      BY <1>1, <2>2 DEF ListSiblings
    <3> HIDE DEF there
    <3>2. proc'.at = "siblings" /\ proc'.left = there /\ proc'.place = proc.place
          /\ proc'.how = proc.how
      BY <3>1, <1>0 DEF Memory
    <3>3. /\ "db" \in there <=> db[Legacy] # NoFile
          /\ "wal" \in there <=> wal[Legacy] # NoFile
          /\ "toml" \notin there
      BY <1>0, KindsHere DEF there
    <3> QED
      BY <2>1, <3>2, <3>3 DEF AtWork, Adding
  <2>3. CASE db[Legacy] = NoFile /\ db[proc.place] # NoFile
    <3>1. proc'.at = "sides" /\ proc'.place = proc.place /\ proc'.how = proc.how
      BY <1>1, <2>3, <1>0 DEF ListSiblings, Memory
    <3> QED
      BY <2>1, <2>3, <3>1 DEF AtWork, Adding
  <2>4. CASE db[Legacy] = NoFile /\ db[proc.place] = NoFile
    <3>1. proc'.at = "idle"
      BY <1>1, <2>4 DEF ListSiblings, Idle
    <3> QED
      BY <2>1, <3>1 DEF AtWork, Adding
  <2> QED
    BY <2>2, <2>3, <2>4
<1>2. CASE MoveSibling
  <2>1. PICK kind \in proc.left :
          /\ Moved(kind, proc.place)
          /\ proc' = [proc EXCEPT !.left = @ \ {kind},
                                  !.at = IF proc.left = {kind} THEN "sides" ELSE @]
    BY <1>2 DEF MoveSibling
  <2>2. PICK n \in Names : n = proc.place
    BY <1>2, <1>0 DEF MoveSibling, Adding
  <2>3. proc.at = "siblings" /\ UNCHANGED <<accounts, interrupted>>
    BY <1>2 DEF MoveSibling, ghosts
  <2>4. /\ proc'.left = proc.left \ {kind} /\ proc'.place = proc.place /\ proc'.how = proc.how
        /\ proc'.at = IF proc.left = {kind} THEN "sides" ELSE "siblings"
    BY <2>1, <2>3, <1>0 DEF Memory
  <2>5. kind \in FileKinds \ {"toml"}
    BY <2>3, <1>0 DEF AtWork
  <2>6. /\ kind = "db" => db'[Legacy] = NoFile /\ UNCHANGED wal
        /\ kind = "wal" => wal'[Legacy] = NoFile /\ UNCHANGED db
        /\ kind \in Sides => UNCHANGED <<db, wal>>
    BY <2>1, <2>2, <2>5, <1>0, MovedFiles
  <2>7. /\ "db" \in proc'.left <=> db'[Legacy] # NoFile
        /\ "wal" \in proc'.left <=> wal'[Legacy] # NoFile
        /\ "toml" \notin proc'.left
    BY <2>3, <2>4, <2>5, <2>6 DEF AtWork, FileKinds, Sides
  <2>8. proc'.at = "sides" => db'[Legacy] = NoFile
    BY <2>4, <2>7
  <2> QED
    BY <2>3, <2>4, <2>7, <2>8 DEF AtWork, Adding
<1>3. CASE MoveSide
  <2>1. PICK n \in Names : n = proc.place
    BY <1>3, <1>0 DEF MoveSide, Adding
  <2>2. proc.at = "sides" /\ UNCHANGED <<accounts, interrupted>> /\ proc.next \in 1 .. 3
        /\ Moved(InOrder[proc.next], n)
    BY <1>3, <2>1 DEF MoveSide, ghosts
  <2>3. InOrder[proc.next] \in Sides
    BY <2>2 DEF InOrder, Sides
  <2>4. UNCHANGED <<db, wal>>
    BY <2>2, <2>3, <1>0, MovedFiles DEF FileKinds, Sides
  <2>5. proc'.at = "sides" /\ proc'.place = proc.place /\ proc'.how = proc.how
    BY <1>3, <2>2, <1>0 DEF MoveSide, Memory
  <2> QED
    BY <2>2, <2>4, <2>5 DEF AtWork, Adding
<1>4. CASE SaveToml
  <2>1. proc'.at \in {"idle", "current"} /\ UNCHANGED interrupted
    BY <1>4, <1>0 DEF SaveToml, ghosts, Idle, Memory
  <2> QED
    BY <2>1, AtWorkIdle DEF AtWork
<1> QED
  BY <1>1, <1>2, <1>3, <1>4

LEMMA AtWorkRemove ==
  ASSUME Known, Known', AtWork, (\E n \in Names : RemoveStart(n)) \/ RemoveFile
  PROVE  AtWork'
<1>0. FilesTyped /\ proc \in Memory /\ proc.place \in Places /\ Names \subseteq Places
  BY KnownParts
<1>1. CASE \E n \in Names : RemoveStart(n)
  <2>1. PICK n \in Names : RemoveStart(n)
    BY <1>1
  <2>2. /\ proc'.at = "remove" /\ proc'.place = n /\ proc'.left = Kinds(n) \cup {"toml"}
        /\ proc'.how = "remove" /\ UNCHANGED <<db, wal, interrupted>>
    BY <2>1 DEF RemoveStart, Idle, files
  <2>3. (db[n] # NoFile => "db" \in Kinds(n)) /\ (wal[n] # NoFile => "wal" \in Kinds(n))
    BY <1>0, KindsHere
  <2> QED
    BY <2>2, <2>3 DEF AtWork, Adding
<1>2. CASE RemoveFile
  <2> DEFINE n == proc.place
  <2>1. PICK kind \in proc.left :
          /\ db' = [db EXCEPT ![n] = IF kind = "db" THEN NoFile ELSE @]
          /\ wal' = [wal EXCEPT ![n] = IF kind = "wal" THEN NoFile ELSE @]
          /\ accounts' = IF kind = "toml" THEN accounts \ {n} ELSE accounts
          /\ proc' = IF proc.left = {kind} THEN Idle ELSE [proc EXCEPT !.left = @ \ {kind}]
          /\ interrupted' = interrupted \ (IF proc.left = {kind} THEN {<<n, "remove">>} ELSE {})
    BY <1>2 DEF RemoveFile
  <2>2. proc.at = "remove" /\ \A m \in Names : <<m, "empty">> \notin interrupted'
    BY <1>2, <2>1 DEF RemoveFile, AtWork
  <2>3. CASE proc.left = {kind}
    <3>1. proc'.at = "idle"
      BY <2>1, <2>3 DEF Idle
    <3> QED
      BY <2>2, <3>1, AtWorkIdle
  <2>4. CASE proc.left # {kind}
    <3>1. /\ proc'.at = "remove" /\ proc'.place = n /\ proc'.left = proc.left \ {kind}
          /\ proc'.how = proc.how
      BY <2>1, <2>2, <2>4, <1>0 DEF Memory
    <3>2. /\ db'[n] = IF kind = "db" THEN NoFile ELSE db[n]
          /\ wal'[n] = IF kind = "wal" THEN NoFile ELSE wal[n]
      BY <2>1, <1>0 DEF FilesTyped
    <3>3. n \in accounts' => n \in accounts /\ kind # "toml"
      BY <2>1
    <3> QED
      BY <2>2, <3>1, <3>2, <3>3 DEF AtWork, Adding
  <2> QED
    BY <2>3, <2>4
<1> QED
  BY <1>1, <1>2

LEMMA AtWorkAlways == Spec => [](Known /\ AtWork)
<1>1. Init => AtWork
  BY DEF Init, AtWork, Idle, Adding
<1>2. Known /\ Known' /\ AtWork /\ [Next]_vars => AtWork'
  <2> SUFFICES ASSUME Known, Known', AtWork, [Next]_vars PROVE AtWork'
    OBVIOUS
  <2>idle. Idle.at = "idle"
    BY DEF Idle
  <2>1. CASE UNCHANGED vars
    <3>1. Paired(proc.place)' <=> Paired(proc.place)
      BY <2>1 DEF vars, Paired, Belongs
    <3> QED
      BY <2>1, <3>1 DEF vars, AtWork
  <2>2. CASE Commit
    <3>1. PICK pl \in Places : pl = proc.place
      BY KnownParts
    <3>2. /\ proc.at = "open" /\ UNCHANGED <<db, accounts, proc, interrupted>>
          /\ wal'[pl].over = db[pl]
      BY <2>2, <3>1, KnownParts DEF Commit, ghosts, FilesTyped
    <3>3. Paired(proc.place)'
      BY <3>1, <3>2 DEF Paired, Belongs
    <3> QED
      BY <3>2, <3>3 DEF AtWork, Adding
  <2>3. CASE Close \/ SetFirst
    BY <2>3, <2>idle, AtWorkIdle DEF Close, SetFirst, ghosts, AtWork
  <2>4. CASE \E n \in Names : Use(n)
    BY <2>4 DEF Use, files, ghosts, AtWork, Paired, Belongs, Adding
  <2>5. CASE Stop
    <3>1. \A n \in Names : <<n, "empty">> \notin interrupted'
      BY <2>5 DEF Stop, AtWork
    <3> QED
      BY <2>5, <3>1, <2>idle, AtWorkIdle DEF Stop
  <2> QED
    BY <2>1, <2>2, <2>3, <2>4, <2>5, AtWorkOpen, AtWorkAdd, AtWorkMove, AtWorkRemove DEF Next
<1>3. Spec => []Known
  BY TypeCorrect, PTL DEF Known
<1> QED
  BY <1>1, <1>2, <1>3, PTL DEF Spec

\* Opening, writing and closing a database keeps what a command finds in it; and, if its
\* WAL is its own, all there is on the disk.
LEMMA DatabaseWork ==
  ASSUME Known, AtWork, Open \/ Commit \/ Close
  PROVE  \E pl \in accounts \cup {Legacy} :
           /\ \A m \in Places \ {pl} : db'[m] = db[m] /\ wal'[m] = wal[m]
           /\ UNCHANGED <<side, accounts, removed, begun, interrupted>>
           /\ Paired(pl)' /\ Visible(pl) \subseteq Visible(pl)'
           /\ Paired(pl) => OnDisk(pl) \subseteq OnDisk(pl)'
           /\ commits' = commits \/ (commits' = commits + 1 /\ commits' \in OnDisk(pl)')
           /\ proc.at \in {"idle", "open"} /\ proc'.at \in {"idle", "open"}
           /\ proc'.at = "open" => proc'.place = pl
           /\ proc.at = "open" => proc.place = pl /\ UNCHANGED strayed
           /\ proc.at = "idle" => strayed' = (strayed \/ (pl = Legacy /\ interrupted # {}))
<1>0. /\ FilesTyped /\ proc \in Memory /\ accounts \subseteq Names /\ Names \subseteq Places
      /\ Legacy \in Places
  BY KnownParts
<1>1. CASE Open
  <2>1. PICK pl \in accounts \cup {Legacy} :
          /\ proc' = [Idle EXCEPT !.at = "open", !.place = pl]
          /\ db' = [db EXCEPT ![pl] = IF @ = NoFile \/ (wal[pl] # NoFile /\ ~Belongs(pl))
                                      THEN {} ELSE @]
          /\ wal' = [wal EXCEPT ![pl] = IF Belongs(pl) THEN @ ELSE NoFile]
          /\ strayed' = (strayed \/ (pl = Legacy /\ interrupted # {}))
    BY <1>1 DEF Open
  <2>2. pl \in Places /\ proc.at = "idle"
        /\ UNCHANGED <<side, accounts, commits, removed, begun, interrupted>>
    BY <1>0, <1>1 DEF Open
  <2>3. proc'.at = "open" /\ proc'.place = pl
    BY <2>1 DEF Idle
  <2>4. \A m \in Places \ {pl} : db'[m] = db[m] /\ wal'[m] = wal[m]
    BY <2>1, <1>0 DEF FilesTyped
  <2>5. /\ Paired(pl)' /\ Visible(pl) \subseteq Visible(pl)'
        /\ Paired(pl) => OnDisk(pl) \subseteq OnDisk(pl)'
    <3>1. CASE Belongs(pl)
      <4>1. Paired(pl) /\ wal[pl] # NoFile
        BY <3>1 DEF Belongs, Paired
      <4>2. db[pl] # NoFile
        BY <1>0, <2>2, <4>1, PairedIsVisible
      <4>3. db'[pl] = db[pl] /\ wal'[pl] = wal[pl]
        BY <2>1, <2>2, <3>1, <4>2, <1>0 DEF FilesTyped
      <4> QED
        BY <4>1, <4>3, SameFiles
    <3>2. CASE wal[pl] = NoFile /\ ~ Belongs(pl)
      <4>1. db'[pl] = (IF db[pl] = NoFile THEN {} ELSE db[pl]) /\ wal'[pl] = NoFile
        BY <2>1, <2>2, <3>2, <1>0 DEF FilesTyped
      <4> QED
        BY <4>1, <3>2 DEF Paired, Visible, OnDisk
    <3>3. CASE wal[pl] # NoFile /\ ~ Belongs(pl)
      <4>1. wal'[pl] = NoFile
        BY <2>1, <2>2, <3>3, <1>0 DEF FilesTyped
      <4> QED
        BY <4>1, <3>3 DEF Paired, Visible, Belongs
    <3> QED
      BY <3>1, <3>2, <3>3
  <2> QED
    BY <2>1, <2>2, <2>3, <2>4, <2>5
<1>2. CASE Commit
  <2>1. PICK pl \in Places : pl = proc.place
    BY KnownParts
  <2> DEFINE new == [over |-> db[pl],
                     rows |-> (IF wal[pl] = NoFile THEN {} ELSE wal[pl].rows) \cup {commits + 1}]
  <2>2. /\ proc.at = "open" /\ commits' = commits + 1
        /\ wal' = [wal EXCEPT ![pl] = new]
        /\ UNCHANGED <<db, side, accounts, proc, removed, begun, interrupted, strayed>>
    BY <1>2, <2>1 DEF Commit, ghosts
  <2>3. pl \in accounts \cup {Legacy} /\ Paired(pl) /\ db[pl] # NoFile
    BY <2>1, <2>2, KnownParts DEF AtWork
  <2>4. new # NoFile
    <3>1. commits + 1 \in Commits
      BY <1>2, KnownParts, BoundsAssumption DEF Commit, Commits
    <3>2. wal[pl] = NoFile \/ wal[pl].rows \in SUBSET Commits
      BY <1>0, <2>1 DEF FilesTyped, Wal
    <3>3. db[pl] \in SUBSET Commits
      BY <1>0, <2>3, <2>1 DEF FilesTyped
    <3> QED
      BY <3>1, <3>2, <3>3, NoFileAssumption DEF Commits
  <2>5. new.over = db[pl] /\ new.rows = (IF wal[pl] = NoFile THEN {} ELSE wal[pl].rows) \cup {commits + 1}
    OBVIOUS
  <2> HIDE DEF new
  <2>6. db'[pl] = db[pl] /\ wal'[pl] = new
        /\ \A m \in Places \ {pl} : db'[m] = db[m] /\ wal'[m] = wal[m]
    BY <2>1, <2>2, <1>0 DEF FilesTyped
  <2>7. /\ Paired(pl)' /\ OnDisk(pl)' = OnDisk(pl) \cup {commits + 1}
        /\ Visible(pl) \subseteq Visible(pl)'
    BY <2>3, <2>4, <2>5, <2>6 DEF Paired, Belongs, OnDisk, Visible
  <2> QED
    BY <2>1, <2>2, <2>3, <2>6, <2>7
<1>3. CASE Close
  <2>1. PICK pl \in Places : pl = proc.place
    BY KnownParts
  <2>2. /\ proc.at = "open" /\ proc' = Idle
        /\ db' = [db EXCEPT ![pl] = Visible(pl)] /\ wal' = [wal EXCEPT ![pl] = NoFile]
        /\ UNCHANGED <<side, accounts, commits, removed, begun, interrupted, strayed>>
    BY <1>3, <2>1 DEF Close, ghosts
  <2>3. pl \in accounts \cup {Legacy} /\ Paired(pl)
    BY <2>1, <2>2 DEF AtWork
  <2>4. Visible(pl) = OnDisk(pl) /\ Visible(pl) # NoFile
    BY <1>0, <2>1, <2>3, PairedIsVisible, VisibleCommits, NoFileAssumption DEF Commits
  <2>5. db'[pl] = Visible(pl) /\ wal'[pl] = NoFile
        /\ \A m \in Places \ {pl} : db'[m] = db[m] /\ wal'[m] = wal[m]
    BY <2>1, <2>2, <1>0 DEF FilesTyped
  <2>6. /\ Paired(pl)' /\ OnDisk(pl)' = Visible(pl) /\ Visible(pl)' = Visible(pl)
    BY <2>4, <2>5 DEF Paired, OnDisk, Visible
  <2>7. proc'.at = "idle"
    BY <2>2 DEF Idle
  <2> QED
    BY <2>1, <2>2, <2>3, <2>4, <2>5, <2>6, <2>7
<1> QED
  BY <1>1, <1>2, <1>3

-----------------------------------------------------------------------------
(* An adoption that was not interrupted.                                   *)

\* What the adoption at work is still to move.
Limit == IF proc.how = "plain" THEN 3 ELSE 2
ToCome ==
  (IF proc.at = "list" THEN {"before"}
   ELSE IF proc.at = "siblings" THEN proc.left \cap {"before"} ELSE {})
  \cup {InOrder[k] : k \in proc.next .. Limit}

\* What an adoption that began anew has to bring into the account: it is there or to come.
Bringing(n) ==
  /\ proc.at = "toml" => begun[n] = Nothing
  /\ proc.at = "list" => begun[n].rows \subseteq Visible(Legacy) /\ proc.next = 1
  /\ proc.at \in {"siblings", "sides"} =>
       \/ begun[n].rows = {}
       \/ Split(n) /\ begun[n].rows \subseteq OnDisk(n) \cup OnDisk(Legacy)
  /\ proc.at = "sides" => Clean(Legacy)
  /\ proc.at # "toml" => begun[n].side \subseteq side[n] \cup (side[Legacy] \cap ToCome)

\* A name without an account has no files, unless a command killed half way left some.
Untouched(n) ==
  ~ Halved(n) /\ ~ (proc.place = n /\ proc.at \in {"siblings", "sides", "remove"}) => Clean(n)

FirstTime ==
  /\ AdoptedIsWhole
  /\ \A n \in Names \ accounts : Untouched(n)
  /\ proc.at = "remove" => begun[proc.place] = Nothing
  /\ proc.at \in Adding /\ ~ Halved(proc.place) => Bringing(proc.place)

LEMMA NothingIsWhole ==
  \A n : begun[n] = Nothing => Whole(n)
BY DEF Nothing, Whole

LEMMA FirstTimeDatabase ==
  ASSUME Known, AtWork, FirstTime, Open \/ Commit \/ Close
  PROVE  FirstTime'
<1>1. PICK pl \in accounts \cup {Legacy} :
        /\ \A m \in Places \ {pl} : db'[m] = db[m] /\ wal'[m] = wal[m]
        /\ UNCHANGED <<side, accounts, removed, begun, interrupted>>
        /\ Visible(pl) \subseteq Visible(pl)'
        /\ proc.at \in {"idle", "open"} /\ proc'.at \in {"idle", "open"}
  BY DatabaseWork
<1>2. accounts \subseteq Names /\ Names \subseteq Places /\ Legacy \notin Names
  BY KnownParts
<1>3. \A m \in Places : Visible(m) \subseteq Visible(m)'
  BY <1>1, SameFiles
<1>4. AdoptedIsWhole'
  BY <1>1, <1>2, <1>3 DEF FirstTime, AdoptedIsWhole, Whole, Halved
<1>5. \A n \in Names \ accounts : Clean(n)' <=> Clean(n)
  BY <1>1, <1>2, SameFiles
<1>6. \A n \in Names \ accounts' : Untouched(n)'
  BY <1>1, <1>5 DEF FirstTime, Untouched, Halved
<1> QED
  BY <1>1, <1>4, <1>6 DEF FirstTime, Adding

LEMMA FirstTimeAdd ==
  ASSUME Known, AtWork, FirstTime,
         NEW n \in Names, NEW how \in Hows \ {"remove"}, AddStart(n, how)
  PROVE  FirstTime'
<1>1. /\ proc'.at = (IF Adopts(how) THEN "list" ELSE "toml") /\ proc'.place = n /\ proc'.how = how
      /\ proc'.next = 1 /\ proc.at = "idle"
      /\ n \notin accounts /\ UNCHANGED <<db, wal, side, accounts, interrupted>>
  BY DEF AddStart, Idle, files
<1> DEFINE old == IF ~Adopts(how) THEN Nothing
                  ELSE [rows |-> Visible(Legacy),
                        side |-> side[Legacy] \ (IF how = "plain" THEN {} ELSE {"reports"})]
<1>2. begun' = (IF Halved(n) THEN begun ELSE [begun EXCEPT ![n] = old])
      /\ begun \in [Names -> [rows : SUBSET Commits, side : SUBSET Sides]]
  BY DEF AddStart, Known, TypeOK
<1> HIDE DEF old
<1>3. \A m : (Halved(m)' <=> Halved(m)) /\ (Clean(m)' <=> Clean(m)) /\ Visible(m)' = Visible(m)
  BY <1>1 DEF Halved, Clean, Visible, Belongs
<1>4. \A m \in Names \ {n} : begun'[m] = begun[m]
  BY <1>2
<1>5. AdoptedIsWhole'
  BY <1>1, <1>3, <1>4, KnownParts DEF FirstTime, AdoptedIsWhole, Whole
<1>6. \A m \in Names \ accounts' : Untouched(m)'
  BY <1>1, <1>3 DEF FirstTime, Untouched
<1>7. ASSUME ~ Halved(n) PROVE Bringing(n)'
  <2>1. begun'[n] = old
    BY <1>2, <1>7
  <2>2. CASE ~ Adopts(how)
    BY <1>1, <2>1, <2>2 DEF Bringing, old
  <2>3. CASE Adopts(how)
    <3>1. old.rows = Visible(Legacy)
          /\ old.side = side[Legacy] \ (IF how = "plain" THEN {} ELSE {"reports"})
      BY <2>3 DEF old
    <3>2. side[Legacy] \subseteq Sides /\ how \in {"plain", "adopt-db"}
      BY <2>3, KnownParts DEF FilesTyped, Adopts
    <3>3. /\ InOrder[1] = "tokens" /\ InOrder[2] = "session" /\ InOrder[3] = "reports"
          /\ 1 \in 1 .. 2 /\ 2 \in 1 .. 2 /\ 1 \in 1 .. 3 /\ 2 \in 1 .. 3 /\ 3 \in 1 .. 3
      BY DEF InOrder
    <3>4. ToCome' = {"before"} \cup {InOrder[k] : k \in 1 .. (IF how = "plain" THEN 3 ELSE 2)}
      BY <1>1, <2>3 DEF ToCome, Limit
    <3>5. side[Legacy] \ (IF how = "plain" THEN {} ELSE {"reports"}) \subseteq ToCome'
      BY <3>2, <3>3, <3>4 DEF Sides
    <3> QED
      BY <1>1, <1>3, <2>1, <2>3, <3>1, <3>5 DEF Bringing
  <2> QED
    BY <2>2, <2>3
<1>8. Bringing(proc.place)' <=> Bringing(n)'
  BY <1>1 DEF Bringing, Split, Clean, OnDisk, Visible, Belongs, ToCome, Limit
<1>9. Halved(proc.place)' <=> Halved(n)'
  BY <1>1 DEF Halved
<1> QED
  BY <1>1, <1>3, <1>5, <1>6, <1>7, <1>8, <1>9 DEF FirstTime

LEMMA FirstTimeList ==
  ASSUME Known, AtWork, FirstTime, ListSiblings
  PROVE  FirstTime'
<1>0. PICK n \in Names : n = proc.place
  BY KnownParts DEF ListSiblings, Adding
<1>1. /\ FilesTyped /\ proc \in Memory /\ Legacy \in Places /\ n \notin accounts
      /\ proc.at = "list"
      /\ UNCHANGED <<db, wal, side, accounts, interrupted, begun>>
  BY <1>0, KnownParts DEF ListSiblings, files, ghosts, AtWork, Adding
<1> DEFINE there == Kinds(Legacy) \cap {"db", "wal", "before"}
<1>2. \A m : (Halved(m)' <=> Halved(m)) /\ (Clean(m)' <=> Clean(m)) /\ (Whole(m)' <=> Whole(m))
  BY <1>1 DEF Halved, Clean, Whole, Visible, Belongs
<1>3. AdoptedIsWhole'
  BY <1>1, <1>2 DEF FirstTime, AdoptedIsWhole
<1>4. ~ Halved(n) => Clean(n) /\ Bringing(n)
  BY <1>0, <1>1 DEF FirstTime, Untouched, Adding
<1>5. CASE db[Legacy] # NoFile
  <2>1. proc' = [proc EXCEPT !.at = "siblings", !.left = there]
    BY <1>5 DEF ListSiblings
  <2> HIDE DEF there
  <2>2. proc'.at = "siblings" /\ proc'.left = there /\ proc'.place = n /\ proc'.how = proc.how
        /\ proc'.next = proc.next
    BY <2>1, <1>0, <1>1 DEF Memory
  <2>3. \A m \in Names \ accounts' : Untouched(m)'
    BY <1>0, <1>1, <1>2, <2>2 DEF FirstTime, Untouched
  <2>4. ASSUME ~ Halved(n) PROVE Bringing(n)'
    <3>1. begun[n].rows \subseteq Visible(Legacy)
      BY <1>1, <1>4, <2>4 DEF Bringing
    <3>2. \/ begun[n].rows = {}
          \/ Split(n) /\ begun[n].rows \subseteq OnDisk(n) \cup OnDisk(Legacy)
      <4>1. CASE Paired(Legacy)
        <5>1. Visible(Legacy) = OnDisk(Legacy)
          BY <4>1, <1>1, PairedIsVisible
        <5>2. Split(n)
          BY <4>1, <1>4, <2>4 DEF Split, Paired, Belongs, Clean
        <5> QED
          BY <3>1, <5>1, <5>2
      <4>2. CASE ~ Paired(Legacy)
        BY <3>1, <4>2 DEF Paired, Visible
      <4> QED
        BY <4>1, <4>2
    <3>3. (Split(n)' <=> Split(n)) /\ OnDisk(n)' = OnDisk(n) /\ OnDisk(Legacy)' = OnDisk(Legacy)
      BY <1>1 DEF Split, OnDisk
    <3>4. side[Legacy] \cap ToCome \subseteq ToCome'
      <4>1. "before" \in side[Legacy] => "before" \in there
        BY DEF there, Kinds
      <4>2. ToCome = {"before"} \cup {InOrder[k] : k \in proc.next .. Limit}
        BY <1>1 DEF ToCome
      <4>3. ToCome' = (there \cap {"before"}) \cup {InOrder[k] : k \in proc.next .. Limit}
        BY <2>2 DEF ToCome, Limit
      <4> QED
        BY <4>1, <4>2, <4>3
    <3>5. begun[n].side \subseteq side[n] \cup (side[Legacy] \cap ToCome')
      BY <3>4, <1>1, <1>4, <2>4 DEF Bringing
    <3> QED
      BY <1>1, <2>2, <3>2, <3>3, <3>5 DEF Bringing
  <2>5. (Bringing(proc.place)' <=> Bringing(n)') /\ (Halved(proc.place)' <=> Halved(n)')
    BY <2>2 DEF Bringing, Split, Clean, OnDisk, Visible, Belongs, ToCome, Limit, Halved
  <2> QED
    BY <1>2, <1>3, <2>2, <2>3, <2>4, <2>5 DEF FirstTime
<1>6. CASE db[Legacy] = NoFile /\ db[n] # NoFile
  <2>1. proc'.at = "sides" /\ proc'.place = n
    BY <1>0, <1>1, <1>6 DEF ListSiblings, Memory
  <2>2. Halved(n)
    BY <1>4, <1>6 DEF Clean
  <2>3. \A m \in Names \ accounts' : Untouched(m)'
    BY <1>0, <1>1, <1>2, <2>1 DEF FirstTime, Untouched
  <2>4. Halved(proc.place)' <=> Halved(n)'
    BY <2>1 DEF Halved
  <2> QED
    BY <1>2, <1>3, <2>1, <2>2, <2>3, <2>4 DEF FirstTime
<1>7. CASE db[Legacy] = NoFile /\ db[n] = NoFile
  <2>1. proc'.at = "idle"
    BY <1>0, <1>7 DEF ListSiblings, Idle
  <2>2. \A m \in Names \ accounts' : Untouched(m)'
    BY <1>1, <1>2, <2>1 DEF FirstTime, Untouched
  <2> QED
    BY <1>3, <2>1, <2>2 DEF FirstTime, Adding
<1> QED
  BY <1>5, <1>6, <1>7

\* One more of what is to come is there.
LEMMA FirstTimeMoved ==
  ASSUME Known, AtWork, FirstTime,
         NEW n \in Names, n = proc.place, proc.at \in {"siblings", "sides"},
         NEW kind \in FileKinds \ {"toml"}, Moved(kind, n),
         kind \in {"db", "wal"} => kind \in Kinds(Legacy),
         UNCHANGED <<accounts, interrupted, begun>>,
         proc'.place = n, proc'.at \in {"siblings", "sides"},
         proc'.at = "sides" => Clean(Legacy)',
         ToCome \subseteq ToCome' \cup {kind}
  PROVE  FirstTime'
<1>1. FilesTyped /\ n \notin accounts /\ accounts \subseteq Names /\ Names \subseteq Places
      /\ Legacy \notin Names
  BY KnownParts DEF AtWork, Adding
<1>2. \A m \in Names \ {n} :
        /\ Halved(m)' <=> Halved(m)
        /\ Clean(m)' <=> Clean(m)
        /\ Whole(m)' <=> Whole(m)
  <2>1. \A m \in Names \ {n} : db'[m] = db[m] /\ wal'[m] = wal[m] /\ side'[m] = side[m]
    BY <1>1, MovedFiles
  <2>2. \A m \in Names \ {n} : (Clean(m)' <=> Clean(m)) /\ Visible(m)' = Visible(m)
    BY <2>1, SameFiles
  <2> QED
    BY <2>1, <2>2 DEF Halved, Whole
<1>3. AdoptedIsWhole'
  BY <1>1, <1>2 DEF FirstTime, AdoptedIsWhole
<1>4. \A m \in Names \ accounts' : Untouched(m)'
  BY <1>2 DEF FirstTime, Untouched
<1>5. ASSUME ~ Halved(n) PROVE Bringing(n)'
  <2>1. Bringing(n)
    BY <1>5 DEF FirstTime, Adding
  <2>2. Split(n) => Split(n)' /\ OnDisk(n)' \cup OnDisk(Legacy)' = OnDisk(n) \cup OnDisk(Legacy)
    BY <1>1, MovedKeeps
  <2>3. side'[n] = side[n] \cup ({kind} \cap side[Legacy]) /\ side'[Legacy] = side[Legacy] \ {kind}
    BY <1>1, MovedFiles
  <2>4. begun[n].side \subseteq side'[n] \cup (side'[Legacy] \cap ToCome')
    BY <2>1, <2>3 DEF Bringing
  <2> QED
    BY <2>1, <2>2, <2>4 DEF Bringing
<1>6. (Bringing(proc.place)' <=> Bringing(n)') /\ (Halved(proc.place)' <=> Halved(n)')
  BY DEF Bringing, Split, Clean, OnDisk, Visible, Belongs, ToCome, Limit, Halved
<1>7. Halved(n)' <=> Halved(n)
  BY DEF Halved
<1> QED
  BY <1>3, <1>4, <1>5, <1>6, <1>7 DEF FirstTime

LEMMA FirstTimeMove ==
  ASSUME Known, AtWork, AtWork', FirstTime, MoveSibling \/ MoveSide
  PROVE  FirstTime'
<1>0. PICK n \in Names : n = proc.place
  BY KnownParts DEF MoveSibling, MoveSide, Adding
<1>1. /\ FilesTyped /\ proc \in Memory /\ proc.left \subseteq FileKinds /\ Legacy \in Places
  BY KnownParts
<1>2. CASE MoveSibling
  <2>1. PICK kind \in proc.left :
          /\ Moved(kind, n)
          /\ proc' = [proc EXCEPT !.left = @ \ {kind},
                                  !.at = IF proc.left = {kind} THEN "sides" ELSE @]
    BY <1>0, <1>2 DEF MoveSibling
  <2>2. proc.at = "siblings" /\ UNCHANGED <<accounts, interrupted, begun>>
    BY <1>2 DEF MoveSibling, ghosts
  <2>3. /\ proc'.left = proc.left \ {kind} /\ proc'.place = n /\ proc'.how = proc.how
        /\ proc'.next = proc.next
        /\ proc'.at = IF proc.left = {kind} THEN "sides" ELSE "siblings"
    BY <2>1, <2>2, <1>0, <1>1 DEF Memory
  <2>4. kind \in FileKinds \ {"toml"}
    BY <2>2, <1>1 DEF AtWork
  <2>5. /\ "db" \in proc.left <=> db[Legacy] # NoFile
        /\ "wal" \in proc.left <=> wal[Legacy] # NoFile
    BY <2>2 DEF AtWork
  <2>6. kind \in {"db", "wal"} => kind \in Kinds(Legacy)
    BY <2>5, <1>1, KindsHere
  <2>7. proc'.at = "sides" => Clean(Legacy)'
    <3>1. SUFFICES ASSUME proc.left = {kind} PROVE db'[Legacy] = NoFile /\ wal'[Legacy] = NoFile
      BY <2>3 DEF Clean
    <3>2. /\ kind = "db" => db'[Legacy] = NoFile /\ UNCHANGED wal
          /\ kind = "wal" => wal'[Legacy] = NoFile /\ UNCHANGED db
          /\ kind \in Sides => UNCHANGED <<db, wal>>
      BY <1>0, <1>1, <2>1, <2>4, MovedFiles
    <3>3. (kind # "db" => db[Legacy] = NoFile) /\ (kind # "wal" => wal[Legacy] = NoFile)
      BY <2>5, <3>1
    <3> QED
      BY <2>4, <3>2, <3>3 DEF FileKinds
  <2>8. ToCome \subseteq ToCome' \cup {kind}
    <3>1. {InOrder[k] : k \in proc.next .. Limit}' = {InOrder[k] : k \in proc.next .. Limit}
      BY <2>3 DEF Limit
    <3>2. "before" \in proc.left => kind = "before" \/ ("before" \in proc'.left /\ proc'.at = "siblings")
      BY <2>3
    <3> QED
      BY <2>2, <2>3, <3>1, <3>2 DEF ToCome
  <2> QED
    BY <1>0, <2>1, <2>2, <2>3, <2>4, <2>6, <2>7, <2>8, FirstTimeMoved
<1>3. CASE MoveSide
  <2>1. /\ proc.at = "sides" /\ UNCHANGED <<accounts, interrupted, begun>>
        /\ proc.next \in 1 .. Limit /\ Moved(InOrder[proc.next], n)
        /\ proc' = [proc EXCEPT !.next = @ + 1]
    BY <1>0, <1>3 DEF MoveSide, ghosts, Limit
  <2>2. /\ proc'.at = "sides" /\ proc'.place = n /\ proc'.how = proc.how
        /\ proc'.next = proc.next + 1
    BY <2>1, <1>0, <1>1 DEF Memory
  <2> DEFINE kind == InOrder[proc.next]
  <2>3. kind \in Sides /\ kind \in FileKinds \ {"toml"} /\ kind \notin {"db", "wal"}
    BY <2>1 DEF InOrder, Sides, FileKinds, Limit
  <2>4. ToCome \subseteq ToCome' \cup {kind}
    <3>1. Limit' = Limit /\ Limit \in Nat /\ proc.next \in Nat
      BY <2>1, <2>2 DEF Limit
    <3>2. \A k \in proc.next .. Limit : k = proc.next \/ k \in proc'.next .. Limit
      BY <3>1, <2>2
    <3>3. ToCome = {InOrder[k] : k \in proc.next .. Limit}
      BY <2>1 DEF ToCome
    <3>4. ToCome' = {InOrder[k] : k \in proc'.next .. Limit}
      BY <2>2, <3>1 DEF ToCome
    <3> QED
      BY <3>2, <3>3, <3>4
  <2>5. UNCHANGED <<db, wal>>
    <3> HIDE DEF kind
    <3> QED
      BY <1>0, <1>1, <2>1, <2>3, MovedFiles DEF kind
  <2>6. CASE Halved(n)
    <3>1. \A m \in Names \ {n} : side'[m] = side[m]
      BY <2>1, <1>1, <2>3, KnownParts, MovedFiles
    <3>2. \A m : (Halved(m)' <=> Halved(m)) /\ (Clean(m)' <=> Clean(m)) /\ Visible(m)' = Visible(m)
      BY <2>1, <2>5 DEF Halved, Clean, Visible, Belongs
    <3>3. n \notin accounts /\ accounts \subseteq Names
      BY <1>0, <2>1, KnownParts DEF AtWork, Adding
    <3>4. AdoptedIsWhole'
      BY <2>1, <3>1, <3>2, <3>3 DEF FirstTime, AdoptedIsWhole, Whole
    <3>5. \A m \in Names \ accounts' : Untouched(m)'
      BY <1>0, <2>1, <2>2, <3>2 DEF FirstTime, Untouched
    <3>6. Halved(proc.place)' <=> Halved(n)'
      BY <2>2 DEF Halved
    <3> QED
      BY <2>2, <2>6, <3>2, <3>4, <3>5, <3>6 DEF FirstTime
  <2>7. CASE ~ Halved(n)
    <3>1. Clean(Legacy)' <=> Clean(Legacy)
      BY <2>5 DEF Clean
    <3>2. Clean(Legacy)
      BY <1>0, <2>1, <2>7 DEF FirstTime, Bringing, Adding
    <3> HIDE DEF kind
    <3>3. Moved(kind, n)
      BY <2>1 DEF kind
    <3> QED
      BY <1>0, <2>1, <2>2, <2>3, <2>4, <3>1, <3>2, <3>3, FirstTimeMoved
  <2> QED
    BY <2>6, <2>7
<1> QED
  BY <1>2, <1>3

LEMMA FirstTimeSave ==
  ASSUME Known, AtWork, FirstTime, SaveToml
  PROVE  FirstTime'
<1>0. PICK n \in Names : n = proc.place
  BY KnownParts DEF SaveToml, Adding
<1>1. /\ FilesTyped /\ proc \in Memory /\ Legacy \in Places /\ n \in Places
      /\ proc.at \in {"sides", "toml"} /\ accounts' = accounts \cup {n}
      /\ proc'.at \in {"idle", "current"}
      /\ UNCHANGED <<db, wal, side, interrupted, begun>>
  BY <1>0, KnownParts DEF SaveToml, files, ghosts, Idle, Memory
<1>2. \A m : (Halved(m)' <=> Halved(m)) /\ (Clean(m)' <=> Clean(m)) /\ (Whole(m)' <=> Whole(m))
  BY <1>1 DEF Halved, Clean, Whole, Visible, Belongs
<1>3. ASSUME ~ Halved(n) PROVE Whole(n)
  <2>1. Bringing(n)
    BY <1>0, <1>1, <1>3 DEF FirstTime, Adding
  <2>2. CASE proc.at = "toml"
    BY <2>1, <2>2, NothingIsWhole DEF Bringing
  <2>3. CASE proc.at = "sides"
    <3>1. proc.next = Limit + 1 /\ Limit \in Nat
      BY <2>3 DEF SaveToml, Limit
    <3>2. ToCome = {}
      <4>1. proc.next .. Limit = {}
        BY <3>1
      <4> QED
        BY <4>1, <2>3 DEF ToCome
    <3>3. begun[n].side \subseteq side[n]
      BY <2>1, <2>3, <3>2 DEF Bringing
    <3>4. OnDisk(Legacy) = {} /\ Clean(Legacy)
      BY <2>1, <2>3 DEF Bringing, Clean, OnDisk
    <3>5. Split(n) => Visible(n) = OnDisk(n)
      <4>1. wal[n] # NoFile => wal[n].over # NoFile
        BY <1>1, NoFileAssumption DEF FilesTyped, Wal, Commits
      <4>2. Split(n) => Paired(n)
        BY <3>4, <4>1 DEF Split, Paired, Belongs, Clean
      <4> QED
        BY <4>2, <1>1, PairedIsVisible
    <3> QED
      BY <2>1, <2>3, <3>3, <3>4, <3>5 DEF Bringing, Whole
  <2> QED
    BY <1>1, <2>2, <2>3
<1>4. AdoptedIsWhole'
  BY <1>1, <1>2, <1>3 DEF FirstTime, AdoptedIsWhole
<1>5. \A m \in Names \ accounts' : Untouched(m)'
  BY <1>0, <1>1, <1>2 DEF FirstTime, Untouched
<1> QED
  BY <1>1, <1>4, <1>5 DEF FirstTime, Adding

LEMMA FirstTimeRemove ==
  ASSUME Known, Known', AtWork, AtWork', FirstTime, (\E n \in Names : RemoveStart(n)) \/ RemoveFile
  PROVE  FirstTime'
<1>0. /\ FilesTyped /\ proc \in Memory /\ accounts \subseteq Names /\ Names \subseteq Places
      /\ begun \in [Names -> [rows : SUBSET Commits, side : SUBSET Sides]]
  BY KnownParts DEF Known, TypeOK
<1>1. CASE \E n \in Names : RemoveStart(n)
  <2>1. PICK n \in Names : RemoveStart(n)
    BY <1>1
  <2>2. /\ proc'.at = "remove" /\ proc'.place = n /\ proc.at = "idle"
        /\ UNCHANGED <<db, wal, side, accounts, interrupted>>
    BY <2>1 DEF RemoveStart, Idle, files
  <2>3. begun'[n] = Nothing /\ \A m \in Names \ {n} : begun'[m] = begun[m]
    BY <2>1, <1>0 DEF RemoveStart
  <2>4. \A m : (Halved(m)' <=> Halved(m)) /\ (Clean(m)' <=> Clean(m)) /\ Visible(m)' = Visible(m)
    BY <2>2 DEF Halved, Clean, Visible, Belongs
  <2>5. \A m \in accounts' : ~ Halved(m)' => Whole(m)'
    <3>1. SUFFICES ASSUME NEW m \in accounts, ~ Halved(m) PROVE Whole(m)'
      BY <2>2, <2>4
    <3>2. CASE m = n
      BY <2>3, <3>2 DEF Whole, Nothing
    <3>3. CASE m # n
      BY <1>0, <2>2, <2>3, <2>4, <3>1, <3>3 DEF FirstTime, AdoptedIsWhole, Whole
    <3> QED
      BY <3>2, <3>3
  <2>6. \A m \in Names \ accounts' : Untouched(m)'
    BY <2>2, <2>4 DEF FirstTime, Untouched
  <2> QED
    BY <2>2, <2>3, <2>5, <2>6 DEF FirstTime, AdoptedIsWhole, Adding
<1>2. CASE RemoveFile
  <2>1. PICK n \in Names : n = proc.place
    BY <1>2, KnownParts DEF RemoveFile
  <2>2. PICK kind \in proc.left :
          /\ db' = [db EXCEPT ![n] = IF kind = "db" THEN NoFile ELSE @]
          /\ wal' = [wal EXCEPT ![n] = IF kind = "wal" THEN NoFile ELSE @]
          /\ side' = [side EXCEPT ![n] = @ \ {kind}]
          /\ accounts' = IF kind = "toml" THEN accounts \ {n} ELSE accounts
          /\ proc' = IF proc.left = {kind} THEN Idle ELSE [proc EXCEPT !.left = @ \ {kind}]
          /\ interrupted' = interrupted \ (IF proc.left = {kind} THEN {<<n, "remove">>} ELSE {})
    BY <1>2, <2>1 DEF RemoveFile
  <2>3. proc.at = "remove" /\ UNCHANGED begun /\ begun[n] = Nothing
    BY <1>2, <2>1 DEF RemoveFile, FirstTime
  <2>4. \A m \in Places \ {n} : db'[m] = db[m] /\ wal'[m] = wal[m] /\ side'[m] = side[m]
    BY <1>0, <2>2 DEF FilesTyped
  <2>5. \A m \in Names \ {n} : Halved(m)' <=> Halved(m)
    BY <2>2 DEF Halved
  <2>6. \A m \in Names \ {n} : (Clean(m)' <=> Clean(m)) /\ Visible(m)' = Visible(m)
    BY <1>0, <2>4, SameFiles
  <2>7. AdoptedIsWhole'
    <3>1. SUFFICES ASSUME NEW m \in accounts', ~ Halved(m)' PROVE Whole(m)'
      BY DEF AdoptedIsWhole
    <3>2. m \in accounts /\ m \in Names
      BY <1>0, <2>2
    <3>3. CASE m = n
      BY <2>3, <3>3 DEF Whole, Nothing
    <3>4. CASE m # n
      <4>1. Whole(m)
        BY <2>5, <3>1, <3>2, <3>4 DEF FirstTime, AdoptedIsWhole
      <4> QED
        BY <1>0, <2>3, <2>4, <2>6, <3>2, <3>4, <4>1 DEF Whole
    <3> QED
      BY <3>3, <3>4
  <2>8. \A m \in Names \ accounts' : m # n => Untouched(m)'
    <3>1. SUFFICES ASSUME NEW m \in Names, m \notin accounts', m # n PROVE Untouched(m)'
      OBVIOUS
    <3>2. m \notin accounts /\ Untouched(m)
      BY <2>2, <3>1 DEF FirstTime
    <3> QED
      BY <2>1, <2>5, <2>6, <3>1, <3>2 DEF Untouched
  <2>9. CASE proc.left = {kind}
    <3>1. proc'.at = "idle"
      BY <2>2, <2>9 DEF Idle
    <3>2. n \notin accounts' => Clean(n)'
      <4>1. /\ db[n] # NoFile => kind = "db"
            /\ wal[n] # NoFile => kind = "wal"
        BY <2>1, <2>3, <2>9 DEF AtWork
      <4>2. db'[n] = (IF kind = "db" THEN NoFile ELSE db[n])
            /\ wal'[n] = (IF kind = "wal" THEN NoFile ELSE wal[n])
        BY <1>0, <2>2 DEF FilesTyped
      <4> QED
        BY <4>1, <4>2 DEF Clean
    <3> QED
      BY <2>7, <2>8, <3>1, <3>2 DEF FirstTime, Untouched, Adding
  <2>10. CASE proc.left # {kind}
    <3>1. proc'.at = "remove" /\ proc'.place = n
      BY <2>1, <2>2, <2>3, <2>10, <1>0 DEF Memory
    <3> QED
      BY <2>3, <2>7, <2>8, <3>1 DEF FirstTime, Untouched, Adding
  <2> QED
    BY <2>9, <2>10
<1> QED
  BY <1>1, <1>2

LEMMA FirstTimeStop ==
  ASSUME Known, AtWork, FirstTime, Stop
  PROVE  FirstTime'
<1>1. /\ proc'.at = "idle" /\ UNCHANGED <<db, wal, side, accounts, begun>>
      /\ interrupted' = IF proc.at \in {"siblings", "sides", "remove"}
                        THEN interrupted \cup {<<proc.place, proc.how>>} ELSE interrupted
  BY DEF Stop, Idle, files
<1>2. \A m : (Clean(m)' <=> Clean(m)) /\ (Whole(m)' <=> Whole(m)) /\ (Halved(m) => Halved(m)')
  BY <1>1 DEF Clean, Whole, Visible, Belongs, Halved
<1>3. \A m : m = proc.place /\ proc.at \in {"siblings", "sides", "remove"} => Halved(m)'
  <2>1. SUFFICES ASSUME NEW m, m = proc.place, proc.at \in {"siblings", "sides", "remove"}
                 PROVE  Halved(m)'
    OBVIOUS
  <2>2. <<m, proc.how>> \in interrupted' /\ <<m, proc.how>>[1] = m
    BY <1>1, <2>1
  <2> QED
    BY <2>2 DEF Halved
<1>4. AdoptedIsWhole'
  BY <1>1, <1>2 DEF FirstTime, AdoptedIsWhole
<1>5. \A m \in Names \ accounts' : Untouched(m)'
  <2>1. SUFFICES ASSUME NEW m \in Names, m \notin accounts, ~ Halved(m)' PROVE Clean(m)
    BY <1>1, <1>2 DEF Untouched
  <2>2. ~ Halved(m) /\ ~ (m = proc.place /\ proc.at \in {"siblings", "sides", "remove"})
    BY <1>2, <1>3, <2>1
  <2>3. Untouched(m)
    BY <2>1 DEF FirstTime
  <2> QED
    BY <2>2, <2>3 DEF Untouched
<1> QED
  BY <1>1, <1>4, <1>5 DEF FirstTime, Adding

\* An adoption that was not interrupted is whole: what the old install had is, at each step,
\* in the account or among what this command is still to move, and a name without an account
\* has no files that could stand in the way, unless an interrupted command left some.
THEOREM AdoptionsAreWhole == Spec => []AdoptedIsWhole
<1>1. Init /\ Known => FirstTime
  <2> SUFFICES ASSUME Init, Known PROVE FirstTime
    OBVIOUS
  <2>1. accounts = {} /\ proc.at = "idle" /\ AdoptedIsWhole
    BY DEF Init, Idle, AdoptedIsWhole
  <2>2. \A n \in Names : db[n] = NoFile /\ wal[n] = NoFile
    <3>1. PICK old \in {NoFile, {}} : db = [pl \in Places |-> IF pl = Legacy THEN old ELSE NoFile]
      BY DEF Init
    <3> QED
      BY <3>1, NamesAssumption DEF Init, Places
  <2> QED
    BY <2>1, <2>2 DEF FirstTime, Untouched, Clean, Adding
<1>2. Known /\ Known' /\ AtWork /\ AtWork' /\ FirstTime /\ [Next]_vars => FirstTime'
  <2> SUFFICES ASSUME Known, Known', AtWork, AtWork', FirstTime, [Next]_vars PROVE FirstTime'
    OBVIOUS
  <2>1. CASE UNCHANGED vars
    <3>1. UNCHANGED <<db, wal, side, accounts, proc, interrupted, begun>>
      BY <2>1 DEF vars
    <3>2. \A m : /\ Halved(m)' <=> Halved(m)
                 /\ Clean(m)' <=> Clean(m)
                 /\ Whole(m)' <=> Whole(m)
                 /\ Bringing(m)' <=> Bringing(m)
      BY <3>1 DEF Halved, Clean, Whole, Visible, Belongs, Bringing, Split, OnDisk, ToCome, Limit
    <3> QED
      BY <3>1, <3>2 DEF FirstTime, AdoptedIsWhole, Untouched
  <2>2. CASE SetFirst \/ \E n \in Names : Use(n)
    <3>1. /\ UNCHANGED <<db, wal, side, accounts, interrupted, begun>>
          /\ proc.at \in {"idle", "current"} /\ proc'.at = "idle"
      BY <2>2 DEF SetFirst, Use, files, ghosts, Idle
    <3>2. \A m : /\ Halved(m)' <=> Halved(m)
                 /\ Clean(m)' <=> Clean(m)
                 /\ Whole(m)' <=> Whole(m)
      BY <3>1 DEF Halved, Clean, Whole, Visible, Belongs
    <3> QED
      BY <3>1, <3>2 DEF FirstTime, AdoptedIsWhole, Untouched, Adding
  <2> QED
    BY <2>1, <2>2, FirstTimeDatabase, FirstTimeAdd, FirstTimeList, FirstTimeMove, FirstTimeSave,
       FirstTimeRemove, FirstTimeStop DEF Next
<1>3. FirstTime => AdoptedIsWhole
  BY DEF FirstTime
<1> QED
  BY <1>1, <1>2, <1>3, AtWorkAlways, PTL DEF Spec

-----------------------------------------------------------------------------
(* Every commit is kept.                                                   *)

\* An adoption of the account, or a removal, is at work or was killed half way.
AdoptionCut(n) == \E how \in Hows \ {"remove"} : <<n, how>> \in interrupted
HalfAdopted(n) == AdoptionCut(n) \/ (proc.place = n /\ proc.at \in {"siblings", "sides"})
HalfRemoved(n) == <<n, "remove">> \in interrupted \/ (proc.place = n /\ proc.at = "remove")

AllRemoved(pl) == OnDisk(pl) \subseteq removed

\* What may lie where there is no account: nothing, the rest of a removed one, or what an
\* adoption has brought so far.
Vacant(n) ==
  \/ Clean(n)
  \/ HalfRemoved(n) /\ AllRemoved(n)
  \/ HalfAdopted(n) /\ Split(n)

\* While nobody strayed: no commit is lost, no WAL lies with a database it is not of, and a
\* WAL that lies alone in the legacy layout is for an adoption that was cut.
InPlace ==
  /\ \A c \in 1 .. commits : c \in removed \/ \E pl \in Places : c \in OnDisk(pl)
  /\ \A n \in accounts : Paired(n) \/ AllRemoved(n)
  /\ db[Legacy] # NoFile => Paired(Legacy)
  /\ wal[Legacy] # NoFile /\ db[Legacy] = NoFile => \E n \in Names : HalfAdopted(n)
  /\ \A n \in Names \ accounts : Vacant(n)

\* And the command at work is the one that may work on what lies there.
AtHand ==
  /\ proc.at = "remove" => AllRemoved(proc.place)
  /\ proc.at = "open" /\ proc.place = Legacy => interrupted = {}
  /\ proc.at \in Adding =>
       \A h \in interrupted : h[1] \in accounts \/ h = <<proc.place, proc.how>>
  /\ proc.at \in {"siblings", "sides"} => Split(proc.place)
  /\ proc.at = "sides" /\ wal[Legacy] # NoFile => AdoptionCut(proc.place)

\* A step that leaves databases, WALs and accounts alone, and forgets nothing of what was cut.
LEMMA InPlaceSame ==
  ASSUME Known, InPlace, UNCHANGED <<db, wal, accounts, commits>>, removed \subseteq removed',
         \A n \in Names : HalfAdopted(n) => HalfAdopted(n)',
         \A n \in Names : HalfRemoved(n) => HalfRemoved(n)'
  PROVE  InPlace'
<1>1. \A pl : /\ Paired(pl)' <=> Paired(pl)
              /\ Clean(pl)' <=> Clean(pl)
              /\ Split(pl)' <=> Split(pl)
              /\ OnDisk(pl)' = OnDisk(pl)
              /\ AllRemoved(pl) => AllRemoved(pl)'
  BY DEF Paired, Clean, Split, OnDisk, Belongs, AllRemoved
<1>2. \A c \in 1 .. commits' : c \in removed' \/ \E pl \in Places : c \in OnDisk(pl)'
  BY <1>1 DEF InPlace
<1>3. \A n \in accounts' : Paired(n)' \/ AllRemoved(n)'
  BY <1>1 DEF InPlace
<1>4. /\ db'[Legacy] # NoFile => Paired(Legacy)'
      /\ wal'[Legacy] # NoFile /\ db'[Legacy] = NoFile => \E n \in Names : HalfAdopted(n)'
  BY <1>1 DEF InPlace
<1>5. \A n \in Names \ accounts' : Vacant(n)'
  BY <1>1 DEF InPlace, Vacant
<1> QED
  BY <1>2, <1>3, <1>4, <1>5 DEF InPlace

\* Where the database is, a WAL of a split pair that is there too is its own.
LEMMA SplitIsPaired ==
  ASSUME FilesTyped, NEW n \in Names, Split(n)
  PROVE  /\ db[Legacy] # NoFile => Paired(Legacy)
         /\ db[Legacy] = NoFile => Paired(n)
<1>1. n \in Places /\ Legacy \in Places
  BY DEF Places
<1>2. \A pl \in Places : wal[pl] # NoFile => wal[pl].over # NoFile
  BY NoFileAssumption DEF FilesTyped, Wal, Commits
<1> QED
  BY <1>1, <1>2 DEF Split, Paired, Belongs

\* An adoption that may go on is the only one that was cut.
LEMMA OnlyOneCut ==
  ASSUME Known, AtWork, AtHand, proc.at \in Adding, NEW m \in Names, m \notin accounts
  PROVE  /\ <<m, "remove">> \notin interrupted
         /\ AdoptionCut(m) => m = proc.place /\ proc.how # "empty"
<1>1. \A how \in Hows : <<m, how>> \in interrupted => m = proc.place /\ how = proc.how
  <2>1. SUFFICES ASSUME NEW how \in Hows, <<m, how>> \in interrupted
                 PROVE  m = proc.place /\ how = proc.how
    OBVIOUS
  <2>2. PICK h \in interrupted : h = <<m, how>>
    BY <2>1
  <2>3. h[1] = m
    BY <2>2
  <2>4. <<m, how>> = <<proc.place, proc.how>>
    BY <2>2, <2>3 DEF AtHand
  <2> QED
    BY <2>4
<1>2. "remove" \in Hows /\ proc.how # "remove" /\ <<m, "empty">> \notin interrupted
  BY DEF Hows, AtWork
<1> QED
  BY <1>1, <1>2 DEF AdoptionCut

LEMMA KeptDatabase ==
  ASSUME Known, Known', AtWork, InPlace, AtHand, ~ strayed', Open \/ Commit \/ Close
  PROVE  InPlace' /\ AtHand'
<1>0. /\ FilesTyped /\ accounts \subseteq Names /\ Names \subseteq Places
      /\ Legacy \in Places /\ Legacy \notin Names /\ commits \in Nat
  BY KnownParts
<1>1. PICK pl \in accounts \cup {Legacy} :
        /\ \A m \in Places \ {pl} : db'[m] = db[m] /\ wal'[m] = wal[m]
        /\ UNCHANGED <<side, accounts, removed, begun, interrupted>>
        /\ Paired(pl)' /\ Visible(pl) \subseteq Visible(pl)'
        /\ Paired(pl) => OnDisk(pl) \subseteq OnDisk(pl)'
        /\ commits' = commits \/ (commits' = commits + 1 /\ commits' \in OnDisk(pl)')
        /\ proc.at \in {"idle", "open"} /\ proc'.at \in {"idle", "open"}
        /\ proc'.at = "open" => proc'.place = pl
        /\ proc.at = "open" => proc.place = pl /\ UNCHANGED strayed
        /\ proc.at = "idle" => strayed' = (strayed \/ (pl = Legacy /\ interrupted # {}))
  BY DatabaseWork
<1>2. pl \in Places
  BY <1>0
<1>3. pl = Legacy => interrupted = {}
  BY <1>1 DEF AtHand
<1>4. \A m \in Names : /\ HalfAdopted(m) <=> AdoptionCut(m)
                       /\ HalfAdopted(m)' <=> AdoptionCut(m)
                       /\ HalfRemoved(m)' <=> HalfRemoved(m)
  BY <1>1 DEF HalfAdopted, HalfRemoved, AdoptionCut
<1>5. pl = Legacy => \A m \in Names : ~ HalfAdopted(m)
  BY <1>3, <1>4 DEF AdoptionCut
<1>6. Paired(pl) \/ AllRemoved(pl)
  <2>1. CASE pl \in accounts
    BY <2>1 DEF InPlace
  <2>2. CASE pl = Legacy
    BY <1>5, <2>2 DEF InPlace, Paired
  <2> QED
    BY <2>1, <2>2
<1>7. \A m \in Places \ {pl} :
        /\ Paired(m)' <=> Paired(m)
        /\ Clean(m)' <=> Clean(m)
        /\ OnDisk(m)' = OnDisk(m)
        /\ AllRemoved(m)' <=> AllRemoved(m)
  BY <1>1, SameFiles DEF AllRemoved
<1>8. \A c \in 1 .. commits' : c \in removed' \/ \E m \in Places : c \in OnDisk(m)'
  <2>1. SUFFICES ASSUME NEW c \in 1 .. commits', c \notin removed
                 PROVE  \E m \in Places : c \in OnDisk(m)'
    BY <1>1
  <2>2. CASE c \in 1 .. commits
    <3>1. PICK m \in Places : c \in OnDisk(m)
      BY <2>1, <2>2 DEF InPlace
    <3>2. CASE m = pl
      <4>1. c \in OnDisk(pl) /\ ~ AllRemoved(pl)
        BY <2>1, <3>1, <3>2 DEF AllRemoved
      <4> QED
        BY <1>1, <1>2, <1>6, <4>1
    <3>3. CASE m # pl
      BY <1>7, <3>1, <3>3
    <3> QED
      BY <3>2, <3>3
  <2>3. CASE c \notin 1 .. commits
    <3>1. commits' = commits + 1 /\ c = commits' /\ commits' \in OnDisk(pl)'
      BY <1>0, <1>1, <2>1, <2>3
    <3> QED
      BY <1>2, <3>1
  <2> QED
    BY <2>2, <2>3
<1>9. \A n \in accounts' : Paired(n)' \/ AllRemoved(n)'
  BY <1>0, <1>1, <1>7 DEF InPlace
<1>10. db'[Legacy] # NoFile => Paired(Legacy)'
  BY <1>0, <1>1, <1>7 DEF InPlace
<1>11. ASSUME wal'[Legacy] # NoFile, db'[Legacy] = NoFile PROVE \E n \in Names : HalfAdopted(n)'
  <2>1. wal'[pl] # NoFile => db'[pl] # NoFile
    <3>1. wal'[pl] = NoFile \/ wal'[pl].over = db'[pl]
      BY <1>1 DEF Paired, Belongs
    <3>2. wal'[pl] = NoFile \/ wal'[pl].over \in SUBSET Commits
      BY <1>2 DEF Known, TypeOK, Wal
    <3> QED
      BY <3>1, <3>2, NoFileAssumption DEF Commits
  <2>2. pl # Legacy
    BY <1>11, <2>1
  <2> QED
    BY <1>0, <1>1, <1>4, <1>11, <2>2 DEF InPlace
<1>12. \A n \in Names \ accounts' : Vacant(n)'
  <2>1. SUFFICES ASSUME NEW n \in Names, n \notin accounts PROVE Vacant(n)'
    BY <1>1
  <2>2. n \in Places \ {pl} /\ Vacant(n)
    BY <1>0, <2>1 DEF InPlace
  <2>3. pl # Legacy => (Split(n)' <=> Split(n))
    BY <1>0, <1>1, <2>2, SameFiles
  <2> QED
    BY <1>4, <1>5, <1>7, <2>2, <2>3 DEF Vacant
<1>13. AtHand'
  BY <1>1, <1>3 DEF AtHand, Adding
<1> QED
  BY <1>8, <1>9, <1>10, <1>11, <1>12, <1>13 DEF InPlace

LEMMA KeptAdd ==
  ASSUME Known, AtWork, InPlace, AtHand, ~ strayed',
         NEW n \in Names, NEW how \in Hows \ {"remove"}, AddStart(n, how)
  PROVE  InPlace' /\ AtHand'
<1>1. /\ proc.at = "idle" /\ proc'.at \in {"list", "toml"} /\ proc'.place = n /\ proc'.how = how
      /\ UNCHANGED <<db, wal, accounts, commits, removed, interrupted>>
  BY DEF AddStart, Idle, files
<1>2. \A h \in interrupted : h[1] \in accounts \/ h = <<n, how>>
  BY DEF AddStart
<1>3. \A m \in Names : /\ HalfAdopted(m) => HalfAdopted(m)'
                       /\ HalfRemoved(m) => HalfRemoved(m)'
  BY <1>1 DEF HalfAdopted, HalfRemoved, AdoptionCut
<1>4. InPlace'
  BY <1>1, <1>3, InPlaceSame
<1>5. AtHand'
  BY <1>1, <1>2 DEF AtHand, Adding
<1> QED
  BY <1>4, <1>5

LEMMA KeptList ==
  ASSUME Known, AtWork, InPlace, AtHand, ListSiblings
  PROVE  InPlace' /\ AtHand'
<1>0. PICK n \in Names : n = proc.place
  BY KnownParts DEF ListSiblings, Adding
<1>1. /\ FilesTyped /\ proc \in Memory /\ n \notin accounts /\ proc.at = "list"
      /\ UNCHANGED <<db, wal, accounts, commits, removed, interrupted>>
  BY <1>0, KnownParts DEF ListSiblings, files, ghosts, AtWork, Adding
<1>2. \/ proc'.at = "siblings" /\ proc'.place = n /\ proc'.how = proc.how /\ db[Legacy] # NoFile
      \/ /\ proc'.at = "sides" /\ proc'.place = n /\ proc'.how = proc.how
         /\ db[Legacy] = NoFile /\ db[n] # NoFile
      \/ proc'.at = "idle"
  <2> DEFINE there == Kinds(Legacy) \cap {"db", "wal", "before"}
  <2>1. CASE db[Legacy] # NoFile
    <3>1. proc' = [proc EXCEPT !.at = "siblings", !.left = there]
      BY <2>1 DEF ListSiblings
    <3> HIDE DEF there
    <3> QED
      BY <1>0, <1>1, <2>1, <3>1 DEF Memory
  <2>2. CASE db[Legacy] = NoFile
    BY <1>0, <1>1, <2>2 DEF ListSiblings, Memory, Idle
  <2> QED
    BY <2>1, <2>2
<1>3. ~ HalfRemoved(n) /\ (HalfAdopted(n) <=> AdoptionCut(n))
  BY <1>1, OnlyOneCut DEF Adding, HalfRemoved, HalfAdopted
<1>4. Clean(n) \/ (AdoptionCut(n) /\ Split(n))
  BY <1>1, <1>3 DEF InPlace, Vacant
<1>5. db[Legacy] # NoFile => Split(n)
  BY <1>4 DEF InPlace, Clean, Split, Paired, Belongs
<1>6. db[n] # NoFile => AdoptionCut(n) /\ Split(n)
  BY <1>4 DEF Clean
<1>7. \A m \in Names : /\ HalfAdopted(m) => HalfAdopted(m)'
                       /\ HalfRemoved(m) => HalfRemoved(m)'
  BY <1>1 DEF HalfAdopted, HalfRemoved, AdoptionCut
<1>8. InPlace'
  BY <1>1, <1>7, InPlaceSame
<1>9. (Split(n)' <=> Split(n)) /\ (AdoptionCut(n)' <=> AdoptionCut(n))
  BY <1>1 DEF Split, AdoptionCut
<1>10. proc'.at # "idle" => (Split(proc.place)' <=> Split(n)') /\ (AdoptionCut(proc.place)' <=> AdoptionCut(n)')
  BY <1>2 DEF Split, AdoptionCut
<1>11. AtHand'
  BY <1>0, <1>1, <1>2, <1>5, <1>6, <1>9, <1>10 DEF AtHand, Adding
<1> QED
  BY <1>8, <1>11

LEMMA KeptMove ==
  ASSUME Known, AtWork, AtWork', InPlace, AtHand, MoveSibling \/ MoveSide
  PROVE  InPlace' /\ AtHand'
<1>0. PICK n \in Names : n = proc.place
  BY KnownParts DEF MoveSibling, MoveSide, Adding
<1>1. /\ FilesTyped /\ proc \in Memory /\ proc.left \subseteq FileKinds
      /\ accounts \subseteq Names /\ Names \subseteq Places /\ Legacy \in Places /\ Legacy \notin Names
  BY KnownParts
<1>2. /\ proc.at \in {"siblings", "sides"} /\ n \notin accounts
      /\ UNCHANGED <<accounts, commits, removed, interrupted>>
  BY <1>0 DEF MoveSibling, MoveSide, ghosts, AtWork, Adding
<1>3. /\ proc'.at \in {"siblings", "sides"} /\ proc'.place = n /\ proc'.how = proc.how
      /\ \E kind \in FileKinds \ {"toml"} :
           /\ Moved(kind, n)
           /\ kind \in {"db", "wal"} => kind \in Kinds(Legacy)
      /\ proc'.at = "sides" /\ wal'[Legacy] # NoFile => AdoptionCut(n)
  <2>1. CASE MoveSibling
    <3>1. PICK kind \in proc.left :
            /\ Moved(kind, n)
            /\ proc' = [proc EXCEPT !.left = @ \ {kind},
                                    !.at = IF proc.left = {kind} THEN "sides" ELSE @]
      BY <1>0, <2>1 DEF MoveSibling
    <3>2. /\ proc.at = "siblings" /\ proc'.place = n /\ proc'.how = proc.how
          /\ proc'.at = IF proc.left = {kind} THEN "sides" ELSE "siblings"
      BY <1>0, <1>1, <2>1, <3>1 DEF MoveSibling, Memory
    <3>3. /\ kind \in FileKinds \ {"toml"}
          /\ "wal" \in proc.left <=> wal[Legacy] # NoFile
          /\ kind \in {"db", "wal"} => kind \in Kinds(Legacy)
      BY <1>1, <3>2, KindsHere DEF AtWork
    <3>4. proc.left = {kind} => wal'[Legacy] = NoFile
      <4>1. CASE kind = "wal"
        BY <3>1, <3>3, <4>1, <1>1, MovedFiles
      <4>2. CASE kind # "wal"
        <5>1. UNCHANGED wal
          BY <3>1, <4>2 DEF Moved
        <5> QED
          BY <3>3, <4>2, <5>1
      <4> QED
        BY <4>1, <4>2
    <3> QED
      BY <3>1, <3>2, <3>3, <3>4
  <2>2. CASE MoveSide
    <3>1. proc.at = "sides" /\ proc.next \in 1 .. 3 /\ Moved(InOrder[proc.next], n)
          /\ proc' = [proc EXCEPT !.next = @ + 1]
      BY <1>0, <2>2 DEF MoveSide
    <3>2. InOrder[proc.next] \in Sides
      BY <3>1 DEF InOrder, Sides
    <3>3. \A kind \in Sides : kind \in FileKinds \ {"toml"} /\ kind \notin {"db", "wal"}
      BY DEF Sides, FileKinds
    <3>4. UNCHANGED wal
      BY <3>1, <3>2, <3>3 DEF Moved
    <3>5. proc'.at = "sides" /\ proc'.place = n /\ proc'.how = proc.how
      BY <1>0, <1>1, <3>1 DEF Memory
    <3>6. wal[Legacy] # NoFile => AdoptionCut(n)
      BY <1>0, <3>1 DEF AtHand
    <3> QED
      BY <3>1, <3>2, <3>3, <3>4, <3>5, <3>6
  <2> QED
    BY <2>1, <2>2
<1>4. PICK kind \in FileKinds \ {"toml"} :
        /\ Moved(kind, n)
        /\ kind \in {"db", "wal"} => kind \in Kinds(Legacy)
  BY <1>3
<1>5. Split(n)
  BY <1>0, <1>2 DEF AtHand
<1>6. Split(n)' /\ OnDisk(n)' \cup OnDisk(Legacy)' = OnDisk(n) \cup OnDisk(Legacy)
  BY <1>1, <1>4, <1>5, MovedKeeps
<1>7. \A m \in Places \ {n, Legacy} : db'[m] = db[m] /\ wal'[m] = wal[m]
  BY <1>1, <1>4, MovedFiles
<1>8. \A m \in Places \ {n, Legacy} :
        /\ Paired(m)' <=> Paired(m)
        /\ Clean(m)' <=> Clean(m)
        /\ OnDisk(m)' = OnDisk(m)
        /\ AllRemoved(m)' <=> AllRemoved(m)
  BY <1>2, <1>7, SameFiles DEF AllRemoved
<1>9. \A c \in 1 .. commits' : c \in removed' \/ \E m \in Places : c \in OnDisk(m)'
  <2>1. SUFFICES ASSUME NEW c \in 1 .. commits, c \notin removed
                 PROVE  \E m \in Places : c \in OnDisk(m)'
    BY <1>2
  <2>2. PICK m \in Places : c \in OnDisk(m)
    BY <2>1 DEF InPlace
  <2>3. m \in {n, Legacy} => c \in OnDisk(n)' \/ c \in OnDisk(Legacy)'
    BY <1>6, <2>2
  <2> QED
    BY <1>1, <1>8, <2>2, <2>3
<1>10. \A m \in accounts' : Paired(m)' \/ AllRemoved(m)'
  BY <1>1, <1>2, <1>8 DEF InPlace
<1>11. db'[Legacy] # NoFile => Paired(Legacy)'
  <2>1. FilesTyped'
    BY <1>1, <1>4, MovedTyped
  <2>2. \A pl \in {n, Legacy} : wal'[pl] # NoFile => wal'[pl].over # NoFile
    BY <1>1, <2>1, NoFileAssumption DEF FilesTyped, Wal, Commits
  <2> QED
    BY <1>6, <2>2 DEF Split, Paired, Belongs
<1>12. HalfAdopted(n)'
  BY <1>3 DEF HalfAdopted
<1>13. \A m \in Names \ accounts' : Vacant(m)'
  <2>1. SUFFICES ASSUME NEW m \in Names, m \notin accounts, m # n PROVE Vacant(m)'
    BY <1>2, <1>6, <1>12 DEF Vacant
  <2>2. <<m, "remove">> \notin interrupted /\ ~ AdoptionCut(m)
    BY <1>0, <1>2, <2>1, OnlyOneCut DEF Adding
  <2>3. Clean(m)
    BY <1>0, <1>2, <2>1, <2>2 DEF InPlace, Vacant, HalfRemoved, HalfAdopted
  <2> QED
    BY <1>1, <1>8, <2>1, <2>3 DEF Vacant
<1>14. InPlace'
  BY <1>9, <1>10, <1>11, <1>12, <1>13 DEF InPlace
<1>15. Split(proc.place)' /\ (AdoptionCut(proc.place)' <=> AdoptionCut(n))
  BY <1>2, <1>3, <1>6 DEF Split, AdoptionCut
<1>16. \A h \in interrupted : h[1] \in accounts \/ h = <<proc.place, proc.how>>
  BY <1>2 DEF AtHand, Adding
<1>17. AtHand'
  BY <1>0, <1>2, <1>3, <1>15, <1>16 DEF AtHand
<1> QED
  BY <1>14, <1>17

LEMMA KeptSave ==
  ASSUME Known, AtWork, InPlace, AtHand, SaveToml
  PROVE  InPlace' /\ AtHand'
<1>0. PICK n \in Names : n = proc.place
  BY KnownParts DEF SaveToml, Adding
<1>1. /\ FilesTyped /\ proc \in Memory /\ proc.at \in {"sides", "toml"} /\ n \notin accounts
      /\ accounts' = accounts \cup {n} /\ proc'.at \in {"idle", "current"}
      /\ UNCHANGED <<db, wal, commits, removed, interrupted>>
  BY <1>0, KnownParts DEF SaveToml, files, ghosts, AtWork, Adding, Idle, Memory
<1>2. \A pl : /\ Paired(pl)' <=> Paired(pl)
              /\ Clean(pl)' <=> Clean(pl)
              /\ Split(pl)' <=> Split(pl)
              /\ OnDisk(pl)' = OnDisk(pl)
              /\ AllRemoved(pl)' <=> AllRemoved(pl)
  BY <1>1 DEF Paired, Clean, Split, OnDisk, Belongs, AllRemoved
<1>3. Paired(n) \/ AllRemoved(n)
  <2>1. CASE proc.at = "sides"
    <3>1. Split(n) /\ db[Legacy] = NoFile
      BY <1>0, <2>1 DEF AtHand, AtWork
    <3> QED
      BY <1>1, <3>1, SplitIsPaired
  <2>2. CASE proc.at = "toml"
    <3>1. Vacant(n)
      BY <1>1 DEF InPlace
    <3>2. CASE Clean(n) \/ AllRemoved(n)
      BY <3>2 DEF Clean, Paired
    <3>3. CASE HalfAdopted(n) /\ Split(n)
      <4>1. AdoptionCut(n)
        BY <2>2, <3>3 DEF HalfAdopted
      <4>2. db[Legacy] = NoFile
        BY <1>1, <2>2, <4>1, OnlyOneCut DEF Adding, AtWork
      <4> QED
        BY <1>1, <3>3, <4>2, SplitIsPaired
    <3> QED
      BY <3>1, <3>2, <3>3 DEF Vacant
  <2> QED
    BY <1>1, <2>1, <2>2
<1>4. \A m \in Names : m # n => /\ HalfAdopted(m) => HalfAdopted(m)'
                                /\ HalfRemoved(m) => HalfRemoved(m)'
  BY <1>0, <1>1 DEF HalfAdopted, HalfRemoved, AdoptionCut
<1>5. \A c \in 1 .. commits' : c \in removed' \/ \E pl \in Places : c \in OnDisk(pl)'
  BY <1>1, <1>2 DEF InPlace
<1>6. \A m \in accounts' : Paired(m)' \/ AllRemoved(m)'
  BY <1>1, <1>2, <1>3 DEF InPlace
<1>7. db'[Legacy] # NoFile => Paired(Legacy)'
  BY <1>1, <1>2 DEF InPlace
<1>8. ASSUME wal'[Legacy] # NoFile, db'[Legacy] = NoFile PROVE \E m \in Names : HalfAdopted(m)'
  <2>1. PICK m \in Names : HalfAdopted(m)
    BY <1>1, <1>8 DEF InPlace
  <2>2. CASE m = n
    <3>1. AdoptionCut(n)
      BY <1>0, <1>1, <1>8, <2>1, <2>2 DEF AtHand, HalfAdopted
    <3> QED
      BY <1>1, <3>1 DEF HalfAdopted, AdoptionCut
  <2>3. CASE m # n
    BY <1>4, <2>1, <2>3
  <2> QED
    BY <2>2, <2>3
<1>9. \A m \in Names \ accounts' : Vacant(m)'
  BY <1>1, <1>2, <1>4 DEF InPlace, Vacant
<1>10. AtHand'
  BY <1>1 DEF AtHand, Adding
<1> QED
  BY <1>5, <1>6, <1>7, <1>8, <1>9, <1>10 DEF InPlace

LEMMA KeptRemoveStart ==
  ASSUME Known, AtWork, InPlace, AtHand, NEW n \in Names, RemoveStart(n)
  PROVE  InPlace' /\ AtHand'
<1>1. /\ proc.at = "idle" /\ proc'.at = "remove" /\ proc'.place = n
      /\ removed' = removed \cup OnDisk(n)
      /\ UNCHANGED <<db, wal, accounts, commits, interrupted>>
  BY DEF RemoveStart, Idle, files
<1>2. \A m \in Names : /\ HalfAdopted(m) => HalfAdopted(m)'
                       /\ HalfRemoved(m) => HalfRemoved(m)'
  BY <1>1 DEF HalfAdopted, HalfRemoved, AdoptionCut
<1>3. InPlace'
  BY <1>1, <1>2, InPlaceSame
<1>4. AllRemoved(proc.place)'
  BY <1>1 DEF AllRemoved, OnDisk
<1> QED
  BY <1>1, <1>3, <1>4 DEF AtHand, Adding

LEMMA KeptRemoveFile ==
  ASSUME Known, AtWork, InPlace, AtHand, RemoveFile
  PROVE  InPlace' /\ AtHand'
<1>0. PICK n \in Names : n = proc.place
  BY KnownParts DEF RemoveFile
<1>1. /\ FilesTyped /\ proc \in Memory /\ accounts \subseteq Names /\ Names \subseteq Places
      /\ Legacy \in Places /\ Legacy \notin Names
  BY KnownParts
<1>2. PICK kind \in proc.left :
        /\ db' = [db EXCEPT ![n] = IF kind = "db" THEN NoFile ELSE @]
        /\ wal' = [wal EXCEPT ![n] = IF kind = "wal" THEN NoFile ELSE @]
        /\ accounts' = IF kind = "toml" THEN accounts \ {n} ELSE accounts
        /\ proc' = IF proc.left = {kind} THEN Idle ELSE [proc EXCEPT !.left = @ \ {kind}]
        /\ interrupted' = interrupted \ (IF proc.left = {kind} THEN {<<n, "remove">>} ELSE {})
  BY <1>0 DEF RemoveFile
<1>3. proc.at = "remove" /\ UNCHANGED <<commits, removed>> /\ AllRemoved(n)
  BY <1>0 DEF RemoveFile, AtHand
<1>4. /\ \A m \in Places \ {n} : db'[m] = db[m] /\ wal'[m] = wal[m]
      /\ db'[n] = IF kind = "db" THEN NoFile ELSE db[n]
      /\ wal'[n] = IF kind = "wal" THEN NoFile ELSE wal[n]
  BY <1>1, <1>2 DEF FilesTyped
<1>5. AllRemoved(n)' /\ OnDisk(n) \subseteq removed
  BY <1>3, <1>4 DEF AllRemoved, OnDisk
<1>6. \A m \in Places \ {n} :
        /\ Paired(m)' <=> Paired(m)
        /\ Clean(m)' <=> Clean(m)
        /\ OnDisk(m)' = OnDisk(m)
        /\ AllRemoved(m)' <=> AllRemoved(m)
  BY <1>3, <1>4, SameFiles DEF AllRemoved
<1>7. \A m \in Names \ {n} : Split(m)' <=> Split(m)
  BY <1>1, <1>4, SameFiles
<1>8. /\ \A m \in Names : HalfAdopted(m) => HalfAdopted(m)'
      /\ \A m \in Names \ {n} : HalfRemoved(m) => HalfRemoved(m)'
  <2>1. \A m \in Names, how \in Hows :
          <<m, how>> \in interrupted => <<m, how>> \in interrupted' \/ (m = n /\ how = "remove")
    BY <1>2
  <2>2. \A m \in Names : AdoptionCut(m) => AdoptionCut(m)'
    BY <2>1 DEF AdoptionCut
  <2>3. \A m \in Names \ {n} : <<m, "remove">> \in interrupted => <<m, "remove">> \in interrupted'
    BY <2>1 DEF Hows
  <2> QED
    BY <1>0, <1>3, <2>2, <2>3 DEF HalfAdopted, HalfRemoved
<1>9. \A c \in 1 .. commits' : c \in removed' \/ \E pl \in Places : c \in OnDisk(pl)'
  BY <1>3, <1>5, <1>6 DEF InPlace
<1>10. \A m \in accounts' : Paired(m)' \/ AllRemoved(m)'
  BY <1>1, <1>2, <1>5, <1>6 DEF InPlace
<1>11. /\ db'[Legacy] # NoFile => Paired(Legacy)'
       /\ wal'[Legacy] # NoFile /\ db'[Legacy] = NoFile => \E m \in Names : HalfAdopted(m)'
  BY <1>1, <1>4, <1>6, <1>8 DEF InPlace
<1>12. \A m \in Names \ accounts' : m # n => Vacant(m)'
  BY <1>1, <1>2, <1>6, <1>7, <1>8 DEF InPlace, Vacant
<1>13. Vacant(n)'  /\ AtHand'
  <2>1. CASE proc.left = {kind}
    <3>1. /\ db[n] # NoFile => kind = "db"
          /\ wal[n] # NoFile => kind = "wal"
      BY <1>0, <1>3, <2>1 DEF AtWork
    <3>2. Clean(n)'
      BY <1>4, <3>1 DEF Clean
    <3>3. proc'.at = "idle"
      BY <1>2, <2>1 DEF Idle
    <3> QED
      BY <3>2, <3>3 DEF Vacant, AtHand, Adding
  <2>2. CASE proc.left # {kind}
    <3>1. proc'.at = "remove" /\ proc'.place = n
      BY <1>0, <1>1, <1>2, <1>3, <2>2 DEF Memory
    <3>2. AllRemoved(proc.place)' <=> AllRemoved(n)'
      BY <3>1 DEF AllRemoved, OnDisk
    <3> QED
      BY <1>5, <3>1, <3>2 DEF Vacant, HalfRemoved, AtHand, Adding
  <2> QED
    BY <2>1, <2>2
<1> QED
  BY <1>9, <1>10, <1>11, <1>12, <1>13 DEF InPlace

LEMMA KeptStop ==
  ASSUME Known, AtWork, InPlace, AtHand, Stop
  PROVE  InPlace' /\ AtHand'
<1>1. /\ proc'.at = "idle" /\ UNCHANGED <<db, wal, accounts, commits, removed>>
      /\ interrupted' = IF proc.at \in {"siblings", "sides", "remove"}
                        THEN interrupted \cup {<<proc.place, proc.how>>} ELSE interrupted
  BY DEF Stop, Idle, files
<1>2. \A m \in Names : AdoptionCut(m) => AdoptionCut(m)'
  BY <1>1 DEF AdoptionCut
<1>3. \A m \in Names : HalfAdopted(m) => HalfAdopted(m)'
  <2>1. SUFFICES ASSUME NEW m \in Names, proc.place = m, proc.at \in {"siblings", "sides"}
                 PROVE  AdoptionCut(m)'
    BY <1>2 DEF HalfAdopted
  <2>2. proc.how \in Hows \ {"remove"} /\ <<m, proc.how>> \in interrupted'
    BY <1>1, <2>1, KnownParts DEF AtWork, Adding
  <2>3. PICK how \in Hows \ {"remove"} : <<m, how>> \in interrupted'
    BY <2>2
  <2> QED
    BY <2>3 DEF AdoptionCut
<1>4. \A m \in Names : HalfRemoved(m) => HalfRemoved(m)'
  BY <1>1 DEF HalfRemoved, AtWork
<1>5. InPlace'
  BY <1>1, <1>3, <1>4, InPlaceSame
<1> QED
  BY <1>1, <1>5 DEF AtHand, Adding

\* No commit is lost, whatever is killed when and however often an add is tried again, unless
\* another command works on what a killed one left: where there is no account lies nothing,
\* the rest of a removed account or one half of a pair of which the legacy layout has the other,
\* and the only command that gets at it is the add that goes on with it.
THEOREM CommitsStay == Spec => []CommitsKept
<1> DEFINE Inv == strayed \/ (InPlace /\ AtHand)
<1>1. Init /\ Known => Inv
  <2> SUFFICES ASSUME Init, Known PROVE InPlace /\ AtHand
    OBVIOUS
  <2>1. commits = 0 /\ accounts = {} /\ proc.at = "idle" /\ \A pl \in Places : wal[pl] = NoFile
    BY DEF Init, Idle
  <2>2. \A n \in Names : Clean(n)
    <3>1. PICK old \in {NoFile, {}} : db = [pl \in Places |-> IF pl = Legacy THEN old ELSE NoFile]
      BY DEF Init
    <3> QED
      BY <2>1, <3>1, NamesAssumption DEF Places, Clean
  <2>3. Legacy \in Places
    BY DEF Places
  <2> QED
    BY <2>1, <2>2, <2>3 DEF InPlace, AtHand, Vacant, Paired, Adding
<1>2. Known /\ Known' /\ AtWork /\ AtWork' /\ Inv /\ [Next]_vars => Inv'
  <2> SUFFICES ASSUME Known, Known', AtWork, AtWork', Inv, [Next]_vars, ~ strayed'
               PROVE  InPlace' /\ AtHand'
    OBVIOUS
  <2>0. ~ strayed
    <3>1. CASE UNCHANGED vars
      BY <3>1 DEF vars
    <3>2. CASE Next
      BY <3>2 DEF Next, ghosts, Open, Commit, Close, AddStart, Use, RemoveStart, ListSiblings,
                  MoveSibling, MoveSide, SaveToml, SetFirst, RemoveFile, Stop
    <3> QED
      BY <3>1, <3>2
  <2>1. InPlace /\ AtHand
    BY <2>0
  <2>2. CASE UNCHANGED vars
    <3>1. UNCHANGED <<db, wal, accounts, commits, removed, interrupted, proc>>
      BY <2>2 DEF vars
    <3>2. \A m : /\ HalfAdopted(m)' <=> HalfAdopted(m)
                 /\ HalfRemoved(m)' <=> HalfRemoved(m)
                 /\ Split(m)' <=> Split(m)
                 /\ AllRemoved(m)' <=> AllRemoved(m)
                 /\ AdoptionCut(m)' <=> AdoptionCut(m)
      BY <3>1 DEF HalfAdopted, HalfRemoved, AdoptionCut, Split, AllRemoved, OnDisk
    <3>3. InPlace'
      BY <2>1, <3>1, <3>2, InPlaceSame
    <3>4. AtHand'
      BY <2>1, <3>1, <3>2 DEF AtHand
    <3> QED
      BY <3>3, <3>4
  <2>3. CASE SetFirst \/ \E n \in Names : Use(n)
    <3>1. /\ UNCHANGED <<db, wal, accounts, commits, removed, interrupted>>
          /\ proc.at \in {"idle", "current"} /\ proc'.at = "idle"
      BY <2>3 DEF SetFirst, Use, files, ghosts, Idle
    <3>2. \A m \in Names : /\ HalfAdopted(m) => HalfAdopted(m)'
                           /\ HalfRemoved(m) => HalfRemoved(m)'
      BY <3>1 DEF HalfAdopted, HalfRemoved, AdoptionCut
    <3>3. InPlace'
      BY <2>1, <3>1, <3>2, InPlaceSame
    <3> QED
      BY <3>1, <3>3 DEF AtHand, Adding
  <2> QED
    BY <2>1, <2>2, <2>3, KeptDatabase, KeptAdd, KeptList, KeptMove, KeptSave, KeptRemoveStart,
       KeptRemoveFile, KeptStop DEF Next
<1>3. Known /\ Inv => CommitsKept
  BY DEF CommitsKept, InPlace
<1> QED
  BY <1>1, <1>2, <1>3, AtWorkAlways, PTL DEF Spec
=============================================================================
