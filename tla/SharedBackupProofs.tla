--------------------------- MODULE SharedBackupProofs ---------------------------
(***************************************************************************)
(* Theorems of SharedBackup, for any items, paths and bounds.              *)
(***************************************************************************)
EXTENDS SharedBackup, SequenceTheorems, TLAPS

\* The files that are at paths of their own and have a copy there.
Whole == {i \in Alone : CopiesOf(i) # {}}

\* What the variables the proofs use may hold.
Typed ==
  /\ current \subseteq Items /\ \A i, j \in current : i = j
  /\ ver \in [Items -> Nat] /\ bytes \in Copies \cup {NoFile} /\ reuse \subseteq Reusable
  /\ disk \in [Paths -> Copies \cup {NoFile, Partial, Foreign}]
  /\ manifest \in Seq(Seq(Records)) /\ (~ended => manifest # << >>)
  /\ status \in Statuses /\ bpc \in Backing \cup Ended \cup {"hung"}

Writing == {"open", "write", "rename"}

\* What the backup is at says what its item is, and where it has got with it.
Phase ==
  /\ bpc \in {"fetch"} \cup Writing => \A i \in current : i \notin Folders /\ format \in Formats(i)
  /\ bpc \in {"copy", "copied"} => current \subseteq Reusable
  /\ bpc = "append" /\ status = "folder" => current \subseteq Folders
  /\ bpc = "append" /\ status = "copied" => current \subseteq Reusable
  /\ bpc = "append" /\ status = "downloaded" => current \cap Alone \subseteq Whole
  /\ bpc \in Ended \cup {"next"} => format = 1 /\ current = {}

\* A copy is no newer than its item, and what the backup holds is no older than what it has
\* on the disk.
Got ==
  /\ \A i \in Alone : \A c \in CopiesOf(i) : c.ver <= ver[i]
  /\ bpc \in Writing => \A i \in current :
       /\ bytes \in Copies /\ bytes.of = i /\ bytes.ver <= ver[i]
       /\ i \in Alone => \A c \in CopiesOf(i) : c.ver <= bytes.ver
  /\ bpc = "rename" => \A i \in current : disk[Part[Target(i)]] = bytes

\* An item in work, or still to come, has no success record yet.
Fresh ==
  /\ current \cap todo = {}
  /\ bpc \in Backing => todo \cap Completed = {}
  /\ bpc \in Backing \ {"newline"} => current \cap Completed = {}

\* What is planned to be let go of has its copy.
Covered == plan \cap Alone \subseteq Whole

Inv == Typed /\ Phase /\ Got /\ Fresh /\ RecordedIsWhole /\ Covered

-----------------------------------------------------------------------------
\* Writing a record makes no other record readable, whether it goes on a line of its
\* own or, after a crash, on the line of the one before.
LEMMA WriteAdds ==
  ASSUME Typed, NEW r \in Records, Write(r)
  PROVE  /\ manifest' \in Seq(Seq(Records)) /\ manifest' # << >> /\ ended' = FALSE
         /\ Loaded' \subseteq Loaded \cup {r}
<1> USE DEF Typed
<1>1. CASE ended
  <2>1. manifest' = Append(manifest, <<r>>)
    BY <1>1 DEF Write
  <2>2. <<r>> \in Seq(Records) /\ Len(<<r>>) = 1 /\ <<r>>[1] = r
    OBVIOUS
  <2>3. ASSUME NEW k \in DOMAIN manifest'
        PROVE  manifest'[k] = <<r>> \/ manifest'[k] \in Range(manifest)
    BY <2>1, <2>3 DEF Range
  <2>4. Loaded' \subseteq Loaded \cup {r}
    <3>1. SUFFICES ASSUME NEW l \in Range(manifest'), Len(l) = 1, l[1].status # "torn"
                   PROVE  l[1] \in Loaded \cup {r}
      BY DEF Loaded
    <3>2. PICK k \in DOMAIN manifest' : l = manifest'[k]
      BY DEF Range
    <3> QED
      BY <2>2, <2>3, <3>1, <3>2 DEF Loaded
  <2>5. manifest' \in Seq(Seq(Records)) /\ Len(manifest') = Len(manifest) + 1 /\ Len(manifest) \in Nat
    BY <2>1, <2>2
  <2> QED
    <3>1. manifest' # << >>
      BY <2>5
    <3>2. ended' = FALSE
      BY DEF Write
    <3> QED
      BY <2>4, <2>5, <3>1, <3>2
<1>2. CASE ~ended
  <2> DEFINE line == Append(Last(manifest), r)
  <2>1. manifest' = Front(manifest) \o <<line>>
    BY <1>2 DEF Write
  <2>2. Len(manifest) \in Nat \ {0} /\ Last(manifest) \in Seq(Records)
    BY <1>2 DEF Last
  <2>3. line \in Seq(Records) /\ (Len(line) = 1 => line[1] = r)
    BY <2>2
  <2> HIDE DEF line
  <2>4. Front(manifest) \in Seq(Seq(Records)) /\ Len(Front(manifest)) = Len(manifest) - 1
        /\ \A k \in 1 .. Len(manifest) - 1 : Front(manifest)[k] = manifest[k]
    <3>1. \A k \in 1 .. Len(manifest) - 1 : manifest[k] \in Seq(Records)
      BY <2>2
    <3> QED
      <4> DEFINE m == Len(manifest) - 1
      <4>1. m \in Nat /\ 1 \in Int /\ m \in Int
        BY <2>2
      <4>2. /\ SubSeq(manifest, 1, m) \in Seq(Seq(Records))
            /\ Len(SubSeq(manifest, 1, m)) = IF 1 <= m THEN m - 1 + 1 ELSE 0
            /\ \A k \in 1 .. m - 1 + 1 : SubSeq(manifest, 1, m)[k] = manifest[1 + k - 1]
        <5> HIDE DEF m
        <5> QED
          BY <3>1, <4>1, SubSeqProperties DEF m
      <4>3. Front(manifest) = SubSeq(manifest, 1, m)
        BY DEF Front
      <4> HIDE DEF m
      <4>4. /\ Front(manifest) \in Seq(Seq(Records)) /\ Len(Front(manifest)) = m
            /\ \A k \in 1 .. m : Front(manifest)[k] = manifest[k]
        BY <4>1, <4>2, <4>3
      <4> QED
        BY <4>4 DEF m
  <2>5. manifest' \in Seq(Seq(Records)) /\ Len(manifest') = Len(manifest)
    BY <2>1, <2>2, <2>3, <2>4
  <2>8. manifest'[Len(manifest)] = line
        /\ \A k \in 1 .. Len(manifest) - 1 : manifest'[k] = manifest[k]
    <3>1. <<line>> \in Seq(Seq(Records)) /\ Len(<<line>>) = 1 /\ <<line>>[1] = line
      BY <2>3
    <3> QED
      BY <3>1, <2>1, <2>2, <2>4, ConcatProperties
  <2>6. ASSUME NEW k \in DOMAIN manifest'
        PROVE  manifest'[k] = line \/ manifest'[k] \in Range(manifest)
    <3>1. CASE k = Len(manifest)
      BY <3>1, <2>8
    <3>2. CASE k \in 1 .. Len(manifest) - 1
      <4>1. manifest'[k] = manifest[k] /\ k \in DOMAIN manifest
        <5>1. DOMAIN manifest = 1 .. Len(manifest)
          BY <2>2
        <5>2. k \in 1 .. Len(manifest)
          BY <3>2, <2>2
        <5> QED
          BY <3>2, <2>8, <5>1, <5>2
      <4>2. manifest[k] \in Range(manifest)
        BY <4>1, Zenon DEF Range
      <4> QED
        BY <4>1, <4>2
    <3> QED
      BY <3>1, <3>2, <2>2, <2>5
  <2>7. Loaded' \subseteq Loaded \cup {r}
    <3>1. SUFFICES ASSUME NEW l \in Range(manifest'), Len(l) = 1, l[1].status # "torn"
                   PROVE  l[1] \in Loaded \cup {r}
      BY DEF Loaded
    <3>2. PICK k \in DOMAIN manifest' : l = manifest'[k]
      BY DEF Range
    <3> QED
      BY <2>3, <2>6, <3>1, <3>2 DEF Loaded
  <2> QED
    BY <2>2, <2>5, <2>7, <1>2 DEF Write
<1> QED
  BY <1>1, <1>2

\* The formats of an item have paths with a part file beside each.
LEMMA Places ==
  ASSUME NEW i \in Items, NEW k \in Formats(i)
  PROVE  /\ Targets[i][k] \in Paths /\ Targets[i][k] \in Range(Targets[i])
         /\ Targets[i][k] \in DOMAIN Part /\ Part[Targets[i][k]] \in Paths
         /\ Part[Targets[i][k]] # Targets[i][k]
<1>1. Targets[i] \in Seq(Paths) /\ k \in DOMAIN Targets[i]
  BY TargetsAssumption DEF Formats
<1>2. Targets[i][k] \in Range(Targets[i]) /\ Targets[i][k] \in Paths
  BY <1>1 DEF Range
<1>3. Targets[i][k] \in DOMAIN Part
  BY <1>2, TargetsAssumption
<1> QED
  BY <1>2, <1>3, TargetsAssumption

\* A file whose path is its own is as it was when another one is written.
LEMMA OthersStay ==
  ASSUME NEW i \in Items \ Folders, NEW j \in Alone \ {i},
         \A p \in Paths : p \notin Writes(i) => disk'[p] = disk[p]
  PROVE  CopiesOf(j)' = CopiesOf(j)
<1>1. ASSUME NEW k \in Formats(j)
      PROVE  disk'[Targets[j][k]] = disk[Targets[j][k]]
  <2>1. j \in Items /\ i \in Items \ (Folders \cup {j}) /\ Range(Targets[j]) \cap Writes(i) = {}
    BY DEF Alone
  <2>2. Targets[j][k] \in Range(Targets[j]) /\ Targets[j][k] \in Paths
    BY <2>1, Places
  <2> QED
    BY <2>1, <2>2
<1> QED
  BY <1>1 DEF CopiesOf, Formats

\* Nor does its own part file touch it.
LEMMA PartApart ==
  ASSUME NEW i \in Alone, NEW k \in Formats(i),
         \A p \in Paths : p # Part[Targets[i][k]] => disk'[p] = disk[p]
  PROVE  CopiesOf(i)' = CopiesOf(i)
<1>1. ASSUME NEW l \in Formats(i)
      PROVE  disk'[Targets[i][l]] = disk[Targets[i][l]]
  <2>1. Targets[i][l] \in Range(Targets[i]) /\ Targets[i][k] \in Range(Targets[i])
        /\ Targets[i][l] \in Paths
    BY Places DEF Alone
  <2>2. Part[Targets[i][k]] # Targets[i][l]
    BY <2>1 DEF Alone
  <2> QED
    BY <2>1, <2>2
<1> QED
  BY <1>1 DEF CopiesOf, Formats

\* The rename puts the copy at its path; others of the item it may replace.
LEMMA RenameAdds ==
  ASSUME Typed, NEW i \in Items \ Folders, format \in Formats(i), bytes \in Copies, bytes.of = i,
         disk[Part[Target(i)]] = bytes,
         disk' = [disk EXCEPT ![Target(i)] = disk[Part[Target(i)]], ![Part[Target(i)]] = NoFile]
  PROVE  /\ \A j \in Alone \ {i} : CopiesOf(j)' = CopiesOf(j)
         /\ i \in Alone => /\ bytes \in CopiesOf(i)'
                           /\ CopiesOf(i)' \subseteq CopiesOf(i) \cup {bytes}
<1> DEFINE p == Targets[i][format]
<1>1. /\ p \in Paths /\ p \in Range(Targets[i]) /\ p \in DOMAIN Part /\ Part[p] \in Paths
      /\ Part[p] # p
  BY Places
<1>2. p \in Writes(i) /\ Part[p] \in Writes(i)
  BY <1>1 DEF Writes
<1>3. Target(i) = p
  BY DEF Target
<1> HIDE DEF p
<1>4. disk' = [x \in Paths |-> IF x = Part[p] THEN NoFile ELSE IF x = p THEN bytes ELSE disk[x]]
  BY <1>1, <1>3 DEF Typed
<1>5. \A x \in Paths : x \notin Writes(i) => disk'[x] = disk[x]
  BY <1>2, <1>4
<1>6. \A j \in Alone \ {i} : CopiesOf(j)' = CopiesOf(j)
  BY <1>5, OthersStay
<1>7. ASSUME i \in Alone PROVE bytes \in CopiesOf(i)' /\ CopiesOf(i)' \subseteq CopiesOf(i) \cup {bytes}
  <2>1. disk'[p] = bytes
    BY <1>1, <1>4
  <2>2. bytes \in CopiesOf(i)'
    BY <2>1 DEF CopiesOf, p, Formats
  <2>3. ASSUME NEW k \in Formats(i), disk'[Targets[i][k]] \in Copies
        PROVE  disk'[Targets[i][k]] \in {bytes, disk[Targets[i][k]]}
    <3>1. Targets[i][k] \in Paths
      BY Places
    <3>2. NoFile \notin Copies
      BY FilesAssumption
    <3> QED
      BY <3>1, <3>2, <2>3, <1>4
  <2>4. ASSUME NEW c \in CopiesOf(i)' PROVE c \in CopiesOf(i) \cup {bytes}
    <3>1. PICK k \in Formats(i) : c = disk'[Targets[i][k]] /\ c \in Copies /\ c.of = i
      BY <2>4 DEF CopiesOf, Formats
    <3>2. c = bytes \/ c = disk[Targets[i][k]]
      BY <2>3, <3>1
    <3> QED
      BY <3>1, <3>2 DEF CopiesOf
  <2> QED
    BY <2>2, <2>4
<1> QED
  BY <1>6, <1>7

-----------------------------------------------------------------------------
LEMMA Unmoved ==
  /\ UNCHANGED manifest => Loaded' = Loaded /\ Completed' = Completed
  /\ UNCHANGED disk => Whole' = Whole /\ \A i : CopiesOf(i)' = CopiesOf(i)
  /\ Alone \subseteq Items \ (Folders \cup Reusable)
<1>1. UNCHANGED manifest => Loaded' = Loaded
  BY DEF Loaded
<1>2. UNCHANGED disk => \A i : CopiesOf(i)' = CopiesOf(i)
  BY DEF CopiesOf, Formats
<1>3. UNCHANGED disk => Whole' = Whole
  BY <1>2 DEF Whole
<1>4. Alone \subseteq Items \ (Folders \cup Reusable)
  BY DEF Alone
<1> QED
  BY <1>1, <1>2, <1>3, <1>4 DEF Completed

LEMMA NoneAtFirst == Init => \A i \in Alone : CopiesOf(i) = {}
<1> SUFFICES ASSUME Init, NEW i \in Alone, NEW k \in Formats(i)
             PROVE  disk[Targets[i][k]] \notin Copies
  BY DEF CopiesOf
<1>1. Targets[i][k] \in Paths
  BY Places DEF Alone
<1> QED
  BY <1>1, FilesAssumption DEF Init

LEMMA Initially == Init => Inv
<1> SUFFICES ASSUME Init PROVE Inv
  OBVIOUS
<1>1. Loaded = {} /\ Completed = {}
  BY DEF Init, Loaded, Completed, Range
<1>2. Typed
  BY DEF Init, Typed, Statuses, Success, Ended
<1>3. Phase
  BY DEF Init, Phase, Writing, Ended
<1>4. \A i \in Alone : CopiesOf(i) = {}
  BY NoneAtFirst
<1>5. Got
  BY <1>4 DEF Init, Got, Writing
<1>6. Fresh /\ RecordedIsWhole /\ Covered
  BY <1>1 DEF Init, Fresh, RecordedIsWhole, Covered, Backing
<1> QED
  BY <1>2, <1>3, <1>5, <1>6 DEF Inv

\* The steps that leave manifest, files and plan alone keep the invariant if they
\* keep the item in work where its phase says it is.
LEMMA Quiet ==
  ASSUME Inv, UNCHANGED <<disk, ver, manifest, ended, plan>>,
         (current \subseteq Items /\ \A i, j \in current : i = j)',
         (bytes \in Copies \cup {NoFile} /\ reuse \subseteq Reusable)',
         (status \in Statuses /\ bpc \in Backing \cup Ended \cup {"hung"})',
         Phase', Fresh', Got'
  PROVE  Inv'
<1>1. Completed' = Completed /\ Whole' = Whole
  BY Unmoved
<1>2. \A i : CopiesOf(i)' = CopiesOf(i)
  BY Unmoved
<1>3. Typed'
  BY DEF Inv, Typed
<1>4. RecordedIsWhole' /\ Covered'
  BY <1>1, <1>2 DEF Inv, RecordedIsWhole, Covered
<1> QED
  BY <1>3, <1>4 DEF Inv

\* Those that hold nothing, or what they held, keep what the backup has got as it was.
LEMMA GotStays ==
  ASSUME Got, UNCHANGED <<disk, ver>>,
         \/ bpc' \notin Writing
         \/ bpc \in Writing /\ bpc' \in Writing \ {"rename"} /\ UNCHANGED <<current, bytes>>
  PROVE  Got'
<1>1. \A i : CopiesOf(i)' = CopiesOf(i)
  BY Unmoved
<1> QED
  BY <1>1 DEF Got, Writing

\* A step that writes at paths of the item in work, and not at its last, keeps the copies.
LEMMA StillWhole ==
  ASSUME \A i \in Alone : CopiesOf(i)' = CopiesOf(i)
  PROVE  /\ Whole' = Whole
         /\ RecordedIsWhole /\ UNCHANGED manifest => RecordedIsWhole'
         /\ Covered /\ UNCHANGED plan => Covered'
<1>1. Whole' = Whole
  BY DEF Whole
<1>2. UNCHANGED manifest => Completed' = Completed
  BY Unmoved
<1>3. RecordedIsWhole /\ UNCHANGED manifest => RecordedIsWhole'
  BY <1>2 DEF RecordedIsWhole
<1>4. Covered /\ UNCHANGED plan => Covered'
  BY <1>1 DEF Covered
<1> QED
  BY <1>1, <1>3, <1>4

\* The part file is emptied and filled: no copy is touched.
LEMMA PartKeeps ==
  ASSUME Inv, OpenPart \/ WritePart
  PROVE  Inv' /\ Whole' = Whole /\ \A j \in Alone : CopiesOf(j)' = CopiesOf(j)
<1> USE DEF Inv
<1>1. PICK i \in current, what \in {Partial, bytes} :
        /\ disk' = [disk EXCEPT ![Part[Target(i)]] = what]
        /\ bpc = "write" => what = bytes
        /\ bpc = "open" => what = Partial
  BY DEF OpenPart, WritePart
<1>2. /\ UNCHANGED <<ver, manifest, ended, plan, reuse, todo, current, format, bytes, status>>
      /\ \/ bpc = "open" /\ bpc' = "write"
         \/ bpc = "write" /\ bpc' = "rename"
  BY DEF OpenPart, WritePart, drive, work, declutter
<1>3. i \in Items \ Folders /\ current = {i} /\ format \in Formats(i)
  BY <1>2 DEF Typed, Phase, Writing
<1>4. Part[Targets[i][format]] \in Paths /\ Targets[i][format] \in Range(Targets[i])
  BY <1>3, Places
<1>5. /\ Part[Targets[i][format]] \in Writes(i)
      /\ \A p \in Paths : p # Part[Targets[i][format]] => disk'[p] = disk[p]
      /\ disk'[Part[Targets[i][format]]] = what
  BY <1>1, <1>4 DEF Writes, Target, Typed
<1>6. ASSUME NEW j \in Alone PROVE CopiesOf(j)' = CopiesOf(j)
  <2>1. CASE j = i
    BY <2>1, <1>3, <1>5, PartApart
  <2>2. CASE j # i
    BY <2>2, <1>3, <1>5, OthersStay
  <2> QED
    BY <2>1, <2>2
<1>7. Whole' = Whole /\ RecordedIsWhole' /\ Covered'
  BY <1>2, <1>6, StillWhole
<1>8. Completed' = Completed
  BY <1>2, Unmoved
<1>9. bytes \in Copies
  BY <1>2, <1>3 DEF Got, Writing
<1>10. Typed'
  BY <1>1, <1>2, <1>9 DEF Typed, Backing
<1>11. Phase' /\ Fresh'
  BY <1>2, <1>3, <1>8 DEF Phase, Fresh, Writing, Ended, Formats, Backing
<1>12. Got'
  <2>1. bpc' = "rename" => disk'[Part[Target(i)]] = bytes
    BY <1>1, <1>2, <1>5 DEF Target
  <2>2. Target(i)' = Target(i)
    BY <1>2 DEF Target
  <2> QED
    BY <1>2, <1>3, <1>6, <2>1, <2>2 DEF Got, Writing
<1> QED
  BY <1>6, <1>7, <1>10, <1>11, <1>12

\* The file gets its name.
LEMMA RenameKeeps ==
  ASSUME Inv, Rename
  PROVE  /\ Inv'
         /\ \E i \in Items :
              /\ \A j \in Alone \ {i} : CopiesOf(j)' = CopiesOf(j)
              /\ i \in Alone =>
                   /\ bytes \in CopiesOf(i)' /\ CopiesOf(i)' \subseteq CopiesOf(i) \cup {bytes}
                   /\ bytes \in Copies /\ bytes.of = i /\ bytes.ver <= ver[i]
                   /\ \A c \in CopiesOf(i) : c.ver <= bytes.ver
<1> USE DEF Inv
<1>1. PICK i \in current : disk' = [disk EXCEPT ![Target(i)] = disk[Part[Target(i)]],
                                                ![Part[Target(i)]] = NoFile]
  BY DEF Rename
<1>2. /\ UNCHANGED <<ver, manifest, ended, plan, reuse, todo, current, format, bytes>>
      /\ bpc = "rename" /\ bpc' = "append" /\ status' = "downloaded"
  BY DEF Rename, drive, declutter
<1>3. i \in Items \ Folders /\ current = {i} /\ format \in Formats(i)
  BY <1>2 DEF Typed, Phase, Writing
<1>4. /\ bytes \in Copies /\ bytes.of = i /\ bytes.ver <= ver[i]
      /\ i \in Alone => \A c \in CopiesOf(i) : c.ver <= bytes.ver
      /\ disk[Part[Target(i)]] = bytes
  BY <1>2 DEF Got, Writing
<1>5. /\ \A j \in Alone \ {i} : CopiesOf(j)' = CopiesOf(j)
      /\ i \in Alone => bytes \in CopiesOf(i)' /\ CopiesOf(i)' \subseteq CopiesOf(i) \cup {bytes}
  BY <1>1, <1>3, <1>4, RenameAdds
<1>6. Whole \subseteq Whole' /\ {i} \cap Alone \subseteq Whole'
  BY <1>5 DEF Whole
<1>7. Completed' = Completed
  BY <1>2, Unmoved
<1>8. RecordedIsWhole' /\ Covered'
  BY <1>2, <1>6, <1>7 DEF RecordedIsWhole, Covered, Whole
<1>9. Typed'
  <2>1. Part[Target(i)] \in Paths
    BY <1>3, Places DEF Target
  <2> QED
    BY <1>1, <1>2, <2>1 DEF Typed, Statuses, Success, Backing
<1>10. Phase' /\ Fresh'
  BY <1>2, <1>3, <1>6, <1>7 DEF Phase, Fresh, Writing, Ended, Backing
<1>11. Got'
  <2>1. ASSUME NEW j \in Alone, NEW c \in CopiesOf(j)' PROVE c.ver <= ver[j]
    BY <2>1, <1>4, <1>5 DEF Got
  <2> QED
    BY <2>1, <1>2 DEF Got, Writing
<1> QED
  BY <1>3, <1>4, <1>5, <1>8, <1>9, <1>10, <1>11

\* A file that is copied is none of those.
LEMMA CopyKeeps ==
  ASSUME Inv, CopyStart \/ CopyReused
  PROVE  Inv' /\ Whole' = Whole /\ \A j \in Alone : CopiesOf(j)' = CopiesOf(j)
<1> USE DEF Inv
<1>1. bpc \in {"copy", "copied"} /\ UNCHANGED <<ver, manifest, ended, plan>>
  BY DEF CopyStart, CopyReused, drive, declutter
<1>2. PICK i \in current :
        \/ UNCHANGED disk /\ Stopped
        \/ /\ \E what \in {Partial, disk[Reuse[i].from]} : disk' = [disk EXCEPT ![Reuse[i].to] = what]
           /\ UNCHANGED <<reuse, todo, current, format, bytes>>
           /\ \/ bpc' = "copied" /\ UNCHANGED status
              \/ bpc' = "append" /\ status' = "copied"
  BY DEF CopyStart, CopyReused, work
<1>3. i \in Reusable /\ i \in Items \ Folders /\ current = {i} /\ i \notin Alone
      /\ Reuse[i].to \in Paths /\ Reuse[i].from \in Paths
  BY <1>1, ItemsAssumption DEF Phase, Typed, Alone
<1>4. Completed' = Completed
  BY <1>1, Unmoved
<1>5. \A p \in Paths : p \notin Writes(i) => disk'[p] = disk[p]
  BY <1>2, <1>3 DEF Writes, Typed
<1>6. \A j \in Alone : CopiesOf(j)' = CopiesOf(j)
  BY <1>3, <1>5, OthersStay
<1>7. Whole' = Whole /\ RecordedIsWhole' /\ Covered'
  BY <1>1, <1>6, StillWhole
<1>8. Typed' /\ bpc' \notin Writing
  BY <1>1, <1>2, <1>3 DEF Typed, Stopped, Statuses, Success, Backing, Ended, Writing
<1>9. Got'
  BY <1>1, <1>6, <1>8 DEF Got, Writing
<1>10. Phase' /\ Fresh'
  BY <1>1, <1>2, <1>3, <1>4 DEF Phase, Fresh, Stopped, Writing, Ended, Backing
<1> QED
  BY <1>6, <1>7, <1>8, <1>9, <1>10

\* A record is written of what has its copy, or is no success.
LEMMA RecordKeeps ==
  ASSUME Inv, AppendRecord \/ BackupStops
  PROVE  Inv'
<1> USE DEF Inv
<1>u. /\ UNCHANGED manifest => Completed' = Completed
      /\ UNCHANGED disk => Whole' = Whole /\ \A i : CopiesOf(i)' = CopiesOf(i)
  BY Unmoved
<1>1. CASE AppendRecord
  <2>1. PICK i \in current : Write([item |-> i, status |-> status])
    BY <1>1 DEF AppendRecord
  <2>2. UNCHANGED <<disk, ver, plan, reuse, current, todo, format, bytes, status>>
        /\ bpc = "append" /\ bpc' = "newline"
    BY <1>1 DEF AppendRecord, drive, work, declutter
  <2> DEFINE r == [item |-> i, status |-> status]
  <2>3. r \in Records /\ r.item = i /\ r.status = status /\ i \in Items /\ current = {i}
    BY DEF Typed, Records
  <2> HIDE DEF r
  <2>4. /\ manifest' \in Seq(Seq(Records)) /\ manifest' # << >>
        /\ Loaded' \subseteq Loaded \cup {r}
    BY <2>1, <2>3, WriteAdds DEF r
  <2>5. Completed' \subseteq Completed \cup (IF status \in Success THEN {i} ELSE {})
    BY <2>3, <2>4 DEF Completed
  <2>6. status \in Success => {i} \cap Alone \subseteq Whole
    <3>1. CASE status \in {"folder", "copied"}
      BY <3>1, <2>2, <2>3, Unmoved DEF Phase
    <3>2. CASE status = "downloaded"
      BY <3>2, <2>2, <2>3 DEF Phase
    <3> QED
      BY <3>1, <3>2 DEF Success
  <2>7. RecordedIsWhole' /\ Covered'
    BY <2>2, <2>5, <2>6, <1>u DEF RecordedIsWhole, Covered, Whole
  <2>8. Typed'
    BY <2>2, <2>4 DEF Typed, Backing
  <2>9. Phase' /\ Got'
    BY <2>2, GotStays DEF Phase, Writing, Ended
  <2>10. Fresh'
    BY <2>2, <2>3, <2>5 DEF Fresh, Backing
  <2> QED
    BY <2>7, <2>8, <2>9, <2>10
<1>2. CASE BackupStops
  <2>1. UNCHANGED <<disk, ver, plan>> /\ bpc' = "stopped" /\ reuse' = {}
        /\ todo' = {} /\ current' = {} /\ format' = 1 /\ bytes' = NoFile /\ status' = "error"
    BY <1>2 DEF BackupStops, Stopped, drive, declutter
  <2>2. Phase' /\ Fresh' /\ Got'
    BY <2>1, GotStays DEF Phase, Fresh, Backing, Writing, Ended
  <2>3. CASE UNCHANGED <<manifest, ended>>
    BY <2>1, <2>2, <2>3, Quiet DEF Ended, Statuses
  <2>4. CASE \E i \in current : Write([item |-> i, status |-> "torn"])
    <3>1. PICK i \in current : Write([item |-> i, status |-> "torn"])
      BY <2>4
    <3> DEFINE r == [item |-> i, status |-> "torn"]
    <3>2. r \in Records /\ r.status = "torn"
      BY DEF Typed, Records, Statuses
    <3> HIDE DEF r
    <3>3. /\ manifest' \in Seq(Seq(Records)) /\ manifest' # << >>
          /\ Loaded' \subseteq Loaded \cup {r}
      BY <3>1, <3>2, WriteAdds DEF r
    <3>4. Completed' \subseteq Completed
      BY <3>2, <3>3 DEF Completed, Success
    <3>5. Typed'
      BY <2>1, <3>3 DEF Typed, Ended, Statuses
    <3>6. RecordedIsWhole' /\ Covered'
      BY <2>1, <3>4, <1>u DEF RecordedIsWhole, Covered
    <3> QED
      BY <2>2, <3>5, <3>6
  <2> QED
    BY <1>2, <2>3, <2>4 DEF BackupStops
<1> QED
  BY <1>1, <1>2

\* The steps of the backup that write nothing.
LEMMA ReadingKeeps ==
  ASSUME Inv,
         \/ BackupStart \/ \E i \in Items : BackupItem(i)
         \/ Fetch \/ FetchHangs \/ AppendNewline \/ BackupDone
  PROVE  Inv'
<1> USE DEF Inv
<1>u. /\ UNCHANGED manifest => Completed' = Completed
      /\ UNCHANGED disk => Whole' = Whole /\ \A i : CopiesOf(i)' = CopiesOf(i)
  BY Unmoved
<1>1. CASE BackupStart
  <2>1. UNCHANGED <<disk, ver, manifest, ended, plan, current, status, format, bytes>>
        /\ bpc' = "next" /\ bpc \in Ended /\ todo' \cap Completed = {} /\ reuse' \subseteq Reusable
    BY <1>1 DEF BackupStart, drive, files, declutter
  <2>2. Phase' /\ Got'
    BY <2>1, GotStays DEF Phase, Ended, Writing
  <2>3. Fresh'
    BY <2>1, <1>u DEF Fresh, Phase
  <2> QED
    BY <2>1, <2>2, <2>3, Quiet DEF Typed, Backing
<1>2. CASE \E i \in Items : BackupItem(i)
  <2>1. PICK i \in Items : BackupItem(i)
    BY <1>2
  <2>2. UNCHANGED <<disk, ver, manifest, ended, plan, reuse, format, bytes>> /\ current' = {i}
        /\ todo' = todo \ {i} /\ bpc = "next" /\ i \in todo
    BY <2>1 DEF BackupItem, First, drive, files, declutter
  <2>3. \/ i \in Folders /\ bpc' = "append" /\ status' = "folder"
        \/ i \in Reusable /\ bpc' = "copy" /\ UNCHANGED status
        \/ i \notin Folders /\ bpc' = "append" /\ status' = "skipped"
        \/ i \notin Folders /\ bpc' = "fetch" /\ UNCHANGED status /\ Targets[i] # << >>
    BY <2>1 DEF BackupItem, Typed
  <2>4. Targets[i] # << >> => 1 \in Formats(i)
    <3>1. Targets[i] \in Seq(Paths)
      BY TargetsAssumption
    <3> QED
      BY <3>1 DEF Formats
  <2>5. Phase' /\ Got'
    BY <2>2, <2>3, <2>4, GotStays DEF Phase, Ended, Formats, Writing
  <2>6. Fresh'
    BY <2>2, <2>3, <1>u DEF Fresh, Backing
  <2>7. status' \in Statuses /\ bpc' \in Backing /\ current' \subseteq Items
    BY <2>2, <2>3 DEF Typed, Statuses, Success, Backing
  <2> QED
    BY <2>2, <2>5, <2>6, <2>7, Quiet DEF Typed
<1>3. CASE Fetch
  <2>1. UNCHANGED <<disk, ver, manifest, ended, plan, reuse, current, todo>> /\ bpc = "fetch"
    BY <1>3 DEF Fetch, drive, files, declutter
  <2>2. PICK i \in current : Fetched(i) \/ NextFormat(i)
    BY <1>3 DEF Fetch
  <2>3. i \in Items /\ current = {i} /\ format \in Formats(i) /\ i \notin Folders
    BY <2>1, <2>2 DEF Typed, Phase
  <2>4. CASE Fetched(i)
    <3>1. bytes' = [of |-> i, ver |-> ver[i]] /\ bpc' = "open" /\ UNCHANGED <<format, status>>
      BY <2>4 DEF Fetched
    <3>2. bytes' \in Copies /\ bytes'.of = i /\ bytes'.ver = ver[i] /\ ver[i] \in Nat
      BY <2>3, <3>1 DEF Copies, Typed
    <3>3. Phase' /\ Fresh'
      BY <2>1, <2>3, <3>1, <1>u DEF Phase, Fresh, Ended, Formats, Writing, Backing
    <3>4. Got'
      BY <2>1, <2>3, <3>1, <3>2, <1>u DEF Got, Writing
    <3> QED
      BY <2>1, <3>1, <3>2, <3>3, <3>4, Quiet DEF Typed, Backing
  <2>5. CASE NextFormat(i)
    <3>1. \/ bpc' = "fetch" /\ format' \in Formats(i) /\ UNCHANGED <<bytes, status>>
          \/ bpc' = "append" /\ status' = "error" /\ UNCHANGED bytes
      <4>1. Len(Targets[i]) \in Nat
        BY <2>3, TargetsAssumption
      <4> QED
        BY <2>5, <2>3, <4>1 DEF NextFormat, Formats
    <3>2. Phase' /\ Fresh'
      BY <2>1, <2>3, <3>1, <1>u DEF Phase, Fresh, Ended, Formats, Writing, Backing
    <3>3. Got'
      BY <2>1, <3>1, GotStays DEF Writing
    <3> QED
      BY <2>1, <3>1, <3>2, <3>3, Quiet DEF Typed, Backing, Statuses
  <2> QED
    BY <2>2, <2>4, <2>5
<1>4. CASE FetchHangs \/ BackupDone
  <2>1. UNCHANGED <<disk, ver, manifest, ended, plan, reuse, current, todo, format, bytes, status>>
        /\ bpc \in {"fetch", "next"} /\ bpc' \in {"hung", "done"}
        /\ (bpc' = "done" => bpc = "next")
    BY <1>4 DEF FetchHangs, BackupDone, drive, files, work, declutter
  <2>2. Phase' /\ Fresh' /\ Got'
    BY <2>1, GotStays DEF Phase, Fresh, Backing, Writing, Ended
  <2> QED
    BY <2>1, <2>2, Quiet DEF Typed, Ended
<1>5. CASE AppendNewline
  <2>1. UNCHANGED <<disk, ver, manifest, plan, reuse, todo>> /\ bpc = "newline" /\ bpc' = "next"
        /\ current' = {} /\ format' = 1 /\ bytes' = NoFile /\ status' = "error" /\ ended' = TRUE
    BY <1>5 DEF AppendNewline, EndLine, drive, declutter
  <2>2. Typed'
    BY <2>1 DEF Typed, Backing, Statuses
  <2>3. Phase' /\ Fresh' /\ Got'
    BY <2>1, <1>u, GotStays DEF Phase, Fresh, Backing, Ended, Writing
  <2>4. RecordedIsWhole' /\ Covered'
    BY <2>1, <1>u DEF RecordedIsWhole, Covered
  <2> QED
    BY <2>2, <2>3, <2>4
<1> QED
  BY <1>1, <1>2, <1>3, <1>4, <1>5

LEMMA BackupKeeps ==
  ASSUME Inv, BackupStart \/ BackupStep \/ FetchHangs \/ BackupStops
  PROVE  Inv'
BY PartKeeps, RenameKeeps, CopyKeeps, RecordKeeps, ReadingKeeps DEF BackupStep

\* Declutter, and others, keep the invariant: only what has its copy is planned, and items
\* only get newer.
LEMMA OthersKeep ==
  ASSUME Inv,
         \/ \E i \in Items : EditDrive(i)
         \/ SyncElsewhere \/ DeclutterPlan \/ DeclutterStep \/ DeclutterHangs \/ DeclutterStops
  PROVE  Inv'
<1>1. UNCHANGED <<files, backup>>
  BY DEF EditDrive, SyncElsewhere, DeclutterPlan, DeclutterStep, Release, RemoveParent,
         ApplyDone, FinalSync, DeclutterHangs, DeclutterStops
<1>2. UNCHANGED <<disk, manifest, ended, bpc, reuse, todo, current, format, bytes, status>>
  BY <1>1 DEF files, backup, work
<1>3. Completed' = Completed /\ Whole' = Whole /\ \A i : CopiesOf(i)' = CopiesOf(i)
  BY <1>2, Unmoved
<1>4. Covered'
  <2>1. CASE DeclutterPlan
    <3>1. plan' \subseteq Completed
      BY <2>1 DEF DeclutterPlan, Actionable
    <3> QED
      BY <3>1, <1>3 DEF Inv, RecordedIsWhole, Covered, Whole
  <2>2. CASE plan' \subseteq plan
    BY <2>2, <1>3 DEF Inv, Covered
  <2> QED
    BY <2>1, <2>2 DEF EditDrive, SyncElsewhere, DeclutterStep, Release, RemoveParent, ApplyDone,
                      FinalSync, DeclutterHangs, DeclutterStops, declutter
<1>5. RecordedIsWhole'
  BY <1>3 DEF Inv, RecordedIsWhole
<1>6. ver' \in [Items -> Nat] /\ \A i \in Items : ver[i] <= ver'[i]
  <2>1. CASE UNCHANGED ver
    BY <2>1 DEF Inv, Typed
  <2>2. CASE \E i \in Items : ver' = [ver EXCEPT ![i] = @ + 1]
    BY <2>2 DEF Inv, Typed
  <2> QED
    BY <2>1, <2>2 DEF EditDrive, Share, AddToMyDrive, Revise, SyncElsewhere, DeclutterPlan,
                      DeclutterStep, Release, RemoveParent, ApplyDone, FinalSync, DeclutterHangs,
                      DeclutterStops, drive
<1>7. Typed' /\ Phase' /\ Fresh'
  BY <1>2, <1>3, <1>6 DEF Inv, Typed, Phase, Fresh, Formats
<1>8. Got'
  <2>1. ASSUME NEW i \in Items, NEW c \in Copies, c.ver <= ver[i] PROVE c.ver <= ver'[i]
    BY <2>1, <1>6 DEF Copies, Inv, Typed
  <2>2. \A i : Target(i)' = Target(i)
    BY <1>2 DEF Target
  <2>3. \A i \in Alone : i \in Items /\ CopiesOf(i) \subseteq Copies
    BY DEF Alone, CopiesOf
  <2>4. current \subseteq Items
    BY DEF Inv, Typed
  <2> QED
    BY <1>2, <1>3, <2>1, <2>2, <2>3, <2>4 DEF Inv, Got
<1> QED
  BY <1>4, <1>5, <1>7, <1>8 DEF Inv

LEMMA Invariant == Spec => []Inv
<1>1. Inv /\ [Next]_vars => Inv'
  <2> SUFFICES ASSUME Inv, [Next]_vars PROVE Inv'
    OBVIOUS
  <2>1. CASE UNCHANGED vars
    <3>1. UNCHANGED <<disk, ver, manifest, ended, plan, reuse, current, todo, format, bytes, status, bpc>>
      BY <2>1 DEF vars
    <3>2. Completed' = Completed /\ Whole' = Whole /\ \A i : CopiesOf(i)' = CopiesOf(i)
      BY <3>1, Unmoved
    <3>3. \A i : Target(i)' = Target(i)
      BY <3>1 DEF Target
    <3> QED
      BY <3>1, <3>2, <3>3
      DEF Inv, Typed, Phase, Got, Fresh, RecordedIsWhole, Formats, Covered, Writing
  <2> QED
    BY <2>1, BackupKeeps, OthersKeep DEF Next
<1> QED
  BY <1>1, Initially, PTL DEF Spec

\* A file the manifest records as backed up is on the disk, whole, if it was fetched and
\* nothing else is ever written to its paths.
THEOREM RecordedAlwaysWhole == Spec => []RecordedIsWhole
<1>1. Inv => RecordedIsWhole
  BY DEF Inv
<1> QED
  BY <1>1, Invariant, PTL


-----------------------------------------------------------------------------
(* The promise of Custody.                                                 *)

\* The three things the promise is about.
Versions == [i \in Alone |-> ver[i]]
Kept == UNION {CopiesOf(i) : i \in Alone}
LetGone == released \cap Alone

\* A file that gets its name is one more copy, in the place of older ones at most.
LEMMA RenameIsKeep ==
  ASSUME Inv, Rename
  PROVE  C!Keep \/ UNCHANGED <<Versions, Kept, LetGone>>
<1>1. UNCHANGED <<ver, released>>
  BY DEF Rename, drive, declutter
<1>2. PICK i \in Items :
        /\ \A j \in Alone \ {i} : CopiesOf(j)' = CopiesOf(j)
        /\ i \in Alone =>
             /\ bytes \in CopiesOf(i)' /\ CopiesOf(i)' \subseteq CopiesOf(i) \cup {bytes}
             /\ bytes \in Copies /\ bytes.of = i /\ bytes.ver <= ver[i]
             /\ \A c \in CopiesOf(i) : c.ver <= bytes.ver
  BY RenameKeeps
<1>3. CASE i \notin Alone
  <2>1. \A j \in Alone : CopiesOf(j)' = CopiesOf(j)
    BY <1>2, <1>3
  <2> QED
    BY <1>1, <2>1 DEF Versions, Kept, LetGone
<1>4. CASE i \in Alone
  <2> DEFINE old == Kept \ Kept'
             v == bytes.ver
  <2>1. v \in 0 .. ver[i] /\ bytes = [of |-> i, ver |-> v]
    <3>1. ver[i] \in Nat
      BY DEF Inv, Typed
    <3> QED
      BY <3>1, <1>2, <1>4 DEF Copies
  <2>2. bytes \in Kept'
    BY <1>2, <1>4 DEF Kept
  <2>3. ASSUME NEW c \in Kept' PROVE c \in Kept \cup {bytes}
    <3>1. PICK j \in Alone : c \in CopiesOf(j)'
      BY <2>3 DEF Kept
    <3>2. c \in CopiesOf(j) \cup {bytes}
      BY <3>1, <1>2
    <3> QED
      BY <3>2 DEF Kept
  <2>4. ASSUME NEW c \in old PROVE c.of = i /\ c.ver <= v
    <3>1. PICK j \in Alone : c \in CopiesOf(j)
      BY <2>4 DEF Kept
    <3>2. c \notin CopiesOf(j)'
      BY <2>4, <3>1 DEF Kept
    <3>3. j = i
      BY <3>1, <3>2, <1>2
    <3> QED
      BY <3>1, <3>3, <1>2, <1>4 DEF CopiesOf
  <2>5. Kept' = (Kept \ old) \cup {bytes}
    BY <2>2, <2>3
  <2>6. /\ i \in Alone /\ v \in 0 .. Versions[i] /\ old \in SUBSET Kept
        /\ \A c \in old : c.of = i /\ c.ver <= v
        /\ Kept' = (Kept \ old) \cup {[of |-> i, ver |-> v]}
        /\ UNCHANGED <<Versions, LetGone>>
    BY <1>1, <1>4, <2>1, <2>4, <2>5 DEF Versions, LetGone
  <2> QED
    <3> HIDE DEF old, v
    <3> QED
      BY <2>6 DEF C!Keep, Versions, Kept, LetGone
<1> QED
  BY <1>3, <1>4

\* An edit is a newer version of one of the files, or of none.
LEMMA EditIsRevise ==
  ASSUME Inv, NEW i \in Items, EditDrive(i)
  PROVE  C!Revise \/ UNCHANGED <<Versions, Kept, LetGone>>
<1>1. UNCHANGED <<disk, released>>
  BY DEF EditDrive, files, declutter
<1>2. Kept' = Kept /\ LetGone' = LetGone
  BY <1>1, Unmoved DEF Kept, LetGone
<1>3. UNCHANGED ver \/ ver' = [ver EXCEPT ![i] = @ + 1]
  BY DEF EditDrive, Share, AddToMyDrive, Revise
<1>4. CASE i \in Alone /\ ver' = [ver EXCEPT ![i] = @ + 1]
  <2>1. Versions' = [Versions EXCEPT ![i] = @ + 1]
    BY <1>4, Unmoved DEF Versions, Inv, Typed
  <2> QED
    BY <1>2, <1>4, <2>1 DEF C!Revise, Versions, Kept, LetGone
<1>5. CASE i \notin Alone \/ UNCHANGED ver
  <2>1. Versions' = Versions
    BY <1>3, <1>5, Unmoved DEF Versions, Inv, Typed
  <2> QED
    BY <1>2, <2>1
<1> QED
  BY <1>3, <1>4, <1>5

\* What is taken out of My Drive has its copy, if it is one of the files.
LEMMA RemoveIsLetGo ==
  ASSUME Inv, NEW i \in Items, RemoveParent(i)
  PROVE  C!LetGo \/ UNCHANGED <<Versions, Kept, LetGone>>
<1>1. UNCHANGED <<disk, ver>> /\ i \in plan
  BY DEF RemoveParent, First, files
<1>2. Kept' = Kept /\ Versions' = Versions
  BY <1>1, Unmoved DEF Kept, Versions
<1>3. CASE i \in Alone /\ released' = released \cup {i}
  <2>1. PICK c \in CopiesOf(i) : TRUE
    BY <1>1, <1>3 DEF Inv, Covered, Whole
  <2>2. c \in Kept /\ c.of = i
    BY <2>1, <1>3 DEF Kept, CopiesOf
  <2>3. LetGone' = LetGone \cup {c.of}
    BY <2>2, <1>3 DEF LetGone
  <2> QED
    BY <1>2, <2>2, <2>3 DEF C!LetGo, Versions, Kept, LetGone
<1>4. CASE UNCHANGED released \/ (i \notin Alone /\ released' = released \cup {i})
  BY <1>2, <1>4 DEF LetGone
<1> QED
  BY <1>3, <1>4 DEF RemoveParent

\* Backup and declutter implement Custody: every step of theirs keeps one more copy and
\* loses older ones of the same file at most, lets go of one file that has its copy, or is
\* nothing to the promise.
THEOREM ImplementsCustody == Spec => KeepsCustody
<1>1. Init => C!Init
  <2> SUFFICES ASSUME Init PROVE C!Init
    OBVIOUS
  <2>1. \A i \in Alone : CopiesOf(i) = {} /\ ver[i] = 0
    BY NoneAtFirst, Unmoved DEF Init
  <2>2. released = {}
    BY DEF Init
  <2> QED
    BY <2>1, <2>2 DEF C!Init
<1>2. Inv /\ [Next]_vars =>
        [C!Revise \/ C!Keep \/ C!LetGo]_<<Versions, Kept, LetGone>>
  <2> SUFFICES ASSUME Inv, [Next]_vars
               PROVE  C!Revise \/ C!Keep \/ C!LetGo \/ UNCHANGED <<Versions, Kept, LetGone>>
    OBVIOUS
  <2>1. CASE UNCHANGED <<disk, ver, released>>
    BY <2>1, Unmoved DEF Versions, Kept, LetGone
  <2>2. CASE Rename
    BY <2>2, RenameIsKeep
  <2>3. CASE OpenPart \/ WritePart \/ CopyStart \/ CopyReused
    <3>1. UNCHANGED <<ver, released>>
      BY <2>3 DEF OpenPart, WritePart, CopyStart, CopyReused, drive, declutter
    <3>2. \A j \in Alone : CopiesOf(j)' = CopiesOf(j)
      BY <2>3, PartKeeps, CopyKeeps
    <3> QED
      BY <3>1, <3>2 DEF Versions, Kept, LetGone
  <2>4. CASE \E i \in Items : EditDrive(i)
    BY <2>4, EditIsRevise
  <2>5. CASE \E i \in Items : RemoveParent(i)
    BY <2>5, RemoveIsLetGo
  <2> QED
    BY <2>1, <2>2, <2>3, <2>4, <2>5
    DEF Next, vars, SyncElsewhere, BackupStart, BackupStep, BackupItem, Fetch, FetchHangs,
        AppendRecord, AppendNewline, BackupDone, BackupStops, DeclutterPlan, DeclutterStep,
        Release, ApplyDone, FinalSync, DeclutterHangs, DeclutterStops, drive, files, declutter
<1>3. [][C!Revise \/ C!Keep \/ C!LetGo]_<<Versions, Kept, LetGone>>
        => [][C!Revise \/ C!Keep \/ C!LetGo]_<<[i \in Alone |-> ver[i]],
             UNION {CopiesOf(i) : i \in Alone}, released \cap Alone>>
  <2>1. [C!Revise \/ C!Keep \/ C!LetGo]_<<Versions, Kept, LetGone>>
        => [C!Revise \/ C!Keep \/ C!LetGo]_<<[i \in Alone |-> ver[i]],
             UNION {CopiesOf(i) : i \in Alone}, released \cap Alone>>
    BY DEF Versions, Kept, LetGone
  <2> QED
    BY <2>1, PTL
<1> QED
  BY <1>1, <1>2, <1>3, Invariant, PTL DEF Spec, KeepsCustody, C!Spec

-----------------------------------------------------------------------------
(* What a backup counts as completed.                                      *)

\* A record on a line of its own is read back, and so is what was there.
LEMMA WriteKeeps ==
  ASSUME Typed, ended, NEW r \in Records, Write(r)
  PROVE  Loaded \subseteq Loaded' /\ (r.status # "torn" => r \in Loaded')
<1>1. manifest' = Append(manifest, <<r>>) /\ manifest \in Seq(Seq(Records))
  BY DEF Write, Typed
<1>2. /\ \A k \in DOMAIN manifest : k \in DOMAIN manifest' /\ manifest'[k] = manifest[k]
      /\ Len(manifest) + 1 \in DOMAIN manifest' /\ manifest'[Len(manifest) + 1] = <<r>>
  BY <1>1
<1>3. Range(manifest) \subseteq Range(manifest')
  BY <1>2, Zenon DEF Range
<1>4. <<r>> \in Range(manifest') /\ Len(<<r>>) = 1 /\ <<r>>[1] = r
  BY <1>2 DEF Range
<1>5. Loaded \subseteq Loaded'
  BY <1>3, Zenon DEF Loaded
<1>6. r.status # "torn" => r \in Loaded'
  BY <1>4 DEF Loaded
<1> QED
  BY <1>5, <1>6

\* Of a backup that began with a complete line: what it takes for completed is on record,
\* and every line of its own is complete before the next.
OnRecord ==
  whole =>
    /\ bpc \in Backing \cup {"done"} => completed \subseteq Completed
    /\ bpc \in Backing \ {"newline"} => ended
    /\ bpc = "newline" /\ status \in Success => current \subseteq Completed

\* A backup that begins where a line is complete, and is not cut off, records all that it
\* counts as completed where the next backup and declutter will find it.
THEOREM CompletedAlwaysRecorded == Spec => []CompletedIsRecorded
<1>1. Init => OnRecord
  BY DEF Init, OnRecord, Backing
<1>2. Inv /\ OnRecord /\ [Next]_vars => OnRecord'
  <2> SUFFICES ASSUME Inv, OnRecord, [Next]_vars PROVE OnRecord'
    OBVIOUS
  <2>u. UNCHANGED manifest => Completed' = Completed
    BY Unmoved
  <2>1. CASE UNCHANGED <<manifest, ended, bpc, completed, current, status, whole>>
    BY <2>1, <2>u DEF OnRecord
  <2>2. CASE BackupStart
    <3>1. completed' = Completed /\ whole' = ended /\ bpc' = "next" /\ UNCHANGED <<manifest, ended>>
      BY <2>2 DEF BackupStart, files
    <3> QED
      BY <3>1, <2>u DEF OnRecord
  <2>3. CASE \/ \E i \in Items : BackupItem(i)
             \/ Fetch \/ OpenPart \/ WritePart \/ Rename \/ CopyReused \/ BackupDone
    <3>1. /\ bpc \in Backing \ {"newline"} /\ bpc' \in (Backing \ {"newline"}) \cup {"done"}
          /\ UNCHANGED <<manifest, ended, completed, whole>>
      BY <2>3 DEF BackupItem, Fetch, Fetched, NextFormat, OpenPart, WritePart, Rename, CopyReused,
                  BackupDone, files, work, Backing
    <3> QED
      BY <3>1, <2>u DEF OnRecord, Backing
  <2>4. CASE AppendRecord
    <3>1. PICK i \in current : Write([item |-> i, status |-> status])
      BY <2>4 DEF AppendRecord
    <3>2. bpc = "append" /\ bpc' = "newline" /\ UNCHANGED <<completed, current, status, whole>>
      BY <2>4 DEF AppendRecord, work
    <3> DEFINE r == [item |-> i, status |-> status]
    <3>3. r \in Records /\ r.item = i /\ r.status = status /\ current = {i}
      BY DEF Inv, Typed, Records
    <3> HIDE DEF r
    <3>4. SUFFICES ASSUME whole
                   PROVE  /\ completed \subseteq Completed'
                          /\ status \in Success => current \subseteq Completed'
      BY <3>2 DEF OnRecord
    <3>5. ended /\ completed \subseteq Completed
      BY <3>2, <3>4 DEF OnRecord, Backing
    <3>6. Loaded \subseteq Loaded' /\ (r.status # "torn" => r \in Loaded')
      BY <3>1, <3>3, <3>5, WriteKeeps DEF Inv, r
    <3>7. Completed \subseteq Completed'
      BY <3>6 DEF Completed
    <3>8. status \in Success => i \in Completed'
      BY <3>3, <3>6 DEF Completed, Success
    <3> QED
      BY <3>3, <3>5, <3>7, <3>8
  <2>5. CASE AppendNewline
    <3>1. /\ bpc = "newline" /\ bpc' = "next" /\ ended' = TRUE
          /\ completed' = completed \cup (IF status \in Success THEN current ELSE {})
          /\ UNCHANGED <<manifest, whole>>
      BY <2>5 DEF AppendNewline, EndLine
    <3> QED
      BY <3>1, <2>u DEF OnRecord, Backing
  <2>6. CASE CopyStart
    <3>1. \/ bpc' = "stopped"
          \/ /\ bpc = "copy" /\ bpc' = "copied"
             /\ UNCHANGED <<manifest, ended, completed, whole>>
      BY <2>6 DEF CopyStart, Stopped, work
    <3> QED
      BY <3>1, <2>u DEF OnRecord, Backing
  <2>7. CASE FetchHangs \/ BackupStops
    <3>1. bpc' \in {"hung", "stopped"}
      BY <2>7 DEF FetchHangs, BackupStops, Stopped
    <3> QED
      BY <3>1 DEF OnRecord, Backing
  <2> QED
    BY <2>1, <2>2, <2>3, <2>4, <2>5, <2>6, <2>7
    DEF Next, vars, BackupStep, EditDrive, SyncElsewhere, DeclutterPlan, DeclutterStep, Release,
        RemoveParent, ApplyDone, FinalSync, DeclutterHangs, DeclutterStops, files, work, backup
<1>3. OnRecord => CompletedIsRecorded
  BY DEF OnRecord, CompletedIsRecorded
<1> QED
  BY <1>1, <1>2, <1>3, Invariant, PTL DEF Spec

-----------------------------------------------------------------------------
(* Types.                                                                  *)

LEMMA CompletedAreItems ==
  ASSUME Typed
  PROVE  Completed \subseteq Items
<1>1. ASSUME NEW r \in Loaded PROVE r \in Records
  <2>1. PICK l \in Range(manifest) : Len(l) = 1 /\ r = l[1]
    BY DEF Loaded
  <2>2. l \in Seq(Records)
    <3>1. PICK k \in DOMAIN manifest : l = manifest[k]
      BY <2>1 DEF Range
    <3> QED
      BY <3>1 DEF Typed
  <2> QED
    BY <2>1, <2>2
<1> QED
  BY <1>1 DEF Completed, Records

\* What TypeOK says beyond Typed and Phase.
Scene ==
  /\ shared \subseteq Items /\ held \subseteq Items /\ mirror \subseteq Items
  /\ released \subseteq Items
  /\ todo \subseteq Items /\ completed \subseteq Items /\ plan \subseteq Items
Flags == ended \in BOOLEAN /\ whole \in BOOLEAN
Counters ==
  /\ edits \in 0 .. MaxEdits /\ backups \in 0 .. MaxBackups /\ cleanups \in 0 .. MaxCleanups
  /\ \A i \in Items : ver[i] <= edits
  /\ dpc \in Cleaning \cup Ended \cup {"hung"}

\* Every variable has its type; in particular a format is one the item in work has, and each
\* line of the manifest holds records.
THEOREM TypeCorrect == Spec => []TypeOK
<1> USE DEF Scene, Flags, Counters
<1>1. Init => Scene /\ Flags /\ Counters
  <2> SUFFICES ASSUME Init PROVE Scene /\ Flags /\ Counters
    OBVIOUS
  <2>1. Scene
    BY StartsAssumption DEF Init
  <2>2. Flags
    BY DEF Init
  <2>3. Counters
    BY BoundsAssumption DEF Init, Ended
  <2> QED
    BY <2>1, <2>2, <2>3
<1>2. Inv /\ Scene /\ Flags /\ Counters /\ [Next]_vars => (Scene /\ Flags /\ Counters)'
  <2> SUFFICES ASSUME Inv, Scene, Flags, Counters, [Next]_vars
               PROVE  (Scene /\ Flags /\ Counters)'
    OBVIOUS
  <2>0. Completed \subseteq Items /\ current \subseteq Items
    BY CompletedAreItems DEF Inv, Typed
  <2>1. CASE UNCHANGED vars
    BY <2>1 DEF vars
  <2>2. CASE \E i \in Items : EditDrive(i)
    <3>1. edits' \in 0 .. MaxEdits /\ edits' = edits + 1
      BY <2>2, BoundsAssumption DEF EditDrive
    <3>2. UNCHANGED <<mirror, files, backup, declutter>>
      BY <2>2 DEF EditDrive
    <3>3. shared' \subseteq Items /\ held' \subseteq Items
      BY <2>2 DEF EditDrive, Share, AddToMyDrive, Revise
    <3>4. UNCHANGED ver \/ \E i \in Items : ver' = [ver EXCEPT ![i] = @ + 1]
      BY <2>2 DEF EditDrive, Share, AddToMyDrive, Revise
    <3>5. \A i \in Items : ver'[i] <= edits'
      <4>1. ver \in [Items -> Nat]
        BY DEF Inv, Typed
      <4> QED
        BY <3>1, <3>4, <4>1
    <3> QED
      BY <3>1, <3>2, <3>3, <3>5 DEF files, backup, work, declutter
  <2>3. CASE SyncElsewhere
    BY <2>3 DEF SyncElsewhere, files, backup, work, declutter
  <2>4. CASE BackupStart
    <3>1. /\ backups' \in 0 .. MaxBackups /\ completed' = Completed /\ whole' = ended
          /\ UNCHANGED <<drive, files, declutter>>
      BY <2>4, BoundsAssumption DEF BackupStart
    <3>2. todo' \subseteq Items
      BY <2>4 DEF BackupStart, Limited
    <3> QED
      BY <3>1, <3>2, <2>0 DEF drive, files, declutter
  <2>5. CASE BackupStep \/ FetchHangs \/ BackupStops
    <3>1. UNCHANGED <<drive, declutter>> /\ UNCHANGED <<backups, whole>>
      BY <2>5 DEF BackupStep, BackupItem, Fetch, OpenPart, WritePart, Rename, CopyStart,
                  CopyReused, AppendRecord, AppendNewline, BackupDone, BackupStops, FetchHangs,
                  Stopped, work
    <3>2. todo' \subseteq todo
      BY <2>5 DEF BackupStep, BackupItem, Fetch, OpenPart, WritePart, Rename, CopyStart,
                  CopyReused, AppendRecord, AppendNewline, BackupDone, BackupStops, FetchHangs,
                  Stopped, work
    <3>3. completed' \subseteq completed \cup current
      BY <2>5 DEF BackupStep, BackupItem, Fetch, OpenPart, WritePart, Rename, CopyStart,
                  CopyReused, AppendRecord, AppendNewline, BackupDone, BackupStops, FetchHangs,
                  Stopped, work
    <3>4. ended' = ended \/ ended' = TRUE \/ ended' = FALSE
      BY <2>5 DEF BackupStep, BackupItem, Fetch, OpenPart, WritePart, Rename, CopyStart,
                  CopyReused, AppendRecord, AppendNewline, BackupDone, BackupStops, FetchHangs,
                  Write, EndLine, files
    <3> QED
      BY <3>1, <3>2, <3>3, <3>4, <2>0 DEF drive, declutter
  <2>6. CASE DeclutterPlan
    <3>1. /\ cleanups' \in 0 .. MaxCleanups /\ plan' \subseteq mirror
          /\ UNCHANGED <<drive, files, backup, released>>
      BY <2>6, BoundsAssumption DEF DeclutterPlan, Actionable
    <3>2. dpc' \in Cleaning \cup Ended
      BY <2>6 DEF DeclutterPlan, Cleaning, Ended
    <3> QED
      BY <3>1, <3>2 DEF drive, files, backup, work
  <2>7. CASE DeclutterStep \/ DeclutterHangs \/ DeclutterStops
    <3>1. UNCHANGED <<files, backup>> /\ UNCHANGED <<shared, ver, edits, cleanups>>
      BY <2>7 DEF DeclutterStep, Release, RemoveParent, ApplyDone, FinalSync, DeclutterHangs,
                  DeclutterStops, drive
    <3>2. /\ plan' \subseteq plan /\ held' \subseteq held /\ mirror' \in {mirror, shared}
          /\ released' \subseteq Items
      BY <2>7 DEF DeclutterStep, Release, RemoveParent, ApplyDone, FinalSync, DeclutterHangs,
                  DeclutterStops, drive
    <3>3. dpc' \in Cleaning \cup Ended \cup {"hung"}
      BY <2>7 DEF DeclutterStep, Release, RemoveParent, ApplyDone, FinalSync, DeclutterHangs,
                  DeclutterStops, Cleaning, Ended
    <3> QED
      BY <3>1, <3>2, <3>3 DEF files, backup, work
  <2> QED
    BY <2>1, <2>2, <2>3, <2>4, <2>5, <2>6, <2>7 DEF Next
<1>3. Inv /\ Scene /\ Flags /\ Counters => TypeOK
  <2> SUFFICES ASSUME Inv, Scene, Flags, Counters PROVE TypeOK
    OBVIOUS
  <2>1. \A l \in Range(manifest) : Range(l) \subseteq Records
    <3>1. SUFFICES ASSUME NEW l \in Range(manifest), NEW r \in Range(l) PROVE r \in Records
      OBVIOUS
    <3>2. PICK k \in DOMAIN manifest : l = manifest[k]
      BY DEF Range
    <3>3. l \in Seq(Records)
      BY <3>2 DEF Inv, Typed
    <3>4. PICK j \in DOMAIN l : r = l[j]
      BY DEF Range
    <3> QED
      BY <3>3, <3>4
  <2>2. bpc \in {"fetch", "open", "write", "rename"} => \A i \in current : format \in Formats(i)
    BY DEF Inv, Phase, Writing
  <2>3. ver \in [Items -> 0 .. MaxEdits]
    <3>1. \A i \in Items : ver[i] \in Nat /\ ver[i] <= edits /\ ver[i] <= MaxEdits
      BY BoundsAssumption DEF Inv, Typed
    <3> QED
      BY <3>1 DEF Inv, Typed
  <2> QED
    BY <2>1, <2>2, <2>3 DEF TypeOK, Inv, Typed
<1> QED
  BY <1>1, <1>2, <1>3, Invariant, PTL DEF Spec
=============================================================================
