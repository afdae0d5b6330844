--------------------------- MODULE SyncEngineProofs ---------------------------
(***************************************************************************)
(* Theorems of SyncEngine, for every set of files, accounts and processes  *)
(* and every bound.                                                        *)
(***************************************************************************)
EXTENDS SyncEngine, TLAPS

LEMMA MeIsAccount == Me \in Accounts
BY AccountsAssumption DEF Me

-----------------------------------------------------------------------------
(* Types.                                                                  *)

\* Every variable keeps its type, in every interleaving of any number of
\* processes: what the other proofs read the tables and the locals by.
THEOREM TypeCorrect == Spec => []TypeOK
<1> USE MeIsAccount DEF TypeOK, NoToken, Absent, Kinds, Entries, Modes, Statuses, Phases, InRun, Empty
<1>1. Init => TypeOK
  BY DEF Init
<1>2. TypeOK /\ [Next]_vars => TypeOK'
  <2>0. ASSUME TypeOK, NEW p \in Procs, NEW s \in Statuses, run' = [run EXCEPT ![p].status = s]
        PROVE  run' \in [Procs -> [who : Accounts, gen : Nat, status : Statuses]]
    <3>1. run[p] \in [who : Accounts, gen : Nat, status : Statuses]
      BY <2>0
    <3>2. [run[p] EXCEPT !.status = s] \in [who : Accounts, gen : Nat, status : Statuses]
      BY <3>1
    <3> QED
      BY <2>0, <3>2
  <2> SUFFICES ASSUME TypeOK, [Next]_vars PROVE TypeOK'
    OBVIOUS
  <2>1. ASSUME NEW a \in Accounts, NEW f \in Files, NEW k \in Kinds, RemoteChange(a, f, k)
        PROVE  TypeOK'
    <3>1. Entry(a, f, k) \in Entries
      BY DEF Entry
    <3> QED
      BY <2>1, <3>1 DEF RemoteChange, tables, local
  <2>2. CASE Forget
    BY <2>2 DEF Forget, tables, local
  <2>3. ASSUME NEW p \in Procs, NEW a \in Accounts, NEW b \in BOOLEAN, SyncInventory(p, a, b)
        PROVE  TypeOK'
    BY <2>3 DEF SyncInventory, Goto, drive, tables
  <2>4. ASSUME NEW p \in Procs, BeginSyncRun(p)
        PROVE  TypeOK'
    <3>1. \A q \in Procs : run'[q] \in [who : Accounts, gen : Nat, status : Statuses]
      <4> TAKE q \in Procs
      <4> DEFINE old == run[q]
      <4>1. old \in [who : Accounts, gen : Nat, status : Statuses] /\ gen[who[p]] + 1 \in Nat
        OBVIOUS
      <4>2. [old EXCEPT !.status = "failed"] \in [who : Accounts, gen : Nat, status : Statuses]
        BY <4>1
      <4> QED
        BY <2>4, <4>1, <4>2 DEF BeginSyncRun, BeginNumberedBy
    <3>2. run' \in [Procs -> [who : Accounts, gen : Nat, status : Statuses]]
      BY <2>4, <3>1 DEF BeginSyncRun, BeginNumberedBy
    <3> QED
      BY <2>4, <3>2 DEF BeginSyncRun, BeginNumberedBy, Goto, drive, tables, local
  <2>5. ASSUME NEW p \in Procs, Checkpoint(p)
        PROVE  TypeOK'
    BY <2>5 DEF Checkpoint, Goto, drive, tables
  <2>6. ASSUME NEW p \in Procs, ListPage(p)
        PROVE  TypeOK'
    <3>1. \A f \in Files : Visible(who[p], f) \in Nat
      BY DEF Visible
    <3>2. work' \in [Procs -> [Files -> Nat]]
      BY <2>6, <3>1 DEF ListPage
    <3> QED
      BY <2>6, <3>2 DEF ListPage, Goto, drive, tables
  <2>7. ASSUME NEW p \in Procs, LoadSnapshot(p)
        PROVE  TypeOK'
    BY <2>7 DEF LoadSnapshot, Goto, drive, tables
  <2>8. ASSUME NEW p \in Procs, ChangePage(p)
        PROVE  TypeOK'
    <3>1. PICK end \in tok[p] .. clock :
            /\ work' = [work EXCEPT ![p] =
                 ApplyChangePage(who[p], @, Changes(who[p], tok[p], end))]
            /\ tok' = [tok EXCEPT ![p] = end]
            /\ Goto(p, IF end = clock THEN "commit" ELSE "changes")
      BY <2>8 DEF ChangePage
    <3>2. end \in Nat
      <4>1. tok[p] >= horizon
        BY <2>8 DEF ChangePage
      <4>2. tok[p] \in Int /\ horizon \in Nat /\ clock \in Nat
        OBVIOUS
      <4> QED
        BY <3>1, <4>1, <4>2
    <3>3. \A page \in SUBSET Files :
            ApplyChangePage(who[p], work[p], page) \in [Files -> Nat]
      BY DEF ApplyChangePage
    <3>4. work' \in [Procs -> [Files -> Nat]]
      BY <3>1, <3>3 DEF Changes
    <3> QED
      BY <2>8, <3>1, <3>2, <3>4 DEF ChangePage, Goto, drive, tables
  <2>9. ASSUME NEW p \in Procs, TokenExpired(p)
        PROVE  TypeOK'
    BY <2>9 DEF TokenExpired, Goto, drive, tables, local
  <2>10. ASSUME NEW p \in Procs, ReplaceSnapshot(p)
         PROVE  TypeOK'
    BY <2>10 DEF ReplaceSnapshot, Exit, Goto, drive
  <2>11. ASSUME NEW p \in Procs, Fail(p)
         PROVE  TypeOK'
    BY <2>11 DEF Fail, Goto, drive, tables, local
  <2>12. ASSUME NEW p \in Procs, ReturnError(p)
         PROVE  TypeOK'
    <3>1. run' \in [Procs -> [who : Accounts, gen : Nat, status : Statuses]]
      BY <2>0, <2>12 DEF ReturnError, MarkSyncFailed
    <3> QED
      BY <2>12, <3>1 DEF ReturnError, Exit, Goto, drive, tables
  <2>13. ASSUME NEW p \in Procs, FallBackToFull(p)
         PROVE  TypeOK'
    <3>1. run' \in [Procs -> [who : Accounts, gen : Nat, status : Statuses]]
      BY <2>0, <2>13 DEF FallBackToFull, MarkSyncFailed
    <3> QED
      BY <2>13, <3>1 DEF FallBackToFull, Goto, drive, tables
  <2>14. ASSUME NEW p \in Procs, Crash(p)
         PROVE  TypeOK'
    BY <2>14 DEF Crash, Exit, Goto, drive, tables
  <2>15. CASE UNCHANGED vars
    BY <2>15 DEF vars
  <2> HIDE DEF TypeOK
  <2> QED
    BY <2>1, <2>2, <2>3, <2>4, <2>5, <2>6, <2>7, <2>8, <2>9, <2>10, <2>11,
       <2>12, <2>13, <2>14, <2>15 DEF Next, Remote, Step
<1> QED
  BY <1>1, <1>2, PTL DEF Spec

-----------------------------------------------------------------------------
(* Full runs, however many processes there are.                            *)

\* A full run never reads the database once it has begun, so nothing another
\* process does can disturb it: from the checkpoint on, a file already listed and
\* wrong has changed after the checkpoint.
ProcInv(p) ==
  /\ pc[p] \in {"idle", "begin", "checkpoint"} => work[p] = Empty
  /\ pc[p] \in {"checkpoint", "list"} => mode[p] = "full"
  /\ pc[p] = "load" => mode[p] = "delta"
  /\ pc[p] \in {"begin", "load"} /\ mode[p] = "delta" => tok[p] \in 0 .. clock
  /\ pc[p] \in {"list", "changes", "commit"} => tok[p] \in 0 .. clock
  /\ start[p] <= clock
  /\ pc[p] = "list" =>
       /\ start[p] = tok[p]
       /\ \A f \in Files :
            IF f \in todo[p] THEN work[p][f] = Absent
            ELSE work[p][f] # Visible(who[p], f) => ver[who[p]][f] > tok[p]
  /\ mode[p] = "full" /\ pc[p] \in {"changes", "commit"} =>
       /\ start[p] <= tok[p]
       /\ Covered(who[p], work[p], tok[p], start[p])

\* Drive: the newest position is the clock, and the log tells of what is in My Drive.
DriveInv ==
  /\ \A a \in Accounts, f \in Files :
       /\ ver[a][f] <= clock
       /\ kind[a][f] = "mine" => log[a][f] = "file"
       /\ log[a][f] = "file" => kind[a][f] \in {"mine", "trashed"}
  /\ \A a \in Accounts : token[a] <= clock
  /\ listed <= clock

FullRunInv == DriveInv /\ \A p \in Procs : ProcInv(p)

LEMMA FullRunInvInit == Init => FullRunInv
BY MeIsAccount DEF Init, FullRunInv, DriveInv, ProcInv, Absent, NoToken, Empty

\* A change on Drive is the newest of all, and touches one file of one account.
LEMMA RemoteChangeFrame ==
  ASSUME TypeOK, DriveInv, NEW a \in Accounts, NEW g \in Files, NEW k \in Kinds,
         RemoteChange(a, g, k)
  PROVE  /\ clock' = clock + 1 /\ ver'[a][g] = clock + 1
         /\ \A b \in Accounts, f \in Files :
              (b = a /\ f = g) \/ ( /\ Visible(b, f)' = Visible(b, f)
                                    /\ Told(b, f)' = Told(b, f)
                                    /\ ver'[b][f] = ver[b][f] )
         /\ DriveInv'
<1> USE DEF TypeOK
<1>1. /\ clock' = clock + 1
      /\ \A b \in Accounts, f \in Files :
           IF b = a /\ f = g
           THEN ver'[b][f] = clock + 1 /\ kind'[b][f] = k /\ log'[b][f] = Entry(a, g, k)
           ELSE ver'[b][f] = ver[b][f] /\ kind'[b][f] = kind[b][f] /\ log'[b][f] = log[b][f]
  BY DEF RemoteChange
<1>2. UNCHANGED <<token, listed>>
  BY DEF RemoteChange, tables
<1>3. (k = "mine" => Entry(a, g, k) = "file") /\ (Entry(a, g, k) = "file" => k \in {"mine", "trashed"})
  BY DEF Entry, Kinds
<1>4. DriveInv'
  <2>1. ASSUME NEW b \in Accounts, NEW f \in Files
        PROVE  /\ ver'[b][f] <= clock'
               /\ kind'[b][f] = "mine" => log'[b][f] = "file"
               /\ log'[b][f] = "file" => kind'[b][f] \in {"mine", "trashed"}
    <3>1. CASE b = a /\ f = g
      BY <1>1, <1>3, <3>1
    <3>2. CASE ~(b = a /\ f = g)
      BY <1>1, <3>2 DEF DriveInv
    <3> QED
      BY <3>1, <3>2
  <2>2. \A b \in Accounts : token'[b] <= clock'
    <3> TAKE b \in Accounts
    <3>1. token[b] \in Int /\ token[b] <= clock
      BY DEF DriveInv, NoToken
    <3> QED
      BY <1>1, <1>2, <3>1
  <2>3. listed' <= clock'
    BY <1>1, <1>2 DEF DriveInv
  <2> QED
    BY <2>1, <2>2, <2>3 DEF DriveInv
<1> QED
  BY <1>1, <1>4 DEF Visible, Told

\* So a copy that was covered stays covered.
LEMMA RemoteChangeCovers ==
  ASSUME TypeOK, DriveInv, NEW a \in Accounts, NEW g \in Files, NEW k \in Kinds,
         RemoteChange(a, g, k), NEW b \in Accounts,
         NEW copy, NEW t \in Int, NEW from \in Int, Covered(b, copy, t, from)
  PROVE  /\ t <= clock' /\ from <= clock'
         /\ \A f \in Files :
              copy[f] # Visible(b, f)' => ver'[b][f] > (IF Told(b, f)' THEN t ELSE from)
<1>1. /\ clock' = clock + 1 /\ ver'[a][g] = clock + 1
      /\ \A f \in Files :
           (b = a /\ f = g) \/ ( /\ Visible(b, f)' = Visible(b, f)
                                 /\ Told(b, f)' = Told(b, f)
                                 /\ ver'[b][f] = ver[b][f] )
  BY RemoteChangeFrame
<1>2. t <= clock /\ from <= clock /\ clock \in Nat
  BY DEF Covered, TypeOK
<1>3. ASSUME NEW f \in Files, copy[f] # Visible(b, f)'
      PROVE  ver'[b][f] > (IF Told(b, f)' THEN t ELSE from)
  <2>1. CASE b = a /\ f = g
    BY <1>1, <1>2, <2>1
  <2>2. CASE ~(b = a /\ f = g)
    BY <1>1, <1>3, <2>2 DEF Covered
  <2> QED
    BY <2>1, <2>2
<1> QED
  BY <1>1, <1>2, <1>3

\* Drive moves on: what was covered stays covered, for the file that changed now
\* has the newest position of all.
LEMMA FullRunInvRemote ==
  ASSUME TypeOK, FullRunInv, Remote PROVE FullRunInv'
<1> USE DEF TypeOK, NoToken, Absent
<1>1. ASSUME NEW a \in Accounts, NEW g \in Files, NEW k \in Kinds, RemoteChange(a, g, k)
      PROVE  FullRunInv'
  <2>1. /\ clock' = clock + 1 /\ ver'[a][g] = clock + 1
        /\ \A b \in Accounts, f \in Files :
             (b = a /\ f = g) \/ ( /\ Visible(b, f)' = Visible(b, f)
                                   /\ ver'[b][f] = ver[b][f] )
        /\ DriveInv'
    BY <1>1, RemoteChangeFrame DEF FullRunInv
  <2>2. ASSUME NEW p \in Procs PROVE ProcInv(p)'
    <3>1. ProcInv(p)
      BY DEF FullRunInv
    <3>2. UNCHANGED <<pc, who, mode, work, start, tok, todo>>
      BY <1>1 DEF RemoteChange, local
    <3>3. pc[p] = "list" =>
            \A f \in Files :
              IF f \in todo[p] THEN work[p][f] = Absent
              ELSE work[p][f] # Visible(who[p], f)' => ver'[who[p]][f] > tok[p]
      <4> SUFFICES ASSUME pc[p] = "list", NEW f \in Files
                   PROVE  IF f \in todo[p] THEN work[p][f] = Absent
                          ELSE work[p][f] # Visible(who[p], f)' => ver'[who[p]][f] > tok[p]
        OBVIOUS
      <4>1. /\ tok[p] \in 0 .. clock
            /\ IF f \in todo[p] THEN work[p][f] = Absent
               ELSE work[p][f] # Visible(who[p], f) => ver[who[p]][f] > tok[p]
        BY <3>1 DEF ProcInv
      <4>2. who[p] \in Accounts
        OBVIOUS
      <4>3. CASE who[p] = a /\ f = g
        BY <2>1, <4>1, <4>3
      <4>4. CASE ~(who[p] = a /\ f = g)
        <5>1. Visible(who[p], f)' = Visible(who[p], f) /\ ver'[who[p]][f] = ver[who[p]][f]
          <6>1. UNCHANGED who
            BY <3>2
          <6>2. \A b \in Accounts : ~(b = a /\ f = g) =>
                  Visible(b, f)' = Visible(b, f) /\ ver'[b][f] = ver[b][f]
            BY <2>1
          <6> QED
            BY <4>2, <4>4, <6>1, <6>2 DEF Visible
        <5> QED
          BY <4>1, <5>1
      <4> QED
        BY <4>3, <4>4
    <3>4. mode[p] = "full" /\ pc[p] \in {"changes", "commit"} =>
            Covered(who[p], work[p], tok[p], start[p])'
      <4> SUFFICES ASSUME mode[p] = "full", pc[p] \in {"changes", "commit"}
                   PROVE  Covered(who[p], work[p], tok[p], start[p])'
        OBVIOUS
      <4>1. Covered(who[p], work[p], tok[p], start[p])
        BY <3>1 DEF ProcInv
      <4>2. who[p] \in Accounts /\ tok[p] \in Int /\ start[p] \in Int
        OBVIOUS
      <4>3. TypeOK /\ DriveInv
        BY DEF FullRunInv
      <4> HIDE DEF TypeOK
      <4>4. PICK b \in Accounts, copy \in {work[p]}, t \in Int, from \in Int :
              b = who[p] /\ t = tok[p] /\ from = start[p]
        BY <4>2
      <4>5. Covered(b, copy, t, from)
        BY <4>1, <4>4
      <4>6. /\ t <= clock' /\ from <= clock'
            /\ \A f \in Files : copy[f] # Visible(b, f)' =>
                 ver'[b][f] > (IF Told(b, f)' THEN t ELSE from)
        BY <1>1, <4>3, <4>5, RemoteChangeCovers
      <4>7. b = who'[p] /\ copy = work'[p] /\ t = tok'[p] /\ from = start'[p]
        BY <3>2, <4>4
      <4> QED
        BY <4>6, <4>7 DEF Covered, Visible, Told
    <3> QED
      BY <2>1, <3>1, <3>2, <3>3, <3>4 DEF ProcInv
  <2> QED
    BY <2>1, <2>2 DEF FullRunInv
<1>2. CASE Forget
  BY <1>2 DEF Forget, FullRunInv, DriveInv, ProcInv, Covered, Visible, Told, tables, local
<1> QED
  BY <1>1, <1>2 DEF Remote

\* What a process does leaves Drive and the memory of the others alone, so its own
\* part of the invariant is all there is to show.
OwnStep(p) ==
  \/ \E a \in Accounts, forceFull \in BOOLEAN : SyncInventory(p, a, forceFull)
  \/ Step(p)
  \/ Fail(p)
  \/ Crash(p)

Frame(p) ==
  /\ UNCHANGED drive
  /\ \A q \in Procs \ {p} :
       /\ pc'[q] = pc[q]
       /\ who'[q] = who[q]
       /\ mode'[q] = mode[q]
       /\ work'[q] = work[q]
       /\ start'[q] = start[q]
       /\ tok'[q] = tok[q]
       /\ todo'[q] = todo[q]

LEMMA OwnStepFrame ==
  ASSUME TypeOK, NEW p \in Procs, OwnStep(p) PROVE Frame(p)
<1> USE DEF TypeOK, Frame, Goto, Exit, local
<1>1. ASSUME NEW a \in Accounts, NEW b \in BOOLEAN, SyncInventory(p, a, b) PROVE Frame(p)
  BY <1>1 DEF SyncInventory
<1>2. CASE BeginSyncRun(p)
  BY <1>2 DEF BeginSyncRun, BeginNumberedBy
<1>3. CASE Checkpoint(p)
  BY <1>3 DEF Checkpoint
<1>4. CASE ListPage(p)
  BY <1>4 DEF ListPage
<1>5. CASE LoadSnapshot(p)
  BY <1>5 DEF LoadSnapshot
<1>6. CASE ChangePage(p)
  BY <1>6 DEF ChangePage
<1>7. CASE TokenExpired(p)
  BY <1>7 DEF TokenExpired
<1>8. CASE ReplaceSnapshot(p)
  BY <1>8 DEF ReplaceSnapshot
<1>9. CASE Fail(p)
  BY <1>9 DEF Fail
<1>10. CASE ReturnError(p)
  BY <1>10 DEF ReturnError
<1>11. CASE FallBackToFull(p)
  BY <1>11 DEF FallBackToFull
<1>12. CASE Crash(p)
  BY <1>12 DEF Crash
<1> QED
  BY <1>1, <1>2, <1>3, <1>4, <1>5, <1>6, <1>7, <1>8, <1>9, <1>10, <1>11, <1>12
     DEF OwnStep, Step

LEMMA FrameKeepsOthers ==
  ASSUME NEW p \in Procs, Frame(p), NEW q \in Procs \ {p}, ProcInv(q)
  PROVE  ProcInv(q)'
BY DEF Frame, ProcInv, Covered, Visible, Told, drive

\* A page of changes: what was wrong before the old token's end and is told is put
\* right, so the copy fits the token that ends the page.
LEMMA ChangePageCovers ==
  ASSUME TypeOK, DriveInv, NEW a \in Accounts, NEW copy \in [Files -> Nat],
         NEW t \in Nat, NEW from \in Nat, from <= t,
         NEW end \in t .. clock, Covered(a, copy, t, from)
  PROVE  Covered(a, ApplyChangePage(a, copy, Changes(a, t, end)), end, from)
<1> DEFINE page == Changes(a, t, end)
<1>1. ASSUME NEW f \in Files,
             ApplyChangePage(a, copy, page)[f] # Visible(a, f)
      PROVE  ver[a][f] > (IF Told(a, f) THEN end ELSE from)
  <2>1. ver[a][f] \in Nat /\ kind[a][f] \in Kinds /\ log[a][f] \in Entries /\ end \in Nat
    BY DEF TypeOK
  <2>2. CASE f \in page
    <3>1. ver[a][f] > from /\ log[a][f] # "none"
      BY <2>1, <2>2 DEF Changes
    <3>2. log[a][f] = "file" => kind[a][f] \in {"mine", "trashed"}
      BY DEF DriveInv
    <3>3. kind[a][f] = "mine" => log[a][f] = "file"
      BY DEF DriveInv
    <3>4. ~Told(a, f)
      BY <1>1, <2>1, <2>2, <3>1, <3>2, <3>3
         DEF ApplyChangePage, Visible, Told, Absent, Kinds, Entries
    <3> QED
      BY <3>1, <3>4
  <2>3. CASE f \notin page
    <3>1. copy[f] # Visible(a, f)
      BY <1>1, <2>3 DEF ApplyChangePage
    <3>2. ver[a][f] > (IF Told(a, f) THEN t ELSE from)
      BY <3>1 DEF Covered
    <3> QED
      BY <2>1, <2>3, <3>2 DEF Changes, Told
  <2> QED
    BY <2>2, <2>3
<1> QED
  BY <1>1 DEF Covered, TypeOK

\* A page of the listing, over the files listed so far.
LEMMA ListPageLists ==
  ASSUME TypeOK, DriveInv, NEW p \in Procs, ProcInv(p), ListPage(p)
  PROVE  ProcInv(p)'
<1> USE DEF TypeOK
<1>1. PICK page \in SUBSET Files, missed \in SUBSET Files :
        /\ missed \subseteq {f \in page : ver[who[p]][f] > tok[p]}
        /\ work' = [work EXCEPT ![p] =
                      [f \in Files |->
                         IF f \in page \ missed /\ Visible(who[p], f) # Absent
                         THEN Visible(who[p], f) ELSE work[p][f]]]
        /\ todo' = [todo EXCEPT ![p] = @ \ page]
        /\ Goto(p, IF todo[p] \subseteq page THEN "changes" ELSE "list")
  <2>1. PICK page \in SUBSET Files :
          /\ \E missed \in SUBSET {f \in page : ver[who[p]][f] > tok[p]} :
               work' = [work EXCEPT ![p] =
                          [f \in Files |->
                             IF f \in page \ missed /\ Visible(who[p], f) # Absent
                             THEN Visible(who[p], f) ELSE work[p][f]]]
          /\ todo' = [todo EXCEPT ![p] = @ \ page]
          /\ Goto(p, IF todo[p] \subseteq page THEN "changes" ELSE "list")
    BY DEF ListPage
  <2>2. PICK missed \in SUBSET {f \in page : ver[who[p]][f] > tok[p]} :
          work' = [work EXCEPT ![p] =
                     [f \in Files |->
                        IF f \in page \ missed /\ Visible(who[p], f) # Absent
                        THEN Visible(who[p], f) ELSE work[p][f]]]
    BY <2>1
  <2>3. missed \in SUBSET Files
    BY <2>1, <2>2
  <2> QED
    BY <2>1, <2>2, <2>3
<1>2. /\ pc[p] = "list"
      /\ UNCHANGED <<clock, ver, kind, log, who, mode, start, tok>>
  BY DEF ListPage, drive
<1>3. /\ tok[p] \in 0 .. clock
      /\ start[p] = tok[p]
      /\ mode[p] = "full"
      /\ \A f \in Files :
           IF f \in todo[p] THEN work[p][f] = Absent
           ELSE work[p][f] # Visible(who[p], f) => ver[who[p]][f] > tok[p]
  BY <1>2 DEF ProcInv
<1>4. ASSUME NEW f \in Files
      PROVE  IF f \in todo'[p] THEN work'[p][f] = Absent
             ELSE work'[p][f] # Visible(who[p], f) => ver[who[p]][f] > tok[p]
  <2>1. todo'[p] = todo[p] \ page
    BY <1>1
  <2>2. work'[p][f] = IF f \in page \ missed /\ Visible(who[p], f) # Absent
                      THEN Visible(who[p], f) ELSE work[p][f]
    BY <1>1
  <2>3. CASE f \in missed
    <3>1. f \in page /\ ver[who[p]][f] > tok[p]
      BY <1>1, <2>3
    <3> QED
      BY <2>1, <3>1
  <2>4. CASE f \in page \ missed
    <3>1. f \notin todo'[p]
      BY <2>1, <2>4
    <3>2. CASE Visible(who[p], f) # Absent
      BY <2>2, <2>4, <3>1, <3>2
    <3>3. CASE Visible(who[p], f) = Absent
      BY <1>3, <2>2, <3>1, <3>3
    <3> QED
      BY <3>2, <3>3
  <2>5. CASE f \notin page
    BY <1>3, <2>1, <2>2, <2>5
  <2> QED
    BY <2>3, <2>4, <2>5
<1>5. CASE todo[p] \subseteq page
  <2>1. \A f \in Files : work'[p][f] # Visible(who[p], f) => ver[who[p]][f] > tok[p]
    BY <1>1, <1>4, <1>5
  <2>2. pc'[p] = "changes"
    BY <1>1, <1>5 DEF Goto
  <2>3. Covered(who[p], work[p], tok[p], start[p])'
    BY <1>2, <1>3, <2>1 DEF Covered, Visible, Told
  <2> QED
    BY <1>2, <1>3, <2>2, <2>3 DEF ProcInv
<1>6. CASE ~(todo[p] \subseteq page)
  <2>1. pc'[p] = "list"
    BY <1>1, <1>6 DEF Goto
  <2> QED
    BY <1>2, <1>3, <1>4, <2>1 DEF ProcInv, Visible
<1> QED
  BY <1>5, <1>6

LEMMA FullRunInvOwnStep ==
  ASSUME TypeOK, FullRunInv, NEW p \in Procs, OwnStep(p) PROVE FullRunInv'
<1> USE DEF TypeOK, NoToken
<1>1. Frame(p)
  BY OwnStepFrame
<1>2. /\ ProcInv(p)
      /\ DriveInv
  BY DEF FullRunInv
<1>3. /\ UNCHANGED <<clock, ver, kind, log>>
      /\ \A a \in Accounts, f \in Files :
           Visible(a, f)' = Visible(a, f) /\ Told(a, f)' = Told(a, f)
  BY <1>1 DEF Frame, drive, Visible, Told
<1>4. ProcInv(p)' /\ (\A a \in Accounts : token'[a] <= clock) /\ listed' <= clock
  <2>0. (\A a \in Accounts : token[a] <= clock) /\ listed <= clock
    BY <1>2 DEF DriveInv
  <2> USE DEF ProcInv, Goto
  <2>a. CASE UNCHANGED tables /\ ProcInv(p)'
    BY <2>0, <2>a DEF tables
  <2>1. ASSUME NEW a \in Accounts, NEW b \in BOOLEAN, SyncInventory(p, a, b)
        PROVE  ProcInv(p)'
    BY <1>2, <1>3, <2>0, <2>1 DEF SyncInventory
  <2>2. ASSUME BeginSyncRun(p) PROVE ProcInv(p)'
    BY <1>2, <1>3, <2>2 DEF BeginSyncRun, BeginNumberedBy, local, Modes
  <2>3. ASSUME Checkpoint(p) PROVE ProcInv(p)'
    BY <1>2, <1>3, <2>3 DEF Checkpoint, Empty
  <2>4. ASSUME ListPage(p) PROVE ProcInv(p)'
    BY <1>2, <2>4, ListPageLists
  <2>5. ASSUME LoadSnapshot(p) PROVE ProcInv(p)'
    BY <1>2, <1>3, <2>0, <2>5 DEF LoadSnapshot
  <2>6. ASSUME ChangePage(p) PROVE ProcInv(p)'
    <3>1. PICK end \in tok[p] .. clock :
            /\ work' = [work EXCEPT ![p] =
                 ApplyChangePage(who[p], @, Changes(who[p], tok[p], end))]
            /\ tok' = [tok EXCEPT ![p] = end]
            /\ Goto(p, IF end = clock THEN "commit" ELSE "changes")
      BY <2>6 DEF ChangePage
    <3>2. pc[p] = "changes" /\ UNCHANGED <<who, mode, start, todo>>
      BY <2>6 DEF ChangePage
    <3>3. tok[p] \in Nat /\ end \in 0 .. clock
      BY <1>2, <3>1, <3>2
    <3>4. mode[p] = "full" => start[p] <= end /\ Covered(who[p], work'[p], end, start[p])
      <4> SUFFICES ASSUME mode[p] = "full"
                   PROVE  start[p] <= end /\ Covered(who[p], work'[p], end, start[p])
        OBVIOUS
      <4>1. Covered(who[p], work[p], tok[p], start[p]) /\ start[p] <= tok[p]
        BY <1>2, <3>2
      <4>2. work[p] \in [Files -> Nat] /\ who[p] \in Accounts /\ start[p] \in Nat
        OBVIOUS
      <4>3. work'[p] = ApplyChangePage(who[p], work[p], Changes(who[p], tok[p], end))
        BY <3>1
      <4>4. start[p] <= end
        BY <3>3, <3>1, <4>1, <4>2
      <4> HIDE DEF TypeOK, ProcInv
      <4> QED
        BY <1>2, <3>1, <3>3, <4>1, <4>2, <4>3, <4>4, ChangePageCovers
    <3>5. mode[p] = "full" => Covered(who[p], work[p], tok[p], start[p])'
      <4>1. tok'[p] = end
        BY <3>1
      <4> QED
        BY <1>3, <3>2, <3>4, <4>1 DEF Covered
    <3>6. pc'[p] \in {"commit", "changes"} /\ tok'[p] = end
      BY <3>1
    <3> QED
      BY <1>2, <1>3, <3>2, <3>3, <3>4, <3>5, <3>6
  <2>7. ASSUME TokenExpired(p) PROVE ProcInv(p)'
    BY <1>2, <1>3, <2>7 DEF TokenExpired, local
  <2>8. CASE ReplaceSnapshot(p)
    <3>1. ProcInv(p)'
      BY <1>2, <1>3, <2>8 DEF ReplaceSnapshot, Exit
    <3>2. (\A a \in Accounts : token'[a] <= clock) /\ listed' <= clock
      BY <1>2, <2>0, <2>8 DEF ReplaceSnapshot
    <3> QED
      BY <3>1, <3>2
  <2>9. ASSUME Fail(p) PROVE ProcInv(p)'
    BY <1>2, <1>3, <2>9 DEF Fail, local
  <2>10. ASSUME ReturnError(p) PROVE ProcInv(p)'
    BY <1>2, <1>3, <2>10 DEF ReturnError, Exit
  <2>11. ASSUME FallBackToFull(p) PROVE ProcInv(p)'
    BY <1>2, <1>3, <2>11 DEF FallBackToFull
  <2>12. ASSUME Crash(p) PROVE ProcInv(p)'
    BY <1>2, <1>3, <2>12 DEF Crash, Exit
  <2> HIDE DEF ProcInv, Goto, TypeOK
  <2> QED
    BY <2>a, <2>1, <2>2, <2>3, <2>4, <2>5, <2>6, <2>7, <2>8, <2>9, <2>10, <2>11, <2>12
       DEF OwnStep, Step, SyncInventory, BeginSyncRun, BeginNumberedBy, Checkpoint, ListPage,
           LoadSnapshot, ChangePage, TokenExpired, Fail, ReturnError, FallBackToFull, Crash
<1>5. \A q \in Procs \ {p} : ProcInv(q)'
  BY <1>1, FrameKeepsOthers DEF FullRunInv
<1>6. DriveInv'
  BY <1>2, <1>3, <1>4 DEF DriveInv
<1> QED
  BY <1>4, <1>5, <1>6 DEF FullRunInv

LEMMA FullRunInvAlways == Spec => []FullRunInv
<1>1. TypeOK /\ FullRunInv /\ [Next]_vars => FullRunInv'
  <2> SUFFICES ASSUME TypeOK, FullRunInv, [Next]_vars PROVE FullRunInv'
    OBVIOUS
  <2>1. CASE Remote
    BY <2>1, FullRunInvRemote
  <2>2. ASSUME NEW p \in Procs, OwnStep(p) PROVE FullRunInv'
    BY <2>2, FullRunInvOwnStep
  <2>3. CASE UNCHANGED vars
    BY <2>3 DEF vars, FullRunInv, DriveInv, ProcInv, Covered, Visible, Told
  <2> QED
    BY <2>1, <2>2, <2>3 DEF Next, OwnStep
<1> QED
  BY <1>1, FullRunInvInit, TypeCorrect, PTL DEF Spec

\* However many processes share the database and wherever they stop, what a full
\* run is about to commit fits its token: FullRunCovered of SyncEngine.
THEOREM FullRunsAreCovered == Spec => []FullRunCovered
<1>1. FullRunInv => FullRunCovered
  BY DEF FullRunInv, ProcInv, FullRunCovered
<1> QED
  BY <1>1, FullRunInvAlways, PTL

\* However many processes share the database, sync_runs shows at most one run in
\* progress: OneRunInProgress of SyncEngine.
THEOREM OneRunAtATime == Spec => []OneRunInProgress
<1>1. Init => OneRunInProgress
  BY DEF Init, OneRunInProgress
<1>2. TypeOK /\ OneRunInProgress /\ [Next]_vars => OneRunInProgress'
  <2> SUFFICES ASSUME TypeOK, OneRunInProgress, [Next]_vars
               PROVE  OneRunInProgress'
    OBVIOUS
  <2> USE DEF TypeOK
  <2>1. CASE UNCHANGED run
    BY <2>1 DEF OneRunInProgress
  <2>2. ASSUME NEW p \in Procs, BeginSyncRun(p) PROVE OneRunInProgress'
    <3>1. \A q \in Procs \ {p} : run'[q].status # "in_progress"
      <4> TAKE q \in Procs \ {p}
      <4>1. run[q] \in [who : Accounts, gen : Nat, status : Statuses]
        OBVIOUS
      <4> QED
        BY <2>2, <4>1 DEF BeginSyncRun, BeginNumberedBy
    <3> QED
      BY <3>1 DEF OneRunInProgress
  <2>3. ASSUME NEW p \in Procs,
               \E s \in {"failed", "committed"} :
                 run' = [run EXCEPT ![p].status = s]
        PROVE  OneRunInProgress'
    <3>1. run[p] \in [who : Accounts, gen : Nat, status : Statuses]
      OBVIOUS
    <3>2. run'[p].status # "in_progress"
      BY <2>3, <3>1
    <3>3. \A q \in Procs \ {p} : run'[q] = run[q]
      BY <2>3
    <3> QED
      BY <3>2, <3>3 DEF OneRunInProgress
  <2>4. \/ UNCHANGED run
        \/ \E p \in Procs : BeginSyncRun(p)
        \/ \E p \in Procs : \E s \in {"failed", "committed"} :
             run' = [run EXCEPT ![p].status = s]
    BY DEF Next, Remote, RemoteChange, Forget, Step, vars, SyncInventory,
           Checkpoint, ListPage, LoadSnapshot, ChangePage, TokenExpired,
           ReplaceSnapshot, Fail, ReturnError, MarkSyncFailed, FallBackToFull,
           Crash
  <2> QED
    BY <2>1, <2>2, <2>3, <2>4
<1> QED
  BY <1>1, <1>2, TypeCorrect, PTL DEF Spec

-----------------------------------------------------------------------------
(* One process at a time: the journal and the order of commits.            *)

\* A delta run starts from the account's committed token, and nobody moves it
\* meanwhile; the run's generation is the one after the account's committed one
\* until it commits.
JournalProcInv(p) ==
  /\ pc[p] \in {"begin", "load"} /\ mode[p] = "delta" => tok[p] = token[who[p]]
  /\ pc[p] \in {"list", "changes", "commit"} => tok[p] >= token[who[p]]
  /\ pc[p] \in InRun \cup {"expired", "failing"} =>
       run[p].who = who[p] /\ run[p].gen = gen[who[p]] + 1
  /\ run[p].status = "in_progress" => run[p].gen = gen[run[p].who] + 1
  /\ run[p].status = "committed" => run[p].gen = gen[run[p].who]

JournalInv == \A p \in Procs : JournalProcInv(p)

LEMMA JournalInvOwnStep ==
  ASSUME Solo, TypeOK, FullRunInv, JournalInv, NEW p \in Procs, OwnStep(p)
  PROVE  JournalInv'
<1>1. /\ JournalProcInv(p)
      /\ ProcInv(p)
      /\ \A a \in Accounts : token[a] <= clock
  BY DEF FullRunInv, JournalInv, DriveInv
<1>2. /\ run[p] \in [who : Accounts, gen : Nat, status : Statuses]
      /\ who[p] \in Accounts /\ run[p].who \in Accounts
      /\ \A a \in Accounts : token[a] \in Int /\ gen[a] \in Nat
      /\ clock \in Nat /\ tok[p] \in Int
  BY DEF TypeOK, NoToken
<1>3. SUFFICES JournalProcInv(p)'
  BY DEF Solo, JournalInv
<1>4. /\ pc \in [Procs -> Phases] /\ mode \in [Procs -> Modes] /\ who \in [Procs -> Accounts]
      /\ tok \in [Procs -> Int] /\ run \in [Procs -> [who : Accounts, gen : Nat, status : Statuses]]
  BY DEF TypeOK, NoToken
<1> USE DEF JournalProcInv, Goto, InRun
<1>6. ASSUME NEW a \in Accounts, NEW b \in BOOLEAN, SyncInventory(p, a, b) PROVE JournalProcInv(p)'
  <2>1. /\ pc'[p] = "begin"
        /\ mode'[p] = "delta" => tok'[p] = token[a]
        /\ who'[p] = a
        /\ UNCHANGED <<token, gen, run>>
    BY <1>4, <1>6 DEF SyncInventory, tables
  <2> QED
    BY <1>1, <2>1
<1>7. ASSUME BeginSyncRun(p) PROVE JournalProcInv(p)'
  <2>1. /\ run'[p] = [who |-> who[p], gen |-> gen[who[p]] + 1, status |-> "in_progress"]
        /\ pc[p] = "begin" /\ pc'[p] = IF mode[p] = "full" THEN "checkpoint" ELSE "load"
        /\ UNCHANGED <<token, gen, who, mode, tok>>
    BY <1>4, <1>7 DEF BeginSyncRun, BeginNumberedBy, tables, local
  <2> QED
    BY <1>1, <1>4, <2>1 DEF Modes
<1>8. ASSUME Checkpoint(p) PROVE JournalProcInv(p)'
  BY <1>1, <1>2, <1>4, <1>8 DEF Checkpoint, tables
<1>9. ASSUME ListPage(p) PROVE JournalProcInv(p)'
  BY <1>1, <1>4, <1>9 DEF ListPage, tables
<1>10. ASSUME LoadSnapshot(p) PROVE JournalProcInv(p)'
  BY <1>1, <1>2, <1>4, <1>10 DEF LoadSnapshot, ProcInv, tables
<1>11. ASSUME ChangePage(p) PROVE JournalProcInv(p)'
  <2>1. PICK end \in tok[p] .. clock :
          /\ tok' = [tok EXCEPT ![p] = end]
          /\ Goto(p, IF end = clock THEN "commit" ELSE "changes")
    BY <1>11 DEF ChangePage
  <2>2. pc[p] = "changes" /\ UNCHANGED <<who, mode, token, gen, run>>
    BY <1>11 DEF ChangePage, tables
  <2>3. end >= token[who[p]]
    BY <1>1, <1>2, <2>1, <2>2
  <2>4. pc'[p] \in {"commit", "changes"} /\ tok'[p] = end
    BY <1>4, <2>1
  <2> QED
    BY <1>1, <2>2, <2>3, <2>4
<1>12. ASSUME TokenExpired(p) PROVE JournalProcInv(p)'
  BY <1>1, <1>4, <1>12 DEF TokenExpired, tables, local
<1>13. ASSUME Fail(p) PROVE JournalProcInv(p)'
  BY <1>1, <1>4, <1>13 DEF Fail, tables, local
<1>20. ASSUME MarkSyncFailed(p)
       PROVE  run'[p].who = run[p].who /\ run'[p].gen = run[p].gen
              /\ run'[p].status \in {"failed", run[p].status}
  BY <1>2, <1>4, <1>20 DEF MarkSyncFailed
<1>14. ASSUME ReturnError(p) PROVE JournalProcInv(p)'
  <2>1. pc'[p] = "idle" /\ UNCHANGED <<token, gen>>
    BY <1>4, <1>14 DEF ReturnError, Exit, tables
  <2> QED
    BY <1>1, <1>14, <1>20, <2>1 DEF ReturnError
<1>15. ASSUME FallBackToFull(p) PROVE JournalProcInv(p)'
  <2>1. pc'[p] = "begin" /\ mode'[p] = "full" /\ UNCHANGED <<token, gen>>
    BY <1>4, <1>15 DEF FallBackToFull, tables
  <2> QED
    BY <1>1, <1>15, <1>20, <2>1 DEF FallBackToFull
<1>16. ASSUME Crash(p) PROVE JournalProcInv(p)'
  BY <1>1, <1>4, <1>16 DEF Crash, Exit, tables
<1>17. ASSUME ReplaceSnapshot(p) PROVE JournalProcInv(p)'
  <2>1. /\ gen'[who[p]] = run[p].gen
        /\ run'[p].gen = run[p].gen /\ run'[p].status = "committed" /\ run'[p].who = run[p].who
        /\ pc'[p] = "idle" /\ pc[p] = "commit"
    BY <1>2, <1>4, <1>17 DEF ReplaceSnapshot, Exit, TypeOK
  <2> QED
    BY <1>1, <2>1
<1> HIDE DEF JournalProcInv
<1> QED
  BY <1>6, <1>7, <1>8, <1>9, <1>10, <1>11, <1>12, <1>13, <1>14, <1>15, <1>16, <1>17
     DEF OwnStep, Step

LEMMA JournalInvAlways == ASSUME Solo PROVE Spec => []JournalInv
<1>1. Init => JournalInv
  BY DEF Init, JournalInv, JournalProcInv, InRun
<1>2. TypeOK /\ FullRunInv /\ JournalInv /\ [Next]_vars => JournalInv'
  <2> SUFFICES ASSUME TypeOK, FullRunInv, JournalInv, [Next]_vars PROVE JournalInv'
    OBVIOUS
  <2>1. CASE Remote
    <3>1. UNCHANGED <<token, gen, run, pc, who, mode, tok>>
      BY <2>1 DEF Remote, RemoteChange, Forget, tables, local
    <3> QED
      BY <3>1 DEF JournalInv, JournalProcInv
  <2>2. ASSUME NEW p \in Procs, OwnStep(p) PROVE JournalInv'
    BY <2>2, JournalInvOwnStep
  <2>3. CASE UNCHANGED vars
    BY <2>3 DEF vars, JournalInv, JournalProcInv
  <2> QED
    BY <2>1, <2>2, <2>3 DEF Next, OwnStep
<1> QED
  BY <1>1, <1>2, FullRunInvAlways, TypeCorrect, PTL DEF Spec

\* One process at a time: the journal and the committed generations agree, through
\* crashes, failed bookkeeping, fallbacks and changes of account: JournalAgrees.
THEOREM SoloJournalAgrees == ASSUME Solo PROVE Spec => []JournalAgrees
<1>1. JournalInv => JournalAgrees
  BY DEF JournalInv, JournalProcInv, JournalAgrees
<1> QED
  BY <1>1, JournalInvAlways, PTL

\* A step that writes the tables is a commit of a process that has reached the end
\* of the change log.
LEMMA OnlyCommitsWriteTables ==
  ASSUME [Next]_vars, <<rows, token, gen, listed>>' # <<rows, token, gen, listed>>
  PROVE  \E p \in Procs : ReplaceSnapshot(p)
BY DEF Next, Remote, RemoteChange, Forget, Step, vars, SyncInventory,
       BeginSyncRun, BeginNumberedBy, Checkpoint, ListPage, LoadSnapshot, ChangePage, TokenExpired,
       Fail, ReturnError, FallBackToFull, Crash, tables

LEMMA SoloCommitMovesOn ==
  ASSUME TypeOK, JournalInv, NEW p \in Procs, ReplaceSnapshot(p)
  PROVE  \E a \in Accounts :
           /\ gen' = [gen EXCEPT ![a] = @ + 1]
           /\ \A b \in Accounts \ {a} : token'[b] = token[b]
           /\ token'[a] >= token[a]
<1>1. who[p] \in Accounts
  BY DEF TypeOK
<1>2. pc[p] = "commit"
  BY DEF ReplaceSnapshot
<1>3. run[p].gen = gen[who[p]] + 1 /\ tok[p] >= token[who[p]]
  BY <1>2 DEF JournalInv, JournalProcInv, InRun
<1> QED
  BY <1>1, <1>3 DEF ReplaceSnapshot, TypeOK

\* One process at a time: every commit moves one account's generation by one and
\* never takes its token back: CommitsInOrder.
THEOREM SoloCommitsInOrder == ASSUME Solo PROVE Spec => CommitsInOrder
<1>1. TypeOK /\ JournalInv /\ [Next]_vars =>
        [<<rows, token, gen>>' # <<rows, token, gen>> =>
           \E a \in Accounts :
             /\ gen' = [gen EXCEPT ![a] = @ + 1]
             /\ \A b \in Accounts \ {a} : token'[b] = token[b]
             /\ token'[a] >= token[a]]_vars
  <2> SUFFICES ASSUME TypeOK, JournalInv, [Next]_vars, <<rows, token, gen>>' # <<rows, token, gen>>
               PROVE  \E a \in Accounts :
                        /\ gen' = [gen EXCEPT ![a] = @ + 1]
                        /\ \A b \in Accounts \ {a} : token'[b] = token[b]
                        /\ token'[a] >= token[a]
    OBVIOUS
  <2>1. PICK p \in Procs : ReplaceSnapshot(p)
    BY OnlyCommitsWriteTables
  <2> QED
    BY <2>1, SoloCommitMovesOn
<1> QED
  BY <1>1, TypeCorrect, JournalInvAlways, PTL DEF Spec, CommitsInOrder

-----------------------------------------------------------------------------
(* One process at a time, one account: the files table and its token.      *)

\* The committed pair fits, a delta run starts from it and a full run from a listing
\* of its own, which began no earlier.
PairProcInv(p) ==
  /\ pc[p] \in {"list", "changes", "commit"} => start[p] >= listed
  /\ pc[p] \in {"changes", "commit"} =>
       start[p] <= tok[p] /\ Covered(Me, work[p], tok[p], start[p])
  /\ \A f \in Files : work[p][f] <= clock

PairInv ==
  /\ token[Me] # NoToken => listed <= token[Me]
  /\ Covered(Me, rows, token[Me], listed)
  /\ \A f \in Files : rows[f] <= clock
  /\ \A p \in Procs : PairProcInv(p)

LEMMA PairInvInit == Init => PairInv
BY MeIsAccount DEF Init, PairInv, PairProcInv, Covered, Visible, Told, Absent, NoToken, Empty

LEMMA PairInvRemote ==
  ASSUME TypeOK, FullRunInv, PairInv, Remote PROVE PairInv'
<1>1. ASSUME NEW a \in Accounts, NEW g \in Files, NEW k \in Kinds, RemoteChange(a, g, k)
      PROVE  PairInv'
  <2>1. /\ clock' = clock + 1 /\ clock \in Nat
        /\ UNCHANGED <<rows, token, listed, pc, work, start, tok>>
    BY <1>1 DEF RemoteChange, tables, local, TypeOK
  <2>2. TypeOK /\ DriveInv /\ Me \in Accounts
    BY MeIsAccount DEF FullRunInv
  <2>3. ASSUME NEW copy, NEW t \in Int, NEW from \in Int, Covered(Me, copy, t, from)
        PROVE  Covered(Me, copy, t, from)'
    BY <1>1, <2>2, <2>3, RemoteChangeCovers DEF Covered
  <2>4. Covered(Me, rows, token[Me], listed)'
    <3>0. token[Me] \in Int /\ listed \in Int
      BY <2>2 DEF TypeOK, NoToken
    <3>1. PICK copy \in {rows}, t \in Int, from \in Int : t = token[Me] /\ from = listed
      BY <3>0
    <3>2. copy = rows /\ Covered(Me, copy, t, from)
      BY <3>1 DEF PairInv
    <3>3. Covered(Me, copy, t, from)'
      BY <2>3, <3>2
    <3>4. copy = rows' /\ t = token'[Me] /\ from = listed'
      BY <2>1, <3>1
    <3> QED
      BY <3>3, <3>4
  <2>5. ASSUME NEW p \in Procs PROVE PairProcInv(p)'
    <3>1. PairProcInv(p)
      BY DEF PairInv
    <3>2. CASE pc[p] \in {"changes", "commit"}
      <4>0. tok[p] \in Int /\ start[p] \in Int
        BY DEF TypeOK, NoToken
      <4>1. PICK copy \in {work[p]}, t \in Int, from \in Int : t = tok[p] /\ from = start[p]
        BY <4>0
      <4>2. copy = work[p] /\ Covered(Me, copy, t, from)
        BY <3>1, <3>2, <4>1 DEF PairProcInv
      <4>3. Covered(Me, copy, t, from)'
        BY <2>3, <4>2
      <4>4. copy = work'[p] /\ t = tok'[p] /\ from = start'[p]
        BY <2>1, <4>1
      <4>5. Covered(Me, work[p], tok[p], start[p])'
        BY <4>3, <4>4
      <4>6. \A f \in Files : work[p][f] <= clock'
        BY <2>1, <3>1 DEF PairProcInv, TypeOK
      <4> QED
        BY <2>1, <3>1, <4>5, <4>6 DEF PairProcInv
    <3>3. CASE pc[p] \notin {"changes", "commit"}
      <4>1. \A f \in Files : work[p][f] <= clock'
        BY <2>1, <3>1 DEF PairProcInv, TypeOK
      <4> QED
        BY <2>1, <3>1, <3>3, <4>1 DEF PairProcInv
    <3> QED
      BY <3>2, <3>3
  <2>6. \A f \in Files : rows'[f] <= clock'
    BY <2>1 DEF PairInv, TypeOK
  <2> QED
    BY <2>1, <2>4, <2>5, <2>6 DEF PairInv
<1>2. CASE Forget
  BY <1>2 DEF Forget, PairInv, PairProcInv, Covered, Visible, Told, tables, local
<1> QED
  BY <1>1, <1>2 DEF Remote

\* The listing's last page completes a copy that fits the checkpoint, by the
\* invariant of full runs; a delta run starts from a copy that fits already.
LEMMA PairInvOwnStep ==
  ASSUME Solo, OneAccount, TypeOK, FullRunInv, FullRunInv', JournalInv, PairInv,
         NEW p \in Procs, OwnStep(p)
  PROVE  PairInv'
<1>1. /\ UNCHANGED <<clock, ver, kind, log>>
      /\ \A f \in Files : Visible(Me, f)' = Visible(Me, f) /\ Told(Me, f)' = Told(Me, f)
  BY OwnStepFrame DEF Frame, drive, Visible, Told
<1>2. /\ PairProcInv(p) /\ JournalProcInv(p) /\ ProcInv(p) /\ ProcInv(p)' /\ DriveInv
      /\ token[Me] # NoToken => listed <= token[Me]
      /\ Covered(Me, rows, token[Me], listed)
      /\ \A f \in Files : rows[f] <= clock
  BY DEF FullRunInv, PairInv, JournalInv
<1>3. /\ pc \in [Procs -> Phases] /\ mode \in [Procs -> Modes]
      /\ tok \in [Procs -> Int] /\ start \in [Procs -> Nat]
      /\ work \in [Procs -> [Files -> Nat]] /\ rows \in [Files -> Nat]
      /\ clock \in Nat /\ listed \in Nat
      /\ \A a \in Accounts : token[a] \in Int
      /\ \A a \in Accounts, f \in Files : ver[a][f] \in Nat
  BY DEF TypeOK, NoToken
<1>4. /\ who[p] = Me /\ Me \in Accounts
      /\ token' = [token EXCEPT ![who[p]] = tok[p]] => token'[Me] = tok[p]
  BY MeIsAccount DEF TypeOK, OneAccount
<1>5. ASSUME NEW copy, NEW t, NEW from
      PROVE  Covered(Me, copy, t, from)' <=> Covered(Me, copy, t, from)
  BY <1>1 DEF Covered
<1>6. SUFFICES
        /\ token'[Me] # NoToken => listed' <= token'[Me]
        /\ Covered(Me, rows, token[Me], listed)'
        /\ \A f \in Files : rows'[f] <= clock
        /\ PairProcInv(p)'
  BY <1>1 DEF Solo, PairInv
<1>7. ASSUME UNCHANGED tables
      PROVE  /\ token'[Me] # NoToken => listed' <= token'[Me]
             /\ Covered(Me, rows, token[Me], listed)'
             /\ \A f \in Files : rows'[f] <= clock
             /\ listed' = listed
  BY <1>1, <1>2, <1>7 DEF tables, Covered
<1>8. \A f \in Files : Empty[f] <= clock
  BY <1>3 DEF Empty, Absent
<1> USE DEF PairProcInv, Goto
<1>9. ASSUME NEW a \in Accounts, NEW b \in BOOLEAN, SyncInventory(p, a, b) PROVE PairProcInv(p)'
  BY <1>1, <1>2, <1>3, <1>9 DEF SyncInventory
<1>10. ASSUME BeginSyncRun(p) PROVE PairProcInv(p)'
  BY <1>1, <1>2, <1>3, <1>10 DEF BeginSyncRun, BeginNumberedBy, local
<1>11. ASSUME Checkpoint(p) PROVE PairProcInv(p)'
  BY <1>1, <1>2, <1>3, <1>11 DEF Checkpoint, DriveInv, tables
<1>12. ASSUME ListPage(p) PROVE PairProcInv(p)'
  <2>1. /\ pc[p] = "list" /\ pc'[p] \in {"list", "changes"} /\ mode'[p] = "full"
        /\ UNCHANGED <<start, tok, listed, who>>
    BY <1>2, <1>3, <1>12 DEF ListPage, ProcInv, tables
  <2>2. pc'[p] = "changes" => start'[p] <= tok'[p] /\ Covered(Me, work[p], tok[p], start[p])'
    BY <1>2, <1>4, <2>1 DEF ProcInv
  <2>3. \A f \in Files : Visible(Me, f) <= clock
    BY <1>2, <1>3, <1>4 DEF DriveInv, Visible, Absent
  <2>4. \A f \in Files : work'[p][f] <= clock
    BY <1>2, <1>3, <1>4, <1>12, <2>3 DEF ListPage
  <2> QED
    BY <1>1, <1>2, <2>1, <2>2, <2>4
<1>13. ASSUME LoadSnapshot(p) PROVE PairProcInv(p)'
  <2>1. /\ pc[p] = "load" /\ pc'[p] = "changes" /\ work'[p] = rows /\ start'[p] = listed
        /\ UNCHANGED <<tok, listed>>
    BY <1>3, <1>13 DEF LoadSnapshot, tables
  <2>2. tok[p] = token[Me] /\ tok[p] \in 0 .. clock
    BY <1>2, <1>4, <2>1 DEF ProcInv, JournalProcInv
  <2>3. listed <= tok[p]
    BY <1>2, <2>2 DEF NoToken
  <2>4. Covered(Me, work[p], tok[p], start[p])'
    BY <1>1, <1>2, <2>1, <2>2 DEF Covered
  <2> QED
    BY <1>1, <1>2, <1>3, <2>1, <2>3, <2>4
<1>14. ASSUME ChangePage(p) PROVE PairProcInv(p)'
  <2>1. PICK end \in tok[p] .. clock :
          /\ work' = [work EXCEPT ![p] =
               ApplyChangePage(who[p], @, Changes(who[p], tok[p], end))]
          /\ tok' = [tok EXCEPT ![p] = end]
          /\ Goto(p, IF end = clock THEN "commit" ELSE "changes")
    BY <1>14 DEF ChangePage
  <2>2. pc[p] = "changes" /\ UNCHANGED <<start, listed>>
    BY <1>14 DEF ChangePage, tables
  <2>3. tok[p] \in Nat /\ end \in Nat /\ start[p] \in Nat /\ start[p] <= tok[p] /\ start[p] <= end
    BY <1>2, <1>3, <2>1, <2>2 DEF ProcInv
  <2>4. work'[p] = ApplyChangePage(Me, work[p], Changes(Me, tok[p], end))
    BY <1>3, <1>4, <2>1
  <2>5. Covered(Me, work'[p], end, start[p])
    <3>1. work[p] \in [Files -> Nat] /\ Covered(Me, work[p], tok[p], start[p])
      BY <1>2, <1>3, <2>2
    <3> QED
      BY <1>2, <1>4, <2>1, <2>3, <2>4, <3>1, ChangePageCovers
  <2>6. \A f \in Files : work'[p][f] <= clock
    BY <1>2, <1>3, <1>4, <2>4 DEF ApplyChangePage, DriveInv, Absent
  <2>7. pc'[p] \in {"commit", "changes"} /\ tok'[p] = end
    BY <1>3, <2>1
  <2>8. Covered(Me, work[p], tok[p], start[p])'
    BY <1>1, <2>2, <2>5, <2>7 DEF Covered
  <2> QED
    BY <1>1, <1>2, <2>2, <2>3, <2>6, <2>7, <2>8
<1>15. ASSUME TokenExpired(p) PROVE PairProcInv(p)'
  BY <1>1, <1>2, <1>3, <1>15 DEF TokenExpired, local
<1>16. ASSUME Fail(p) PROVE PairProcInv(p)'
  BY <1>1, <1>2, <1>3, <1>16 DEF Fail, local
<1>17. ASSUME ReturnError(p) PROVE PairProcInv(p)'
  BY <1>1, <1>3, <1>8, <1>17 DEF ReturnError, Exit
<1>18. ASSUME FallBackToFull(p) PROVE PairProcInv(p)'
  BY <1>1, <1>3, <1>8, <1>18 DEF FallBackToFull
<1>19. ASSUME Crash(p) PROVE PairProcInv(p)'
  BY <1>1, <1>3, <1>8, <1>19 DEF Crash, Exit
<1>20. CASE ReplaceSnapshot(p)
  <2>1. /\ rows' = work[p] /\ token'[Me] = tok[p] /\ listed' = start[p]
        /\ pc'[p] = "idle" /\ work'[p] = Empty /\ pc[p] = "commit"
    BY <1>3, <1>4, <1>20 DEF ReplaceSnapshot, Exit
  <2>2. Covered(Me, rows, token[Me], listed)'
    BY <1>1, <1>2, <2>1 DEF Covered
  <2> QED
    BY <1>1, <1>2, <1>8, <2>1, <2>2
<1> HIDE DEF PairProcInv
<1> QED
  BY <1>1, <1>7, <1>9, <1>10, <1>11, <1>12, <1>13, <1>14, <1>15, <1>16, <1>17, <1>18,
     <1>19, <1>20 DEF OwnStep, Step, SyncInventory, BeginSyncRun, BeginNumberedBy, Checkpoint,
     ListPage, LoadSnapshot, ChangePage, TokenExpired, Fail, ReturnError,
     FallBackToFull, Crash

LEMMA PairInvAlways == ASSUME Solo, OneAccount PROVE Spec => []PairInv
<1>1. TypeOK /\ FullRunInv /\ FullRunInv' /\ JournalInv /\ PairInv /\ [Next]_vars => PairInv'
  <2> SUFFICES ASSUME TypeOK, FullRunInv, FullRunInv', JournalInv, PairInv, [Next]_vars
               PROVE  PairInv'
    OBVIOUS
  <2>1. CASE Remote
    BY <2>1, PairInvRemote
  <2>2. ASSUME NEW p \in Procs, OwnStep(p) PROVE PairInv'
    BY <2>2, PairInvOwnStep
  <2>3. CASE UNCHANGED vars
    BY <2>3 DEF vars, PairInv, PairProcInv, Covered, Visible, Told
  <2> QED
    BY <2>1, <2>2, <2>3 DEF Next, OwnStep
<1> QED
  BY <1>1, PairInvInit, FullRunInvAlways, JournalInvAlways, TypeCorrect, PTL DEF Spec

\* One process at a time, one account: the committed files table fits the committed
\* token and the listing behind it in every state, so the next delta sync repairs all
\* it has wrong but what changed untold: MirrorCovered.
THEOREM SoloMirrorIsCovered == ASSUME Solo, OneAccount PROVE Spec => []MirrorCovered
<1>1. PairInv => MirrorCovered
  BY DEF PairInv, MirrorCovered
<1> QED
  BY <1>1, PairInvAlways, PTL

\* One process at a time, one account: the engine implements Mirror.  A commit is a
\* commit, an edit on Drive is an edit, and everything else a process does is invisible.
THEOREM SoloImplementsMirror == ASSUME Solo, OneAccount PROVE Spec => ImplementsMirror
<1>1. Init => M!Init
  BY MeIsAccount DEF Init, M!Init, Empty, Absent, NoToken, M!Absent, M!NoToken
<1>2. TypeOK /\ FullRunInv /\ JournalInv /\ PairInv /\ [Next]_vars => [M!Next]_(M!vars)
  <2> SUFFICES ASSUME TypeOK, FullRunInv, JournalInv, PairInv, [Next]_vars
               PROVE  [M!Next]_(M!vars)
    OBVIOUS
  <2>0. Me \in Accounts /\ \A a \in Accounts : a = Me
    BY MeIsAccount DEF OneAccount
  <2>1. ASSUME NEW a \in Accounts, NEW f \in Files, NEW k \in Kinds, RemoteChange(a, f, k)
        PROVE  M!Change(f)
    <3>1. a = Me
      BY <2>0
    <3>2. /\ clock < MaxClock /\ clock' = clock + 1
          /\ ver'[Me] = [ver[Me] EXCEPT ![f] = clock + 1]
          /\ kind'[Me] = [kind[Me] EXCEPT ![f] = k]
          /\ log'[Me] = [log[Me] EXCEPT ![f] = Entry(Me, f, k)]
          /\ UNCHANGED <<rows, token[Me], listed>>
      BY <2>0, <2>1, <3>1 DEF RemoteChange, tables, TypeOK
    <3>3. /\ Entry(Me, f, k) \in {"file", "removed", "none"}
          /\ k = "mine" => Entry(Me, f, k) = "file"
          /\ kind[Me][f] = "mine" => Entry(Me, f, k) # "none"
      BY DEF Entry, InMyDrive, Kinds
    <3> QED
      BY <3>2, <3>3 DEF M!Change, Kinds
  <2>2. ASSUME NEW p \in Procs, ReplaceSnapshot(p)
        PROVE  M!Commit
    <3>1. pc[p] = "commit" /\ who[p] = Me
      BY <2>0, <2>2 DEF ReplaceSnapshot, TypeOK
    <3>2. /\ rows' = work[p] /\ token'[Me] = tok[p] /\ listed' = start[p]
          /\ UNCHANGED <<clock, ver[Me], kind[Me], log[Me]>>
      BY <2>0, <2>2, <3>1 DEF ReplaceSnapshot, drive, TypeOK
    <3>3. ProcInv(p) /\ JournalProcInv(p) /\ PairProcInv(p)
      BY DEF FullRunInv, JournalInv, PairInv
    <3>4. /\ tok[p] >= token[Me] /\ tok[p] \in 0 .. clock
          /\ start[p] >= listed /\ start[p] \in 0 .. tok[p]
          /\ work[p] \in [Files -> 0 .. clock]
      BY <3>1, <3>3 DEF ProcInv, JournalProcInv, PairProcInv, TypeOK
    <3>5. M!Covers(rows', token'[Me], listed')
      BY <3>1, <3>2, <3>3 DEF PairProcInv, Covered, Visible, Told, Absent,
                              M!Covers, M!Visible, M!Told, M!Absent
    <3>6. clock' = clock /\ rows' \in [Files -> 0 .. clock']
      BY <3>2, <3>4
    <3>7. token'[Me] \in 0 .. clock' /\ token'[Me] >= token[Me]
          /\ listed' \in 0 .. token'[Me] /\ listed' >= listed
      BY <3>2, <3>4, <3>6
    <3>8. token'[Me] \in {t \in 0 .. clock : t >= token[Me]}
          /\ listed' \in {t \in 0 .. token'[Me] : t >= listed}
      BY <3>6, <3>7
    <3> QED
      BY <3>2, <3>5, <3>6, <3>8 DEF M!Commit
  <2>3. CASE UNCHANGED <<clock, ver, kind, log, rows, token, listed>>
    BY <2>3 DEF M!vars
  <2>4. \/ UNCHANGED <<clock, ver, kind, log, rows, token, listed>>
        \/ \E a \in Accounts, f \in Files, k \in Kinds : RemoteChange(a, f, k)
        \/ \E p \in Procs : ReplaceSnapshot(p)
    BY DEF Next, Remote, Forget, Step, vars, SyncInventory, BeginSyncRun, BeginNumberedBy,
           Checkpoint, ListPage, LoadSnapshot, ChangePage, TokenExpired, Fail,
           ReturnError, FallBackToFull, Crash, drive, tables
  <2> QED
    BY <2>1, <2>2, <2>3, <2>4 DEF M!Next
<1> QED
  BY <1>1, <1>2, TypeCorrect, FullRunInvAlways, JournalInvAlways, PairInvAlways, PTL
     DEF Spec, ImplementsMirror, M!Spec

=============================================================================
