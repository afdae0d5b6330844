------------------------------ MODULE SyncEngine ------------------------------
(***************************************************************************)
(* The sync engine: `sync_inventory` of gdrive-core driving Google Drive's *)
(* change log on one side and the SQLite repository on the other.  Every   *)
(* `drive-warden sync` (and the full sync that ends each --apply command)  *)
(* is an operating-system process of its own; several may share one        *)
(* database file, and every repository call opens its own connection, so   *)
(* only a single call is atomic.                                           *)
(*                                                                         *)
(* A file's content is abstracted to the position in the change log of its *)
(* last change: two copies of a file are equal iff their positions are.    *)
(* A page token is a position too: the log has been read up to there.      *)
(*                                                                         *)
(* A listing has all a Google account can see, the log only what is in its *)
(* My Drive (restrict_to_my_drive).  sync_state has a row for each account *)
(* that was ever signed in; the files table is one for all of them.        *)
(***************************************************************************)
EXTENDS Integers, FiniteSets

CONSTANTS
  Files,      \* the Drive file ids
  Accounts,   \* the Google accounts that sign in
  Procs,      \* the command processes sharing one database
  MaxClock,   \* bound: changes ever made on Drive
  MaxGen      \* bound: no sync starts once this generation is committed

ASSUME FilesAssumption == Files # {} /\ IsFiniteSet(Files)
ASSUME AccountsAssumption == Accounts # {}
ASSUME BoundsAssumption == MaxClock \in Nat /\ MaxGen \in Nat

VARIABLES
  \* Google Drive (external), as each account sees it
  clock,      \* positions used in the change logs so far
  ver,        \* [Accounts -> [Files -> position of the file's last change]]
  kind,       \* [Accounts -> [Files -> how the file stands after that change]]
  log,        \* [Accounts -> [Files -> what the log says of that change]]
  horizon,    \* tokens below this position are answered with 410 Gone
  \* the database
  rows,       \* the files table: the copy of each file, or Absent
  token,      \* [Accounts -> sync_state.committed_start_page_token, or NoToken]
  gen,        \* [Accounts -> sync_state.committed_generation]
  run,        \* [Procs -> the process' latest row of sync_runs]
  \* the processes
  pc, who, mode, work, tok, todo,
  \* where the listing began that the table, or a process' copy, goes back to
  listed, start

drive == <<clock, ver, kind, log, horizon>>
tables == <<rows, token, gen, listed>>
local == <<who, mode, work, start, tok, todo>>
vars == <<clock, ver, kind, log, horizon, rows, token, gen, run,
          pc, who, mode, work, tok, todo, listed, start>>

Absent == 0
NoToken == -1
\* In My Drive; visible, but outside of it; in the trash; deleted, or out of sight.
Kinds == {"mine", "shared", "trashed", "gone"}
\* A change comes with the file, as a removal, or not at all.
Entries == {"file", "removed", "none"}
Modes == {"full", "delta"}
Statuses == {"none", "in_progress", "failed", "committed"}
InRun == {"checkpoint", "list", "load", "changes", "commit"}
Phases == InRun \cup {"idle", "begin", "expired", "failing"}
Empty == [f \in Files |-> Absent]
Me == CHOOSE a \in Accounts : TRUE

\* A listing (q = "trashed = false", corpora = "user") shows what is visible.
Visible(a, f) == IF kind[a][f] \in {"mine", "shared"} THEN ver[a][f] ELSE Absent

TypeOK ==
  /\ clock \in Nat
  /\ ver \in [Accounts -> [Files -> Nat]]
  /\ kind \in [Accounts -> [Files -> Kinds]]
  /\ log \in [Accounts -> [Files -> Entries]]
  /\ horizon \in Nat
  /\ rows \in [Files -> Nat]
  /\ token \in [Accounts -> Nat \cup {NoToken}]
  /\ gen \in [Accounts -> Nat]
  /\ run \in [Procs -> [who : Accounts, gen : Nat, status : Statuses]]
  /\ pc \in [Procs -> Phases]
  /\ who \in [Procs -> Accounts]
  /\ mode \in [Procs -> Modes]
  /\ work \in [Procs -> [Files -> Nat]]
  /\ tok \in [Procs -> Nat \cup {NoToken}]
  /\ todo \in [Procs -> SUBSET Files]
  /\ listed \in Nat
  /\ start \in [Procs -> Nat]

Init ==
  /\ clock = 0
  /\ ver = [a \in Accounts |-> [f \in Files |-> 0]]
  /\ kind = [a \in Accounts |-> [f \in Files |-> "gone"]]
  /\ log = [a \in Accounts |-> [f \in Files |-> "none"]]
  /\ horizon = 0
  /\ rows = Empty
  /\ token = [a \in Accounts |-> NoToken]
  /\ gen = [a \in Accounts |-> 0]
  /\ run = [p \in Procs |-> [who |-> Me, gen |-> 0, status |-> "none"]]
  /\ pc = [p \in Procs |-> "idle"]
  /\ who = [p \in Procs |-> Me]
  /\ mode = [p \in Procs |-> "full"]
  /\ work = [p \in Procs |-> Empty]
  /\ tok = [p \in Procs |-> NoToken]
  /\ todo = [p \in Procs |-> {}]
  /\ listed = 0
  /\ start = [p \in Procs |-> 0]

-----------------------------------------------------------------------------
(* Google Drive.                                                           *)

InMyDrive(a, f) == kind[a][f] = "mine" \/ (kind[a][f] = "trashed" /\ log[a][f] = "file")

\* What the log of My Drive (restrict_to_my_drive, include_removed) says of a change:
\* the file if it is there or in its trash, a removal if it left, else nothing.
Entry(a, f, k) ==
  CASE k = "mine" \/ (k = "trashed" /\ InMyDrive(a, f)) -> "file"
    [] k \in {"shared", "gone"} /\ InMyDrive(a, f) -> "removed"
    [] OTHER -> "none"

\* Someone adds, edits, shares, moves, trashes, restores or removes a file.
RemoteChange(a, f, k) ==
  /\ clock < MaxClock
  /\ kind[a][f] = "gone" => k \in {"mine", "shared"}
  /\ clock' = clock + 1
  /\ ver' = [ver EXCEPT ![a][f] = clock + 1]
  /\ kind' = [kind EXCEPT ![a][f] = k]
  /\ log' = [log EXCEPT ![a][f] = Entry(a, f, k)]
  /\ UNCHANGED <<horizon, tables, run, pc, local>>

\* Drive forgets a prefix of the log.
Forget ==
  /\ horizon < clock
  /\ horizon' \in (horizon + 1) .. clock
  /\ UNCHANGED <<clock, ver, kind, log, tables, run, pc, local>>

-----------------------------------------------------------------------------
(* A process.                                                              *)

Goto(p, phase) == pc' = [pc EXCEPT ![p] = phase]

\* The process ends: its memory is gone.
Exit(p) ==
  /\ Goto(p, "idle")
  /\ who' = [who EXCEPT ![p] = Me]
  /\ mode' = [mode EXCEPT ![p] = "full"]
  /\ work' = [work EXCEPT ![p] = Empty]
  /\ tok' = [tok EXCEPT ![p] = NoToken]
  /\ todo' = [todo EXCEPT ![p] = {}]
  /\ start' = [start EXCEPT ![p] = 0]

\* sync_inventory reads the token committed for the account that is signed in, and
\* picks the mode.  That this is not the account the database is for, is only warned of.
SyncInventory(p, a, forceFull) ==
  LET full == forceFull \/ token[a] = NoToken
  IN /\ pc[p] = "idle"
     /\ gen[a] < MaxGen
     /\ who' = [who EXCEPT ![p] = a]
     /\ mode' = [mode EXCEPT ![p] = IF full THEN "full" ELSE "delta"]
     /\ tok' = [tok EXCEPT ![p] = IF full THEN NoToken ELSE token[a]]
     /\ Goto(p, "begin")
     /\ UNCHANGED <<drive, tables, run, work, start, todo>>

BeginNumberedBy(p, generation, others) ==
  /\ pc[p] = "begin"
  /\ run' = [q \in Procs |->
               IF q = p THEN [who |-> who[p], gen |-> generation, status |-> "in_progress"]
               ELSE IF run[q].status = "in_progress"
                    THEN [run[q] EXCEPT !.status = others]
                    ELSE run[q]]
  /\ Goto(p, IF mode[p] = "full" THEN "checkpoint" ELSE "load")
  /\ UNCHANGED <<drive, tables, local>>

\* Variants with a bug: the generation of the committed run is reused, runs are
\* numbered after the process' own last run, and runs in progress are left alone.
BeginReusesGeneration(p) == BeginNumberedBy(p, gen[who[p]], "failed")
BeginNumbersOwnRuns(p) == BeginNumberedBy(p, run[p].gen + 1, "failed")
BeginLeavesOthers(p) == BeginNumberedBy(p, gen[who[p]] + 1, "in_progress")

\* begin_sync_run, one transaction: every run in progress is failed
\* ("superseded by a new sync run"), then the new one is inserted.
BeginSyncRun(p) == BeginNumberedBy(p, gen[who[p]] + 1, "failed")

\* get_start_page_token, before the listing starts.
Checkpoint(p) ==
  /\ pc[p] = "checkpoint"
  /\ tok' = [tok EXCEPT ![p] = clock]
  /\ start' = [start EXCEPT ![p] = clock]
  /\ todo' = [todo EXCEPT ![p] = Files]
  /\ Goto(p, "list")
  /\ UNCHANGED <<drive, tables, run, who, mode, work>>

\* Variant with a bug: the start token is fetched when the listing is complete.
ListPageThenCheckpoint(p) ==
  /\ pc[p] = "list"
  /\ \E page \in SUBSET Files :
       /\ page \cap todo[p] # {}
       /\ work' = [work EXCEPT ![p] =
                    [f \in Files |-> IF f \in page /\ Visible(who[p], f) # Absent
                                     THEN Visible(who[p], f) ELSE work[p][f]]]
       /\ todo' = [todo EXCEPT ![p] = @ \ page]
       /\ tok' = [tok EXCEPT ![p] = IF todo[p] \subseteq page THEN clock ELSE @]
       /\ Goto(p, IF todo[p] \subseteq page THEN "changes" ELSE "list")
  /\ UNCHANGED <<drive, tables, run, who, mode, start>>

\* list_files, one page.  The listing is no snapshot: each page shows its files
\* as they are when it is read, a file may come up twice, and a file that
\* changed after the checkpoint may be missed altogether.
ListPage(p) ==
  /\ pc[p] = "list"
  /\ \E page \in SUBSET Files :
       /\ page \cap todo[p] # {}
       /\ \E missed \in SUBSET {f \in page : ver[who[p]][f] > tok[p]} :
            work' = [work EXCEPT ![p] =
                      [f \in Files |->
                         IF f \in page \ missed /\ Visible(who[p], f) # Absent
                         THEN Visible(who[p], f) ELSE work[p][f]]]
       /\ todo' = [todo EXCEPT ![p] = @ \ page]
       /\ Goto(p, IF todo[p] \subseteq page THEN "changes" ELSE "list")
  /\ UNCHANGED <<drive, tables, run, who, mode, start, tok>>

\* load_snapshot of a delta run: its own connection, after the token was read.
LoadSnapshot(p) ==
  /\ pc[p] = "load"
  /\ work' = [work EXCEPT ![p] = rows]
  /\ start' = [start EXCEPT ![p] = listed]
  /\ Goto(p, "changes")
  /\ UNCHANGED <<drive, tables, run, who, mode, tok, todo>>

\* Variant with a bug: a trashed file is upserted like any other.
ApplyChangePageKeepingTrash(a, snapshot, page) ==
  [f \in Files |-> IF f \notin page THEN snapshot[f]
                   ELSE IF log[a][f] = "removed" THEN Absent
                   ELSE ver[a][f]]

\* apply_change_page: removed ids go, trashed files go, the others are upserted.
ApplyChangePage(a, snapshot, page) ==
  [f \in Files |-> IF f \notin page THEN snapshot[f]
                   ELSE IF log[a][f] = "removed" \/ kind[a][f] = "trashed" THEN Absent
                   ELSE ver[a][f]]

\* The files whose last change is in the log after one position and up to another.
Changes(a, first, last) ==
  {f \in Files : log[a][f] # "none" /\ first < ver[a][f] /\ ver[a][f] <= last}

\* list_changes from the current token: what changed between the token and the end
\* of the page, as it is now.  Only the page that reaches the end of the log carries
\* a new start token.
ChangePage(p) ==
  /\ pc[p] = "changes"
  /\ tok[p] >= horizon
  /\ \E end \in tok[p] .. clock :
       /\ end = tok[p] => end = clock
       /\ work' = [work EXCEPT ![p] =
            ApplyChangePage(who[p], @, Changes(who[p], tok[p], end))]
       /\ tok' = [tok EXCEPT ![p] = end]
       /\ Goto(p, IF end = clock THEN "commit" ELSE "changes")
  /\ UNCHANGED <<drive, tables, run, who, mode, start, todo>>

\* list_changes is answered 410 Gone: a delta run falls back, a full one fails.
TokenExpired(p) ==
  /\ pc[p] = "changes"
  /\ tok[p] < horizon
  /\ Goto(p, IF mode[p] = "delta" THEN "expired" ELSE "failing")
  /\ UNCHANGED <<drive, tables, run, local>>

\* Variant with a bug: sync_state is written ahead of the files table, and the
\* process ends in between.
ReplaceTokenFirst(p) ==
  /\ pc[p] = "commit"
  /\ token' = [token EXCEPT ![who[p]] = tok[p]]
  /\ gen' = [gen EXCEPT ![who[p]] = run[p].gen]
  /\ run' = [run EXCEPT ![p].status = "committed"]
  /\ Exit(p)
  /\ UNCHANGED <<drive, rows, listed>>

\* replace_snapshot, one transaction: the whole files table, the account's row of
\* sync_state, and the run's own row.  It does not look at the run's status.
ReplaceSnapshot(p) ==
  /\ pc[p] = "commit"
  /\ rows' = work[p]
  /\ listed' = start[p]
  /\ token' = [token EXCEPT ![who[p]] = tok[p]]
  /\ gen' = [gen EXCEPT ![who[p]] = run[p].gen]
  /\ run' = [run EXCEPT ![p].status = "committed"]
  /\ Exit(p)
  /\ UNCHANGED drive

\* Any call of a run returns an error.
Fail(p) ==
  /\ pc[p] \in InRun
  /\ Goto(p, "failing")
  /\ UNCHANGED <<drive, tables, run, local>>

\* Variant with a bug: a status the schema does not know.
MarkSyncAborted(p) ==
  \/ run' = [run EXCEPT ![p].status = "aborted"]
  \/ UNCHANGED run

\* mark_sync_failed, whose own failure is ignored.
MarkSyncFailed(p) ==
  \/ run' = [run EXCEPT ![p].status = "failed"]
  \/ UNCHANGED run

\* The error is returned to the operator.
ReturnError(p) ==
  /\ pc[p] = "failing"
  /\ MarkSyncFailed(p)
  /\ Exit(p)
  /\ UNCHANGED <<drive, tables>>

\* Variant with a bug: the run that starts over is a delta run again.
FallBackToDelta(p) ==
  /\ pc[p] = "expired"
  /\ MarkSyncFailed(p)
  /\ work' = [work EXCEPT ![p] = Empty]
  /\ tok' = [tok EXCEPT ![p] = token[who[p]]]
  /\ Goto(p, "begin")
  /\ UNCHANGED <<drive, tables, who, mode, start, todo>>

\* is_expired_delta_token_error: the same command starts over with a full run.
FallBackToFull(p) ==
  /\ pc[p] = "expired"
  /\ MarkSyncFailed(p)
  /\ mode' = [mode EXCEPT ![p] = "full"]
  /\ work' = [work EXCEPT ![p] = Empty]
  /\ tok' = [tok EXCEPT ![p] = NoToken]
  /\ Goto(p, "begin")
  /\ UNCHANGED <<drive, tables, who, start, todo>>

\* The process is killed, or begin_sync_run itself fails: nothing is written.
Crash(p) ==
  /\ pc[p] # "idle"
  /\ Exit(p)
  /\ UNCHANGED <<drive, tables, run>>

-----------------------------------------------------------------------------
\* What a running process does by itself: every request has a timeout and a
\* bounded number of attempts, so each of these steps is taken or fails.
Step(p) ==
  \/ BeginSyncRun(p)
  \/ Checkpoint(p)
  \/ ListPage(p)
  \/ LoadSnapshot(p)
  \/ ChangePage(p)
  \/ TokenExpired(p)
  \/ ReplaceSnapshot(p)
  \/ ReturnError(p)
  \/ FallBackToFull(p)

Remote ==
  \/ \E a \in Accounts, f \in Files, k \in Kinds : RemoteChange(a, f, k)
  \/ Forget

Next ==
  \/ Remote
  \/ \E p \in Procs :
       \/ \E a \in Accounts, forceFull \in BOOLEAN : SyncInventory(p, a, forceFull)
       \/ Step(p)
       \/ Fail(p)
       \/ Crash(p)

Spec == Init /\ [][Next]_vars

FairSpec == Spec /\ \A p \in Procs : WF_vars(Step(p))

-----------------------------------------------------------------------------
(* Properties.                                                             *)

\* One process at a time: no second process runs on the database.
Solo == \A p, q \in Procs : p = q

\* One account only: nobody signs in as anybody else.
OneAccount == \A a, b \in Accounts : a = b

\* The log says how the file stands since its last change.  It does not of a file
\* outside My Drive, nor of one that left My Drive and can still be seen.
Told(a, f) == log[a][f] = "file" \/ (log[a][f] = "removed" /\ kind[a][f] = "gone")

\* A copy and a token fit together: whatever the copy has wrong, the log after the
\* token still tells; or the log does not tell of the file, and it has changed since
\* the listing began that the copy goes back to.
Covered(a, copy, t, from) ==
  /\ from <= clock /\ t <= clock
  /\ \A f \in Files :
       copy[f] # Visible(a, f) => ver[a][f] > (IF Told(a, f) THEN t ELSE from)

\* With one process at a time and one account, whatever crashes, failures, expired
\* tokens and Drive edits happen: the next delta sync from the committed token repairs
\* everything that is wrong in the committed files table, but for what changed outside
\* My Drive since the last full listing.
MirrorCovered == Covered(Me, rows, token[Me], listed)

\* docs/plans/00-master-plan.md: the inventory is updated incrementally through the
\* Changes API.  A row that is out of date, the log after the token still tells of.
InventoryUpdated ==
  \A f \in Files : rows[f] \notin {Absent, Visible(Me, f)} => ver[Me][f] > token[Me]

\* However many processes share the database, and whoever is signed in, what a full
\* run is about to commit fits its token, although the listing is not a snapshot of
\* Drive and the log does not tell of all that was listed.
FullRunCovered ==
  \A p \in Procs :
    mode[p] = "full" /\ pc[p] \in {"changes", "commit"} =>
      Covered(who[p], work[p], tok[p], start[p])

\* However many processes share the database, sync_runs never shows two runs in
\* progress: beginning a run fails the others, dead or alive.
OneRunInProgress ==
  \A p, q \in Procs :
    run[p].status = "in_progress" /\ run[q].status = "in_progress" => p = q

\* With one process at a time: sync_runs and sync_state agree, for every account that
\* was signed in.  A run in progress, abandoned by a crash or not, carries the
\* generation after the account's committed one, and a committed run the committed one.
JournalAgrees ==
  \A p \in Procs :
    /\ run[p].status = "in_progress" => run[p].gen = gen[run[p].who] + 1
    /\ run[p].status = "committed" => run[p].gen = gen[run[p].who]

\* With one process at a time: each commit moves the generation of one account by
\* exactly one and never takes its token back, a fallback to a full run included.
CommitsInOrder ==
  [][ <<rows, token, gen>>' # <<rows, token, gen>> =>
        \E a \in Accounts :
          /\ gen' = [gen EXCEPT ![a] = @ + 1]
          /\ \A b \in Accounts \ {a} : token'[b] = token[b]
          /\ token'[a] >= token[a] ]_vars

\* With one process at a time and one account, the engine implements Mirror: files
\* table and token are replaced together, forwards only, by a pair that fits.
M == INSTANCE Mirror WITH
       ver <- ver[Me], kind <- kind[Me], log <- log[Me], token <- token[Me]
ImplementsMirror == M!Spec

Quiet == clock = MaxClock
InSync == Covered(Me, rows, clock, listed)

\* A run begun once Drive is quiet either leaves the files table identical to Drive,
\* its token expired on the way or not, but for what a delta run is not told of; or it
\* stops without having committed.
QuietSyncConverges ==
  \A p \in Procs :
    (pc[p] \in {"checkpoint", "load"} /\ Quiet)
      ~> (InSync \/ (pc[p] = "idle" /\ run[p].status # "committed"))

=============================================================================
