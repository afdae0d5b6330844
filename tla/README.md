# drive-warden, verified

TLA+ models of drive-warden, a Rust command-line program that mirrors the metadata of a
Google Drive account in SQLite and, on request, trashes, unshares, moves, copies and backs
up what is in it. This file says what the parts of the program are, which module models
which part, what the model checker (TLC) shows on small instances and what the proof system
(TLAPS) proves for all of them.

Source paths are relative to the repository: `core` is `crates/gdrive-core/src/lib.rs`, `db`
is `crates/gdrive-db/src/lib.rs`, `live` is `crates/gdrive-drive/src/google_live.rs`, `drive`
is `crates/gdrive-drive/src/lib.rs`, and `main`, `account`, `identity`, `shared_backup` and
`shared_declutter` are in `crates/drive-warden/src/`.

## 1. The system

Every invocation of `drive-warden` is an operating-system process that runs one command and
ends. Nothing stays resident. Commands of the same account share one SQLite file (WAL mode, a
5 s busy timeout); each repository call opens a connection of its own, so a single call is
atomic and two calls are not. There is no lock between processes. The other side is Google
Drive, which other people and other machines edit all the time.

| Component | State it keeps | Operations | Talks to | Hard behaviour |
|---|---|---|---|---|
| Sync engine (`core` 2744-2947) | snapshot, token and mode in memory | full run, delta run, fallback when the token has expired | gateway pages, repository | paged listing that is no snapshot; crash between steps; two syncs at once; expired token |
| Repository (`db`) | `files`, `file_parents`, `paths`, `sync_state`, `sync_runs`, histories, audit log, remote-sync ledger | begin run, replace snapshot, mark failed, load, append | SQLite | what is one transaction and what is not |
| Trash (`core` 2197-2452, `main` 452-498) | plan, row being applied | preview, release, apply, history | repository, gateway | stale mirror; nested selections; crash between audit entry and call |
| Unshare (`core` 1318-1488) | plan | preview, release, revoke permission, history | repository, gateway | permission inherited from a folder; cascade |
| Move (`core` 1573-2195) | plan, created folders | provision destination, move, history | repository, gateway | folder created and not recorded; rows pending after a crash |
| Retain copy (`core` 2455-2692) | plan | copy file or folder tree | gateway | copy made and not recorded; retries |
| Remote database (`main` 2442-3177) | rolling copy and manifest on Drive, named releases, local ledger | status, push, pull, sync, release, prune | gateway, repository, file system | two machines; crash between two uploads; concurrent release |
| Accounts (`account`) | `current` pointer, per-account directories | add, use, adopt the legacy files, remove | file system | crash between two renames |
| Identity guard (`identity`) | identity bound in `account.toml` | evaluate, bind, refuse, warn | gateway | check made before the use, or left out with the release it is in; tokens revoked, and a sign-in in mid-command |
| Shared-with-me backup (`shared_backup`) | files on disk, JSONL manifest | plan, fetch or copy, rename, record | gateway, file system | crash between file and record; two items with one path, or one at the other's part file; an edit after the backup; a body that never ends |
| Shared declutter (`shared_declutter`) | plan | classify, remove from My Drive | gateway | backup record out of date |
| Path cache (`core` 2949-3147, 3434-3506) | `paths` rows | resolve every path of an item | - | several parents, cycles, memoised answers |
| Sharing findings (`core` 3149-3278) | - | classify permissions, find the source of a share | - | first-parent walk |
| Gateways (`drive`, `live`) | token file, rate limiter | the Drive calls, each tried up to four times | Google | repeated non-idempotent create |
| Reports (`gdrive-report`, `main` 157-172) | - | Markdown from the repository | repository | each report reads a snapshot of its own |
| CLI, configuration, formatting | - | parse, print | - | none the models need |

### What makes each part correct

* **Sync engine.** The committed files table and the committed page token fit: what the table has wrong
  is still told by Drive's log after the token, as far as the log tells of it at all. A crash costs at
  most the run.
* **Repository journal.** `sync_runs` and `sync_state` tell the same story; no run that was
  given up comes back.
* **Trash.** Nothing is touched before the database is safe on Drive; each call is bracketed by
  log entries so that a crash can be told from a success; the history lists what went, once.
* **Unshare, move.** As for trash; in addition a permission is revoked where it comes from, a
  folder is created once and recorded, and a row left pending is one whose outcome is unknown.
* **Remote database.** A pull installs only bytes that match the manifest, the last local
  database survives it, and two sides that both changed are never overwritten silently.
* **Accounts.** No commit is lost by a crash and a retry; an adoption that ended has brought in all
  there was; the current account exists.
* **Identity guard.** A command that writes has verified the Google account (one whose preview was empty
  has not: `identity_unguarded`), and writes as that account, on every call it makes; a declared or bound account is never bound to another.
* **Backup, declutter.** A record is never ahead of its file. Nothing is taken out of My Drive whose
  copy is not on disk and whole. No item keeps the backup from coming to its end.

The hazards behind these, each at its line, are listed in `PROJECT.json` with the property that
covers it. Those without a property are ones the code gets wrong; section 3 names them.

## 2. Modules

| Module | Models | State and actions against the code |
|---|---|---|
| `SyncEngine` | sync engine, sync tables of the repository, Drive's listing and change log | `rows` is the `files` table, one for all accounts; `token[a]`/`gen[a]` are the account's row of `sync_state`; `run[p]` is the process' row in `sync_runs`; `ver`, `kind` and `log` are a file as an account sees it and what the log of its My Drive says; `pc`, `who`, `mode`, `work`, `tok`, `todo` are the local variables of `run_full_sync`/`run_delta_sync`; `listed` and `start`, which the program does not keep, are the log's position when the listing began that a copy goes back to. One action per repository or gateway call, plus `Fail` (any call returns an error) and `Crash` |
| `Mirror` | abstract specification of the mirror | two actions: Drive changes, a sync commits a pair that fits |
| `TrashCommand` | trash command from preview to final sync | `drive`, `mirror`: the folder tree on Drive and in the files table; `audit`, `history`: the tables; `plan`, `view`, `todo`, `current`, `left`: the local variables of `apply_trash`. One action per repository or gateway call |
| `MoveCommand` | move command, provisioning of the destination, the histories of both | `mirror`, `audit`, `history`, `created`: the tables; `dest`, `rest`: how far the path is resolved or made; `from`, `view`: the snapshots the plan and the entries are made from; `todo`, `current`, `left`: rows and entries still to come. `OnlyPending` is `move-history --only-pending` |
| `UnshareCommand` | unshare command, the private copies of `--retain-copy`, the findings it plans from | `tree`, `direct`, `owner`: Drive; `mirror`: tree and listed permissions; `todo`, `current`, `gone`, `copy`: plan, row in work, `deleted_targets`, items still to copy |
| `RemoteDb` | push, pull and sync of the database through Drive | `file[i]`: a file in the remote folder, with the snapshot it holds or vouches for; `local[m]`, `backup[m]`: the database of a machine and what its backups hold; `local[m].db.gen` and `.last`: `generation` and `last_manifest_sha256` of `remote_sync_state`; `scratch[m]`: the file `remote-sync.tmp`; `proc[p]`: the local variables of `push_remote_db` and `pull_remote_db`. One action per Drive call, snapshot step, file operation or ledger write, plus `Stop` |
| `SharedBackup` | backup of what others share, declutter, the manifest between them | `shared`, `held`, `ver`: what others share, what of it is in My Drive, the version of each; `disk`, `manifest`, `ended`: files and `manifest.jsonl`, with or without the last newline; `bpc`, `todo`, `completed`, `current`, `format`, `status`: the loop of `backup_shared_with_me` and the attempts of one item; `dpc`, `plan`: declutter |
| `Custody` | abstract specification of backup and declutter together | three actions: a file is edited, a copy of one of its versions is complete and older ones may go, a file with a copy is let go of |
| `AccountFiles` | `account add` with adoption, `use`, `remove`, and commands on a database | `db`, `wal`, `side`, `accounts`: the files of each account and of the old layout; `current`: `.current`; `proc`: the command and how far it is. One action per file operation |
| `IdentityGuard` | the identity guard, the preview that may leave it out, login, logout, scope upgrades | `toml`, `token`, `session`: the three files; `revoked`: tokens Google takes no more; `found`: whether the mirror has what a command acts on; `proc[p]`: what a process has read and verified. One action per call or file written |
| `...Proofs` | - | theorems about the module of that name |
| `MC...` | - | symmetry sets, inputs and bounds TLC needs |

Each action is one repository or gateway call or one file operation, with the computation that
follows it, because that is the unit other processes and crashes can come between. What stands for
Drive, SQLite or the OAuth library is marked external in `PROJECT.json`: `RemoteChange`, `Forget` and
`EditDrive` are Drive's edits, `Entry` and `InMyDrive` its change log, `Visible` and `Close` are SQLite's handling of a WAL, `Covering` and `Callers` are the
token cache of `yup_oauth2`.

### How they fit together

`TrashCommand`, `MoveCommand`, `UnshareCommand` and `SharedBackup` take a sync as one step that makes
the mirror equal to Drive; `SyncEngine` shows when that is true of a sync: of a full one, and of a delta
one for what its log tells of (`MirrorCovered`, `QuietSyncConverges`). They take a release as one step; its upload is the push of `RemoteDb`. They
assume that the calls of a command are made as one Google account; `IdentityGuard` shows when that is
true: of a command that has verified one (`WritesAsVerified`), which all have that write, but for one whose
preview was empty and whose apply then found something (`identity_unguarded`). All of them assume that the database is the one the command was started
for; `AccountFiles` shows what becomes of it when accounts are added and removed.

### Abstractions

* A file's content is the position in Drive's log of its last change. Two copies are equal iff
  their positions are; a page token is a position as well.
* A listing shows what an account can see (`corpora = user`), the change log only what concerns its My
  Drive (`restrict_to_my_drive`): a file in it or in its trash, or the removal of one that left. A change of
  a file that is merely shared with the account is in no page. What identifies a Google account to the
  database is its id; that a sync runs under another one than the account was bound to is only warned of.
* A page of a listing or of the change log is any set of files the API may return: pages are
  cut anywhere, an item may be seen twice, and one that changes after the checkpoint may be missed.
* In `TrashCommand`, `MoveCommand` and `UnshareCommand` an item has one parent, as Drive has had since
  2020, and an operator's filters are the set of ids they match. A sync is one step, a release is one
  step. Ownership and the right to manage an item are chosen at the start and stay. A call Drive
  refuses, or fails, is `Stop`. A command runs once: running it again is another command. In
  `TrashCommand` a call on an item that is gone succeeds without effect; `crossed` marks that another process
  used the database while a command ran, two properties leave such runs out, and section 3 says what they do.
* In `MoveCommand` the parent of a root-level item is Drive's id of My Drive or, as in the fixtures of
  the mock gateway, the literal `root`; an item shared with the account may show no parent (`Shared`), and
  the tool takes it for a root-level one. Others move items, take them off Drive with what is in them and
  bring them back (`removed` has all they ever took off); folders a command has made they do not move, but
  may take away with the folder those are in. Drive refuses to move a folder into itself, and an item that is
  not where the request says. A create whose answer is lost is repeated by the gateway (`lost` counts these).
* In `UnshareCommand` a permission is its grantee and roles are owner or not. Access to a folder is
  access to what is in it, and Drive lists it there too without saying that it is inherited. Drive
  refuses to delete a permission where it was not granted, and an owner's.
* In `RemoteDb` the content of a database is the set of commits in it and its ledger; a snapshot's
  checksum is its number, 0 for a file read before `VACUUM INTO` was done. Writing the temporary file
  and renaming it is one step, so is finding the manifest and downloading it, and reading the
  generation and beginning the snapshot. Each backup has a name of its own (in the code the name has
  the second in it). The WAL file is left out: the last connection that closes checkpoints it. A
  refusal by the identity guard or the privacy check is a run that stops. Generations count up from 0, so a
  generation is at most the number of snapshots. An answer to a create or an upload may be lost after Drive
  did what was asked (`lost`), and the gateway asks again: a create makes a second folder or file, an update
  the same once more. What Drive does of a call it does before the next attempt.
* In `SharedBackup` the local path of an item, for each format it can be exported in, is a constant: the
  result of sanitising its path. So are the path of the part file beside it (`Part`), which may be the path
  of another item, the file `ReuseFiles.find` matches an item to (`Reuse`: a file of any content, in any
  place), and the orders of backup and declutter, the first of which may leave items equal. A copy is of a
  version of its item. An item that is taken out of My Drive stays shared. A torn record is a line no load can read; that a record torn inside
  a character of several bytes makes the whole file unreadable is left out, it only stops the commands.
  The operator does not delete files of the backup.
* In `AccountFiles` a database is the set of its commits and a WAL the commits it adds, for the
  state of the database it was written over. SQLite drops a WAL without its database. Beside another
  state its pages would mix; the model lets the rows be lost then, which is the best that can happen.
  One command runs at a time. `strayed` marks that, after an add or remove was cut off half way,
  another command than that one worked on what it had left; `CommitsKept` says nothing of such runs.
* In `IdentityGuard` there are two scopes, one of which covers the other, and a Google account is one
  value, standing for its email and its permission id. The commands that act on Drive are two: one that is
  guarded whatever it does (`db remote`, declutter), and one whose guard is in the release its preview asks
  for (`trash`, `move`, `unshare`); of their plans only is kept whether they are empty (`found`), which a sync
  may change. A call with a revoked token fails. `crossed` marks that somebody signed in or out
  beside another command; two properties leave such runs out, and section 3 says what they do.

## 3. What is checked

| Run | Question | Bounds |
|---|---|---|
| `sync_solo` | One process at a time, one account: do table and token fit, is `Mirror` implemented, do journal and state agree, do commits go forwards? Does a run that begins once Drive is quiet end with the mirror right? All but for what changed outside My Drive since the last listing | 2 files, 3 changes, 2 generations |
| `sync_duo` | Two processes at once: what still holds? | 2 files, 2 changes, 2 generations |
| `trash` | Two commands, one after the other or at once, with syncs, crashes and an edit: do log and history tell what happened? With nothing beside a command, is there a release before each call, is nothing recorded twice? | a folder and a file, 1 edit |
| `move` | Two commands, crashes, lost answers, syncs, an edit: does the history tell where each item came from and, of what others left on Drive, which moves were cut off, is no folder made twice, does what was moved land at the path, but for parentless folders of that name? | a folder and a file, either of them perhaps without a visible parent, paths of 2 segments, 2 new folders, 1 edit, 1 lost answer |
| `unshare` | Two commands, refused calls, crashes, syncs, an edit: is what the history says revoked gone, does nobody else lose access, is a right mirror never refused, are copies complete before the first revocation? | a folder in a folder and a file, 2 grantees, 1 edit |
| `remote_solo` | One machine, crashes, retries and lost answers: does a successful push leave a valid pair, does a retry duplicate nothing but what a lost answer hid? | 1 commit, 3 snapshots, 2 lost answers, room for 3 folders and 5 files |
| `remote_pair` | Two machines, one command at a time on each: is a commit lost, does the ledger tell the truth? | 2 commits, 2 snapshots, 1 folder, 3 files, no lost answer |
| `backup` | Two backups and a declutter, overlapping, with crashes and torn records: is a record ever ahead of its file, is a finished backup found by the next, is `Custody` implemented, for files at paths nothing else is written to? Does each command end, but for an answer that never comes? | 3 items (one of 2 formats, a folder, one matched to a file at the part file's path), 1 edit or item that comes or goes |
| `accounts` | Adoptions, removals and commands killed anywhere: is a commit lost, is an adopted install whole, does the current account exist? | 2 accounts, 3 adds and removes, 2 commits |
| `adopt` | Does the same add, run again, finish an adoption that was killed? (no) | as `accounts` |
| `identity` | Two commands at once, killed anywhere, with two Google accounts: is a declared account bound to another, does a command that has verified an account write as that account, does a binding stay? | 2 processes, 2 people |
| `identity_unguarded` | Is the account verified before every write to Drive? (no) | as `identity` |

The bounds hold the cases that matter: three changes to two files let a file be created, trashed
and restored while a listing is under way; two generations are a full run and a delta run or a fallback
after it, and runs that end without a commit are not bounded; a folder and a file nest a selected file in a selected
folder, and deeper trees of selected items are left to the theorems; a second command is the retry of a first that was killed, and a path of two segments lets it
die between two folders; grants at the top, in the middle and on the file make a share inherited, doubled
or direct; two formats let one fail and be followed by another; three adds and removes are an add, its
retry and a removal. Deadlock is not checked: commands end, and the counters are bounded.

**Fairness.** `SyncEngine.FairSpec` asks weak fairness of `Step(p)`, the next call of a running process,
`SharedBackup.FairSpec` of the next step of the backup and of declutter. The code justifies it where the
answer is JSON: `execute_google_request` bounds each request, with the body that is read inside it, by a
timeout and four attempts, SQLite waits no longer than its busy timeout, and nothing in a command waits for
another one. It does not where the body of a download or an export is read after that (`live` 527, 545,
736), nor before the first request of a scope, when the operator is waited for in the browser (`live` 36).
A sync has its scope before its run begins, and reads no such body. A backup and a declutter may wait for
good: `FetchHangs` and `DeclutterHangs` are steps of no fairness into a state that only being killed ends, and
`Finishes` says that a command ends or is there. Nothing is assumed of Drive's edits, of the operator or of
the start of a command.

**Refinement.** `SyncEngine` implements `Mirror` and `SharedBackup` implements `Custody`. The second
is of the files that are fetched to paths at which nothing else is written, be it in passing (`Alone`): it
maps `kept` to the whole copies of them, each of a version, and `released` to those declutter took out of
My Drive. A copy may be of an older version than the file that is let go of: the promise is that there is
one, and that none gives way but to a newer one. Of the others the code keeps no such promise (the table below).

**Properties the code does not have.** Two runs expect a violation. `adopt`: the comment at
`account` 360 says that a re-run resumes, and it does not. `identity_unguarded`: README.md:81 has the
session verified before any live write, as does the comment at `identity` 3; `trash`, `move` and `unshare`
verify in the release (`main` 2994), which an empty preview leaves out (`main` 422, 477, 529), and then plan
anew what they apply. The modules state more properties that docs or comments promise and the code breaks.
To see the counterexample, put the name as the only INVARIANT in the cfg named, without its PROPERTIES and its
SYMMETRY, after the change given.

| Property | cfg and change | What is promised, what happens |
|---|---|---|
| `SyncEngine.InventoryUpdated` | `sync_solo` | docs/plans/00-master-plan.md:12 has the inventory of all the operator can access updated incrementally by the Changes API; `live` 181 asks it for My Drive only, while `live` 139 lists what is shared too: the token moves past a change of a shared file, and no delta sync repairs its row |
| `SyncEngine.MirrorCovered` | `sync_solo` with `Accounts = {a1, a2}` | `core` 2834 loads the files table whoever it was filled by; after a sync under another account (`main` 135 only warns) a delta run applies the changes of one account to the rows of the other, and commits them with its token |
| `SyncEngine.MirrorCovered` | `sync_duo` | The committed token (`core` 2753) and the files table (`core` 2834) are read in two connections; with two syncs at once a delta run pairs the token of one commit with the table of another and loses a change for good |
| `TrashCommand.ReleasedFirst` | `trash` | README.md:48 promises a release before live mutation; `main` 474 decides on one from a preview, and a sync between it and the plan of `apply_trash` can turn an empty plan into one with rows |
| `TrashCommand.EverySelectedItemIsPlanned` | `trash` with `Items = {d, e, f}`, `Folders = {d, e}`, `Commands = {c1}` | A folder that is managed but not owned cannot be trashed (`core` 2419), but suppresses the rows of what is in it (`core` 2361): an owned file selected with it is neither trashed nor listed |
| `RemoteDb.SyncNeverOverwrites` | `remote_pair` | README.md:50 says `db remote sync` fails safely when both sides exist; two machines that both find no remote copy both push |
| `RemoteDb.VouchedIsWhole` | `remote_pair` with `Overlap = TRUE`, `Host <- SharedHost`, `Machines = {m1}` | docs/operator/getting-started.md:155 promises a consistent snapshot; two pushes of one database share `remote-sync.tmp`, and one checksums and uploads what the other has begun |
| `RemoteDb.NoEditLost` | `remote_pair` with `Overlap = TRUE` | The same line promises a backup of the existing database; a commit between backup (`main` 2967) and rename is in neither |
| `MoveCommand.MovesAnnounced` | `move` with `MaxEdits = 2` | docs/operator/getting-started.md:97 has each move recorded in pending and applied rows; `core` 2172 makes none for an item that a sync has seen gone when it is read again, and it is moved all the same (`core` 1903) if it is back by then |
| `MoveCommand.ExistingPathFound` | `move` | docs/operator/getting-started.md:97 promises destinations by exact synced path; `core` 1526 looks for the parent `root`, and a live account's root-level items have My Drive's id |
| `MoveCommand.LandsInMyDrive` | `move` | docs/plans/00-master-plan.md:286 says `My Drive only`; `core` 1526 takes a folder that shows no parent for a child of the root (so does the path it is listed under, 3457), and a `--to-path` that begins with its name moves items into a folder of somebody else |
| `UnshareCommand.OwnersKept` | `unshare` | docs/operator/runbooks/sharing-audit.md:41 says what is inherited from a folder the grantee owns is not planned; `core` 3303 knows the owner only by the share, and via the folder the owner's access becomes a row, which Drive refuses |
| `SharedBackup.ReleasedHasCopy` | `backup` with `Folders = {}`, `Earth = {}` and `Items = {doc, one, odd}` | docs/operator/getting-started.md:66 has the backup come first; the part file of one item is at the path of another (`shared_backup` 377), which is recorded, and taken out of My Drive. With `Items = {one, two}` two items of one path are written to one file (345); with `Items = {earth}` the file that is matched for reuse (475) is another one |
| `SharedBackup.ReleasedIsCurrent` | `backup`, as its only PROPERTY | The same; a recorded file is never fetched again (`shared_backup` 94), so one edited since goes with the copy of an older version |

Other behaviour the models have and no property is about: a sync that another process failed as
superseded still commits, and its journal row turns from failed to committed (`ReplaceSnapshot` does
not look at the status); an expired token leads to a full run of the same command, where
`docs/plans/00-master-plan.md` has the operator start it; a file put into a folder after the last sync
goes to the trash with it and gets no history row (`UneditedTrashRecorded` asks for `edits = 0`); two
machines whose pushes alternate leave the database of one beside the manifest of the other, which every
pull refuses (`PushLeavesPair` is checked for one machine); after a crash in the middle of an unshare,
a rerun before the next sync asks for a deleted permission again and is refused; a backup that appends to
an unfinished line makes its first record and the one before it unreadable (`CompletedIsRecorded` asks for
`whole`), and fetches both files again; a login whose identity does not match the account is refused after
the session was stored, and the session stays until a logout; two commands whose scope upgrades overlap
can write as different people (`crossed`). Beyond the models: `account use` beside `account remove` can
leave the pointer at an account that is going away.

## 4. What is proved

All theorems hold for any finite set of files, items, paths or names, any number of commands or processes
and any bounds, from the assumptions stated with the constants. Two of these say more than that the bounds
are numbers and names differ: `TreesAssumption` (no folder of Drive is inside itself, which Drive refuses) for
`UnshareCommand`, and `NoFileAssumption` (what stands for a missing file is no content of a file) for
`AccountFiles`. What a property leaves out it says itself: `edits = 0` (nobody else edits), `~strayed`,
`~Halved`, `~crossed` (somebody signed in or out, or used the database, beside a command), `whole`, and `lost`, the number of answers that got lost.

`SyncEngineProofs`:

* `TypeCorrect`, and for any number of processes and accounts `FullRunsAreCovered` and `OneRunAtATime`.
* For one process at a time (`Solo`) and any number of accounts: `SoloJournalAgrees` and
  `SoloCommitsInOrder`, from `JournalInv`: the row a run began carries the generation after the account's
  committed one, and its token is not behind the account's.
* For one process at a time and one account (`OneAccount`): `SoloMirrorIsCovered`, and
  `SoloImplementsMirror`, the refinement of `Mirror`. `MirrorCovered` alone is not inductive: the
  strengthening says what the running process holds, phase by phase: that its token is at most Drive's
  clock, that what it has listed is covered by the checkpoint's token and position, that what it has loaded
  and replayed is covered by the token it has reached, and that the listing behind it is no older than the
  committed one. `DriveInv` says what the log of My Drive tells: of a file in it, always the last change.

`TrashCommandProofs`:

* `TypeCorrect`; `AuditTrailBracketsCalls`, whatever overlaps. Its invariant adds, for each phase, which
  entries the current row already has.
* `TrashIsRecorded`: while nobody else edits, every item a call has trashed gets its row unless the
  command is killed, whatever overlaps. Without edits Drive only loses items, so any snapshot of a committed
  sync has what Drive still has, in the same folder (`Below`), and what a call takes is among the entries
  built from the snapshot (`RecordedInv`).
* With nothing beside a command (`~crossed`): `AloneReleasesFirst`, because the mirror the command plans from
  twice is the same; and `AloneRecordsOnce`. The second rests on three lemmas about trees: a parent of a
  subtree's member is in the subtree or above it, two subtrees are nested or disjoint, hence the
  actionable rows of one plan claim disjoint sets of entries.

`MoveCommandProofs`:

* `TypeCorrect`, and `MovesBracketed`, from which `InterruptedAlwaysShown` follows. Two invariants carry it.
  `Whole`: what others have never taken off Drive is on it, in each mirror and in each snapshot of one, so
  that the item of a row is one of its own entries; it needs only that the plan was made of a committed
  sync. An item others took off and brought back may be in none (`MovesAnnounced`). `RowInWork`: which
  entries of the row in work have their pending row by now, and from the call on, that there was one.
* `CreatedFoldersTold`: the folder a command has just made is the one it holds, the others it has told
  (`FoldersTold`). An answer that got lost is counted, so without one exactly one folder was made.
* `OriginsRecorded`, the place of an item before the first command that moved it. `OriginInv` says that a
  command applies a row once (`OnePerRow`), and, while nobody edits, that an item no call was made for is
  where the snapshots have it and that what is in an item that was moved has been moved too (`Traced`).
  What a move does to subtrees are lemmas of their own (`SubtreeAfterMove`, `SubtreeAfterCreate`): an item
  takes its subtree along and nothing else.
* `FoldersMadeOnce`: a command makes a folder where none of that name was made before (`MakesTheFirst`).
  Folders of commands are not moved, so a count of twins changes only when one is made.
* `MovesLand`: where a first command puts what it moves. Folders that show no parent stand beside those
  of the root for the tool and not for Drive; without one of the name the path begins with (`Clear`, and
  `ClearBefore`: no call makes it so) both lead the same way. `LandInv` says that the mirror is Drive's tree
  until the command changes Drive (`Undisturbed`), that the destination is on the path, as far down as the
  segments still to come leave (`OnPath`), and that below a folder with a row the tree is that of the plan
  (`Landed`): so no other row is of what a folder takes along (`NoRowWithin`), and a call, which never puts
  an item below itself, leaves the path to the destination as it was. The path is a recursive function,
  `Reach`; what its recursion describes, and that a change elsewhere keeps it (`ReachSteps`, `ReachKept`,
  `ReachFromNowhere`), is proved from the least number of segments for which it would fail (`LeastNumber`).

`UnshareCommandProofs`:

* `TypeCorrect`, with the number of the command that runs.
* `CallsBracketed`: for the row in work what it has in the log by now, and that what a command takes for
  deleted it has deleted itself (`RowInWork`); rows that share one call rest on the latter.
* `NobodyElseLosesAccess`: each row was asked for (`Meant`), and taking a grant away takes access from
  nobody but its grantee (`OnlyTheGrantee`), on whatever tree Drive has by then.
* `RevocationsHold` and `FreshCallsAccepted`: while nobody edits, the mirror lists whoever has access, so a
  row is of the topmost folder that grants it; what the command takes for deleted is granted no longer, and
  what it has still to delete is granted if its mirror was right (`Unedited`).
* `CopiesComeFirst`: deletions and history rows of the running command exist only once it has copied
  (`Stamped`), and what is in the items of the rows is copied or still to copy, each copy logged but the one
  just made (`Copying`).

`RemoteDbProofs`:

* `TypeCorrect`, with the bound that makes it inductive: no generation, in a ledger, a snapshot, a manifest
  or a process, exceeds the number of snapshots.
* For one command at a time on each machine (`~Overlap`), any number of machines: `AloneLosesNoEdit` and
  `AloneLedgerTellsTruth`. Neither is inductive alone. `RemoteInv` says where the truth of a ledger comes
  from: a ledger copied with a snapshot is as true as the snapshot's own; a manifest carries the generation
  after that of its snapshot; and a process holds, phase by phase, a snapshot its database still descends
  from, or one that a manifest vouched for. It uses that snapshots never change and that of a machine's
  processes one at most is active.
* For one machine (and `~Overlap`): `SoloDuplicatesNothing` and `SoloLeavesPair`. What a push has found in
  the folder stays what there is to find until it puts a file there itself (`PushInv`), so a put replaces
  a file of its name or adds the first. A create that was not answered is made again: then there is a
  lost answer more than there are twins (`Slack`), which the next attempt uses up. With a second
  machine that pushes both are false (section 3).

`SharedBackupProofs`:

* `TypeCorrect`; `RecordedAlwaysWhole`, and `ImplementsCustody`, the refinement of `Custody`. The invariant
  says for each phase of an item where its file is (`Phase`), that an item in work or still to come has no
  success record (`Fresh`), and that what declutter has planned has its copy. Two lemmas carry it: writing a
  record makes no other record readable, on a line of its own or behind an unfinished one (`WriteAdds`); and
  a file at paths of its own keeps its copies when another one is written, wherever the part file of that
  is (`OthersStay`, `PartApart`), and by a rename it loses older ones at most (`RenameAdds`). That is because
  what the backup holds is no older than what it has on the disk (`Got`). Records are not
  monotone, a torn line takes one away, so the invariant speaks of the copies of what is planned and not of
  its records.
* `CompletedAlwaysRecorded`: of a backup that began with a complete line, what it takes for completed is on
  record and every line of its own is complete before the next (`OnRecord`), and a record on a line of its own takes no other away (`WriteKeeps`).

`AccountFilesProofs`:

* `TypeCorrect`, with the place a command works at; `CurrentAlwaysExists`, because a removal under way is
  never of the current account and `account.toml` is there before the pointer is written (`Pointed`).
* `AdoptionsAreWhole`: what an adoption that was not cut off has to bring is in the account or still to come,
  by the step it is at (`Bringing`), and a name without an account has no files unless a command that was
  killed left some (`Untouched`).
* `CommitsStay`: as long as no command strayed, no commit is lost and no WAL lies beside a database it is not
  of (`InPlace`), and the command at work is one that may work on what lies there (`AtHand`). The second says
  which places hold half of an adoption or of a removal, and that only its own retry goes on with it.

`IdentityGuardProofs`:

* `TypeCorrect`, and `DeclaredStays` for any number of commands at once: whatever a process has read from
  `account.toml`, however old, names the declared account.
* `VerifiedWrites`, of the commands that have verified an account, and `BoundForGood`, both for commands that
  do not cross (`~crossed`): the invariant `CalmInv`
  says that the session is of whoever the token of its scope is of (`SessionTrue`), and that what a process
  holds agrees with it: the session it compares with, the person it has signed in as or verified, and, if the
  account was bound since it read `account.toml`, the one it was bound to (`Coherent`).

Only model-checked, of what the passing runs check: the liveness properties `QuietSyncConverges` and
`Finishes`, since no prover here takes fairness. The runs that expect a violation, and the properties of the
last table of section 3, are TLC's alone.

## 5. Not modelled

* **Release names, list, prune, rename-folder.** A release is one step of the commands that make one. Its
  look for two free names followed by two uploads has the same gap as a push, which `RemoteDb` has;
  listing, pruning and renaming are each one walk over a listing.
* **The path cache.** A pure function of one snapshot. What a cycle of parents (which Drive does not make)
  does to its memoised answers is left out.
* **Reports.** Rendering of a loaded snapshot. `report all` loads one per report, so a sync between two
  of them shows in the later ones only; nothing is written back.
* **The mock gateway, the command line, configuration and printing.** No state of the program's own.
* **Google's side of OAuth, SQL text, schema migrations, delays between attempts.** The models take the
  outcomes of these: a token for some account, an atomic call, an answer or a failure.
