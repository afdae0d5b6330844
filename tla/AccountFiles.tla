------------------------------ MODULE AccountFiles ------------------------------
(***************************************************************************)
(* The files of accounts: `account add` with the adoption of an existing   *)
(* install, `account use`, `account remove`, and the commands that work on *)
(* the database of the account they are run for.  One command runs at a    *)
(* time; it may be killed at any step.                                     *)
(*                                                                         *)
(* A database is the set of commits it holds.  Beside it may be a WAL with *)
(* the commits a killed command left; SQLite takes them over at the next   *)
(* open, drops the WAL of a database that is not there, and mixes the      *)
(* pages of two states when the WAL is not of this database.               *)
(***************************************************************************)
EXTENDS Integers, Sequences, FiniteSets, Functions

CONSTANTS
  Names,      \* names of accounts
  Legacy,     \* the layout without accounts, data/
  NoAccount,  \* no account
  NoFile,     \* no database, no WAL
  Starts,     \* bound: what else the old install may have to begin with
  MaxCommits, \* bound: commits ever made
  MaxAdds     \* bound: adds and removes started

ASSUME NamesAssumption == IsFiniteSet(Names) /\ {Legacy, NoAccount, NoFile} \cap Names = {}
ASSUME StartsAssumption ==
  Starts \subseteq SUBSET {"before", "tokens", "session", "reports"}
ASSUME NoFileAssumption ==
  /\ \A c \in SUBSET (1 .. MaxCommits) : c # NoFile
  /\ \A o, r \in SUBSET (1 .. MaxCommits) : [over |-> o, rows |-> r] # NoFile
ASSUME BoundsAssumption == {MaxCommits, MaxAdds} \subseteq Nat

VARIABLES
  db,          \* the database in each place
  wal,         \* the WAL beside it, and the state of the database it is for
  side,        \* the other files there
  accounts,    \* directories that have an account.toml
  current,     \* what the file .current names
  proc,        \* the command that runs
  commits,     \* commits made so far
  adds,        \* adds and removes started
  \* what happened, for the properties only
  removed,     \* commits of accounts the operator removed
  begun,       \* what there was to adopt when an add began
  interrupted, \* adds and removes killed half way, each with its account
  strayed      \* whether another command than that worked on what was left

vars == <<db, wal, side, accounts, current, proc, commits, adds,
          removed, begun, interrupted, strayed>>
files == <<db, wal, side>>
ghosts == <<removed, begun, interrupted, strayed>>

Places == Names \cup {Legacy}
Commits == 1 .. MaxCommits
Wal == [over : SUBSET Commits, rows : SUBSET Commits]

\* Snapshots `inventory.db.before-*`, google-tokens.json, google-session.json, reports/.
Sides == {"before", "tokens", "session", "reports"}
\* What adoption moves after the database, in this order.
InOrder == <<"tokens", "session", "reports">>

Phases == {"idle", "open", "list", "siblings", "sides", "toml", "current", "remove"}
\* account add as it is, with --adopt-db, with --empty; and account remove.
Hows == {"plain", "adopt-db", "empty", "remove"}
Idle == [at |-> "idle", place |-> Legacy, how |-> "plain", first |-> FALSE,
         left |-> {}, next |-> 1]

TypeOK ==
  /\ db \in [Places -> {NoFile} \cup SUBSET Commits]
  /\ wal \in [Places -> {NoFile} \cup Wal]
  /\ side \in [Places -> SUBSET Sides]
  /\ accounts \subseteq Names
  /\ current \in Names \cup {NoAccount}
  /\ proc \in [at : Phases, place : Places, how : Hows, first : BOOLEAN,
               left : SUBSET (Sides \cup {"db", "wal", "toml"}), next : 1 .. 4]
  /\ commits \in 0 .. MaxCommits /\ adds \in 0 .. MaxAdds
  /\ removed \subseteq Commits
  /\ begun \in [Names -> [rows : SUBSET Commits, side : SUBSET Sides]]
  /\ interrupted \subseteq Names \X Hows /\ strayed \in BOOLEAN

Nothing == [rows |-> {}, side |-> {}]

Init ==
  /\ db \in {[pl \in Places |-> IF pl = Legacy THEN old ELSE NoFile] : old \in {NoFile, {}}}
  /\ wal = [pl \in Places |-> NoFile]
  /\ side \in {[pl \in Places |-> IF pl = Legacy THEN start ELSE {}] : start \in Starts}
  /\ accounts = {} /\ current = NoAccount
  /\ proc = Idle /\ commits = 0 /\ adds = 0
  /\ removed = {} /\ begun = [n \in Names |-> Nothing]
  /\ interrupted = {} /\ strayed = FALSE

-----------------------------------------------------------------------------
(* SQLite.                                                                 *)

Belongs(pl) == wal[pl] # NoFile /\ wal[pl].over = db[pl]

\* The commits a command finds there.
Visible(pl) ==
  IF db[pl] = NoFile \/ (wal[pl] # NoFile /\ ~Belongs(pl)) THEN {}
  ELSE db[pl] \cup (IF wal[pl] = NoFile THEN {} ELSE wal[pl].rows)

\* The commits some file there holds.
OnDisk(pl) ==
  (IF db[pl] = NoFile THEN {} ELSE db[pl]) \cup (IF wal[pl] = NoFile THEN {} ELSE wal[pl].rows)

\* The kinds of files that are there.
Kinds(pl) ==
  side[pl] \cup (IF db[pl] = NoFile THEN {} ELSE {"db"})
           \cup (IF wal[pl] = NoFile THEN {} ELSE {"wal"})

-----------------------------------------------------------------------------
(* Commands on a database.                                                 *)

\* The place a command works on: what --account or --db says, else the current
\* account, else the legacy layout if there are no accounts.
Resolved(flag) ==
  IF flag # NoAccount THEN {flag}
  ELSE IF current # NoAccount THEN {current}
  ELSE IF accounts = {} THEN {Legacy} ELSE {}

\* The account must have its account.toml; the database is opened or created.
Open ==
  /\ proc.at = "idle" /\ commits < MaxCommits
  /\ \E flag \in Places \cup {NoAccount} :
     \E pl \in Resolved(flag) \cap (accounts \cup {Legacy}) :
       /\ proc' = [Idle EXCEPT !.at = "open", !.place = pl]
       /\ db' = [db EXCEPT ![pl] = IF @ = NoFile \/ (wal[pl] # NoFile /\ ~Belongs(pl))
                                   THEN {} ELSE @]
       /\ wal' = [wal EXCEPT ![pl] = IF Belongs(pl) THEN @ ELSE NoFile]
       /\ strayed' = (strayed \/ (pl = Legacy /\ interrupted # {}))
  /\ UNCHANGED <<side, accounts, current, commits, adds, removed, begun, interrupted>>

Commit ==
  LET pl == proc.place
  IN /\ proc.at = "open" /\ commits < MaxCommits
     /\ commits' = commits + 1
     /\ wal' = [wal EXCEPT ![pl] =
          [over |-> db[pl],
           rows |-> (IF wal[pl] = NoFile THEN {} ELSE wal[pl].rows) \cup {commits + 1}]]
     /\ UNCHANGED <<db, side, accounts, current, proc, adds, ghosts>>

\* The last connection copies the WAL into the database and removes it.
Close ==
  LET pl == proc.place
  IN /\ proc.at = "open"
     /\ db' = [db EXCEPT ![pl] = Visible(pl)]
     /\ wal' = [wal EXCEPT ![pl] = NoFile]
     /\ proc' = Idle
     /\ UNCHANGED <<side, accounts, current, commits, adds, ghosts>>

-----------------------------------------------------------------------------
(* account add.                                                            *)

\* Adopted is the database --adopt-db names, here the legacy one too, or the
\* legacy layout if its database is there; else the account is a fresh one.
Adopts(how) == how = "adopt-db" \/ (how = "plain" /\ db[Legacy] # NoFile)

\* Some add or remove of the account was killed half way.
Halved(n) == \E h \in interrupted : h[1] = n

AddStart(n, how) ==
  /\ proc.at = "idle" /\ adds < MaxAdds
  /\ n \notin accounts
  /\ adds' = adds + 1
  /\ proc' = [Idle EXCEPT !.at = IF Adopts(how) THEN "list" ELSE "toml",
                !.place = n, !.how = how, !.first = (accounts = {})]
  /\ begun' = IF Halved(n) THEN begun
              ELSE [begun EXCEPT ![n] =
                 IF ~Adopts(how) THEN Nothing
                 ELSE [rows |-> Visible(Legacy),
                       side |-> side[Legacy] \ (IF how = "plain" THEN {} ELSE {"reports"})]]
  /\ strayed' = (strayed \/ \E h \in interrupted : h[1] \notin accounts /\ h # <<n, how>>)
  /\ UNCHANGED <<files, accounts, current, commits, removed, interrupted>>

\* Variant with a bug: the WAL is not taken for a sidecar.
ListSiblingsNoWal ==
  LET there == Kinds(Legacy) \cap {"db", "before"}
  IN /\ proc.at = "list"
     /\ IF db[Legacy] # NoFile
        THEN proc' = [proc EXCEPT !.at = "siblings", !.left = there]
        ELSE proc' = IF db[proc.place] # NoFile THEN [proc EXCEPT !.at = "sides"] ELSE Idle
     /\ UNCHANGED <<files, accounts, current, commits, adds, ghosts>>

\* The directory of the database is listed for it and its sidecars.
ListSiblings ==
  LET there == Kinds(Legacy) \cap {"db", "wal", "before"}
  IN /\ proc.at = "list"
     /\ IF db[Legacy] # NoFile
        THEN proc' = [proc EXCEPT !.at = "siblings", !.left = there]
        ELSE proc' = IF db[proc.place] # NoFile THEN [proc EXCEPT !.at = "sides"] ELSE Idle
     /\ UNCHANGED <<files, accounts, current, commits, adds, ghosts>>

\* One file is renamed, over what has its name in the account.
Moved(kind, n) ==
  /\ IF kind = "db"
     THEN db' = [db EXCEPT ![n] = db[Legacy], ![Legacy] = NoFile] ELSE UNCHANGED db
  /\ IF kind = "wal"
     THEN wal' = [wal EXCEPT ![n] = wal[Legacy], ![Legacy] = NoFile] ELSE UNCHANGED wal
  /\ IF kind \in side[Legacy]
     THEN side' = [side EXCEPT ![n] = @ \cup {kind}, ![Legacy] = @ \ {kind}]
     ELSE UNCHANGED side

\* Variant with a bug: the loop ends with the database.
MoveSiblingDb ==
  /\ proc.at = "siblings"
  /\ \E kind \in proc.left :
       /\ Moved(kind, proc.place)
       /\ proc' = [proc EXCEPT !.left = @ \ {kind},
                               !.at = IF kind = "db" THEN "sides" ELSE @]
  /\ UNCHANGED <<accounts, current, commits, adds, ghosts>>

\* In the order the directory lists them.
MoveSibling ==
  /\ proc.at = "siblings"
  /\ \E kind \in proc.left :
       /\ Moved(kind, proc.place)
       /\ proc' = [proc EXCEPT !.left = @ \ {kind},
                               !.at = IF proc.left = {kind} THEN "sides" ELSE @]
  /\ UNCHANGED <<accounts, current, commits, adds, ghosts>>

\* Tokens, session, and by default the reports, each if it is there.
MoveSide ==
  /\ proc.at = "sides"
  /\ proc.next \in 1 .. (IF proc.how = "plain" THEN 3 ELSE 2)
  /\ Moved(InOrder[proc.next], proc.place)
  /\ proc' = [proc EXCEPT !.next = @ + 1]
  /\ UNCHANGED <<accounts, current, commits, adds, ghosts>>

\* account.toml comes last.
SaveToml ==
  /\ \/ proc.at = "sides" /\ proc.next = (IF proc.how = "plain" THEN 4 ELSE 3)
     \/ proc.at = "toml"
  /\ accounts' = accounts \cup {proc.place}
  /\ proc' = IF proc.first THEN [proc EXCEPT !.at = "current"] ELSE Idle
  /\ UNCHANGED <<files, current, commits, adds, ghosts>>

\* The first account becomes the current one.
SetFirst ==
  /\ proc.at = "current"
  /\ current' = proc.place
  /\ proc' = Idle
  /\ UNCHANGED <<files, accounts, commits, adds, ghosts>>

-----------------------------------------------------------------------------
Use(n) ==
  /\ proc.at = "idle"
  /\ n \in accounts /\ current # n
  /\ current' = n
  /\ UNCHANGED <<files, accounts, proc, commits, adds, ghosts>>

\* Variant with a bug: the current account can be removed too.
RemoveAny(n) ==
  /\ proc.at = "idle" /\ adds < MaxAdds
  /\ n \in accounts
  /\ adds' = adds + 1
  /\ proc' = [Idle EXCEPT !.at = "remove", !.place = n, !.how = "remove",
                !.left = Kinds(n) \cup {"toml"}]
  /\ removed' = removed \cup OnDisk(n)
  /\ begun' = [begun EXCEPT ![n] = Nothing]
  /\ UNCHANGED <<files, accounts, current, commits, interrupted, strayed>>

\* account remove: not the current one.
RemoveStart(n) ==
  /\ proc.at = "idle" /\ adds < MaxAdds
  /\ n \in accounts /\ n # current
  /\ adds' = adds + 1
  /\ proc' = [Idle EXCEPT !.at = "remove", !.place = n, !.how = "remove",
                !.left = Kinds(n) \cup {"toml"}]
  /\ removed' = removed \cup OnDisk(n)
  /\ begun' = [begun EXCEPT ![n] = Nothing]
  /\ UNCHANGED <<files, accounts, current, commits, interrupted, strayed>>

\* The directory goes file by file, in any order.
RemoveFile ==
  LET n == proc.place
  IN /\ proc.at = "remove"
     /\ \E kind \in proc.left :
          /\ db' = [db EXCEPT ![n] = IF kind = "db" THEN NoFile ELSE @]
          /\ wal' = [wal EXCEPT ![n] = IF kind = "wal" THEN NoFile ELSE @]
          /\ side' = [side EXCEPT ![n] = @ \ {kind}]
          /\ accounts' = IF kind = "toml" THEN accounts \ {n} ELSE accounts
          /\ proc' = IF proc.left = {kind} THEN Idle ELSE [proc EXCEPT !.left = @ \ {kind}]
          /\ interrupted' =
               interrupted \ (IF proc.left = {kind} THEN {<<n, "remove">>} ELSE {})
     /\ UNCHANGED <<current, commits, adds, removed, begun, strayed>>

\* The command is killed, or a call of it fails.
Stop ==
  /\ proc.at # "idle"
  /\ proc' = Idle
  /\ interrupted' = IF proc.at \in {"siblings", "sides", "remove"}
                    THEN interrupted \cup {<<proc.place, proc.how>>} ELSE interrupted
  /\ UNCHANGED <<files, accounts, current, commits, adds, removed, begun, strayed>>

-----------------------------------------------------------------------------
Next ==
  \/ Open \/ Commit \/ Close
  \/ \E n \in Names : (\E how \in Hows \ {"remove"} : AddStart(n, how)) \/ Use(n) \/ RemoveStart(n)
  \/ ListSiblings \/ MoveSibling \/ MoveSide \/ SaveToml \/ SetFirst
  \/ RemoveFile \/ Stop

Spec == Init /\ [][Next]_vars

-----------------------------------------------------------------------------
(* Properties.                                                             *)

\* Whatever is killed when, and however often an add is tried again: every commit
\* is in some file, unless its account was removed or another command than the one
\* that was killed half way worked on what that had left.
CommitsKept ==
  ~strayed => (1 .. commits) \subseteq removed \cup UNION {OnDisk(pl) : pl \in Places}

Whole(n) == begun[n].rows \subseteq Visible(n) /\ begun[n].side \subseteq side[n]

\* An adoption that was not interrupted has brought into the account what the old
\* install had: all files, and every commit, those in the WAL of a killed command too.
AdoptedIsWhole ==
  \A n \in accounts : ~Halved(n) => Whole(n)

\* The current account exists, so that the commands that follow it find it.
CurrentExists == current # NoAccount => current \in accounts

\* The same add, run again after it was killed, brings in the rest: "Re-running
\* after a partial move resumes (moves whatever remains, then writes the sentinel)".
RerunResumes ==
  ~strayed => \A n \in accounts : Whole(n)

=============================================================================
