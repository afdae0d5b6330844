\* One process at a time, one account: crashes, failures, expired tokens; no symmetry,
\* some properties are temporal.
CONSTANTS
  Files = {f1, f2}
  Accounts = {a1}
  Procs = {p1}
  MaxClock = 3
  MaxGen = 2
SPECIFICATION FairSpec
INVARIANTS TypeOK MirrorCovered JournalAgrees
PROPERTIES ImplementsMirror CommitsInOrder QuietSyncConverges
CHECK_DEADLOCK FALSE
