\* Two processes at once on one database: what still holds.
CONSTANTS
  Files = {f1, f2}
  Accounts = {a1}
  Procs = {p1, p2}
  MaxClock = 2
  MaxGen = 2
SPECIFICATION Spec
SYMMETRY Symmetry
INVARIANTS FullRunCovered OneRunInProgress
CHECK_DEADLOCK FALSE
