\* Two machines, one command at a time on each.
CONSTANTS
  Machines = {m1, m2}
  Procs = {m1, m2}
  Host <- OwnHost
  Overlap = FALSE
  MaxEdits = 2
  MaxSnaps = 2
  MaxFolders = 1
  MaxFiles = 3
  MaxLost = 0
SPECIFICATION Spec
SYMMETRY Symmetry
INVARIANTS TypeOK NoEditLost LedgerTellsTruth
CHECK_DEADLOCK FALSE
