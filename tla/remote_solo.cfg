\* One machine, one command at a time, crashes and retries.
CONSTANTS
  Machines = {m1}
  Procs = {m1}
  Host <- OwnHost
  Overlap = FALSE
  MaxEdits = 1
  MaxSnaps = 3
  MaxFolders = 3
  MaxFiles = 5
  MaxLost = 2
SPECIFICATION Spec
INVARIANTS PushLeavesPair RetriesDuplicateNothing
CHECK_DEADLOCK FALSE
