\* Commands one after the other on one database, with crashes, syncs and edits between
\* any two steps, and an answer of Drive that gets lost.
CONSTANTS
  Items = {d, f}
  Folders = {d}
  Fresh = {x, y}
  d = d
  f = f
  n = n
  o = o
  Asks <- MCAsks
  Starts <- MCStarts
  Root = Root
  MyDrive = MyDrive
  Shared = Shared
  Out = Out
  Names = {n, o}
  Depth = 2
  MaxCommands = 2
  MaxEdits = 1
  MaxLost = 1
SPECIFICATION Spec
SYMMETRY Symmetry
INVARIANTS HistoryBracketsCall OriginRecorded InterruptedShown NoTwinFolders
           CreatedFoldersRecorded LandsAtPath
CHECK_DEADLOCK FALSE
