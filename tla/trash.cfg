\* Two commands, one after the other or at once, syncs beside them, crashes, and an edit
\* by somebody else.
CONSTANTS
  Items = {d, f}
  Folders = {d}
  Root = Root
  Out = Out
  Commands = {c1, c2}
  MaxEdits = 1
SPECIFICATION Spec
SYMMETRY CommandSymmetry
INVARIANTS TypeOK HistoryOnce ReleaseBeforeTrash AuditBracketsCall UneditedTrashRecorded
CHECK_DEADLOCK FALSE
