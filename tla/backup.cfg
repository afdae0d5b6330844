\* Backup and declutter at the same time, with crashes, a file that is edited, withdrawn or
\* added to My Drive, and one whose part file is at the path of a file that was matched for
\* reuse.
CONSTANTS
  doc = doc
  one = one
  two = two
  odd = odd
  dir = dir
  earth = earth
  p = p
  q = q
  r = r
  s = s
  e = e
  to = to
  at = at
  Items = {doc, dir, earth}
  Folders = {dir}
  Earth = {earth}
  Paths = {p, q, r, s, e, to, at}
  Targets <- MCTargets
  Part <- MCPart
  Reuse <- MCReuse
  Starts <- MCStarts
  BackupRank <- MCBackupRank
  CleanupRank <- MCCleanupRank
  NoFile = NoFile
  Partial = Partial
  Foreign = Foreign
  MaxBackups = 2
  MaxCleanups = 1
  MaxEdits = 1
SPECIFICATION FairSpec
INVARIANTS RecordedIsWhole CompletedIsRecorded
PROPERTIES KeepsCustody Finishes
CHECK_DEADLOCK FALSE
