\* Commands one after the other on one database, with crashes, refused calls, syncs and
\* an edit by others between any two steps.
CONSTANTS
  a = a
  b = b
  f = f
  me = me
  g = g
  Items = {a, b, f}
  Folders = {a, b}
  Root = Root
  Grantees = {me, g}
  Starts <- MCStarts
  Asks <- MCAsks
  MaxCommands = 2
  MaxEdits = 1
SPECIFICATION Spec
INVARIANTS LogBracketsCall RevokedIsGone NobodyElseRevoked CallsAccepted
           CopiedBeforeRevoked
CHECK_DEADLOCK FALSE
