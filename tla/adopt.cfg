\* An add that is killed and tried again.
CONSTANTS
  Names = {a, b}
  Legacy = Legacy
  NoAccount = NoAccount
  NoFile = NoFile
  Starts <- MCStarts
  MaxCommits = 2
  MaxAdds = 3
SPECIFICATION Spec
SYMMETRY Symmetry
INVARIANT RerunResumes
CHECK_DEADLOCK FALSE
