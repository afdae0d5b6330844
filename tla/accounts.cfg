\* Two names, three adds and removes, commits in each place.
CONSTANTS
  Names = {a, b}
  Legacy = Legacy
  NoAccount = NoAccount
  NoFile = NoFile
  Starts <- MCStarts
  MaxCommits = 2
  MaxAdds = 3
SPECIFICATION Spec
SYMMETRY Symmetry
INVARIANTS CommitsKept AdoptedIsWhole CurrentExists
CHECK_DEADLOCK FALSE
