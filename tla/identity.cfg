\* Two commands at once, two Google accounts.
CONSTANTS
  Procs = {p1, p2}
  People = {ann, bob}
  NoOne = NoOne
SPECIFICATION Spec
INVARIANTS TypeOK DeclaredKept WritesAsVerified
PROPERTIES BindingStays
SYMMETRY Symmetry
CHECK_DEADLOCK FALSE
