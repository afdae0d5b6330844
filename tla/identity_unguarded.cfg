\* Is the account verified before every write, also when the plan that was shown is empty?
CONSTANTS
  Procs = {p1, p2}
  People = {ann, bob}
  NoOne = NoOne
SPECIFICATION Spec
INVARIANTS WritesAreVerified
CHECK_DEADLOCK FALSE
