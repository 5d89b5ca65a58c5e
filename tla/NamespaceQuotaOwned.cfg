\* Every operation, and the faults after which handlers still clean up.
CONSTANTS
  Sessions     = {s1, s2}
  Instants     = {i1}
  FileIDs      = {f1, f2}
  Sizes        = {1, 2}
  Quota        = 3
  SingleWriter = FALSE
  Operations   = {"abort", "trash", "restore", "purge", "copy"}
  Faults       = {"redis", "insert"}
  None         = None
SPECIFICATION Spec
SYMMETRY Symmetric
INVARIANTS ReservationsOwned
CHECK_DEADLOCK FALSE
