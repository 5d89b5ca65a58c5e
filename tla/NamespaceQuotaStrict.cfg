\* Uploads alone, with every fault.
CONSTANTS
  Sessions     = {s1, s2}
  Instants     = {i1}
  FileIDs      = {f1, f2, f3}
  Sizes        = {1, 2}
  Quota        = 3
  SingleWriter = TRUE
  Operations   = {"trash"}
  Faults       = {"redis", "insert", "release", "expire", "crash"}
  None         = None
SPECIFICATION Spec
SYMMETRY Symmetric
INVARIANTS TypeOK NoOvercommit
PROPERTIES ReservationHonoured
CHECK_DEADLOCK FALSE
