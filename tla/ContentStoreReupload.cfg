\* One request at a time suffices: upload, trash, purge, instant upload.
CONSTANTS
  Contents = {s1}
  FileIDs  = {f1, f2}
  Sessions = {u1}
  Claims   = {c1}
  Copies   = {}
  Purges   = {p1}
  Faults   = {}
  MaxRefs  = 3
  None     = None
SPECIFICATION Spec
SYMMETRY Symmetric
INVARIANTS LiveContentPresent
CHECK_DEADLOCK FALSE
