\* No copies and one purge at a time; inserts and unlinks fail.
CONSTANTS
  Contents = {s1, s2}
  FileIDs  = {f1, f2, f3}
  Sessions = {u1, u2}
  Claims   = {c1}
  Copies   = {}
  Purges   = {p1}
  Faults   = {"insert", "unlink"}
  MaxRefs  = 3
  None     = None
SPECIFICATION Spec
SYMMETRY Symmetric
INVARIANTS NeverUndercounted NoLeakedReference
PROPERTIES Retained
CHECK_DEADLOCK FALSE
