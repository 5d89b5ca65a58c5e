\* Every kind of request at once, two purges, every fault.
CONSTANTS
  Contents = {s1}
  FileIDs  = {f1, f2}
  Sessions = {u1, u2}
  Claims   = {c1}
  Copies   = {k1}
  Purges   = {p1, p2}
  Faults   = {"insert", "db", "countRead", "unlink", "crash"}
  MaxRefs  = 3
  None     = None
SPECIFICATION Spec
SYMMETRY Symmetric
INVARIANTS TypeOK KeptUntilZero
CHECK_DEADLOCK FALSE
