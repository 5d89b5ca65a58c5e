\* Chunks over two indices, REST and tus, with an abort and crashes.
CONSTANTS
  NumChunks  = 2
  Bodies     = {good, bad}
  Intended   = good
  Appends    = {a1, a2}
  TusAppends = {a2}
  Checked    = {a1}
  Declares   = FALSE
  Finalizes  = {z1}
  Aborts     = {b1}
  Faults     = {"redis", "write", "crash"}
  Torn       = Torn
  None       = None
SPECIFICATION Spec
SYMMETRY Symmetric
INVARIANTS AckedChunkKept CommitsAsSent
CHECK_DEADLOCK FALSE
