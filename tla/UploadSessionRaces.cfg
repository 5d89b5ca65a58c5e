\* Two finalizes, an abort, the reaper and a chunk, with everything that fails.
CONSTANTS
  NumChunks  = 1
  Bodies     = {good, bad}
  Intended   = good
  Appends    = {a1}
  TusAppends = {}
  Checked    = {}
  Declares   = TRUE
  Finalizes  = {z1, z2}
  Aborts     = {b1}
  Faults     = {"redis", "write", "commit", "expire", "crash"}
  Torn       = Torn
  None       = None
SPECIFICATION FairSpec
INVARIANTS TypeOK CommittedOnce OrphansHaveNoSession
PROPERTIES GoneForever PartsReclaimed
CHECK_DEADLOCK FALSE
