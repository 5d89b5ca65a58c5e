\* A heavy request among light ones that never stop, contexts that end, bodies
\* that fail or are too long, and sessions that are not renewed.
CONSTANTS
  Requests  = {r1, r2, r3, r4}
  Heavy     = {r1}
  Weight    <- Weights
  Capacity  = 3
  Workers   = 2
  QueueSize = 1
  Faults    = {"read", "long", "redis", "cancel"}
SPECIFICATION FairSpec
INVARIANTS BufferedWithinLimit
PROPERTIES OnlyEarlyReturnsLeak NoStarvation
