SPECIFICATION Spec
CONSTANTS
  None = None
  Slots = {r1, r2}
  Clients = {"c1", "c2"}
  Spaces <- MCSpaces
  Rate = 1
  Burst = 2
  MaxIdle = 1
  MaxBuckets = 4
  MaxFailures = 2
  Cooldown = 1
  MaxEntries = 2
  Files = {"f", "g"}
  FileSpace <- MCFileSpace
  MaxShares = 4
  CookieLife = 1
  Users = {"ann", "root"}
  UserSpace <- MCUserSpace
  Admins = {"root"}
  MaxPairs = 6
  Expiry = 1
  Deployments <- MCDeployments
SYMMETRY Symmetry
INVARIANTS
  RateWithinBurst
  DownloadsWithinLimit
  ProtectedNeedsPassword
  GuessesBounded
  RefreshOnce
  NamespaceIsolated
  AuditNamesTheActor
PROPERTY RevocationStopsDownloads
CHECK_DEADLOCK TRUE
