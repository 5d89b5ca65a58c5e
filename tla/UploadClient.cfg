\* Every function of the clients, with and without faults.
CONSTANTS
  Setups <- MCSetups
  MaxAttempts = 3
  Faults = {"lost", "failed", "refused"}
  None = None
SPECIFICATION Spec
INVARIANTS SuccessIsHonest OneAtATimeSucceeds
PROPERTIES UploadReturns
CHECK_DEADLOCK FALSE
