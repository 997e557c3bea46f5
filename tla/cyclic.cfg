SPECIFICATION FairSpec
CONSTANTS
  Users = {u1, u2}
  Worker = worker
  Nobody = nobody
  MaxOpens = 3
  MaxErrors = 2
  Setups <- All
PROPERTY
  CloseReturns
INVARIANTS
  FreedOnlyWhenStopped
  ClosedMeansClean
  ServiceSafe
  LockReturnedAlone
  StopSeesTransfer
CHECK_DEADLOCK FALSE
