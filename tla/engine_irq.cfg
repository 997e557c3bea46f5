CONSTANTS
  Threads = {t1, t2}
  Worker = Worker
  Nobody = Nobody
  MaxXfers = 3
  MaxDesc = 2
  U32 = 64
  PollMode = FALSE
  Msix = FALSE
  Signals = FALSE
  Timeouts = FALSE
  HwErrors = 0
  CloseWindow = FALSE
SPECIFICATION FairSpec
CHECK_DEADLOCK FALSE
INVARIANTS
  IdleMeansEmpty
  RunningIsServed
  SuccessMeansMoved
  NoDmaAfterFree
  NoSpuriousFailure
  NoBug
PROPERTIES
  EveryRequestReturns
  ImplementsFifo
