CONSTANTS
  Threads = {t1, t2}
  Worker = Worker
  Nobody = Nobody
  MaxXfers = 2
  MaxDesc = 2
  U32 = 64
  PollMode = TRUE
  Msix = FALSE
  Signals = FALSE
  Timeouts = TRUE
  HwErrors = 0
  CloseWindow = FALSE
SPECIFICATION Spec
SYMMETRY Symmetry
CHECK_DEADLOCK FALSE
INVARIANTS
  IdleMeansEmpty
  FreshWriteback
