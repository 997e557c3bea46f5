CONSTANTS
  Threads = {t1}
  Worker = Worker
  Nobody = Nobody
  MaxXfers = 1
  MaxDesc = 1
  U32 = 64
  PollMode = FALSE
  Msix = FALSE
  Signals = FALSE
  Timeouts = FALSE
  HwErrors = 0
  CloseWindow = FALSE
SPECIFICATION Spec
CHECK_DEADLOCK FALSE
INVARIANT TakenOffTheEngine
