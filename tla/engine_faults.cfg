CONSTANTS
  Threads = {t1, t2}
  Worker = Worker
  Nobody = Nobody
  MaxXfers = 2
  MaxDesc = 1
  U32 = 64
  PollMode = FALSE
  Msix = TRUE
  Signals = TRUE
  Timeouts = FALSE
  HwErrors = 1
  CloseWindow = FALSE
SPECIFICATION Spec
SYMMETRY Symmetry
CHECK_DEADLOCK FALSE
INVARIANTS
  TypeOK
  InterruptsComeBack
