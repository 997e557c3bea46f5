SPECIFICATION Spec
CONSTANTS
  Users = {u1, u2}
  Worker = worker
  Nobody = nobody
  MaxOpens = 3
  MaxErrors = 2
  Setups <- Single
INVARIANT
  RingUnderDma
CHECK_DEADLOCK FALSE
