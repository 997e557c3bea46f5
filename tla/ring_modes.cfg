SPECIFICATION Spec
CONSTANTS
  Readers = {r1, r2}
  Worker = worker
  Nobody = nobody
  Pages = 3
  InitCredits = 2
  MaxBlocks = 6
  MaxErrors = 1
  Setups <- Modes
INVARIANTS
  PacketsWhole
  NoSilentLoss
  KeptUntilCopied
  NoWarn
SYMMETRY
  ReaderSymmetry
CHECK_DEADLOCK FALSE
