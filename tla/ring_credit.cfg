SPECIFICATION FairSpec
CONSTANTS
  Readers = {r1}
  Worker = worker
  Nobody = nobody
  Pages = 3
  InitCredits = 2
  MaxBlocks = 6
  MaxErrors = 0
  Setups <- Credit
PROPERTY
  ImplementsPackets
CHECK_DEADLOCK FALSE
