SPECIFICATION Spec
CONSTANTS
  PageSize = 4
  DescPerPage = 4
  AddrAlign = 2
  MaxDescBytes = 11
  MaxTransferBytes = 16
  MaxExtraAdj = 2
  Laps = 2
  Requests <- All
INVARIANTS
  MovesTheRequest
  DescriptorsFit
  FetchesInside
CHECK_DEADLOCK FALSE
