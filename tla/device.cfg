SPECIFICATION FairSpec
CONSTANTS
  Devices = {d1, d2}
  Watched = d1
  Readers = {r1, r2}
  Channels = 2
  MaxDevices = 2
  MaxProbes = 2
  Setups <- All
INVARIANTS
  TypeOK
  HandlersSafe
  NothingLeft
  UnwindsOnce
  UpMeansServed
  InstancesDifferLater
  SoleReaderSeesEvents
PROPERTY
  EventWakes
CHECK_DEADLOCK FALSE
