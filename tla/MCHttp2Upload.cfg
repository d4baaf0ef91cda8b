SPECIFICATION FairSpec
CONSTANTS
  Streams = {1, 2}
  BodyLength = 2
  MaxFrame = 2
  InitialConn = 1
  InitialWindows = {0, 2}
  MaxGrant = 1
  MaxWindow = 2
  MaxWire = 1
  Granted = {2}
INVARIANTS
  NoSleepWithRoom
  BothHalvesClose
PROPERTIES
  WithinCredit
  UploadsEnd
CHECK_DEADLOCK FALSE
