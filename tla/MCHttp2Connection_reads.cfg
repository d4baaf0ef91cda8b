SPECIFICATION FairSpec
CONSTANTS
  MaxStreams = 2
  ConnWindow = 5
  StreamWindow = 4
  Bodies = {5}
  MaxFrame = 1
  PeerLimits = {2}
  MaxWire = 1
  Scenarios = {{"reset"},
               {"eof"}}
PROPERTIES
  ReadsSettle
CHECK_DEADLOCK FALSE
