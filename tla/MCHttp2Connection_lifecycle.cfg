SPECIFICATION Spec
CONSTANTS
  MaxStreams = 2
  ConnWindow = 2
  StreamWindow = 1
  Bodies = {1}
  MaxFrame = 1
  PeerLimits = {1, 2}
  MaxWire = 2
  Scenarios = {{"upload", "reset", "goaway"},
               {"goaway", "eof"},
               {"close", "upload"},
               {"upload", "settings", "reset"},
               {"settings", "abort", "cancel"}}
INVARIANTS
  SilentAfterReset
  NobodyLeftWaiting
  RetryOnlyUnprocessed
PROPERTIES
  WithinPeerLimit
  BodiesAsPromised
CHECK_DEADLOCK FALSE
