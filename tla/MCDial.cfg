SPECIFICATION DialSpec
CONSTANTS
  Modes <- MCModes
  Timers = {"connect", "handshake", "total"}
  Events = {"abort", "hangup"}
  Bytes = 3
INVARIANTS
  FailureCloses
  TunnelExact
PROPERTIES
  DialEnds
CHECK_DEADLOCK FALSE
