SPECIFICATION DialSpec
CONSTANTS
  Modes <- MCModes
  Timers = {"connect", "handshake", "total"}
  Events = {"abort", "hangup"}
  Bytes = 3
INVARIANTS
  NoOrphan
CHECK_DEADLOCK FALSE
