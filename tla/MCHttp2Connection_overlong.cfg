SPECIFICATION Spec
CONSTANTS
  MaxStreams = 2
  ConnWindow = 4
  StreamWindow = 4
  Bodies = {0, 3}
  MaxFrame = 2
  PeerLimits = {2}
  MaxWire = 2
  Scenarios = {{"single", "mismatch"}}
INVARIANTS
  CreditReturned
CHECK_DEADLOCK FALSE
