SPECIFICATION Spec
CONSTANTS
  MaxStreams = 2
  ConnWindow = 5
  StreamWindow = 4
  Bodies = {0, 3}
  MaxFrame = 2
  PeerLimits = {2}
  MaxWire = 2
  Scenarios = {{"cancel", "padding"},
               {"single", "mismatch", "cancel", "padding", "reset"},
               {"single", "rogue", "mismatch", "malformed", "upload", "trailers", "preabort"}}
INVARIANTS
  BytesExact
  CreditKept
  BufferBounded
CHECK_DEADLOCK FALSE
