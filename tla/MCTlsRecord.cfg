SPECIFICATION Spec
CONSTANTS
  Callers = {"close"}
  MaxSeq = 3
  MaxKeyUpdates = 1
  MaxIgnored = 1
  MaxEmpty = 1
  MaxParts = 2
  MaxWrites = 1
  MaxSent = 2
  MaxInFlight = 2
INVARIANTS EndIsHonest KeysInStep
PROPERTY ShutdownEnds
CHECK_DEADLOCK FALSE
