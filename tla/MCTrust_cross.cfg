\* The same calls; expected to fail on a cross-signed intermediate.
SPECIFICATION Spec
CONSTANTS
  none = none
  noStaple = noStaple
  noLimit = noLimit
  NoKid = none
  NoStaple = noStaple
  NoLimit = noLimit
  Parsed <- MCParsed
  Calls <- MCCalls
  Now = 5
  MaxPathLength = 3
  Skew = 1
  MaxAge = 4
  Ec <- MCEc
  OddCurves <- MCOddCurves
INVARIANT OrderImmaterial
CHECK_DEADLOCK FALSE
