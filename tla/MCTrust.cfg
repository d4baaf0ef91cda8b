\* The clock stands at 5, one unit of skew; a path has at most three certificates, so that the
\* longest chains here meet the limit.
SPECIFICATION Spec
CONSTANTS
  none = none
  noStaple = noStaple
  noLimit = noLimit
  NoKid = none
  NoStaple = noStaple
  NoLimit = noLimit
  Parsed <- MCParsed
  Calls <- MCCalls
  Now = 5
  MaxPathLength = 3
  Skew = 1
  MaxAge = 4
  Ec <- MCEc
  OddCurves <- MCOddCurves
INVARIANTS AcceptedIsTrusted TrustedIsAccepted
CHECK_DEADLOCK FALSE
