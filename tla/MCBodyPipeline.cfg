SPECIFICATION Spec
CONSTANTS
  MaxRequests = 2
  Methods = {"GET", "HEAD"}
  Responses <- MCResponses
  MaxHeaderBytes = 2
  MaxBodyBytes = 4
  MaxChunkSize = 2
  MaxTrailerBytes = 2
  Faults = {"garbled", "cut", "broken"}
  Codings = {"none", "gzip"}
  Inflate = 2
  Corrupt = TRUE
INVARIANTS
  ReuseAtBoundary
  FailureReleases
  Bounded
PROPERTIES
  WholeOrError
  BodySettles
CHECK_DEADLOCK FALSE
