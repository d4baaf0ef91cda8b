SPECIFICATION Spec
CONSTANTS
  Keys = {"both", "modern"}
  OfferOf <- OfferOfKey
  Lifetimes = {0, 2}
  MaxLife = 1
  MaxPerKey = 2
  MaxIgnored = 1
  CookieOnly = FALSE
  MaxConns = 3
  MaxTickets = 3
  MaxTime = 1
PROPERTY AliveWhenOffered
CHECK_DEADLOCK FALSE
