SPECIFICATION Spec
CONSTANTS
  f1 = f1
  f2 = f2
  f3 = f3
  ka = ka
  kb = kb
  Calls = {f1, f2, f3}
  Keys = {ka, kb}
  CallKey <- MCCallKey
  Conns = {1, 2, 11}
  KeyOf <- MCKeyOf
  MaxPerKey = 1
  MaxTotal = 1
  MaxHops = 1
  Events = {"h2", "goaway", "busy", "close", "redirect"}
SYMMETRY Rivals
INVARIANTS
  Accounted
  ResentOnlyInSilence
PROPERTIES
  PoolContract
  LiveStaysShared
CHECK_DEADLOCK FALSE
