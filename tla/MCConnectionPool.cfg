SPECIFICATION Spec
CONSTANTS
  ka = ka
  kb = kb
  kc = kc
  c1 = c1
  c2 = c2
  c3 = c3
  c4 = c4
  c5 = c5
  Keys = {ka, kb, kc}
  Conns = {c1, c2, c3, c4, c5}
  KeyOf <- MCKeyOf
  MaxPerKey = 2
  MaxTotal = 3
INVARIANTS
  SafeToReuse
  LimitsKept
PROPERTIES
  NoneForgotten
