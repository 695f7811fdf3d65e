CONSTANTS
  Players = {p1, p2}
  Servers = {s1, s2}
  Threads = {t1, t2}
  SetIds = {i1, i2, i3, i4}
  None = None
SPECIFICATION MCSpec
INVARIANT QueueInv
PROPERTIES SerialMapsAgree EntriesAreAQueue
SYMMETRY Symmetry
