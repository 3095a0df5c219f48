SPECIFICATION FairSpec
CONSTANTS
  c1 = c1
  c2 = c2
  Callers = {c1, c2}
  Entries = {1, 2, 3, 4, 5}
  None = None
  Barred = {c1, c2}
  Closers = {"close", "close_all"}
  SlowTeardown = TRUE
INVARIANTS NoOrphanProcess NoLostWakeup LockFollowsCallers
PROPERTIES OneProcess CallsEnd
