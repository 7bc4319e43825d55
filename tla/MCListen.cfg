SPECIFICATION FairSpec
CONSTANTS
  Threads = {t1}
  Sessions = {s1, s2}
  Families = {v4}
  Procs = {p1, p2}
  Consumers = {k1, k2}
  Conns = {c1}
  MaxChunks = 2
  None = None
  Serial = TRUE
INVARIANTS NoStray OneConsumerInOrder CleanIsThorough
PROPERTY CallsReturn
CHECK_DEADLOCK FALSE
