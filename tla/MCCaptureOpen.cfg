SPECIFICATION FairSpec
CONSTANTS
  Threads = {t1, t2}
  Paths = {pa}
  Procs = {p1}
  NoProc = NoProc
  NoPath = NoPath
  SerialPerPath = FALSE
PROPERTIES CallsReturn ToldToStopDies
