SPECIFICATION Spec
CONSTANTS
  Threads = {t1, t2}
  Paths = {pa, pb}
  Procs = {p1, p2}
  NoProc = NoProc
  NoPath = NoPath
  SerialPerPath = TRUE
SYMMETRY Symmetry
INVARIANTS TypeOK NoOrphan OneRecorder RecorderOwnsFile StopTrueIsFinal
