SPECIFICATION Spec
CONSTANTS
  Captures = {c1, c2}
  Nics = {n1, n2}
  CpuCount = 3
  Server = Server
  NoNic = NoNic
INVARIANT AllocatedIsAvoided
