SPECIFICATION Spec
CONSTANTS
  Requests = {r1, r2}
  Operators = {o1}
  Versions = {v1, v2}
  Builds = {b1, b2}
  First = v1
  Factory = b1
  MaxOthers = 1
  Nobody = Nobody
  NoFile = NoFile
  NoVersion = NoVersion
  Orderly = TRUE
SYMMETRY Symmetry
INVARIANTS TypeOK InstalledIsVerified CurrentRuns LockMatches AcceptedRestarts
PROPERTIES PushIsUsed
