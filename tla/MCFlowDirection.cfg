\* the answer ends the request
SPECIFICATION Spec
CONSTANTS
  Family <- MCFamily
  Records <- MCRecords
  Configs <- MCConfigs
  MaxRecords = 3
  MaxFiles = 2
  None = None
INVARIANTS OppositeWays Mirrored FirstSignalWins AgreeOnClient CountsFlows
CHECK_DEADLOCK FALSE
