CONSTANTS
  A = a
  B = b
  Port = {a, b}
  Table <- TrySrcDrp
  SrcSlice <- Slices22
  SnkSlice <- Slices23
  tPDDebounce = 1
  tCCDebounce = 4
  tDRPTry = 3
  tTryRest = 3
  tErrorRecovery = 2
  tHardResetWindow = 6
  tPSSourceOff = 4
  tPSSourceOn = 3
  VbusLag = 2
  Gap = 6
  MaxPlugs = 1
  MaxDirected = 0
  Begun = {}
  Locked = {}
  Lockable = {}
SPECIFICATION LinkSpec
CHECK_DEADLOCK FALSE
PROPERTIES RemovalEnds
