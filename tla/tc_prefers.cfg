CONSTANTS
  A = a
  B = b
  Port = {a, b}
  Table <- TrySrcDrp
  SrcSlice <- Slices23
  SnkSlice <- Slices33
  tPDDebounce = 1
  tCCDebounce = 10
  tDRPTry = 7
  tTryRest = 47
  tErrorRecovery = 4
  tHardResetWindow = 6
  tPSSourceOff = 4
  tPSSourceOn = 3
  VbusLag = 4
  Gap = 24
  MaxPlugs = 2
  MaxDirected = 0
  Begun = {}
  Locked = {}
  Lockable = {b}
SPECIFICATION LinkSpec
CHECK_DEADLOCK FALSE
PROPERTIES PreferenceWins
