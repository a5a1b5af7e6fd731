CONSTANTS
  A = a
  B = b
  Port = {a, b}
  Table <- TrySrcTrySnk
  SrcSlice <- Slices22
  SnkSlice <- Slices23
  tPDDebounce = 1
  tCCDebounce = 4
  tDRPTry = 3
  tTryRest = 3
  tErrorRecovery = 2
  tHardResetWindow = 6
  tPSSourceOff = 4
  tPSSourceOn = 3
  VbusLag = 1
  Gap = 13
  MaxPlugs = 2
  MaxDirected = 1
  Begun = {"swap", "error_recovery", "hard_reset"}
  Locked = {}
  Lockable = {b}
SPECIFICATION LinkSpec
CHECK_DEADLOCK FALSE
INVARIANTS NeverTwoSources TruePlug
PROPERTIES Stays Connects Disconnects
