CONSTANTS
  snk = snk
  src = src
  drp = drp
  try_src = try_src
  try_snk = try_snk
  Port = {snk, src, drp, try_src, try_snk}
  Table <- OnePerTable
  SrcSlice <- One
  SnkSlice <- Two
  tPDDebounce = 1
  tCCDebounce = 2
  tDRPTry = 2
  tTryRest = 2
  tErrorRecovery = 1
  tHardResetWindow = 1
  tPSSourceOff = 2
  tPSSourceOn = 1
SPECIFICATION Spec
CONSTRAINT OneRuns
INVARIANTS TypeOK ConnectionResolved DetectionsFitThePull
PROPERTIES NoLostWakeup ConnectionKept
