CONSTANTS
  t5 = t5
  None = None
  Terms <- OneTerm
  At5V <- OneTerm
  Features <- PowerAndCable
  DualRole = TRUE
  Rev3 = TRUE
  nHardResetCount = 1
  nCapsCount = 0
SPECIFICATION PortSpec
INVARIANTS
  OneEngineAtWork
  ClientFitsConnection
  DeafOnlyUnderContract
  RpFitsLevel
  ReadyUnderContract
  NothingLeftHalfway
