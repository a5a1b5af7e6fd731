CONSTANTS
  a = a
  b = b
  A = a
  B = b
  t5 = t5
  t9 = t9
  None = None
  Terms <- OneTerm
  At5V <- OneTerm
  Features <- PowerAndData
  DualRole = TRUE
  Rev3 = TRUE
  nHardResetCount = 2
  nCapsCount = 1
  FirstSource <- OnlyA
  Ra = TRUE
  FaultKinds <- NothingWrong
  Budget <- TwoWishes
CHECK_DEADLOCK FALSE
SPECIFICATION Spec
INVARIANTS OppositeHeaders
