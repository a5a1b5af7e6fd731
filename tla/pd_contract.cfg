CONSTANTS
  a = a
  b = b
  A = a
  B = b
  t5 = t5
  t9 = t9
  None = None
  Terms <- TwoTerms
  At5V <- OneTerm
  Features <- AllFeatures
  DualRole = TRUE
  Rev3 = TRUE
  nHardResetCount = 2
  nCapsCount = 1
  FirstSource <- Both
  Ra = TRUE
  FaultKinds <- AnyFault
  Budget <- FaultsOrSwaps
CHECK_DEADLOCK FALSE
SPECIFICATION FairSpec
INVARIANTS NeverBothDrive Agreement
  NothingInTransit OneVconnSource OppositeDataRoles
PROPERTIES SettlesForGood KeepsPowerContract
